--------------------------- MODULE InProcChannel ---------------------------
(***************************************************************************)
(* core-rust/src/transport.rs: one direction of an InProcChannel pair, a   *)
(* VecDeque behind a spinlock.  One thread owns the end that sends, another *)
(* the end that receives (every operation takes &mut self).                *)
(*                                                                         *)
(* The queue is in an UnsafeCell: only the lock keeps the two threads      *)
(* apart.  An operation on the VecDeque therefore takes two steps, reading *)
(* the queue and writing it back, which an update of the other thread in   *)
(* between would spoil.                                                    *)
(***************************************************************************)
EXTENDS Integers, Sequences

CONSTANTS Msg,        \* frames handed to send or push
          Capacity,   \* cap: how many frames the queue takes
          MaxSent     \* bound: frames accepted in one behaviour

ASSUME CapacityAssumption == Capacity \in Nat /\ MaxSent \in Nat

VARIABLES lock, queue,              \* LockedQueue
          open,                     \* the sending end's flag
          send_pc, smsg, sview, sout,  \* sender: control, frame, queue read, outcome
          recv_pc, rview, rout,     \* receiver: control, queue read, outcome
          sent, received            \* history: frames queued, frames taken out

sender      == <<open, send_pc, smsg, sview, sout>>
receiver    == <<recv_pc, rview, rout>>
channelVars == <<lock, queue, sender, receiver, sent, received>>

ChannelInit ==
  /\ lock = "free" /\ queue = << >> /\ open = TRUE
  /\ send_pc = "idle" /\ smsg \in Msg /\ sview = << >> /\ sout = "none"
  /\ recv_pc = "idle" /\ rview = << >> /\ rout = "none"
  /\ sent = << >> /\ received = << >>

----------------------------------------------------------------------------
(* The sending end. *)

(* send looks at the open flag; push does not. *)
SendCall(m, checked) ==
  /\ send_pc = "idle" /\ Len(sent) < MaxSent
  /\ IF checked /\ ~open
     THEN sout' = "TransportClosed" /\ UNCHANGED <<send_pc, smsg>>
     ELSE send_pc' = "spin" /\ smsg' = m /\ sout' = "none"
  /\ UNCHANGED <<lock, queue, open, sview, receiver, sent, received>>

(* The compare_exchange that succeeds; one that fails changes nothing. *)
SendLock ==
  /\ send_pc = "spin" /\ lock = "free"
  /\ lock' = "sender" /\ send_pc' = "read"
  /\ UNCHANGED <<queue, open, smsg, sview, sout, receiver, sent, received>>

(* Mutant: the full queue is answered before the lock is given back. *)
SendReadReturns ==
  /\ send_pc = "read"
  /\ sview' = queue
  /\ IF Len(queue) >= Capacity
     THEN send_pc' = "idle" /\ sout' = "BufferFull"
     ELSE send_pc' = "write" /\ UNCHANGED sout
  /\ UNCHANGED <<lock, queue, open, smsg, receiver, sent, received>>

(* Mutant: the last place of the queue is never used. *)
SendReadOneLess ==
  /\ send_pc = "read"
  /\ sview' = queue
  /\ IF Len(queue) + 1 >= Capacity
     THEN send_pc' = "unlock" /\ sout' = "BufferFull"
     ELSE send_pc' = "write" /\ UNCHANGED sout
  /\ UNCHANGED <<lock, queue, open, smsg, receiver, sent, received>>

SendRead ==
  /\ send_pc = "read"
  /\ sview' = queue
  /\ IF Len(queue) >= Capacity
     THEN send_pc' = "unlock" /\ sout' = "BufferFull"
     ELSE send_pc' = "write" /\ UNCHANGED sout
  /\ UNCHANGED <<lock, queue, open, smsg, receiver, sent, received>>

(* push_back *)
SendWrite ==
  /\ send_pc = "write"
  /\ queue' = Append(sview, smsg) /\ sent' = Append(sent, smsg)
  /\ send_pc' = "unlock" /\ sout' = "ok"
  /\ UNCHANGED <<lock, open, smsg, sview, receiver, received>>

SendUnlock ==
  /\ send_pc = "unlock"
  /\ lock' = "free" /\ send_pc' = "idle"
  /\ UNCHANGED <<queue, open, smsg, sview, sout, receiver, sent, received>>

(* close: only this end's flag; the queue and the other end are untouched. *)
Close ==
  /\ send_pc = "idle" /\ open' = FALSE
  /\ UNCHANGED <<lock, queue, send_pc, smsg, sview, sout, receiver, sent, received>>

----------------------------------------------------------------------------
(* The receiving end: recv and pop do the same to the queue. *)

RecvCall ==
  /\ recv_pc = "idle" /\ recv_pc' = "spin" /\ rout' = "none"
  /\ UNCHANGED <<lock, queue, sender, rview, sent, received>>

RecvLock ==
  /\ recv_pc = "spin" /\ lock = "free"
  /\ lock' = "receiver" /\ recv_pc' = "read"
  /\ UNCHANGED <<queue, sender, rview, rout, sent, received>>

RecvRead ==
  /\ recv_pc = "read"
  /\ rview' = queue
  /\ IF queue = << >>
     THEN recv_pc' = "unlock" /\ rout' = "Empty"
     ELSE recv_pc' = "write" /\ UNCHANGED rout
  /\ UNCHANGED <<lock, queue, sender, sent, received>>

(* Mutant: the youngest frame is taken out (pop_back). *)
RecvWriteBack ==
  /\ recv_pc = "write"
  /\ queue' = SubSeq(rview, 1, Len(rview) - 1)
  /\ received' = Append(received, rview[Len(rview)])
  /\ recv_pc' = "unlock" /\ rout' = "ok"
  /\ UNCHANGED <<lock, sender, rview, sent>>

(* pop_front *)
RecvWrite ==
  /\ recv_pc = "write"
  /\ queue' = Tail(rview) /\ received' = Append(received, Head(rview))
  /\ recv_pc' = "unlock" /\ rout' = "ok"
  /\ UNCHANGED <<lock, sender, rview, sent>>

RecvUnlock ==
  /\ recv_pc = "unlock"
  /\ lock' = "free" /\ recv_pc' = "idle"
  /\ UNCHANGED <<queue, sender, rview, rout, sent, received>>

----------------------------------------------------------------------------
SendSteps == SendRead \/ SendWrite \/ SendUnlock
RecvSteps == RecvRead \/ RecvWrite \/ RecvUnlock

ChannelNext ==
  \/ \E m \in Msg, checked \in BOOLEAN : SendCall(m, checked)
  \/ SendLock \/ SendSteps \/ Close
  \/ RecvCall \/ RecvLock \/ RecvSteps

ChannelSpec == ChannelInit /\ [][ChannelNext]_channelVars

(* A thread that holds the lock goes on to release it.  Nothing is assumed *)
(* about who wins the lock: a spinning thread may lose every time.         *)
ChannelFairSpec == ChannelSpec /\ WF_channelVars(SendSteps) /\ WF_channelVars(RecvSteps)

----------------------------------------------------------------------------
Critical == {"read", "write", "unlock"}

ChannelTypeOK ==
  /\ lock \in {"free", "sender", "receiver"} /\ open \in BOOLEAN
  /\ send_pc \in {"idle", "spin"} \cup Critical /\ recv_pc \in {"idle", "spin"} \cup Critical
  /\ smsg \in Msg
  /\ queue \in Seq(Msg) /\ sview \in Seq(Msg) /\ rview \in Seq(Msg)
  /\ sout \in {"none", "ok", "BufferFull", "TransportClosed"}
  /\ rout \in {"none", "ok", "Empty"}
  /\ sent \in Seq(Msg) /\ received \in Seq(Msg)

(* "access to `queue` is only ever made while `lock` is held": a thread in *)
(* with_locked holds the lock, and the other one is not in it.             *)
LockGuardsQueue ==
  /\ send_pc \in Critical <=> lock = "sender"
  /\ recv_pc \in Critical <=> lock = "receiver"

(* `a.send` -> `b.recv`: the frames come out once, in order, and at most   *)
(* cap are queued, whether or not the sending end has been closed.         *)
Fifo == INSTANCE BoundedFifo
ChannelIsFifo == Fifo!FifoSpec

(* BufferFull is answered only when cap frames are queued, and Empty only  *)
(* when none is, at the moment the queue is looked at.                     *)
RefusalsAreReal ==
  [][/\ SendRead /\ send_pc' = "unlock" => Len(sent) - Len(received) >= Capacity
     /\ RecvRead /\ recv_pc' = "unlock" => sent = received]_channelVars

(* The queue is what was sent and not yet received. *)
QueueIsBacklog ==
  /\ Len(received) <= Len(sent) /\ Len(sent) <= Len(received) + Capacity
  /\ Len(queue) = Len(sent) - Len(received)
  /\ \A i \in 1 .. Len(queue) : queue[i] = sent[Len(received) + i]

(* What a thread read under the lock is still what the queue holds. *)
ViewsCurrent ==
  /\ send_pc = "write" => sview = queue /\ Len(queue) < Capacity
  /\ recv_pc = "write" => rview = queue /\ queue # << >>

(* Everything received is what was sent, in order. *)
ReceivedInOrder == \A i \in 1 .. Len(received) : received[i] = sent[i]

(* The inductive invariant of the channel. *)
ChannelInv == ChannelTypeOK /\ LockGuardsQueue /\ QueueIsBacklog /\ ViewsCurrent /\ ReceivedInOrder

(* with_locked always releases: whoever takes the lock gives it back. *)
LockReleased == lock # "free" ~> lock = "free"
=============================================================================
