---------------------------- MODULE BoundedFifo ----------------------------
(***************************************************************************)
(* What every AICL channel promises: a bounded first-in first-out queue    *)
(* between one producer and one consumer.  The queue is the part of        *)
(* `sent` that is not yet in `received`; both are histories, so that order *)
(* and loss can be stated over a whole run and not only over the messages  *)
(* that happen to be queued.                                               *)
(***************************************************************************)
EXTENDS Naturals, Sequences

CONSTANTS Msg,        \* messages a producer may hand in
          Capacity    \* how many messages may be in flight

VARIABLES sent,       \* messages accepted, in order
          received    \* messages delivered, in order

fifoVars == <<sent, received>>

FifoInit == sent = << >> /\ received = << >>

Enqueue(m) == /\ Len(sent) - Len(received) < Capacity
              /\ sent' = Append(sent, m)
              /\ UNCHANGED received

Dequeue == /\ Len(received) < Len(sent)
           /\ received' = Append(received, sent[Len(received) + 1])
           /\ UNCHANGED sent

FifoNext == Dequeue \/ \E m \in Msg : Enqueue(m)

FifoSpec == FifoInit /\ [][FifoNext]_fifoVars
=============================================================================
