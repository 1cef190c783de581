-------------------------- MODULE CancellationToken --------------------------
(***************************************************************************)
(* aicl/sdk/_cancellation.py: one token, cancelled, waited for and given   *)
(* callbacks by several threads.  A step is what runs between two points   *)
(* where another thread can see the difference.                            *)
(*                                                                         *)
(* A callback either returns (or raises, which is swallowed) or is in      *)
(* Reentrant: it calls cancel or on_cancelled of the same token, and so    *)
(* waits for the lock its own thread holds.                                *)
(***************************************************************************)
EXTENDS Integers, SequencesExt

CONSTANTS Threads, None,
          Callbacks, Reentrant

ASSUME ReentrantAssumption == Reentrant \subseteq Callbacks
ASSUME ThreadAssumption == None \notin Threads /\ IsFiniteSet(Threads)

VARIABLES _cancelled, _event, _callbacks, _lock,
          pc,       \* what each thread is doing
          arg,      \* its argument or local: callbacks to call or register, a timeout
          given,    \* history: callbacks handed to on_cancelled
          runs      \* history: how often each callback was called

tokenVars == <<_cancelled, _event, _callbacks, _lock, given, runs>>

Go(t, to, x) == pc' = [pc EXCEPT ![t] = to] /\ arg' = [arg EXCEPT ![t] = x]

TokenInit ==
  /\ _cancelled = FALSE /\ _event = FALSE /\ _callbacks = << >> /\ _lock = None
  /\ pc = [t \in Threads |-> "idle"] /\ arg = [t \in Threads |-> None]
  /\ given = {} /\ runs = [c \in Callbacks |-> 0]

----------------------------------------------------------------------------
CallCancel(t) == pc[t] = "idle" /\ Go(t, "cancel", None) /\ UNCHANGED tokenVars

CallOnCancelled(t, c) ==
  /\ pc[t] = "idle" /\ c \notin given
  /\ Go(t, "on_cancelled", [cb |-> <<c>>]) /\ given' = given \cup {c}
  /\ UNCHANGED <<_cancelled, _event, _callbacks, _lock, runs>>

CallWait(t, timeout) == pc[t] = "idle" /\ Go(t, "wait", [timeout |-> timeout]) /\ UNCHANGED tokenVars

(* cancel, up to the flag. *)
cancel(t) ==
  /\ pc[t] = "cancel" /\ _lock = None
  /\ IF _cancelled THEN Go(t, "idle", None) /\ UNCHANGED <<_lock, _cancelled>>
                   ELSE _lock' = t /\ _cancelled' = TRUE /\ Go(t, "set", None)
  /\ UNCHANGED <<_event, _callbacks, given, runs>>

(* Mutant: the event is left for after the callbacks. *)
SetEventLater(t) ==
  /\ pc[t] = "set"
  /\ _event' = (_callbacks = << >>) /\ Go(t, "callbacks", [cb |-> _callbacks])
  /\ UNCHANGED <<_cancelled, _callbacks, _lock, given, runs>>

SetEvent(t) ==
  /\ pc[t] = "set"
  /\ _event' = TRUE /\ Go(t, "callbacks", [cb |-> _callbacks])
  /\ UNCHANGED <<_cancelled, _callbacks, _lock, given, runs>>

(* The next callback of the loop, called with the lock held. *)
RunCallback(t) ==
  /\ pc[t] = "callbacks" /\ arg[t].cb # << >>
  /\ LET c == Head(arg[t].cb)
     IN  /\ runs' = [runs EXCEPT ![c] = @ + 1]
         /\ IF c \in Reentrant THEN Go(t, "stuck", None) ELSE Go(t, "callbacks", [cb |-> Tail(arg[t].cb)])
  /\ UNCHANGED <<_cancelled, _event, _callbacks, _lock, given>>

(* Mutant: on_cancelled looks at the flag before it waits for the lock, so *)
(* a cancel that is under way has made its list.                           *)
on_cancelled_unlocked(t) ==
  /\ pc[t] = "on_cancelled"
  /\ _callbacks' = _callbacks \o arg[t].cb /\ Go(t, "idle", None)
  /\ UNCHANGED <<_cancelled, _event, _lock, given, runs>>

on_cancelled(t) ==
  /\ pc[t] = "on_cancelled" /\ _lock = None
  /\ IF _cancelled THEN _lock' = t /\ Go(t, "callbacks", arg[t]) /\ UNCHANGED _callbacks
     ELSE _callbacks' = _callbacks \o arg[t].cb /\ Go(t, "idle", None) /\ UNCHANGED _lock
  /\ UNCHANGED <<_cancelled, _event, given, runs>>

(* The end of the with block, of cancel and of on_cancelled. *)
Release(t) ==
  /\ pc[t] = "callbacks" /\ arg[t].cb = << >>
  /\ _lock' = None /\ Go(t, "idle", None)
  /\ UNCHANGED <<_cancelled, _event, _callbacks, given, runs>>

(* wait answers TRUE when the event is set, FALSE at its timeout if any. *)
wait(t) == /\ pc[t] = "wait" /\ (_event \/ arg[t].timeout)
           /\ Go(t, "idle", None) /\ UNCHANGED tokenVars

(* check raises. *)
check(token) == token # None /\ _cancelled

TokenCall(t) == \/ CallCancel(t) \/ \E c \in Callbacks : CallOnCancelled(t, c)
                \/ \E timeout \in BOOLEAN : CallWait(t, timeout)
TokenStep(t) == \/ cancel(t) \/ SetEvent(t) \/ RunCallback(t) \/ on_cancelled(t)
                \/ Release(t) \/ wait(t)

----------------------------------------------------------------------------
(* A thread that may stay where it is: in wait as long as nobody cancels, *)
(* in a callback that calls its own token, and then for the lock which     *)
(* that callback's thread keeps.                                           *)
Stays(t) == \/ pc[t] = "wait" /\ ~_cancelled
            \/ pc[t] = "stuck"
            \/ pc[t] \in {"cancel", "on_cancelled"} /\ \E u \in Threads : pc[u] = "stuck"

(* "Safe to call multiple times": however cancels and registrations meet,  *)
(* no callback is called twice or before the cancel, and none is waiting   *)
(* in the list once a cancel has gone through it.                          *)
CallbacksOnce ==
  /\ \A c \in Callbacks : runs[c] <= IF _cancelled THEN 1 ELSE 0
  /\ _cancelled /\ _lock = None =>
       \A c \in given : runs[c] = 1 \/ \E t \in Threads : pc[t] = "on_cancelled" /\ arg[t].cb = <<c>>

----------------------------------------------------------------------------
(* The inductive invariant: where each callback is between on_cancelled    *)
(* and its call.                                                           *)

(* Where a thread has the lock, or a callback to register. *)
Holding == {"on_cancelled", "set", "callbacks", "stuck"}

(* The callback is in the hands of a thread that waits to register it. *)
Waiting(c) == \E t \in Threads : pc[t] = "on_cancelled" /\ arg[t].cb = <<c>>

(* The callbacks that a cancel, begun or to come, has yet to call. *)
ToRun == IF ~_cancelled THEN _callbacks
         ELSE IF _lock = None THEN << >>
         ELSE IF pc[_lock] = "set" THEN _callbacks
         ELSE IF pc[_lock] = "callbacks" THEN arg[_lock].cb
         ELSE << >>

TokenTypeOK ==
  /\ _cancelled \in BOOLEAN /\ _event \in BOOLEAN /\ _lock \in Threads \cup {None}
  /\ given \subseteq Callbacks /\ _callbacks \in Seq(Callbacks) /\ runs \in [Callbacks -> Nat]
  /\ DOMAIN pc = Threads /\ DOMAIN arg = Threads
  /\ \A t \in Threads : pc[t] = "callbacks" => arg[t].cb \in Seq(Callbacks)

(* The lock is held from the flag to the end of the loop, or for good. *)
LockHeld ==
  /\ \A t \in Threads : pc[t] \in {"set", "callbacks", "stuck"} <=> _lock = t
  /\ _lock # None => _cancelled

(* No callback is listed twice, or listed after it was called. *)
ListedOnce ==
  /\ \A i, j \in 1 .. Len(ToRun) : i # j => ToRun[i] # ToRun[j]
  /\ \A i \in 1 .. Len(ToRun) :
       ToRun[i] \in given /\ runs[ToRun[i]] = 0 /\ ~Waiting(ToRun[i])

(* A thread that waits to register has a callback of its own. *)
WaitingOnce ==
  /\ \A t \in Threads : pc[t] = "on_cancelled" =>
       \E c \in given : arg[t].cb = <<c>> /\ runs[c] = 0
  /\ \A t, u \in Threads : pc[t] = "on_cancelled" /\ pc[u] = "on_cancelled" /\ t # u =>
       arg[t].cb # arg[u].cb

(* Only a callback that calls its own token makes cancel forget others. *)
NoneForgotten ==
  /\ \A c \in Callbacks : runs[c] <= IF _cancelled THEN 1 ELSE 0
  /\ \A c \in Callbacks \ given : runs[c] = 0
  /\ (_lock = None \/ pc[_lock] # "stuck") =>
       \A c \in given : runs[c] = 1 \/ Waiting(c) \/ \E i \in 1 .. Len(ToRun) : ToRun[i] = c

TokenInv == TokenTypeOK /\ LockHeld /\ ListedOnce /\ WaitingOnce /\ NoneForgotten
=============================================================================
