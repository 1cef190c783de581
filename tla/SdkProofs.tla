----------------------------- MODULE SdkProofs -----------------------------
(***************************************************************************)
(* Proofs about CancellationToken and Sdk for every set of threads,        *)
(* callbacks, capabilities and instructions.                               *)
(*                                                                         *)
(* A thread is in one operation at a time, so a step of the token leaves   *)
(* the rest alone and the other way round: each part of the invariant is   *)
(* proved for the steps that touch it, and framed for the others.          *)
(***************************************************************************)
EXTENDS Sdk, SequenceTheorems, FiniteSetTheorems, TLAPS

(* What a step of thread t does to the program counters. *)
Moves(t, from, to) ==
  /\ pc[t] \in from /\ pc'[t] \in to
  /\ DOMAIN pc' = Threads /\ DOMAIN arg' = Threads
  /\ \A u \in Threads \ {t} : pc'[u] = pc[u] /\ arg'[u] = arg[u]

(* Go moves its own thread only. *)
LEMMA GoMoves ==
  ASSUME NEW t \in Threads, NEW to, NEW x, DOMAIN pc = Threads, DOMAIN arg = Threads, Go(t, to, x)
  PROVE  pc'[t] = to /\ arg'[t] = x /\ Moves(t, {pc[t]}, {to})
  BY DEF Go, Moves

----------------------------------------------------------------------------
(* The token *)

(* A step that leaves the token's variables alone, and whose thread has    *)
(* neither lock nor callback before or after, keeps the token's invariant. *)
LEMMA TokenFrame ==
  ASSUME TokenInv, UNCHANGED tokenVars, NEW t \in Threads, NEW to,
         Moves(t, {pc[t]}, {to}), pc[t] \notin Holding, to \notin Holding
  PROVE  TokenInv'
<1>1. /\ \A u \in Threads : (pc'[u] \in Holding <=> pc[u] \in Holding)
                             /\ (pc[u] \in Holding => pc'[u] = pc[u] /\ arg'[u] = arg[u])
      /\ UNCHANGED <<_cancelled, _event, _callbacks, _lock, given, runs>>
      /\ DOMAIN pc' = Threads /\ DOMAIN arg' = Threads
  BY DEF Moves, tokenVars
<1>2. \A u \in Threads : \A p \in Holding : pc'[u] = p <=> pc[u] = p
  BY <1>1
<1>3. /\ "on_cancelled" \in Holding /\ "set" \in Holding /\ "callbacks" \in Holding
      /\ "stuck" \in Holding
  BY DEF Holding
<1>4. TokenTypeOK' /\ LockHeld'
  BY <1>1, <1>2, <1>3 DEF TokenInv, TokenTypeOK, LockHeld
<1>5. \A c : Waiting(c)' <=> Waiting(c)
  BY <1>1, <1>2, <1>3 DEF Waiting
<1>6. ToRun' = ToRun /\ (_lock # None => (pc'[_lock] = "stuck" <=> pc[_lock] = "stuck"))
  <2>1. _lock # None => _lock \in Threads
    BY DEF TokenInv, TokenTypeOK
  <2> QED BY <1>1, <1>2, <1>3, <2>1 DEF ToRun
<1>7. ListedOnce'
  BY <1>1, <1>5, <1>6 DEF TokenInv, ListedOnce
<1>8. WaitingOnce'
  BY <1>1, <1>2, <1>3 DEF TokenInv, WaitingOnce
<1>9. NoneForgotten'
  BY <1>1, <1>5, <1>6 DEF TokenInv, NoneForgotten
<1> QED BY <1>4, <1>7, <1>8, <1>9 DEF TokenInv

(* on_cancelled is called: the callback is new, so it waits in one place. *)
LEMMA RegisterCalled ==
  ASSUME TokenInv, NEW t \in Threads, NEW c \in Callbacks, CallOnCancelled(t, c)
  PROVE  TokenInv'
<1>1. /\ c \notin given /\ given' = given \cup {c} /\ pc[t] = "idle"
      /\ UNCHANGED <<_cancelled, _event, _callbacks, _lock, runs>>
  BY DEF CallOnCancelled
<1>2. /\ pc'[t] = "on_cancelled" /\ arg'[t].cb = <<c>> /\ DOMAIN pc' = Threads /\ DOMAIN arg' = Threads
      /\ \A u \in Threads \ {t} : pc'[u] = pc[u] /\ arg'[u] = arg[u]
  BY GoMoves DEF CallOnCancelled, TokenInv, TokenTypeOK, Moves
<1>3. \A x : Waiting(x)' <=> Waiting(x) \/ x = c
  <2>1. ASSUME NEW x PROVE Waiting(x)' => Waiting(x) \/ x = c
    BY <1>2 DEF Waiting
  <2>2. ASSUME NEW x, Waiting(x) PROVE Waiting(x)'
    BY <1>1, <1>2, <2>2 DEF Waiting
  <2>3. Waiting(c)'
    BY <1>2 DEF Waiting
  <2> QED BY <2>1, <2>2, <2>3
<1>4. _lock # None => _lock \in Threads /\ _lock # t
  BY <1>1 DEF TokenInv, TokenTypeOK, LockHeld
<1>5. ToRun' = ToRun /\ (_lock # None => pc'[_lock] = pc[_lock])
  BY <1>1, <1>2, <1>4 DEF ToRun
<1>6. TokenTypeOK' /\ LockHeld'
  BY <1>1, <1>2 DEF TokenInv, TokenTypeOK, LockHeld
<1>7. ListedOnce'
  BY <1>1, <1>3, <1>5 DEF TokenInv, ListedOnce
<1>8. WaitingOnce'
  <2>1. \A u \in Threads : pc[u] = "on_cancelled" => arg[u].cb # <<c>>
    BY <1>1 DEF TokenInv, WaitingOnce
  <2>2. runs[c] = 0
    BY <1>1 DEF TokenInv, NoneForgotten
  <2> QED BY <1>1, <1>2, <2>1, <2>2 DEF TokenInv, WaitingOnce
<1>9. NoneForgotten'
  BY <1>1, <1>3, <1>5 DEF TokenInv, NoneForgotten
<1> QED BY <1>6, <1>7, <1>8, <1>9 DEF TokenInv

(* The steps of the lock's holder leave the waiting threads alone. *)
LEMMA HolderFrame ==
  ASSUME TokenInv, NEW t \in Threads, pc[t] # "on_cancelled", pc'[t] # "on_cancelled",
         Moves(t, {pc[t]}, {pc'[t]}), given' = given
  PROVE  /\ \A x : Waiting(x)' <=> Waiting(x)
         /\ (\A x \in given : Waiting(x) => runs'[x] = runs[x]) => WaitingOnce'
<1>1. /\ \A u \in Threads : pc'[u] = "on_cancelled" <=> pc[u] = "on_cancelled"
      /\ \A u \in Threads : pc[u] = "on_cancelled" => arg'[u] = arg[u]
  BY DEF Moves
<1>2. \A x : Waiting(x)' <=> Waiting(x)
  BY <1>1 DEF Waiting
<1>3. ASSUME \A x \in given : Waiting(x) => runs'[x] = runs[x] PROVE WaitingOnce'
  BY <1>1, <1>3 DEF TokenInv, WaitingOnce, Waiting
<1> QED BY <1>2, <1>3

(* cancel takes the lock and sets the flag: the list is now to be run. *)
LEMMA CancelSteps ==
  ASSUME TokenInv, NEW t \in Threads, cancel(t) \/ SetEvent(t)
  PROVE  TokenInv'
<1>1. CASE cancel(t) /\ _cancelled
  BY <1>1, GoMoves, TokenFrame DEF cancel, Holding, tokenVars, TokenInv, TokenTypeOK
<1>2. CASE cancel(t) /\ ~_cancelled
  <2>1. /\ _lock = None /\ pc[t] = "cancel" /\ _lock' = t /\ _cancelled' = TRUE
        /\ UNCHANGED <<_event, _callbacks, given, runs>> /\ Go(t, "set", None)
    BY <1>2 DEF cancel
  <2>2. pc'[t] = "set" /\ Moves(t, {"cancel"}, {"set"})
    BY <2>1, GoMoves DEF TokenInv, TokenTypeOK
  <2>3. t # None
    BY ThreadAssumption
  <2>4. ToRun' = ToRun
    BY <1>2, <2>1, <2>2, <2>3 DEF ToRun
  <2>5. (\A x : Waiting(x)' <=> Waiting(x)) /\ WaitingOnce'
    BY <2>1, <2>2, HolderFrame
  <2>6. TokenTypeOK' /\ LockHeld'
    <3>1. \A u \in Threads : pc[u] \notin {"set", "callbacks", "stuck"}
      BY <2>1, ThreadAssumption DEF TokenInv, LockHeld
    <3> QED BY <2>1, <2>2, <3>1 DEF TokenInv, TokenTypeOK, LockHeld, Moves
  <2>7. ListedOnce'
    BY <2>1, <2>4, <2>5 DEF TokenInv, ListedOnce
  <2>8. NoneForgotten'
    <3>1. /\ \A c \in Callbacks : runs[c] \in Nat /\ runs[c] <= 0
          /\ \A c \in Callbacks \ given : runs[c] = 0
      BY <1>2 DEF TokenInv, TokenTypeOK, NoneForgotten
    <3>2. \A c \in given : runs[c] = 1 \/ Waiting(c) \/ \E i \in 1 .. Len(ToRun) : ToRun[i] = c
      BY <2>1 DEF TokenInv, NoneForgotten
    <3>3. \A c \in Callbacks : runs[c] <= 1
      BY <3>1
    <3> QED BY <2>1, <2>4, <2>5, <3>1, <3>2, <3>3 DEF NoneForgotten
  <2> QED BY <2>5, <2>6, <2>7, <2>8 DEF TokenInv
<1>3. CASE SetEvent(t)
  <2>1. /\ pc[t] = "set" /\ _event' = TRUE /\ Go(t, "callbacks", [cb |-> _callbacks])
        /\ UNCHANGED <<_cancelled, _callbacks, _lock, given, runs>>
    BY <1>3 DEF SetEvent
  <2>2. pc'[t] = "callbacks" /\ arg'[t].cb = _callbacks /\ Moves(t, {"set"}, {"callbacks"})
    <3>1. /\ pc'[t] = "callbacks" /\ arg'[t] = [cb |-> _callbacks]
          /\ Moves(t, {"set"}, {"callbacks"})
      BY <2>1, GoMoves DEF TokenInv, TokenTypeOK
    <3> QED BY <3>1
  <2>3. _lock = t /\ t # None /\ _cancelled
    BY <2>1, ThreadAssumption DEF TokenInv, LockHeld
  <2>4. ToRun' = ToRun
    BY <2>1, <2>2, <2>3 DEF ToRun
  <2>5. (\A x : Waiting(x)' <=> Waiting(x)) /\ WaitingOnce'
    BY <2>1, <2>2, HolderFrame
  <2>6. TokenTypeOK' /\ LockHeld'
    BY <2>1, <2>2, <2>3 DEF TokenInv, TokenTypeOK, LockHeld, Moves
  <2>7. ListedOnce' /\ NoneForgotten'
    BY <2>1, <2>2, <2>3, <2>4, <2>5 DEF TokenInv, ListedOnce, NoneForgotten
  <2> QED BY <2>5, <2>6, <2>7 DEF TokenInv
<1> QED BY <1>1, <1>2, <1>3

(* The loop calls the next callback, which it will not meet again. *)
LEMMA CallbackSteps ==
  ASSUME TokenInv, NEW t \in Threads, RunCallback(t) \/ Release(t)
  PROVE  TokenInv'
<1>0. pc[t] = "callbacks"
  BY DEF RunCallback, Release
<1>1. /\ _lock = t /\ t # None /\ _cancelled /\ ToRun = arg[t].cb /\ arg[t].cb \in Seq(Callbacks)
      /\ given \subseteq Callbacks
  BY <1>0, ThreadAssumption DEF TokenInv, LockHeld, ToRun, TokenTypeOK
<1>2. CASE RunCallback(t)
  <2>1. PICK c : c = Head(arg[t].cb)
    OBVIOUS
  <2>2. /\ arg[t].cb # << >> /\ runs' = [runs EXCEPT ![c] = runs[c] + 1]
        /\ IF c \in Reentrant THEN Go(t, "stuck", None)
                              ELSE Go(t, "callbacks", [cb |-> Tail(arg[t].cb)])
        /\ UNCHANGED <<_cancelled, _event, _callbacks, _lock, given>>
    BY <1>2, <2>1 DEF RunCallback
  <2>3. /\ Len(ToRun) \in Nat \ {0} /\ c = ToRun[1] /\ Tail(ToRun) \in Seq(Callbacks)
        /\ Len(Tail(ToRun)) = Len(ToRun) - 1
        /\ \A i \in 1 .. Len(Tail(ToRun)) : Tail(ToRun)[i] = ToRun[i + 1]
    BY <1>1, <2>1, <2>2, HeadTailProperties, EmptySeq
  <2>4. /\ c \in given /\ c \in Callbacks /\ runs[c] = 0 /\ ~Waiting(c)
        /\ \A i \in 2 .. Len(ToRun) : ToRun[i] # c
    BY <1>1, <2>3 DEF TokenInv, ListedOnce
  <2>5. /\ pc'[t] \in {"stuck", "callbacks"} /\ Moves(t, {"callbacks"}, {"stuck", "callbacks"})
        /\ pc'[t] = "callbacks" => arg'[t].cb = Tail(ToRun)
    <3>1. CASE c \in Reentrant
      BY <1>0, <2>2, <3>1, GoMoves DEF TokenInv, TokenTypeOK, Moves
    <3>2. CASE c \notin Reentrant
      <4>1. Go(t, "callbacks", [cb |-> Tail(arg[t].cb)])
        BY <2>2, <3>2
      <4>2. /\ pc'[t] = "callbacks" /\ arg'[t] = [cb |-> Tail(arg[t].cb)]
            /\ Moves(t, {"callbacks"}, {"callbacks"})
        BY <1>0, <4>1, GoMoves DEF TokenInv, TokenTypeOK
      <4>3. arg'[t].cb = Tail(ToRun)
        BY <1>1, <4>2
      <4> QED BY <4>2, <4>3 DEF Moves
    <3> QED BY <3>1, <3>2
  <2>6. /\ runs'[c] = 1 /\ runs' \in [Callbacks -> Nat]
        /\ \A x \in Callbacks \ {c} : runs'[x] = runs[x]
    BY <2>2, <2>4 DEF TokenInv, TokenTypeOK
  <2>7. (\A x : Waiting(x)' <=> Waiting(x)) /\ WaitingOnce'
    <3>1. Moves(t, {pc[t]}, {pc'[t]})
      BY <1>0, <2>5 DEF Moves
    <3>2. \A x \in given : Waiting(x) => runs'[x] = runs[x]
      BY <1>1, <2>4, <2>6
    <3> QED BY <1>0, <2>2, <2>5, <3>1, <3>2, HolderFrame
  <2>8. TokenTypeOK' /\ LockHeld'
    BY <1>0, <1>1, <2>2, <2>3, <2>5, <2>6 DEF TokenInv, TokenTypeOK, LockHeld, Moves
  <2>9. ToRun' = IF pc'[t] = "callbacks" THEN Tail(ToRun) ELSE << >>
    BY <1>1, <2>2, <2>5 DEF ToRun
  <2>10. ListedOnce'
    <3>1. CASE pc'[t] = "callbacks"
      <4>1. \A i \in 1 .. Len(ToRun') : /\ i + 1 \in 2 .. Len(ToRun) /\ i + 1 \in 1 .. Len(ToRun)
                                        /\ ToRun'[i] = ToRun[i + 1]
        BY <2>3, <2>9, <3>1
      <4>2. \A i \in 1 .. Len(ToRun') : ToRun'[i] \in given /\ runs'[ToRun'[i]] = 0 /\ ~Waiting(ToRun'[i])
        <5>1. ASSUME NEW i \in 1 .. Len(ToRun')
              PROVE  ToRun'[i] \in given /\ runs'[ToRun'[i]] = 0 /\ ~Waiting(ToRun'[i])
          <6>1. ToRun'[i] # c
            BY <2>4, <4>1
          <6>2. ToRun'[i] \in given /\ runs[ToRun'[i]] = 0 /\ ~Waiting(ToRun'[i])
            BY <4>1 DEF TokenInv, ListedOnce
          <6> QED BY <1>1, <2>6, <6>1, <6>2
        <5> QED BY <5>1
      <4>3. ASSUME NEW i \in 1 .. Len(ToRun'), NEW j \in 1 .. Len(ToRun'), i # j
            PROVE  ToRun'[i] # ToRun'[j]
        <5>1. ListedOnce
          BY DEF TokenInv
        <5>2. i + 1 \in 1 .. Len(ToRun) /\ j + 1 \in 1 .. Len(ToRun) /\ i + 1 # j + 1
          BY <4>1, <4>3
        <5>3. ToRun[i + 1] # ToRun[j + 1]
          BY <5>1, <5>2, Zenon DEF ListedOnce
        <5> QED BY <4>1, <5>3
      <4> QED BY <2>2, <2>7, <4>2, <4>3 DEF ListedOnce
    <3>2. CASE pc'[t] = "stuck"
      BY <2>9, <3>2 DEF ListedOnce
    <3> QED BY <2>5, <3>1, <3>2
  <2>11. NoneForgotten'
    <3>1. \A x \in Callbacks : runs'[x] <= 1
      BY <1>1, <2>6 DEF TokenInv, NoneForgotten
    <3>2. \A x \in Callbacks \ given : runs'[x] = 0
      BY <2>4, <2>6 DEF TokenInv, NoneForgotten
    <3>3. ASSUME pc'[t] = "callbacks", NEW x \in given
          PROVE  runs'[x] = 1 \/ Waiting(x) \/ \E i \in 1 .. Len(ToRun') : ToRun'[i] = x
      <4>1. runs[x] = 1 \/ Waiting(x) \/ \E i \in 1 .. Len(ToRun) : ToRun[i] = x
        BY <1>0, <1>1 DEF TokenInv, NoneForgotten
      <4>2. ASSUME NEW i \in 1 .. Len(ToRun), ToRun[i] = x, x # c
            PROVE  \E j \in 1 .. Len(ToRun') : ToRun'[j] = x
        <5>1. i - 1 \in 1 .. Len(Tail(ToRun)) /\ (i - 1) + 1 = i
          BY <2>3, <4>2
        <5>2. Tail(ToRun)[i - 1] = x
          BY <2>3, <4>2, <5>1
        <5> QED BY <2>9, <3>3, <5>1, <5>2
      <4> QED BY <1>1, <2>6, <4>1, <4>2
    <3> QED BY <1>1, <2>2, <2>5, <2>7, <3>1, <3>2, <3>3 DEF NoneForgotten
  <2> QED BY <2>7, <2>8, <2>10, <2>11 DEF TokenInv
<1>3. CASE Release(t)
  <2>1. /\ arg[t].cb = << >> /\ _lock' = None /\ Go(t, "idle", None)
        /\ UNCHANGED <<_cancelled, _event, _callbacks, given, runs>>
    BY <1>3 DEF Release
  <2>2. pc'[t] = "idle" /\ Moves(t, {"callbacks"}, {"idle"})
    BY <1>0, <2>1, GoMoves DEF TokenInv, TokenTypeOK
  <2>3. ToRun' = << >> /\ ToRun = << >>
    BY <1>1, <2>1 DEF ToRun
  <2>4. (\A x : Waiting(x)' <=> Waiting(x)) /\ WaitingOnce'
    BY <1>0, <2>1, <2>2, HolderFrame
  <2>5. TokenTypeOK' /\ LockHeld'
    <3>1. \A u \in Threads \ {t} : pc[u] \notin {"set", "callbacks", "stuck"}
      BY <1>1 DEF TokenInv, LockHeld
    <3> QED BY <1>1, <2>1, <2>2, <3>1, ThreadAssumption DEF TokenInv, TokenTypeOK, LockHeld, Moves
  <2>6. ListedOnce' /\ NoneForgotten'
    BY <1>0, <1>1, <2>1, <2>3, <2>4 DEF TokenInv, ListedOnce, NoneForgotten
  <2> QED BY <2>4, <2>5, <2>6 DEF TokenInv
<1> QED BY <1>2, <1>3

(* on_cancelled gets the lock: after a cancel it calls its callback, and   *)
(* before one it lists it for the cancel to come.                          *)
LEMMA RegisterStep ==
  ASSUME TokenInv, NEW t \in Threads, on_cancelled(t)
  PROVE  TokenInv'
<1>1. /\ pc[t] = "on_cancelled" /\ _lock = None /\ t # None
      /\ UNCHANGED <<_cancelled, _event, given, runs>>
  BY ThreadAssumption DEF on_cancelled
<1>2. PICK c \in given : arg[t].cb = <<c>> /\ runs[c] = 0
  BY <1>1 DEF TokenInv, WaitingOnce
<1>3. c \in Callbacks /\ Waiting(c) /\ given \subseteq Callbacks /\ _callbacks \in Seq(Callbacks)
  BY <1>1, <1>2 DEF TokenInv, TokenTypeOK, Waiting
<1>4. \A u \in Threads : pc[u] \notin {"set", "callbacks", "stuck"}
  BY <1>1, ThreadAssumption DEF TokenInv, LockHeld
<1>5. ASSUME pc'[t] \in {"idle", "callbacks"}, Moves(t, {"on_cancelled"}, {"idle", "callbacks"})
      PROVE  (\A x : Waiting(x)' <=> Waiting(x) /\ x # c) /\ WaitingOnce'
  <2>1. \A u \in Threads : /\ pc'[u] = "on_cancelled" <=> pc[u] = "on_cancelled" /\ u # t
                           /\ u # t => arg'[u] = arg[u]
    BY <1>1, <1>5 DEF Moves
  <2>2. \A u \in Threads : pc[u] = "on_cancelled" /\ u # t => arg[u].cb # <<c>>
    BY <1>1, <1>2 DEF TokenInv, WaitingOnce
  <2>3. ASSUME NEW x, Waiting(x)' PROVE Waiting(x) /\ x # c
    BY <2>1, <2>2, <2>3 DEF Waiting
  <2>4. ASSUME NEW x, Waiting(x), x # c PROVE Waiting(x)'
    <3>1. PICK u \in Threads : pc[u] = "on_cancelled" /\ arg[u].cb = <<x>>
      BY <2>4 DEF Waiting
    <3>2. u # t
      BY <1>2, <2>4, <3>1
    <3> QED BY <2>1, <3>1, <3>2 DEF Waiting
  <2>5. WaitingOnce'
    BY <1>1, <2>1 DEF TokenInv, WaitingOnce
  <2> QED BY <2>3, <2>4, <2>5
<1>6. CASE _cancelled
  <2>1. _lock' = t /\ Go(t, "callbacks", arg[t]) /\ UNCHANGED _callbacks
    BY <1>6 DEF on_cancelled
  <2>2. pc'[t] = "callbacks" /\ arg'[t] = arg[t] /\ Moves(t, {"on_cancelled"}, {"callbacks"})
    BY <1>1, <2>1, GoMoves DEF TokenInv, TokenTypeOK
  <2>3. (\A x : Waiting(x)' <=> Waiting(x) /\ x # c) /\ WaitingOnce'
    BY <1>5, <2>2 DEF Moves
  <2>4. ToRun = << >> /\ ToRun' = <<c>>
    BY <1>1, <1>2, <1>6, <2>1, <2>2 DEF ToRun
  <2>5. TokenTypeOK'
    <3>1. arg'[t].cb \in Seq(Callbacks)
      <4>1. arg'[t].cb = <<c>> /\ <<c>> \in Seq(Callbacks)
        BY <1>2, <1>3, <2>2
      <4> QED BY <4>1
    <3> QED BY <1>1, <2>1, <2>2, <3>1 DEF TokenInv, TokenTypeOK, Moves
  <2>6. LockHeld'
    BY <1>1, <1>4, <1>6, <2>1, <2>2 DEF LockHeld, Moves
  <2>7. ListedOnce'
    BY <1>1, <1>2, <2>3, <2>4 DEF ListedOnce
  <2>8. NoneForgotten'
    <3>1. \A x \in given : runs[x] = 1 \/ Waiting(x)
      BY <1>1, <2>4 DEF TokenInv, NoneForgotten
    <3>2. \E i \in 1 .. Len(ToRun') : ToRun'[i] = c
      BY <2>4
    <3>3. \A x \in given : runs[x] = 1 \/ Waiting(x)' \/ \E i \in 1 .. Len(ToRun') : ToRun'[i] = x
      BY <2>3, <3>1, <3>2
    <3> QED BY <1>1, <3>3 DEF TokenInv, NoneForgotten
  <2> QED BY <2>3, <2>5, <2>6, <2>7, <2>8 DEF TokenInv
<1>7. CASE ~_cancelled
  <2>1. UNCHANGED _lock /\ Go(t, "idle", None) /\ _callbacks' = _callbacks \o <<c>>
    BY <1>2, <1>7 DEF on_cancelled
  <2>2. pc'[t] = "idle" /\ Moves(t, {"on_cancelled"}, {"idle"})
    BY <1>1, <2>1, GoMoves DEF TokenInv, TokenTypeOK
  <2>3. (\A x : Waiting(x)' <=> Waiting(x) /\ x # c) /\ WaitingOnce'
    BY <1>5, <2>2 DEF Moves
  <2>4. ToRun = _callbacks /\ ToRun' = ToRun \o <<c>>
    BY <1>1, <1>7, <2>1 DEF ToRun
  <2>5. /\ Len(ToRun) \in Nat /\ Len(ToRun') = Len(ToRun) + 1 /\ ToRun'[Len(ToRun) + 1] = c
        /\ \A i \in 1 .. Len(ToRun) : ToRun'[i] = ToRun[i]
        /\ ToRun' \in Seq(Callbacks)
    BY <1>3, <2>4
  <2>6. TokenTypeOK' /\ LockHeld'
    BY <1>1, <1>4, <1>7, <2>1, <2>2, <2>4, <2>5 DEF TokenInv, TokenTypeOK, LockHeld, Moves
  <2>7. \A i \in 1 .. Len(ToRun) : /\ ToRun[i] # c /\ ToRun[i] \in given
                                   /\ runs[ToRun[i]] = 0 /\ ~Waiting(ToRun[i])
    BY <1>3 DEF TokenInv, ListedOnce
  <2>8. \A i \in 1 .. Len(ToRun') : i \in 1 .. Len(ToRun) \/ i = Len(ToRun) + 1
    BY <2>5
  <2>9. ListedOnce'
    <3>1. ASSUME NEW i \in 1 .. Len(ToRun'), NEW j \in 1 .. Len(ToRun'), i # j
          PROVE  ToRun'[i] # ToRun'[j]
      BY <2>5, <2>7, <2>8, <3>1 DEF TokenInv, ListedOnce
    <3>2. ASSUME NEW i \in 1 .. Len(ToRun')
          PROVE  /\ ToRun'[i] \in given' /\ runs'[ToRun'[i]] = 0
                 /\ Waiting(ToRun'[i]) => ToRun'[i] = c
      <4>1. CASE i \in 1 .. Len(ToRun)
        BY <1>1, <2>5, <2>7, <4>1
      <4>2. CASE i = Len(ToRun) + 1
        BY <1>1, <1>2, <2>5, <4>2
      <4> QED BY <2>8, <4>1, <4>2
    <3> QED BY <2>3, <3>1, <3>2 DEF ListedOnce
  <2>10. NoneForgotten'
    <3>1. \A x \in given : runs[x] = 1 \/ Waiting(x) \/ \E i \in 1 .. Len(ToRun) : ToRun[i] = x
      BY <1>1 DEF TokenInv, NoneForgotten
    <3>2. \A i \in 1 .. Len(ToRun) : i \in 1 .. Len(ToRun')
      BY <2>5
    <3>3. Len(ToRun) + 1 \in 1 .. Len(ToRun')
      BY <2>5
    <3>4. ASSUME NEW x \in given
          PROVE  runs[x] = 1 \/ Waiting(x)' \/ \E i \in 1 .. Len(ToRun') : ToRun'[i] = x
      BY <2>3, <2>5, <3>1, <3>2, <3>3
    <3> QED BY <1>1, <2>1, <3>4 DEF TokenInv, NoneForgotten
  <2> QED BY <2>3, <2>6, <2>9, <2>10 DEF TokenInv
<1> QED BY <1>6, <1>7

(* Every call and every step of the token keeps its invariant. *)
LEMMA TokenSteps ==
  ASSUME TokenInv, NEW t \in Threads, TokenCall(t) \/ TokenStep(t)
  PROVE  TokenInv'
<1>1. DOMAIN pc = Threads /\ DOMAIN arg = Threads
  BY DEF TokenInv, TokenTypeOK
<1>2. CASE CallCancel(t)
  BY <1>1, <1>2, GoMoves, TokenFrame DEF CallCancel, Holding
<1>3. ASSUME NEW timeout, CallWait(t, timeout) PROVE TokenInv'
  BY <1>1, <1>3, GoMoves, TokenFrame DEF CallWait, Holding
<1>4. CASE wait(t)
  BY <1>1, <1>4, GoMoves, TokenFrame DEF wait, Holding
<1> QED BY <1>2, <1>3, <1>4, RegisterCalled, CancelSteps, CallbackSteps, RegisterStep
        DEF TokenCall, TokenStep

----------------------------------------------------------------------------
(* The runtime and its models *)

(* Where a thread is in a call, and where connect or close has the dict or *)
(* the runtime's lock in hand.                                             *)
CallPoints == {"call", "id", "take id", "check 1", "check 2", "send", "gateway", "check 3", "decode",
               "context", "view", "use view"}
ClosePoints == {"register", "close models", "close transport", "drop context"}

CloseInv == CloseHoldsLock /\ ModelsKnown
CallInv == CallsKnowClosed /\ CallsKnowCancelled /\ ClosedIsSilent /\ NoLateSuccess

CallStep(t) == \/ call(t) \/ NextIdLock(t) \/ _next_message_id(t) \/ Check(t)
               \/ HttpSend(t) \/ HttpReply(t) \/ HttpDecode(t)
               \/ NativeEncode(t) \/ NativeDecode(t) \/ CtxDecode(t) \/ MakeView(t) \/ DelView(t)

(* A step outside connect and close that keeps the dict, and closes models *)
(* at most, keeps what close relies on.                                    *)
LEMMA CloseFrame ==
  ASSUME CloseInv, NEW t \in Threads, NEW to, Moves(t, {pc[t]}, {to}),
         pc[t] \notin ClosePoints, to \notin ClosePoints,
         UNCHANGED <<_models, _closed, rt_lock, replaced, late>>, DOMAIN models' = DOMAIN models,
         \A m \in DOMAIN models : models'[m].ready = models[m].ready,
         \A m \in DOMAIN models : models[m].closed => models'[m].closed
  PROVE  CloseInv'
<1>1. /\ \A u \in Threads : pc[u] \in ClosePoints => pc'[u] = pc[u] /\ arg'[u] = arg[u]
      /\ \A u \in Threads : \A p \in ClosePoints : pc'[u] = p <=> pc[u] = p
  BY DEF Moves
<1>2. /\ "register" \in ClosePoints /\ "close models" \in ClosePoints
      /\ "close transport" \in ClosePoints /\ "drop context" \in ClosePoints
  BY DEF ClosePoints
<1>3. CloseHoldsLock'
  BY <1>1, <1>2 DEF CloseInv, CloseHoldsLock
<1>4. Range(_models') = Range(_models)
  OBVIOUS
<1>5. ModelsKnown'
  <2>1. /\ Range(_models) \subseteq DOMAIN models /\ (_closed => Range(_models) \subseteq late)
        /\ \A m \in DOMAIN models :
             models[m].ready => m \in Range(_models) \/ models[m].closed \/ m \in replaced \cup late
    BY DEF CloseInv, ModelsKnown
  <2>2. ASSUME NEW u \in Threads
        PROVE  /\ pc'[u] = "register" => arg'[u].model \in DOMAIN models'
               /\ pc'[u] = "close models" =>
                    /\ arg'[u].left \subseteq DOMAIN models'
                    /\ \A m \in Range(_models') : m \in arg'[u].left \/ models'[m].closed
    <3>1. CASE pc'[u] = "register"
      <4>1. pc[u] = "register" /\ arg'[u] = arg[u]
        BY <1>1, <1>2, <3>1
      <4>2. arg[u].model \in DOMAIN models
        BY <4>1 DEF CloseInv, ModelsKnown
      <4> QED BY <3>1, <4>1, <4>2
    <3>2. CASE pc'[u] = "close models"
      <4>1. pc[u] = "close models" /\ arg'[u] = arg[u]
        BY <1>1, <1>2, <3>2
      <4>2. /\ arg[u].left \subseteq DOMAIN models
            /\ \A m \in Range(_models) : m \in arg[u].left \/ models[m].closed
        BY <4>1 DEF CloseInv, ModelsKnown
      <4> QED BY <1>4, <2>1, <3>2, <4>1, <4>2
    <3> QED BY <3>1, <3>2
  <2> QED BY <1>4, <2>1, <2>2 DEF ModelsKnown
<1> QED BY <1>3, <1>5 DEF CloseInv

(* A step that leaves the jobs alone, closes the transport or cancels at   *)
(* most, and does not move a thread on in a call, keeps what calls know.   *)
LEMMA CallFrame ==
  ASSUME CallInv, NEW t \in Threads, NEW to, Moves(t, {pc[t]}, {to}), to \notin Sending,
         UNCHANGED <<job, results, sent>>,
         transport.closed => transport'.closed, _cancelled => _cancelled'
  PROVE  CallInv'
<1>1. /\ \A u \in Threads : pc'[u] \in Sending => pc'[u] = pc[u]
      /\ {"check 3", "decode", "context", "view", "use view"} \subseteq Sending
  BY DEF Moves, Sending
<1>2. CallsKnowClosed'
  BY <1>1 DEF CallInv, CallsKnowClosed
<1>3. CallsKnowCancelled'
  BY <1>1 DEF CallInv, CallsKnowCancelled
<1> QED BY <1>2, <1>3 DEF CallInv, ClosedIsSilent, NoLateSuccess

(* A step away from the views leaves their count alone. *)
LEMMA ViewFrame ==
  ASSUME ViewsBalance, NEW t \in Threads, NEW to, Moves(t, {pc[t]}, {to}), UNCHANGED views,
         pc[t] \notin {"view", "use view"}, to \notin {"view", "use view"}
  PROVE  ViewsBalance'
<1>1. \A u \in Threads : (pc'[u] = "view" \/ (pc'[u] = "use view" /\ arg'[u].ctx))
                          <=> (pc[u] = "view" \/ (pc[u] = "use view" /\ arg[u].ctx))
  BY DEF Moves
<1>2. {u \in Threads : pc'[u] = "view" \/ (pc'[u] = "use view" /\ arg'[u].ctx)}
      = {u \in Threads : pc[u] = "view" \/ (pc[u] = "use view" /\ arg[u].ctx)}
  BY <1>1
<1>3. InHand' = InHand
  BY <1>2 DEF InHand
<1> QED BY <1>3 DEF ViewsBalance

(* The steps of a call move their thread along the call or out of it, and  *)
(* leave the token, the dict and what close did to the models alone.       *)
LEMMA CallStepMoves ==
  ASSUME TokenInv, TypeOK, NEW t \in Threads, CallStep(t)
  PROVE  /\ pc[t] \in CallPoints
         /\ \E to \in CallPoints \cup {"idle"} : Moves(t, {pc[t]}, {to})
         /\ UNCHANGED <<tokenVars, _models, _closed, rt_lock, transport, replaced, late>>
         /\ DOMAIN models' = DOMAIN models
         /\ \A m \in DOMAIN models : /\ models'[m].ready = models[m].ready
                                      /\ models'[m].closed = models[m].closed
<1>1. DOMAIN pc = Threads /\ DOMAIN arg = Threads
  BY DEF TokenInv, TokenTypeOK
<1>2. ASSUME NEW to \in CallPoints \cup {"idle"}, NEW x, Go(t, to, x)
      PROVE  \E p \in CallPoints \cup {"idle"} : Moves(t, {pc[t]}, {p})
  BY <1>1, <1>2, GoMoves
<1>3. /\ \A r : Return(t, r) => \E p \in CallPoints \cup {"idle"} : Moves(t, {pc[t]}, {p})
      /\ \A to \in CallPoints : GoOn(t, to) => \E p \in CallPoints \cup {"idle"} : Moves(t, {pc[t]}, {p})
      /\ Answered(t) => \E p \in CallPoints \cup {"idle"} : Moves(t, {pc[t]}, {p})
  BY <1>2 DEF Return, GoOn, Answered, CallPoints
<1>4. CASE call(t)
  BY <1>3, <1>4 DEF call, callFrame, CallPoints
<1>5. CASE NextIdLock(t)
  BY <1>2, <1>5 DEF NextIdLock, callFrame, CallPoints, TypeOK
<1>6. CASE _next_message_id(t)
  BY <1>2, <1>6 DEF _next_message_id, callFrame, CallPoints, TypeOK
<1>7. CASE Check(t)
  BY <1>3, <1>7 DEF Check, callFrame, CallPoints
<1>8. CASE HttpSend(t)
  BY <1>2, <1>3, <1>8 DEF HttpSend, callFrame, CallPoints
<1>9. CASE HttpReply(t)
  BY <1>3, <1>9 DEF HttpReply, callFrame, CallPoints
<1>10. CASE HttpDecode(t)
  BY <1>3, <1>10 DEF HttpDecode, callFrame, CallPoints
<1>11. CASE NativeEncode(t)
  BY <1>3, <1>11 DEF NativeEncode, callFrame, CallPoints
<1>12. CASE NativeDecode(t)
  BY <1>3, <1>12 DEF NativeDecode, callFrame, CallPoints
<1>13. CASE CtxDecode(t)
  BY <1>3, <1>13 DEF CtxDecode, CallPoints
<1>14. CASE MakeView(t)
  BY <1>2, <1>14 DEF MakeView, CallPoints
<1>15. CASE DelView(t)
  BY <1>3, <1>15 DEF DelView, CallPoints
<1> QED BY <1>4, <1>5, <1>6, <1>7, <1>8, <1>9, <1>10, <1>11, <1>12, <1>13, <1>14, <1>15 DEF CallStep

(* Returning keeps what calls know, if what is returned does. *)
LEMMA ReturnKeeps ==
  ASSUME TokenInv, TypeOK, CallInv, NEW t \in Threads, NEW r, Return(t, r), UNCHANGED <<tokenVars, transport>>,
         r = "ok" => ~job[t].after /\ (job[t].late => job[t].streams)
  PROVE  CallInv'
<1>1. /\ results' = results \cup {[r |-> r, streams |-> job[t].streams, late |-> job[t].late,
                                   after |-> job[t].after]}
      /\ job' = [job EXCEPT ![t] = NoJob] /\ sent' = sent /\ pc'[t] = "idle"
      /\ \A u \in Threads \ {t} : pc'[u] = pc[u]
  BY GoMoves DEF Return, Moves, TokenInv, TokenTypeOK
<1>2. job'[t] = NoJob /\ \A u \in Threads \ {t} : job'[u] = job[u]
  BY <1>1 DEF TypeOK
<1>3. CallsKnowClosed' /\ CallsKnowCancelled'
  <2>1. ~job'[t].after /\ ~job'[t].late
    BY <1>2 DEF NoJob
  <2>2. CallsKnowClosed'
    BY <1>1, <1>2, <2>1 DEF CallInv, CallsKnowClosed
  <2>3. CallsKnowCancelled'
    BY <1>1, <1>2, <2>1 DEF CallInv, CallsKnowCancelled, tokenVars
  <2> QED BY <2>2, <2>3
<1>4. ClosedIsSilent' /\ NoLateSuccess'
  BY <1>1 DEF CallInv, ClosedIsSilent, NoLateSuccess
<1> QED BY <1>3, <1>4 DEF CallInv

(* Going on keeps what calls know, up to the sending; past it, if the call *)
(* has met the flags.                                                      *)
LEMMA GoOnKeeps ==
  ASSUME TokenInv, CallInv, NEW t \in Threads, NEW to, NEW x, Go(t, to, x),
         UNCHANGED <<tokenVars, transport, job, results, sent>>,
         to \in Sending => ~job[t].after,
         to = "check 3" => ~job[t].late,
         to \in {"decode", "context", "view", "use view"} => (job[t].late => job[t].streams)
  PROVE  CallInv'
<1>1. pc'[t] = to /\ \A u \in Threads \ {t} : pc'[u] = pc[u]
  BY GoMoves DEF Moves, TokenInv, TokenTypeOK
<1>2. CallsKnowClosed' /\ CallsKnowCancelled'
  BY <1>1 DEF CallInv, CallsKnowClosed, CallsKnowCancelled, tokenVars
<1> QED BY <1>2 DEF CallInv, ClosedIsSilent, NoLateSuccess

(* An answer: the call has met an open transport, and notes whether the    *)
(* token was cancelled; only a stream goes to the decoder at once.         *)
LEMMA AnsweredKeeps ==
  ASSUME TokenInv, TypeOK, CallInv, NEW t \in Threads, Answered(t), UNCHANGED <<tokenVars, transport, sent>>,
         ~job[t].after
  PROVE  CallInv'
<1>1. /\ pc'[t] = IF job[t].streams THEN "decode" ELSE "check 3"
      /\ \A u \in Threads \ {t} : pc'[u] = pc[u]
      /\ results' = results /\ job' = [job EXCEPT ![t].late = job[t].token # None /\ _cancelled]
  BY GoMoves DEF Answered, Moves, TokenInv, TokenTypeOK
<1>2. job[t] \in Jobs /\ DOMAIN job = Threads
  BY DEF TypeOK
<1>3. /\ job'[t].after = job[t].after /\ job'[t].token = job[t].token /\ job'[t].streams = job[t].streams
      /\ job'[t].late <=> (job[t].token # None /\ _cancelled)
      /\ \A u \in Threads \ {t} : job'[u] = job[u]
  BY <1>1, <1>2 DEF Jobs
<1>4. CallsKnowClosed'
  BY <1>1, <1>3 DEF CallInv, CallsKnowClosed
<1>5. CallsKnowCancelled'
  BY <1>1, <1>3 DEF CallInv, CallsKnowCancelled, tokenVars
<1> QED BY <1>1, <1>4, <1>5 DEF CallInv, ClosedIsSilent, NoLateSuccess

(* Every step of a call keeps what calls know of the flags. *)
LEMMA CallStepCalls ==
  ASSUME TokenInv, TypeOK, CallInv, NEW t \in Threads, CallStep(t)
  PROVE  CallInv'
<1>1. UNCHANGED <<tokenVars, transport>>
  BY CallStepMoves
<1>2. /\ job[t].after => transport.closed
      /\ pc[t] \in Sending => ~job[t].after
      /\ pc[t] = "check 3" => (job[t].late => job[t].token # None /\ _cancelled)
      /\ pc[t] \in {"decode", "context", "view", "use view"} => (job[t].late => job[t].streams)
  BY DEF CallInv, CallsKnowClosed, CallsKnowCancelled
<1>3. \A r : Return(t, r) /\ r # "ok" => CallInv'
  BY <1>1, ReturnKeeps
<1>4. pc[t] \in {"decode", "context", "use view"} /\ Return(t, "ok") => CallInv'
  BY <1>1, <1>2, ReturnKeeps DEF Sending
<1>5. ASSUME NEW to, GoOn(t, to),
             to \in Sending => ~job[t].after, to # "check 3",
             to \in {"decode", "context", "view", "use view"} => (job[t].late => job[t].streams)
      PROVE  CallInv'
  BY <1>1, <1>5, GoOnKeeps DEF GoOn
<1>6. CASE call(t)
  BY <1>3, <1>5, <1>6 DEF call, Sending
<1>7. CASE NextIdLock(t)
  <2>1. PICK x : Go(t, "take id", x) /\ UNCHANGED <<job, results, sent>>
    BY <1>7 DEF NextIdLock
  <2> QED BY <1>1, <2>1, GoOnKeeps DEF Sending
<1>8. CASE _next_message_id(t)
  <2>1. /\ pc'[t] \in {"check 1", "check 2"} /\ \A u \in Threads \ {t} : pc'[u] = pc[u]
        /\ UNCHANGED <<sent, results>> /\ job' = [job EXCEPT ![t].id = arg[t].counter + 1]
    BY <1>8, GoMoves DEF _next_message_id, Moves, TokenInv, TokenTypeOK
  <2>2. job[t] \in Jobs /\ DOMAIN job = Threads
    BY DEF TypeOK
  <2>3. job'[t].after = job[t].after /\ \A u \in Threads \ {t} : job'[u] = job[u]
    BY <2>1, <2>2 DEF Jobs
  <2>4. CallsKnowClosed'
    BY <1>1, <2>1, <2>3 DEF CallInv, CallsKnowClosed, Sending
  <2>5. CallsKnowCancelled'
    BY <1>1, <2>1, <2>3 DEF CallInv, CallsKnowCancelled, tokenVars
  <2> QED BY <2>1, <2>4, <2>5 DEF CallInv, ClosedIsSilent, NoLateSuccess
<1>9. CASE Check(t)
  <2>1. CASE check(job[t].token)
    BY <1>3, <1>9, <2>1 DEF Check
  <2>2. CASE ~check(job[t].token)
    <3>1. CASE pc[t] = "check 1"
      BY <1>5, <1>9, <2>2, <3>1 DEF Check, Sending
    <3>2. CASE pc[t] = "check 2"
      BY <1>5, <1>9, <2>2, <3>2 DEF Check, Sending
    <3>3. CASE pc[t] = "check 3"
      BY <1>2, <1>5, <1>9, <2>2, <3>3 DEF Check, Sending, check
    <3> QED BY <1>9, <3>1, <3>2, <3>3 DEF Check
  <2> QED BY <2>1, <2>2
<1>10. CASE HttpSend(t)
  <2>1. CASE transport.closed
    BY <1>3, <1>10, <2>1 DEF HttpSend
  <2>2. CASE ~transport.closed
    <3>1. /\ pc'[t] = "gateway" /\ \A u \in Threads \ {t} : pc'[u] = pc[u]
          /\ UNCHANGED <<job, results>> /\ sent' = sent \cup {[after |-> job[t].after]}
      BY <1>10, <2>2, GoMoves DEF HttpSend, Moves, TokenInv, TokenTypeOK
    <3>2. CallsKnowClosed'
      BY <1>1, <1>2, <2>2, <3>1 DEF CallInv, CallsKnowClosed
    <3>3. CallsKnowCancelled'
      BY <1>1, <3>1 DEF CallInv, CallsKnowCancelled, tokenVars
    <3>4. ClosedIsSilent'
      <4>1. ~[after |-> job[t].after].after
        BY <1>2, <2>2
      <4> QED BY <3>1, <4>1 DEF CallInv, ClosedIsSilent
    <3> QED BY <3>1, <3>2, <3>3, <3>4 DEF CallInv, NoLateSuccess
  <2> QED BY <2>1, <2>2
<1>11. CASE HttpReply(t)
  BY <1>1, <1>2, <1>3, <1>11, AnsweredKeeps DEF HttpReply, Sending
<1>12. CASE HttpDecode(t)
  BY <1>3, <1>4, <1>12 DEF HttpDecode
<1>13. CASE NativeEncode(t)
  BY <1>1, <1>2, <1>3, <1>13, AnsweredKeeps DEF NativeEncode
<1>14. CASE NativeDecode(t)
  BY <1>2, <1>3, <1>5, <1>14 DEF NativeDecode, Sending
<1>15. CASE CtxDecode(t)
  BY <1>2, <1>3, <1>4, <1>5, <1>15 DEF CtxDecode, Sending
<1>16. CASE MakeView(t)
  BY <1>1, <1>2, <1>16, GoOnKeeps DEF MakeView, Sending
<1>17. CASE DelView(t)
  BY <1>4, <1>17 DEF DelView
<1> QED BY <1>6, <1>7, <1>8, <1>9, <1>10, <1>11, <1>12, <1>13, <1>14, <1>15, <1>16, <1>17
        DEF CallStep

(* The types of a thread's own values, and of the models. *)
ThreadTypes(t) ==
  /\ pc[t] \in {"call", "id", "take id"} => job[t].m \in DOMAIN models
  /\ pc[t] = "take id" => arg[t].counter \in Nat
  /\ pc[t] = "use view" => arg[t].ctx \in BOOLEAN
ModelTypes ==
  /\ models \in Seq(Range(models))
  /\ \A m \in DOMAIN models :
       /\ DOMAIN models[m] = {"cap", "closed", "counter", "lock", "ready"}
       /\ models[m].closed \in BOOLEAN /\ models[m].ready \in BOOLEAN /\ models[m].counter \in Nat

(* A step that writes values of the right types keeps TypeOK. *)
LEMMA TypesFrame ==
  ASSUME TypeOK, NEW t \in Threads, NEW to, Moves(t, {pc[t]}, {to}),
         _closed' \in BOOLEAN, rt_lock' \in Threads \cup {None},
         transport' \in [kind : {"native", "http"}, closed : BOOLEAN, ctx : BOOLEAN],
         views' \in [made : Nat, freed : Nat, bare : Nat, dropped : Nat],
         job' \in [Threads -> Jobs], \A u \in Threads \ {t} : job'[u] = job[u],
         ModelTypes', DOMAIN models \subseteq DOMAIN models', ThreadTypes(t)'
  PROVE  TypeOK'
<1>1. \A u \in Threads \ {t} : pc'[u] = pc[u] /\ arg'[u] = arg[u]
  BY DEF Moves
<1>2. ASSUME NEW u \in Threads \ {t} PROVE ThreadTypes(u)'
  BY <1>1 DEF TypeOK, ThreadTypes
<1>3. \A u \in Threads : ThreadTypes(u)'
  BY <1>2
<1> QED BY <1>3 DEF TypeOK, ModelTypes, ThreadTypes

(* A function on 1 .. n is a sequence of its values. *)
LEMMA FunctionIsSeq ==
  ASSUME NEW n \in Nat, NEW f, f = [i \in 1 .. n |-> f[i]]
  PROVE  f \in Seq(Range(f))
<1>1. \A i \in 1 .. n : f[i] \in Range(f)
  BY DEF Range
<1>2. f \in [1 .. n -> Range(f)]
  BY <1>1
<1> QED BY <1>2, SeqDef

(* A model is changed in one field. *)
LEMMA ModelField ==
  ASSUME ModelTypes, NEW m, NEW r, DOMAIN r = {"cap", "closed", "counter", "lock", "ready"},
         r.closed \in BOOLEAN, r.ready \in BOOLEAN, r.counter \in Nat,
         models' = [models EXCEPT ![m] = r]
  PROVE  ModelTypes' /\ DOMAIN models' = DOMAIN models
<1>1. PICK n \in Nat : n = Len(models) /\ DOMAIN models = 1 .. n
  BY DEF ModelTypes
<1>2. models = [i \in 1 .. n |-> models[i]]
  BY <1>1 DEF ModelTypes
<1>3. models' = [i \in 1 .. n |-> models'[i]]
  BY <1>1, <1>2
<1>4. models' \in Seq(Range(models'))
  BY <1>3, FunctionIsSeq
<1>5. \A i \in 1 .. n : models'[i] = IF i = m THEN r ELSE models[i]
  BY <1>1
<1> QED BY <1>1, <1>3, <1>4, <1>5 DEF ModelTypes

(* Every step of a call keeps the types. *)
LEMMA CallStepTypes ==
  ASSUME TokenInv, TypeOK, NEW t \in Threads, CallStep(t)
  PROVE  TypeOK'
<1>1. PICK to \in CallPoints \cup {"idle"} : Moves(t, {pc[t]}, {to})
  BY CallStepMoves
<1>2. /\ _closed' \in BOOLEAN /\ rt_lock' \in Threads \cup {None} /\ transport' = transport
      /\ transport' \in [kind : {"native", "http"}, closed : BOOLEAN, ctx : BOOLEAN]
  BY CallStepMoves DEF TypeOK
<1>3. ModelTypes /\ ThreadTypes(t) /\ job \in [Threads -> Jobs] /\ job[t] \in Jobs
      /\ views \in [made : Nat, freed : Nat, bare : Nat, dropped : Nat]
  BY DEF TypeOK, ModelTypes, ThreadTypes
<1>4. pc'[t] = to /\ \A x, y : Go(t, x, y) => pc'[t] = x /\ arg'[t] = y
  BY <1>1, GoMoves DEF Moves, TokenInv, TokenTypeOK
<1>5. NoJob \in Jobs
  BY DEF NoJob, Jobs
<1>6. ASSUME UNCHANGED models, NEW v \in [made : Nat, freed : Nat, bare : Nat, dropped : Nat], views' = v,
             NEW j \in Jobs, job' = [job EXCEPT ![t] = j], ThreadTypes(t)'
      PROVE  TypeOK'
  <2>1. job' \in [Threads -> Jobs] /\ \A u \in Threads \ {t} : job'[u] = job[u]
    BY <1>3, <1>6
  <2>2. ModelTypes' /\ DOMAIN models \subseteq DOMAIN models'
    BY <1>3, <1>6 DEF ModelTypes
  <2> QED BY <1>1, <1>2, <1>6, <2>1, <2>2, TypesFrame
<1>7. ASSUME NEW r, Return(t, r), UNCHANGED models, views' \in [made : Nat, freed : Nat, bare : Nat, dropped : Nat]
      PROVE  TypeOK'
  <2>1. pc'[t] = "idle" /\ job' = [job EXCEPT ![t] = NoJob]
    BY <1>4, <1>7 DEF Return
  <2>2. ThreadTypes(t)'
    BY <2>1 DEF ThreadTypes
  <2> QED BY <1>5, <1>6, <1>7, <2>1, <2>2
<1>8. ASSUME NEW x, GoOn(t, x), x \notin {"call", "take id", "use view"}, x = "id" => pc[t] = "call",
             UNCHANGED models, views' \in [made : Nat, freed : Nat, bare : Nat, dropped : Nat]
      PROVE  TypeOK'
  <2>1. pc'[t] = x /\ job' = job /\ job' = [job EXCEPT ![t] = job[t]]
    BY <1>3, <1>4, <1>8 DEF GoOn
  <2>2. ThreadTypes(t)'
    BY <1>3, <1>8, <2>1 DEF ThreadTypes
  <2> QED BY <1>3, <1>6, <1>8, <2>1, <2>2
<1>9. ASSUME Answered(t), UNCHANGED <<models, views>> PROVE TypeOK'
  <2>1. /\ pc'[t] \in {"decode", "check 3"}
        /\ job' = [job EXCEPT ![t] = [job[t] EXCEPT !.late = job[t].token # None /\ _cancelled]]
    BY <1>4, <1>9 DEF Answered
  <2>2. [job[t] EXCEPT !.late = job[t].token # None /\ _cancelled] \in Jobs
    BY <1>3 DEF Jobs
  <2>3. ThreadTypes(t)'
    BY <2>1 DEF ThreadTypes
  <2> QED BY <1>3, <1>6, <1>9, <2>1, <2>2, <2>3
<1>10. CASE call(t)
  BY <1>3, <1>7, <1>8, <1>10 DEF call, callFrame
<1>11. CASE NextIdLock(t)
  <2>1. PICK m : m = job[t].m
    OBVIOUS
  <2>2. /\ models' = [models EXCEPT ![m] = [models[m] EXCEPT !.lock = t]]
        /\ pc[t] = "id" /\ pc'[t] = "take id" /\ arg'[t] = [counter |-> models[m].counter]
        /\ UNCHANGED <<job, views>>
    BY <1>4, <1>11, <2>1 DEF NextIdLock, callFrame
  <2>3. m \in DOMAIN models
    BY <1>3, <2>1, <2>2 DEF ThreadTypes
  <2>4. ModelTypes' /\ DOMAIN models' = DOMAIN models
    <3>1. PICK r : r = [models[m] EXCEPT !.lock = t]
      OBVIOUS
    <3>2. /\ DOMAIN r = {"cap", "closed", "counter", "lock", "ready"}
          /\ r.closed \in BOOLEAN /\ r.ready \in BOOLEAN /\ r.counter \in Nat
      BY <1>3, <2>3, <3>1 DEF ModelTypes
    <3> QED BY <1>3, <2>2, <3>1, <3>2, ModelField
  <2>5. ThreadTypes(t)'
    <3>1. arg'[t].counter \in Nat
      <4>1. arg'[t].counter = models[m].counter
        <5>1. arg'[t] = [counter |-> models[m].counter]
          BY <2>2
        <5> QED BY <5>1
      <4>2. models[m].counter \in Nat
        BY <1>3, <2>3 DEF ModelTypes
      <4> QED BY <4>1, <4>2
    <3>2. job'[t].m \in DOMAIN models'
      BY <2>1, <2>2, <2>3, <2>4
    <3> QED BY <2>2, <3>1, <3>2 DEF ThreadTypes
  <2> QED BY <1>1, <1>2, <1>3, <2>2, <2>4, <2>5, TypesFrame
<1>12. CASE _next_message_id(t)
  <2>1. PICK m : m = job[t].m
    OBVIOUS
  <2>2. PICK id : id = arg[t].counter + 1
    OBVIOUS
  <2>3. /\ pc[t] = "take id" /\ models' = [models EXCEPT ![m].counter = id, ![m].lock = None]
        /\ job' = [job EXCEPT ![t] = [job[t] EXCEPT !.id = id]] /\ views' = views
        /\ pc'[t] \in {"check 1", "check 2"}
    BY <1>4, <1>12, <2>1, <2>2 DEF _next_message_id, callFrame
  <2>4. id \in Nat
    <3>1. arg[t].counter \in Nat
      BY <1>3, <2>3 DEF ThreadTypes
    <3> QED BY <2>2, <3>1
  <2>5. job' \in [Threads -> Jobs] /\ \A u \in Threads \ {t} : job'[u] = job[u]
    <3>1. [job[t] EXCEPT !.id = id] \in Jobs
      BY <1>3, <2>4 DEF Jobs
    <3> QED BY <1>3, <2>3, <3>1
  <2>6. ModelTypes' /\ DOMAIN models' = DOMAIN models
    <3>1. m \in DOMAIN models
      BY <1>3, <2>1, <2>3 DEF ThreadTypes
    <3>2. PICK r : r = [[models[m] EXCEPT !.counter = id] EXCEPT !.lock = None]
      OBVIOUS
    <3>3. models' = [models EXCEPT ![m] = r]
      BY <2>3, <3>1, <3>2
    <3>4. /\ DOMAIN r = {"cap", "closed", "counter", "lock", "ready"}
          /\ r.closed \in BOOLEAN /\ r.ready \in BOOLEAN /\ r.counter \in Nat
      BY <1>3, <2>4, <3>1, <3>2 DEF ModelTypes
    <3> QED BY <1>3, <3>3, <3>4, ModelField
  <2>7. ThreadTypes(t)'
    BY <2>3 DEF ThreadTypes
  <2> QED BY <1>1, <1>2, <1>3, <2>3, <2>5, <2>6, <2>7, TypesFrame
<1>13. CASE Check(t)
  BY <1>3, <1>7, <1>8, <1>13 DEF Check, callFrame
<1>14. CASE HttpSend(t)
  <2>1. CASE transport.closed
    BY <1>3, <1>7, <1>14, <2>1 DEF HttpSend, callFrame
  <2>2. CASE ~transport.closed
    <3>1. pc'[t] = "gateway" /\ job' = job /\ UNCHANGED <<models, views>>
      BY <1>4, <1>14, <2>2 DEF HttpSend, callFrame
    <3>2. ThreadTypes(t)' /\ job' = [job EXCEPT ![t] = job[t]]
      BY <1>3, <3>1 DEF ThreadTypes
    <3> QED BY <1>3, <1>6, <3>1, <3>2
  <2> QED BY <2>1, <2>2
<1>15. CASE HttpReply(t)
  BY <1>3, <1>7, <1>9, <1>15 DEF HttpReply, callFrame
<1>16. CASE HttpDecode(t)
  BY <1>3, <1>7, <1>16 DEF HttpDecode, callFrame
<1>17. CASE NativeEncode(t)
  BY <1>3, <1>7, <1>9, <1>17 DEF NativeEncode, callFrame
<1>18. CASE NativeDecode(t)
  BY <1>3, <1>7, <1>8, <1>18 DEF NativeDecode, callFrame
<1>19. CASE CtxDecode(t)
  <2>1. views' \in [made : Nat, freed : Nat, bare : Nat, dropped : Nat]
    <3>1. /\ views.made + 1 \in Nat
          /\ views.dropped + (IF job[t].token = "send" THEN 1 ELSE 0) \in Nat
      BY <1>3
    <3> QED BY <1>3, <1>19, <3>1 DEF CtxDecode
  <2> QED BY <1>3, <1>7, <1>8, <1>19, <2>1 DEF CtxDecode
<1>20. CASE MakeView(t)
  <2>1. /\ pc'[t] = "use view" /\ arg'[t] = [ctx |-> transport.ctx] /\ job' = job /\ UNCHANGED models
        /\ views' = [views EXCEPT !.bare = views.bare + IF transport.ctx THEN 0 ELSE 1]
    BY <1>4, <1>20 DEF MakeView
  <2>2. views' \in [made : Nat, freed : Nat, bare : Nat, dropped : Nat]
    <3>1. views.bare + (IF transport.ctx THEN 0 ELSE 1) \in Nat
      BY <1>3
    <3> QED BY <1>3, <2>1, <3>1
  <2>3. ThreadTypes(t)' /\ job' = [job EXCEPT ![t] = job[t]]
    <3>1. arg'[t].ctx \in BOOLEAN
      <4>1. arg'[t].ctx = transport.ctx
        <5>1. arg'[t] = [ctx |-> transport.ctx]
          BY <2>1
        <5> QED BY <5>1
      <4>2. transport.ctx \in BOOLEAN
        BY <1>2
      <4> QED BY <4>1, <4>2
    <3> QED BY <1>3, <2>1, <3>1 DEF ThreadTypes
  <2> QED BY <1>3, <1>6, <2>1, <2>2, <2>3
<1>21. CASE DelView(t)
  <2>1. views' \in [made : Nat, freed : Nat, bare : Nat, dropped : Nat]
    <3>1. views.freed + (IF arg[t].ctx THEN 1 ELSE 0) \in Nat
      BY <1>3
    <3> QED BY <1>3, <1>21, <3>1 DEF DelView
  <2> QED BY <1>7, <1>21, <2>1 DEF DelView
<1> QED BY <1>10, <1>11, <1>12, <1>13, <1>14, <1>15, <1>16, <1>17, <1>18, <1>19, <1>20, <1>21
        DEF CallStep

(* The threads that have a view in hand. *)
Hand == {t \in Threads : pc[t] = "view" \/ (pc[t] = "use view" /\ arg[t].ctx)}

(* Every step of a call keeps the account of the views. *)
LEMMA CallStepViews ==
  ASSUME TokenInv, TypeOK, ViewsBalance, NEW t \in Threads, CallStep(t)
  PROVE  ViewsBalance'
<1>1. IsFiniteSet(Hand) /\ InHand = Cardinality(Hand) /\ InHand' = Cardinality(Hand') /\ InHand \in Nat
  <2>1. IsFiniteSet(Hand)
    BY ThreadAssumption, FS_Subset DEF Hand
  <2> QED BY <2>1, FS_CardinalityType DEF Hand, InHand
<1>2. /\ views \in [made : Nat, freed : Nat, bare : Nat, dropped : Nat]
      /\ transport.ctx \in BOOLEAN
      /\ pc[t] = "use view" => arg[t].ctx \in BOOLEAN
  BY DEF TypeOK
<1>3. PICK made \in Nat, freed \in Nat, bare \in Nat, dropped \in Nat :
        views = [made |-> made, freed |-> freed, bare |-> bare, dropped |-> dropped]
  BY <1>2
<1>4. made = freed + dropped + bare + InHand
  BY <1>3 DEF ViewsBalance
<1>5. ASSUME NEW m, NEW f, NEW b, NEW d, m = f + d + b + InHand',
             views' = [made |-> m, freed |-> f, bare |-> b, dropped |-> d]
      PROVE  ViewsBalance'
  BY <1>5 DEF ViewsBalance
<1>6. ASSUME NEW to, NEW x, Go(t, to, x)
      PROVE  /\ pc'[t] = to /\ arg'[t] = x /\ Moves(t, {pc[t]}, {to})
             /\ to = "view" => Hand' = Hand \cup {t}
             /\ to = "use view" => Hand' = IF x.ctx THEN Hand \cup {t} ELSE Hand \ {t}
  <2>1. pc'[t] = to /\ arg'[t] = x /\ Moves(t, {pc[t]}, {to})
    BY <1>6, GoMoves DEF TokenInv, TokenTypeOK
  <2>2. \A u \in Threads \ {t} : pc'[u] = pc[u] /\ arg'[u] = arg[u]
    BY <2>1 DEF Moves
  <2> QED BY <2>1, <2>2 DEF Hand
<1>7. ASSUME t \in Hand, Hand' = Hand \ {t} PROVE InHand' = InHand - 1
  BY <1>1, <1>7, FS_RemoveElement
<1>8. ASSUME t \notin Hand, Hand' = Hand \cup {t} PROVE InHand' = InHand + 1
  BY <1>1, <1>8, FS_AddElement
<1>9. ASSUME views' = views, pc[t] \notin {"view", "use view"},
             NEW to, NEW x, Go(t, to, x), to \notin {"view", "use view"}
      PROVE  ViewsBalance'
  BY <1>6, <1>9, ViewFrame
<1>10. ASSUME views' = views, pc[t] \notin {"view", "use view"}
       PROVE  /\ \A r : Return(t, r) => ViewsBalance'
              /\ \A p : GoOn(t, p) /\ p \notin {"view", "use view"} => ViewsBalance'
              /\ Answered(t) => ViewsBalance'
  BY <1>9, <1>10 DEF Return, GoOn, Answered
<1>11. CASE call(t)
  BY <1>10, <1>11 DEF call, callFrame
<1>12. CASE NextIdLock(t)
  <2>1. PICK x : Go(t, "take id", x) /\ views' = views /\ pc[t] = "id"
    BY <1>12 DEF NextIdLock, callFrame
  <2> QED BY <1>9, <2>1
<1>13. CASE _next_message_id(t)
  <2>1. PICK to \in {"check 1", "check 2"} : Go(t, to, None) /\ views' = views /\ pc[t] = "take id"
    BY <1>13 DEF _next_message_id, callFrame
  <2> QED BY <1>9, <2>1
<1>14. CASE Check(t)
  BY <1>10, <1>14 DEF Check, callFrame
<1>15. CASE HttpSend(t)
  BY <1>9, <1>10, <1>15 DEF HttpSend, callFrame
<1>16. CASE HttpReply(t)
  BY <1>10, <1>16 DEF HttpReply, callFrame
<1>17. CASE HttpDecode(t)
  BY <1>10, <1>17 DEF HttpDecode, callFrame
<1>18. CASE NativeEncode(t)
  BY <1>10, <1>18 DEF NativeEncode, callFrame
<1>19. CASE NativeDecode(t)
  BY <1>10, <1>19 DEF NativeDecode, callFrame
<1>20. CASE CtxDecode(t)
  <2>1. pc[t] = "context" /\ t \notin Hand
    BY <1>20 DEF CtxDecode, Hand
  <2>2. CASE views' = views /\ \E r : Return(t, r)
    BY <1>10, <2>1, <2>2
  <2>3. CASE /\ views' = [views EXCEPT !.made = @ + 1, !.dropped = @ + 1] /\ Return(t, "ok")
    <3>1. Hand' = Hand
      <4>1. Go(t, "idle", None)
        BY <2>3 DEF Return
      <4>2. Hand' = Hand \ {t}
        <5>1. pc'[t] = "idle" /\ \A u \in Threads \ {t} : pc'[u] = pc[u] /\ arg'[u] = arg[u]
          BY <4>1, GoMoves DEF TokenInv, TokenTypeOK, Moves
        <5> QED BY <5>1 DEF Hand
      <4> QED BY <2>1, <4>2
    <3>2. InHand' = InHand
      BY <1>1, <3>1
    <3>3. views' = [made |-> made + 1, freed |-> freed, bare |-> bare, dropped |-> dropped + 1]
      BY <1>3, <2>3
    <3>4. made + 1 = freed + (dropped + 1) + bare + InHand'
      BY <1>1, <1>4, <3>2
    <3> QED BY <1>5, <3>3, <3>4
  <2>4. CASE /\ views' = [views EXCEPT !.made = @ + 1, !.dropped = @ + 0] /\ GoOn(t, "view")
    <3>1. Hand' = Hand \cup {t}
      BY <1>6, <2>4 DEF GoOn
    <3>2. InHand' = InHand + 1
      BY <1>8, <2>1, <3>1
    <3>3. views' = [made |-> made + 1, freed |-> freed, bare |-> bare, dropped |-> dropped]
      <4>1. dropped + 0 = dropped
        OBVIOUS
      <4> QED BY <1>3, <2>4, <4>1
    <3>4. made + 1 = freed + dropped + bare + InHand'
      BY <1>1, <1>4, <3>2
    <3> QED BY <1>5, <3>3, <3>4
  <2> QED BY <1>20, <2>2, <2>3, <2>4 DEF CtxDecode
<1>21. CASE MakeView(t)
  <2>1. /\ t \in Hand /\ Go(t, "use view", [ctx |-> transport.ctx])
        /\ views' = [views EXCEPT !.bare = @ + IF transport.ctx THEN 0 ELSE 1]
    BY <1>21 DEF MakeView, Hand
  <2>2. Hand' = IF transport.ctx THEN Hand \cup {t} ELSE Hand \ {t}
    <3>1. PICK x : x = [ctx |-> transport.ctx]
      OBVIOUS
    <3>2. Go(t, "use view", x) /\ x.ctx = transport.ctx
      BY <2>1, <3>1
    <3> QED BY <1>6, <3>2
  <2>3. CASE transport.ctx
    <3>1. Hand' = Hand
      BY <2>1, <2>2, <2>3
    <3>2. InHand' = InHand /\ views' = [made |-> made, freed |-> freed, bare |-> bare, dropped |-> dropped]
      <4>1. bare + 0 = bare
        OBVIOUS
      <4>2. views' = [views EXCEPT !.bare = bare + 0]
        BY <1>3, <2>1, <2>3
      <4> QED BY <1>1, <1>3, <3>1, <4>1, <4>2
    <3> QED BY <1>4, <1>5, <3>2
  <2>4. CASE ~transport.ctx
    <3>1. InHand' = InHand - 1
      BY <1>7, <2>1, <2>2, <2>4
    <3>2. views' = [made |-> made, freed |-> freed, bare |-> bare + 1, dropped |-> dropped]
      BY <1>3, <2>1, <2>4
    <3>3. made = freed + dropped + (bare + 1) + InHand'
      BY <1>1, <1>4, <3>1
    <3> QED BY <1>5, <3>2, <3>3
  <2> QED BY <2>3, <2>4
<1>22. CASE DelView(t)
  <2>1. /\ pc[t] = "use view" /\ (t \in Hand <=> arg[t].ctx) /\ Go(t, "idle", None)
        /\ views' = [views EXCEPT !.freed = @ + IF arg[t].ctx THEN 1 ELSE 0]
    BY <1>22 DEF DelView, Hand, Return
  <2>2. Hand' = Hand \ {t}
    <3>1. pc'[t] = "idle" /\ \A u \in Threads \ {t} : pc'[u] = pc[u] /\ arg'[u] = arg[u]
      BY <2>1, GoMoves DEF TokenInv, TokenTypeOK, Moves
    <3> QED BY <3>1 DEF Hand
  <2>3. CASE arg[t].ctx
    <3>1. InHand' = InHand - 1
      BY <1>7, <2>1, <2>2, <2>3
    <3>2. views' = [made |-> made, freed |-> freed + 1, bare |-> bare, dropped |-> dropped]
      BY <1>3, <2>1, <2>3
    <3>3. made = (freed + 1) + dropped + bare + InHand'
      BY <1>1, <1>4, <3>1
    <3> QED BY <1>5, <3>2, <3>3
  <2>4. CASE ~arg[t].ctx
    <3>1. Hand' = Hand
      BY <2>1, <2>2, <2>4
    <3>2. InHand' = InHand /\ views' = [made |-> made, freed |-> freed, bare |-> bare, dropped |-> dropped]
      <4>1. freed + 0 = freed
        OBVIOUS
      <4>2. views' = [views EXCEPT !.freed = freed + 0]
        BY <1>3, <2>1, <2>4
      <4> QED BY <1>1, <1>3, <3>1, <4>1, <4>2
    <3> QED BY <1>4, <1>5, <3>2
  <2> QED BY <2>3, <2>4
<1> QED BY <1>11, <1>12, <1>13, <1>14, <1>15, <1>16, <1>17, <1>18, <1>19, <1>20, <1>21, <1>22
        DEF CallStep

(* The parts of the invariant. *)
Parts == TokenInv /\ TypeOK /\ CloseInv /\ CallInv /\ ViewsBalance

(* Every step of a call keeps the invariant. *)
LEMMA CallSteps ==
  ASSUME Parts, NEW t \in Threads, CallStep(t)
  PROVE  Parts'
<1>1. TokenInv /\ TypeOK /\ CloseInv /\ CallInv /\ ViewsBalance
  BY DEF Parts
<1>2. /\ UNCHANGED <<tokenVars, _models, _closed, rt_lock, replaced, late>> /\ DOMAIN models' = DOMAIN models
      /\ \A m \in DOMAIN models : models'[m].ready = models[m].ready
      /\ \A m \in DOMAIN models : models'[m].closed = models[m].closed
  BY <1>1, CallStepMoves
<1>3. PICK to \in CallPoints \cup {"idle"} : Moves(t, {pc[t]}, {to})
  BY <1>1, CallStepMoves
<1>4. /\ pc[t] \notin Holding /\ to \notin Holding /\ pc[t] \notin ClosePoints /\ to \notin ClosePoints
  <2>1. pc[t] \in CallPoints
    BY <1>1, CallStepMoves
  <2> QED BY <1>3, <2>1 DEF CallPoints, Holding, ClosePoints
<1>5. TokenInv'
  BY <1>1, <1>2, <1>3, <1>4, TokenFrame
<1>6. CloseInv'
  <2>1. UNCHANGED <<_models, _closed, rt_lock, replaced, late>>
    BY <1>2
  <2>2. /\ DOMAIN models' = DOMAIN models
        /\ \A m \in DOMAIN models : models'[m].ready = models[m].ready
        /\ \A m \in DOMAIN models : models[m].closed => models'[m].closed
    BY <1>2, Zenon
  <2> QED BY <1>1, <1>3, <1>4, <2>1, <2>2, CloseFrame, Zenon
<1> QED BY <1>1, <1>5, <1>6, CallStepCalls, CallStepTypes, CallStepViews DEF Parts

(* Every call and step of the token keeps the invariant. *)
LEMMA TokenKeeps ==
  ASSUME Parts, NEW t \in Threads, TokenCall(t) \/ TokenStep(t), UNCHANGED sdkVars
  PROVE  Parts'
<1> DEFINE Points == {"idle", "cancel", "on_cancelled", "wait", "set", "callbacks", "stuck"}
<1>1. /\ TokenInv /\ TypeOK /\ CloseInv /\ CallInv /\ ViewsBalance
      /\ DOMAIN pc = Threads /\ DOMAIN arg = Threads
  BY DEF Parts, TokenInv, TokenTypeOK
<1>2. UNCHANGED <<_models, _closed, rt_lock, models, transport, job, sent, results, replaced, late, views>>
  BY DEF sdkVars
<1>3. ASSUME NEW to \in Points, NEW x, Go(t, to, x) PROVE \E p \in Points : Moves(t, {pc[t]}, {p})
  BY <1>1, <1>3, GoMoves
<1>4. /\ pc[t] \in Points /\ (_cancelled => _cancelled')
      /\ \E to \in Points : \E x : Go(t, to, x)
  <2>1. CASE TokenCall(t)
    <3>1. PICK to \in {"cancel", "on_cancelled", "wait"} : \E x :
            Go(t, to, x) /\ pc[t] = "idle" /\ _cancelled' = _cancelled
      BY <2>1 DEF TokenCall, CallCancel, CallOnCancelled, CallWait, tokenVars
    <3> QED BY <3>1
  <2>2. CASE cancel(t) \/ wait(t)
    BY <2>2 DEF cancel, wait, tokenVars
  <2>3. CASE SetEvent(t) \/ RunCallback(t) \/ Release(t)
    <3>1. PICK to \in {"callbacks", "stuck", "idle"} : \E x :
            Go(t, to, x) /\ pc[t] \in {"set", "callbacks"} /\ _cancelled' = _cancelled
      BY <2>3 DEF SetEvent, RunCallback, Release
    <3> QED BY <3>1
  <2>4. CASE on_cancelled(t)
    BY <2>4 DEF on_cancelled
  <2> QED BY <2>1, <2>2, <2>3, <2>4 DEF TokenStep
<1>5. PICK to \in Points : Moves(t, {pc[t]}, {to})
  BY <1>3, <1>4
<1>6. /\ pc[t] \notin ClosePoints /\ to \notin ClosePoints /\ to \notin Sending
      /\ pc[t] \notin {"view", "use view"} /\ to \notin {"view", "use view"}
      /\ to \notin {"call", "id", "take id", "use view"}
  BY <1>4, <1>5 DEF ClosePoints, Sending
<1> HIDE DEF Points
<1>7. CloseInv'
  BY <1>1, <1>2, <1>5, <1>6, CloseFrame
<1>8. CallInv'
  BY <1>1, <1>2, <1>4, <1>5, <1>6, CallFrame
<1>9. ViewsBalance'
  BY <1>1, <1>2, <1>5, <1>6, ViewFrame
<1>10. TypeOK'
  <2>1. pc'[t] = to
    BY <1>5 DEF Moves
  <2>2. ThreadTypes(t)' /\ ModelTypes'
    BY <1>1, <1>2, <1>6, <2>1 DEF ThreadTypes, ModelTypes, TypeOK
  <2>3. /\ _closed' \in BOOLEAN /\ rt_lock' \in Threads \cup {None}
        /\ transport' \in [kind : {"native", "http"}, closed : BOOLEAN, ctx : BOOLEAN]
        /\ views' \in [made : Nat, freed : Nat, bare : Nat, dropped : Nat]
        /\ job' \in [Threads -> Jobs]
    BY <1>1, <1>2 DEF TypeOK
  <2> QED BY <1>1, <1>2, <1>5, <2>2, <2>3, TypesFrame
<1>11. TokenInv'
  BY <1>1, TokenSteps
<1> QED BY <1>7, <1>8, <1>9, <1>10, <1>11 DEF Parts

(* The operations of the runtime, and Model.close. *)
RuntimeStep(t) == \/ (\E queries : CallConnect(t, queries)) \/ CallClose(t)
                  \/ (\E m \in DOMAIN models : CloseModel(t, m))
                  \/ connect(t) \/ Register(t)
                  \/ close(t) \/ CloseModels(t) \/ CloseRuntime(t) \/ CloseTransport(t) \/ DropContext(t)

(* They leave the token, the calls and the views alone; close closes the   *)
(* transport.                                                              *)
LEMMA RuntimeMoves ==
  ASSUME TokenInv, TypeOK, NEW t \in Threads, RuntimeStep(t)
  PROVE  /\ \E to \in {"idle", "connect", "close"} \cup ClosePoints : Moves(t, {pc[t]}, {to})
         /\ pc[t] \in {"idle", "connect", "close"} \cup ClosePoints
         /\ UNCHANGED <<tokenVars, job, results, sent, views>>
         /\ transport.closed => transport'.closed
         /\ transport' \in [kind : {"native", "http"}, closed : BOOLEAN, ctx : BOOLEAN]
<1> DEFINE Points == {"idle", "connect", "close"} \cup ClosePoints
<1>1. /\ DOMAIN pc = Threads /\ DOMAIN arg = Threads
      /\ transport \in [kind : {"native", "http"}, closed : BOOLEAN, ctx : BOOLEAN]
  BY DEF TokenInv, TokenTypeOK, TypeOK
<1>2. ASSUME NEW to \in Points, NEW x, Go(t, to, x) PROVE \E p \in Points : Moves(t, {pc[t]}, {p})
  BY <1>1, <1>2, GoMoves
<1>3. ASSUME NEW queries, CallConnect(t, queries) PROVE \E p \in Points : Moves(t, {pc[t]}, {p})
  <2>1. PICK x : Go(t, "connect", x)
    BY <1>3 DEF CallConnect
  <2> QED BY <1>2, <2>1
<1>4. ASSUME NEW m, CloseModel(t, m) PROVE \E p \in Points : Moves(t, {pc[t]}, {p})
  <2>1. pc[t] = "idle" /\ UNCHANGED <<pc, arg>>
    BY <1>4 DEF CloseModel
  <2> QED BY <1>1, <2>1 DEF Moves
<1>5. CASE connect(t)
  <2>1. PICK to \in {"idle", "connect", "register"} : \E x : Go(t, to, x)
    BY <1>5 DEF connect
  <2>2. \E p \in Points : Moves(t, {pc[t]}, {p})
    BY <1>2, <2>1 DEF ClosePoints
  <2> QED BY <1>1, <1>5, <2>2 DEF connect
<1>6. CASE Register(t)
  <2>1. \E p \in Points : Moves(t, {pc[t]}, {p})
    BY <1>2, <1>6 DEF Register
  <2> QED BY <1>1, <1>6, <2>1 DEF Register, ClosePoints
<1>7. CASE close(t)
  <2>1. PICK x : Go(t, "close models", x)
    BY <1>7 DEF close
  <2>2. \E p \in Points : Moves(t, {pc[t]}, {p})
    BY <1>2, <2>1 DEF ClosePoints
  <2> QED BY <1>1, <1>7, <2>2 DEF close
<1>8. CASE CloseModels(t)
  <2>1. PICK x : Go(t, "close models", x)
    BY <1>8 DEF CloseModels
  <2>2. \E p \in Points : Moves(t, {pc[t]}, {p})
    BY <1>2, <2>1 DEF ClosePoints
  <2> QED BY <1>1, <1>8, <2>2 DEF CloseModels, ClosePoints
<1>9. CASE CloseRuntime(t)
  <2>1. \E p \in Points : Moves(t, {pc[t]}, {p})
    BY <1>2, <1>9 DEF CloseRuntime, ClosePoints
  <2> QED BY <1>1, <1>9, <2>1 DEF CloseRuntime, ClosePoints
<1>10. CASE CloseTransport(t)
  <2>1. \E p \in Points : Moves(t, {pc[t]}, {p})
    BY <1>2, <1>10 DEF CloseTransport, ClosePoints
  <2> QED BY <1>1, <1>10, <2>1 DEF CloseTransport, ClosePoints
<1>11. CASE DropContext(t)
  <2>1. \E p \in Points : Moves(t, {pc[t]}, {p})
    BY <1>2, <1>11 DEF DropContext, ClosePoints
  <2> QED BY <1>1, <1>11, <2>1 DEF DropContext, ClosePoints
<1>12. CASE CallClose(t)
  <2>1. \E p \in Points : Moves(t, {pc[t]}, {p})
    BY <1>2, <1>12 DEF CallClose
  <2> QED BY <1>1, <1>12, <2>1 DEF CallClose, sdkVars
<1>13. ASSUME NEW queries, CallConnect(t, queries)
       PROVE  pc[t] = "idle" /\ UNCHANGED <<tokenVars, job, results, sent, views, transport>>
  BY <1>13 DEF CallConnect, sdkVars
<1>14. ASSUME NEW m, CloseModel(t, m)
       PROVE  pc[t] = "idle" /\ UNCHANGED <<tokenVars, job, results, sent, views, transport>>
  BY <1>14 DEF CloseModel
<1> QED BY <1>1, <1>3, <1>4, <1>5, <1>6, <1>7, <1>8, <1>9, <1>10, <1>11, <1>12, <1>13, <1>14
        DEF RuntimeStep

(* Registering a model: the dict has it, and loses another one only to     *)
(* the list of the replaced.                                               *)
LEMMA RegisterKeeps ==
  ASSUME TokenInv, TypeOK, CloseInv, NEW t \in Threads, Register(t)
  PROVE  CloseInv' /\ ModelTypes' /\ DOMAIN models' = DOMAIN models
<1>1. PICK m : m = arg[t].model
  OBVIOUS
<1>2. PICK cap : cap = models[m].cap
  OBVIOUS
<1>3. /\ pc[t] = "register" /\ rt_lock = None /\ UNCHANGED <<_closed, rt_lock>>
      /\ _models' = [c \in DOMAIN _models \cup {cap} |-> IF c = cap THEN m ELSE _models[c]]
      /\ replaced' = replaced \cup {_models[c] : c \in DOMAIN _models \cap {cap}}
      /\ late' = IF _closed THEN late \cup {m} ELSE late
      /\ models' = [models EXCEPT ![m] = [models[m] EXCEPT !.ready = TRUE]]
  BY <1>1, <1>2 DEF Register
<1>4. pc'[t] = "idle" /\ \A u \in Threads \ {t} : pc'[u] = pc[u] /\ arg'[u] = arg[u]
  BY GoMoves DEF Register, Moves, TokenInv, TokenTypeOK
<1>5. m \in DOMAIN models /\ ModelTypes
  BY <1>1, <1>3 DEF CloseInv, ModelsKnown, TypeOK, ModelTypes
<1>6. PICK r : r = [models[m] EXCEPT !.ready = TRUE]
  OBVIOUS
<1>7. /\ DOMAIN r = {"cap", "closed", "counter", "lock", "ready"} /\ r.closed = models[m].closed
      /\ r.closed \in BOOLEAN /\ r.ready \in BOOLEAN /\ r.counter \in Nat
  BY <1>5, <1>6 DEF ModelTypes
<1>8. ModelTypes' /\ DOMAIN models' = DOMAIN models
  BY <1>3, <1>5, <1>6, <1>7, ModelField
<1>9. /\ \A k \in DOMAIN models \ {m} : models'[k] = models[k]
      /\ \A k \in DOMAIN models : models'[k].closed = models[k].closed
  BY <1>3, <1>5, <1>6, <1>7
<1>10. /\ Range(_models') \subseteq Range(_models) \cup {m}
       /\ m \in Range(_models')
       /\ Range(_models) \subseteq Range(_models') \cup replaced'
  <2>1. /\ DOMAIN _models' = DOMAIN _models \cup {cap} /\ _models'[cap] = m
        /\ \A c \in DOMAIN _models \ {cap} : _models'[c] = _models[c]
    BY <1>3
  <2>2. Range(_models') \subseteq Range(_models) \cup {m} /\ m \in Range(_models')
    BY <2>1 DEF Range
  <2>3. ASSUME NEW c \in DOMAIN _models PROVE _models[c] \in Range(_models') \cup replaced'
    <3>1. CASE c = cap
      BY <1>3, <3>1
    <3>2. CASE c # cap
      BY <2>1, <3>2 DEF Range
    <3> QED BY <3>1, <3>2
  <2>4. Range(_models) \subseteq Range(_models') \cup replaced'
    BY <2>3 DEF Range
  <2> QED BY <2>2, <2>4
<1>11. CloseHoldsLock'
  <2>1. \A u \in Threads : pc[u] \notin {"close models", "close transport", "drop context"}
    BY <1>3, ThreadAssumption DEF CloseInv, CloseHoldsLock
  <2> QED BY <1>3, <1>4, <2>1, ThreadAssumption DEF CloseHoldsLock
<1>12. /\ Range(_models) \subseteq DOMAIN models /\ (_closed => Range(_models) \subseteq late)
       /\ \A k \in DOMAIN models :
            models[k].ready => k \in Range(_models) \/ models[k].closed \/ k \in replaced \cup late
  BY DEF CloseInv, ModelsKnown
<1>13. replaced \subseteq replaced' /\ late \subseteq late' /\ (_closed => m \in late')
  BY <1>3
<1>14. ASSUME NEW k \in DOMAIN models', models'[k].ready
       PROVE  k \in Range(_models') \/ models'[k].closed \/ k \in replaced' \cup late'
  <2>1. CASE k = m
    BY <1>10, <2>1
  <2>2. CASE k # m
    <3>1. models[k].ready
      BY <1>8, <1>9, <1>14, <2>2
    <3>2. k \in Range(_models) \/ models[k].closed \/ k \in replaced \cup late
      BY <1>8, <1>12, <3>1
    <3> QED BY <1>8, <1>9, <1>10, <1>13, <3>2
  <2> QED BY <2>1, <2>2
<1>15. ASSUME NEW u \in Threads
       PROVE  pc'[u] # "close models" /\ (pc'[u] = "register" => arg'[u].model \in DOMAIN models')
  <2>1. pc[u] # "close models"
    BY <1>3, ThreadAssumption DEF CloseInv, CloseHoldsLock
  <2>2. pc[u] = "register" => arg[u].model \in DOMAIN models
    BY DEF CloseInv, ModelsKnown
  <2> QED BY <1>4, <1>8, <2>1, <2>2
<1>16. Range(_models') \subseteq DOMAIN models' /\ (_closed' => Range(_models') \subseteq late')
  BY <1>3, <1>5, <1>8, <1>10, <1>12, <1>13
<1>17. ModelsKnown'
  <2>1. \A k \in DOMAIN models' :
          models'[k].ready => k \in Range(_models') \/ models'[k].closed \/ k \in replaced' \cup late'
    BY <1>14
  <2>2. ASSUME NEW u \in Threads
        PROVE  /\ pc'[u] = "register" => arg'[u].model \in DOMAIN models'
               /\ pc'[u] = "close models" =>
                    /\ arg'[u].left \subseteq DOMAIN models'
                    /\ \A k \in Range(_models') : k \in arg'[u].left \/ models'[k].closed
    <3>1. pc'[u] # "close models" /\ (pc'[u] = "register" => arg'[u].model \in DOMAIN models')
      BY <1>15
    <3> QED BY <3>1
  <2> QED BY <1>16, <2>1, <2>2, Zenon DEF ModelsKnown
<1> QED BY <1>8, <1>11, <1>17 DEF CloseInv

(* connect makes a model that nobody has yet. *)
LEMMA ConnectKeeps ==
  ASSUME TokenInv, TypeOK, CloseInv, NEW t \in Threads, connect(t)
  PROVE  CloseInv' /\ ModelTypes' /\ DOMAIN models \subseteq DOMAIN models'
<1>1. /\ pc[t] = "connect" /\ UNCHANGED <<_models, _closed, rt_lock, replaced, late>>
      /\ DOMAIN pc = Threads /\ DOMAIN arg = Threads
  BY DEF connect, TokenInv, TokenTypeOK
<1>2. ModelTypes
  BY DEF TypeOK, ModelTypes
<1>3. CASE UNCHANGED models /\ \E to \in {"idle", "connect"} : \E x : Go(t, to, x)
  <2>1. PICK to \in {"idle", "connect"} : \E x : Go(t, to, x)
    BY <1>3
  <2>2. Moves(t, {pc[t]}, {to})
    BY <1>1, <2>1, GoMoves
  <2>3. pc[t] \notin ClosePoints /\ to \notin ClosePoints
    BY <1>1, <2>1 DEF ClosePoints
  <2>4. CloseInv'
    BY <1>1, <1>3, <2>2, <2>3, CloseFrame
  <2> QED BY <1>2, <1>3, <2>4 DEF ModelTypes
<1>4. CASE \E cap : /\ models' = Append(models, [cap |-> cap, closed |-> FALSE, counter |-> 0, lock |-> None,
                                                ready |-> FALSE])
                    /\ Go(t, "register", [model |-> Len(models) + 1])
  <2>1. PICK n \in Nat : n = Len(models) /\ DOMAIN models = 1 .. n
    BY <1>2 DEF ModelTypes
  <2>2. PICK r : /\ DOMAIN r = {"cap", "closed", "counter", "lock", "ready"}
                 /\ r.closed = FALSE /\ r.ready = FALSE /\ r.counter = 0 /\ models' = Append(models, r)
    BY <1>4
  <2>3. Go(t, "register", [model |-> n + 1])
    BY <1>4, <2>1
  <2>4. pc'[t] = "register" /\ arg'[t] = [model |-> n + 1] /\ Moves(t, {pc[t]}, {"register"})
    BY <1>1, <2>3, GoMoves
  <2>5. arg'[t].model = n + 1
    BY <2>4
  <2>6. /\ models' = [i \in 1 .. n + 1 |-> models'[i]] /\ models'[n + 1] = r
        /\ \A i \in 1 .. n : models'[i] = models[i]
    <3>1. PICK S : S = Range(models) \cup {r}
      OBVIOUS
    <3>2. models \in [1 .. n -> S]
      BY <1>2, <2>1, <3>1 DEF ModelTypes
    <3>3. models \in Seq(S) /\ r \in S
      BY <3>1, <3>2, SeqDef
    <3>4. /\ Append(models, r) \in Seq(S) /\ Len(Append(models, r)) = n + 1
          /\ \A i \in 1 .. n : Append(models, r)[i] = models[i]
          /\ Append(models, r)[n + 1] = r
      BY <2>1, <3>3, AppendProperties
    <3>5. models' \in [1 .. n + 1 -> S]
      BY <2>2, <3>4, LenProperties
    <3> QED BY <2>2, <3>4, <3>5
  <2>7. /\ DOMAIN models' = 1 .. n + 1 /\ models'[n + 1] = r /\ n + 1 \in DOMAIN models'
        /\ \A i \in 1 .. n : models'[i] = models[i] /\ i \in DOMAIN models'
        /\ \A i \in DOMAIN models' : i \in 1 .. n \/ i = n + 1
    BY <2>6
  <2>8. ModelTypes' /\ DOMAIN models \subseteq DOMAIN models'
    <3>2. models' \in Seq(Range(models'))
      BY <2>6, FunctionIsSeq
    <3>3. \A i \in DOMAIN models' :
            /\ DOMAIN models'[i] = {"cap", "closed", "counter", "lock", "ready"}
            /\ models'[i].closed \in BOOLEAN /\ models'[i].ready \in BOOLEAN /\ models'[i].counter \in Nat
      <4>1. \A i \in 1 .. n :
              /\ DOMAIN models'[i] = {"cap", "closed", "counter", "lock", "ready"}
              /\ models'[i].closed \in BOOLEAN /\ models'[i].ready \in BOOLEAN /\ models'[i].counter \in Nat
        BY <1>2, <2>1, <2>7 DEF ModelTypes
      <4>2. /\ DOMAIN models'[n + 1] = {"cap", "closed", "counter", "lock", "ready"}
            /\ models'[n + 1].closed \in BOOLEAN /\ models'[n + 1].ready \in BOOLEAN
            /\ models'[n + 1].counter \in Nat
        <5>1. models'[n + 1] = r
          BY <2>7
        <5>2. /\ DOMAIN r = {"cap", "closed", "counter", "lock", "ready"}
              /\ r.closed \in BOOLEAN /\ r.ready \in BOOLEAN /\ r.counter \in Nat
          <6>1. /\ DOMAIN r = {"cap", "closed", "counter", "lock", "ready"}
                /\ r.closed = FALSE /\ r.ready = FALSE /\ r.counter = 0
            BY <2>2, Zenon
          <6>2. r.closed \in BOOLEAN /\ r.ready \in BOOLEAN
            BY <6>1, Zenon
          <6>3. r.counter \in Nat
            BY <6>1
          <6> QED BY <6>1, <6>2, <6>3
        <5> QED BY <5>1, <5>2
      <4> QED BY <2>7, <4>1, <4>2
    <3> QED BY <2>1, <2>7, <3>2, <3>3 DEF ModelTypes
  <2>9. CloseHoldsLock'
    BY <1>1, <2>4 DEF CloseInv, CloseHoldsLock, Moves
  <2>10. ModelsKnown'
    <3>1. /\ Range(_models) \subseteq DOMAIN models' /\ (_closed => Range(_models) \subseteq late)
      BY <2>8 DEF CloseInv, ModelsKnown
    <3>2. ASSUME NEW k \in DOMAIN models', models'[k].ready
          PROVE  k \in Range(_models) \/ models'[k].closed \/ k \in replaced \cup late
      <4>1. k \in 1 .. n /\ models'[k] = models[k]
        BY <2>2, <2>7, <3>2
      <4> QED BY <2>1, <3>2, <4>1 DEF CloseInv, ModelsKnown
    <3>3. ASSUME NEW u \in Threads
          PROVE  /\ pc'[u] = "register" => arg'[u].model \in DOMAIN models'
                 /\ pc'[u] = "close models" =>
                      /\ arg'[u].left \subseteq DOMAIN models'
                      /\ \A k \in Range(_models) : k \in arg'[u].left \/ models'[k].closed
      <4>1. CASE u = t
        BY <2>4, <2>5, <2>7, <4>1
      <4>2. CASE u # t
        <5>1. pc'[u] = pc[u] /\ arg'[u] = arg[u]
          BY <2>4, <4>2 DEF Moves
        <5>2. /\ pc[u] = "register" => arg[u].model \in DOMAIN models
              /\ pc[u] = "close models" =>
                      /\ arg[u].left \subseteq DOMAIN models
                      /\ \A k \in Range(_models) : k \in arg[u].left \/ models[k].closed
              /\ Range(_models) \subseteq DOMAIN models
          BY DEF CloseInv, ModelsKnown
        <5> QED BY <2>1, <2>7, <2>8, <5>1, <5>2
      <4> QED BY <4>1, <4>2
    <3>4. UNCHANGED <<_models, _closed, replaced, late>>
      BY <1>1
    <3> QED BY <3>1, <3>2, <3>3, <3>4 DEF ModelsKnown
  <2> QED BY <2>8, <2>9, <2>10 DEF CloseInv
<1> QED BY <1>3, <1>4 DEF connect

(* close goes through the dict with the runtime's lock held: nothing is    *)
(* registered meanwhile, and at the end every model of the dict is closed. *)
LEMMA CloseSteps ==
  ASSUME TokenInv, TypeOK, CloseInv, NEW t \in Threads,
         close(t) \/ CloseModels(t) \/ CloseRuntime(t) \/ CloseTransport(t) \/ DropContext(t)
  PROVE  CloseInv' /\ ModelTypes' /\ DOMAIN models' = DOMAIN models
<1>1. /\ DOMAIN pc = Threads /\ DOMAIN arg = Threads /\ ModelTypes
      /\ \A u \in Threads : pc[u] \in {"close models", "close transport", "drop context"} <=> rt_lock = u
  BY DEF TypeOK, ModelTypes, TokenInv, TokenTypeOK, CloseInv, CloseHoldsLock
<1>2. /\ Range(_models) \subseteq DOMAIN models /\ (_closed => Range(_models) \subseteq late)
      /\ \A k \in DOMAIN models :
           models[k].ready => k \in Range(_models) \/ models[k].closed \/ k \in replaced \cup late
  BY DEF CloseInv, ModelsKnown
<1>3. \A u \in Threads : pc[u] = "register" => arg[u].model \in DOMAIN models
  BY DEF CloseInv, ModelsKnown
<1>4. CASE close(t)
  <2>1. /\ pc[t] = "close" /\ rt_lock = None /\ rt_lock' = t
        /\ UNCHANGED <<_models, _closed, models, replaced, late>>
        /\ Go(t, "close models", [left |-> Range(_models)])
    BY <1>4 DEF close
  <2>2. /\ pc'[t] = "close models" /\ arg'[t] = [left |-> Range(_models)]
        /\ \A u \in Threads \ {t} : pc'[u] = pc[u] /\ arg'[u] = arg[u]
    BY <1>1, <2>1, GoMoves DEF Moves
  <2>3. arg'[t].left = Range(_models)
    <3>1. arg'[t] = [left |-> Range(_models)]
      BY <2>2
    <3> QED BY <3>1
  <2>4. \A u \in Threads : pc[u] \notin {"close models", "close transport", "drop context"}
    BY <1>1, <2>1, ThreadAssumption
  <2>5. CloseHoldsLock'
    BY <2>1, <2>2, <2>4 DEF CloseHoldsLock
  <2>6. ASSUME NEW u \in Threads
        PROVE  /\ pc'[u] = "register" => arg'[u].model \in DOMAIN models
               /\ pc'[u] = "close models" =>
                      /\ arg'[u].left \subseteq DOMAIN models
                      /\ \A k \in Range(_models) : k \in arg'[u].left \/ models[k].closed
    <3>1. CASE u = t
      BY <1>2, <2>2, <2>3, <3>1
    <3>2. CASE u # t
      BY <1>3, <2>2, <2>4, <3>2
    <3> QED BY <3>1, <3>2
  <2>7. ModelsKnown'
    BY <1>2, <2>1, <2>6 DEF ModelsKnown
  <2> QED BY <1>1, <2>1, <2>5, <2>7 DEF CloseInv, ModelTypes
<1>5. CASE CloseModels(t)
  <2>1. PICK m \in arg[t].left :
          /\ pc[t] = "close models" /\ UNCHANGED <<_models, _closed, rt_lock, replaced, late>>
          /\ models' = [models EXCEPT ![m] = [models[m] EXCEPT !.closed = TRUE]]
          /\ Go(t, "close models", [left |-> arg[t].left \ {m}])
    BY <1>5 DEF CloseModels
  <2>2. /\ pc'[t] = "close models" /\ arg'[t] = [left |-> arg[t].left \ {m}]
        /\ \A u \in Threads \ {t} : pc'[u] = pc[u] /\ arg'[u] = arg[u]
    <3>1. PICK x : x = [left |-> arg[t].left \ {m}]
      OBVIOUS
    <3>2. Go(t, "close models", x)
      BY <2>1, <3>1
    <3>3. pc'[t] = "close models" /\ arg'[t] = x /\ Moves(t, {pc[t]}, {"close models"})
      BY <1>1, <3>2, GoMoves
    <3> QED BY <3>1, <3>3 DEF Moves
  <2>3. arg'[t].left = arg[t].left \ {m}
    <3>1. arg'[t] = [left |-> arg[t].left \ {m}]
      BY <2>2
    <3> QED BY <3>1
  <2>4. /\ arg[t].left \subseteq DOMAIN models /\ m \in DOMAIN models
        /\ \A k \in Range(_models) : k \in arg[t].left \/ models[k].closed
    BY <2>1 DEF CloseInv, ModelsKnown
  <2>5. PICK r : r = [models[m] EXCEPT !.closed = TRUE]
    OBVIOUS
  <2>6. /\ DOMAIN r = {"cap", "closed", "counter", "lock", "ready"} /\ r.closed = TRUE
        /\ r.ready = models[m].ready /\ r.ready \in BOOLEAN /\ r.counter \in Nat
    BY <1>1, <2>4, <2>5 DEF ModelTypes
  <2>7. models' = [models EXCEPT ![m] = r] /\ r.closed \in BOOLEAN
    BY <2>1, <2>5, <2>6
  <2>8. ModelTypes' /\ DOMAIN models' = DOMAIN models
    BY <1>1, <2>6, <2>7, ModelField
  <2>9. /\ \A k \in DOMAIN models : models'[k].ready = models[k].ready
        /\ models'[m].closed /\ \A k \in DOMAIN models : models[k].closed => models'[k].closed
    <3>1. models'[m] = r /\ \A k \in DOMAIN models \ {m} : models'[k] = models[k]
      BY <2>4, <2>7
    <3> QED BY <2>6, <3>1
  <2>10. CloseHoldsLock'
    BY <1>1, <2>1, <2>2 DEF CloseHoldsLock
  <2>11. \A u \in Threads \ {t} : pc[u] # "close models"
    <3>1. rt_lock = t
      BY <1>1, <2>1
    <3>2. ASSUME NEW u \in Threads \ {t}, pc[u] = "close models" PROVE FALSE
      BY <1>1, <3>1, <3>2
    <3> QED BY <3>2
  <2>12. ASSUME NEW u \in Threads
         PROVE  /\ pc'[u] = "register" => arg'[u].model \in DOMAIN models'
                /\ pc'[u] = "close models" =>
                      /\ arg'[u].left \subseteq DOMAIN models'
                      /\ \A k \in Range(_models) : k \in arg'[u].left \/ models'[k].closed
    <3>1. CASE u = t
      <4>1. arg'[u].left \subseteq DOMAIN models' /\ pc'[u] = "close models"
        BY <2>2, <2>3, <2>4, <2>8, <3>1
      <4>2. ASSUME NEW k \in Range(_models), k \notin arg'[u].left PROVE models'[k].closed
        BY <1>2, <2>3, <2>4, <2>9, <3>1, <4>2
      <4> QED BY <4>1, <4>2
    <3>2. CASE u # t
      BY <1>3, <2>2, <2>8, <2>11, <3>2
    <3> QED BY <3>1, <3>2
  <2>13. ASSUME NEW k \in DOMAIN models', models'[k].ready
         PROVE  k \in Range(_models) \/ models'[k].closed \/ k \in replaced \cup late
    BY <1>2, <2>8, <2>9, <2>13
  <2>14. Range(_models) \subseteq DOMAIN models'
    BY <1>2, <2>8
  <2>15. UNCHANGED <<_models, _closed, replaced, late>>
    BY <2>1
  <2>16. ModelsKnown'
    BY <1>2, <2>12, <2>13, <2>14, <2>15 DEF ModelsKnown
  <2> QED BY <2>8, <2>10, <2>16 DEF CloseInv
<1>6. CASE CloseRuntime(t)
  <2>1. /\ pc[t] = "close models" /\ arg[t].left = {} /\ _models' = << >> /\ _closed' = TRUE
        /\ UNCHANGED <<rt_lock, models, replaced, late>> /\ Go(t, "close transport", None)
    BY <1>6 DEF CloseRuntime
  <2>2. /\ pc'[t] = "close transport"
        /\ \A u \in Threads \ {t} : pc'[u] = pc[u] /\ arg'[u] = arg[u]
    BY <1>1, <2>1, GoMoves DEF Moves
  <2>3. \A k \in Range(_models) : models[k].closed
    BY <2>1 DEF CloseInv, ModelsKnown
  <2>4. CloseHoldsLock'
    BY <1>1, <2>1, <2>2 DEF CloseHoldsLock
  <2>5. \A u \in Threads : pc'[u] # "close models"
    BY <1>1, <2>1, <2>2
  <2>6. Range(_models') = {}
    <3>1. DOMAIN _models' = {}
      <4>1. _models' = << >>
        BY <2>1
      <4> QED BY <4>1
    <3> QED BY <3>1 DEF Range
  <2>7. \A k \in DOMAIN models : models[k].ready => models[k].closed \/ k \in replaced \cup late
    BY <1>2, <2>3
  <2>8. \A u \in Threads : pc'[u] = "register" => arg'[u].model \in DOMAIN models
    BY <1>3, <2>2
  <2>9. ModelsKnown'
    BY <2>1, <2>5, <2>6, <2>7, <2>8 DEF ModelsKnown
  <2> QED BY <1>1, <2>1, <2>4, <2>9 DEF CloseInv, ModelTypes
<1>7. CASE CloseTransport(t) \/ DropContext(t)
  <2>1. /\ pc[t] \in {"close transport", "drop context"} /\ pc'[t] \in {"drop context", "idle"}
        /\ UNCHANGED <<_models, _closed, models, replaced, late>>
        /\ \A u \in Threads \ {t} : pc'[u] = pc[u] /\ arg'[u] = arg[u]
        /\ pc'[t] = "idle" => rt_lock' = None
        /\ pc'[t] = "drop context" => rt_lock' = rt_lock
    <3>1. PICK to \in {"drop context", "idle"} :
            /\ Go(t, to, None) /\ pc[t] \in {"close transport", "drop context"}
            /\ UNCHANGED <<_models, _closed, models, replaced, late>>
            /\ rt_lock' = IF to = "idle" THEN None ELSE rt_lock
      BY <1>7 DEF CloseTransport, DropContext
    <3>2. pc'[t] = to /\ Moves(t, {pc[t]}, {to})
      BY <1>1, <3>1, GoMoves
    <3> QED BY <3>1, <3>2 DEF Moves
  <2>2. CloseHoldsLock'
    BY <1>1, <2>1, ThreadAssumption DEF CloseHoldsLock
  <2>3. \A u \in Threads : pc'[u] # "close models"
    BY <1>1, <2>1
  <2>4. \A u \in Threads : pc'[u] = "register" => arg'[u].model \in DOMAIN models
    BY <1>3, <2>1
  <2>5. ModelsKnown'
    BY <1>2, <2>1, <2>3, <2>4 DEF ModelsKnown
  <2> QED BY <1>1, <2>1, <2>2, <2>5 DEF CloseInv, ModelTypes
<1> QED BY <1>4, <1>5, <1>6, <1>7

(* Every operation of the runtime keeps the invariant. *)
LEMMA RuntimeSteps ==
  ASSUME Parts, NEW t \in Threads, RuntimeStep(t)
  PROVE  Parts'
<1>1. /\ TokenInv /\ TypeOK /\ CloseInv /\ CallInv /\ ViewsBalance /\ ModelTypes
      /\ DOMAIN pc = Threads /\ DOMAIN arg = Threads
  BY DEF Parts, TokenInv, TokenTypeOK, TypeOK, ModelTypes
<1>2. PICK to \in {"idle", "connect", "close"} \cup ClosePoints : Moves(t, {pc[t]}, {to})
  BY <1>1, RuntimeMoves
<1>3. /\ UNCHANGED tokenVars /\ UNCHANGED <<job, results, sent>> /\ UNCHANGED views
      /\ transport.closed => transport'.closed
      /\ transport' \in [kind : {"native", "http"}, closed : BOOLEAN, ctx : BOOLEAN]
  BY <1>1, RuntimeMoves
<1>4. /\ pc[t] \notin Holding /\ to \notin Holding /\ to \notin Sending
      /\ pc[t] \notin {"view", "use view"} /\ to \notin {"view", "use view"}
      /\ to \notin {"call", "id", "take id", "use view"}
  <2>1. pc[t] \in {"idle", "connect", "close"} \cup ClosePoints
    BY <1>1, RuntimeMoves
  <2> QED BY <1>2, <2>1 DEF ClosePoints, Holding, Sending
<1>5. TokenInv'
  BY <1>1, <1>2, <1>3, <1>4, TokenFrame
<1>6. CallInv'
  <2>1. _cancelled' = _cancelled
    BY <1>3 DEF tokenVars
  <2> QED BY <1>1, <1>2, <1>3, <1>4, <2>1, CallFrame
<1>7. ViewsBalance'
  BY <1>1, <1>2, <1>3, <1>4, ViewFrame
<1>8. CloseInv' /\ ModelTypes' /\ DOMAIN models \subseteq DOMAIN models'
  <2>1. ASSUME pc[t] = "idle", NEW p \in {"idle", "connect", "close"}, Moves(t, {pc[t]}, {p}),
               UNCHANGED <<_models, _closed, rt_lock, replaced, late>>, DOMAIN models' = DOMAIN models,
               \A m \in DOMAIN models : models'[m].ready = models[m].ready,
               \A m \in DOMAIN models : models[m].closed => models'[m].closed
        PROVE  CloseInv'
    <3>1. pc[t] \notin ClosePoints /\ p \notin ClosePoints
      BY <2>1 DEF ClosePoints
    <3> QED BY <1>1, <2>1, <3>1, CloseFrame
  <2>2. CASE (\E queries : CallConnect(t, queries)) \/ CallClose(t)
    <3>1. PICK p \in {"connect", "close"} : \E x :
            /\ pc[t] = "idle" /\ Go(t, p, x) /\ UNCHANGED <<_models, _closed, rt_lock, replaced, late, models>>
      BY <2>2 DEF CallConnect, CallClose, sdkVars
    <3>2. Moves(t, {pc[t]}, {p})
      BY <1>1, <3>1, GoMoves
    <3> QED BY <1>1, <2>1, <3>1, <3>2 DEF ModelTypes
  <2>3. ASSUME NEW m \in DOMAIN models, CloseModel(t, m)
        PROVE  CloseInv' /\ ModelTypes' /\ DOMAIN models' = DOMAIN models
    <3>1. PICK r : r = [models[m] EXCEPT !.closed = TRUE]
      OBVIOUS
    <3>2. /\ pc[t] = "idle" /\ UNCHANGED <<pc, arg>> /\ UNCHANGED <<_models, _closed, rt_lock, replaced, late>>
          /\ models' = [models EXCEPT ![m] = r]
      BY <2>3, <3>1 DEF CloseModel
    <3>3. /\ DOMAIN r = {"cap", "closed", "counter", "lock", "ready"} /\ r.closed = TRUE
          /\ r.ready = models[m].ready /\ r.ready \in BOOLEAN /\ r.counter \in Nat
      BY <1>1, <3>1 DEF ModelTypes
    <3>4. ModelTypes' /\ DOMAIN models' = DOMAIN models
      BY <1>1, <3>2, <3>3, ModelField
    <3>5. models'[m] = r /\ \A k \in DOMAIN models \ {m} : models'[k] = models[k]
      BY <3>2
    <3>6. /\ \A k \in DOMAIN models : models'[k].ready = models[k].ready
          /\ \A k \in DOMAIN models : models[k].closed => models'[k].closed
      BY <3>3, <3>5
    <3>7. Moves(t, {pc[t]}, {"idle"})
      BY <1>1, <3>2 DEF Moves
    <3> QED BY <2>1, <3>2, <3>4, <3>6, <3>7
  <2> QED BY <1>1, <2>2, <2>3, ConnectKeeps, RegisterKeeps, CloseSteps DEF RuntimeStep
<1>9. _closed' \in BOOLEAN /\ rt_lock' \in Threads \cup {None}
  <2>1. _closed \in BOOLEAN /\ rt_lock \in Threads \cup {None}
    BY <1>1 DEF TypeOK
  <2>2. /\ _closed' = _closed \/ _closed' = TRUE
        /\ rt_lock' = rt_lock \/ rt_lock' = t \/ rt_lock' = None
    BY DEF RuntimeStep, CallConnect, CallClose, CloseModel, connect, Register, close, CloseModels,
           CloseRuntime, CloseTransport, DropContext, sdkVars
  <2> QED BY <2>1, <2>2
<1>10. TypeOK'
  <2>1. pc'[t] = to
    BY <1>2 DEF Moves
  <2>2. ThreadTypes(t)'
    BY <1>4, <2>1 DEF ThreadTypes
  <2>3. /\ views' \in [made : Nat, freed : Nat, bare : Nat, dropped : Nat]
        /\ job' \in [Threads -> Jobs] /\ \A u \in Threads \ {t} : job'[u] = job[u]
    BY <1>1, <1>3 DEF TypeOK
  <2> QED BY <1>1, <1>2, <1>3, <1>8, <1>9, <2>2, <2>3, TypesFrame
<1> QED BY <1>5, <1>6, <1>7, <1>8, <1>10 DEF Parts

(* A call begins: it notes whether the transport was closed before it. *)
LEMMA CallBegins ==
  ASSUME Parts, NEW t \in Threads,
         \/ \E m \in DOMAIN models, token \in {None, "token"}, streams \in BOOLEAN, n \in Instructions :
              Call(t, m, token, streams, n)
         \/ \E op \in {"decode", "send"} : CallDecode(t, op)
  PROVE  Parts'
<1>1. /\ TokenInv /\ TypeOK /\ CloseInv /\ CallInv /\ ViewsBalance /\ ModelTypes
      /\ DOMAIN pc = Threads /\ DOMAIN arg = Threads
  BY DEF Parts, TokenInv, TokenTypeOK, TypeOK, ModelTypes
<1>2. PICK to \in {"call", "decode"}, j \in Jobs :
        /\ pc[t] = "idle" /\ Go(t, to, None) /\ job' = [job EXCEPT ![t] = j]
        /\ UNCHANGED tokenVars
        /\ UNCHANGED <<_models, _closed, rt_lock, models, transport, sent, results, replaced, late, views>>
        /\ j.after => transport.closed
        /\ to = "decode" => ~j.after /\ ~j.late
        /\ to = "call" => j.m \in DOMAIN models
  <2>0. NoJob \in Jobs /\ ~NoJob.after /\ ~NoJob.late
    BY DEF NoJob, Jobs
  <2>1. transport.closed \in BOOLEAN /\ DOMAIN models = 1 .. Len(models) /\ Len(models) \in Nat
    <3>1. transport.closed \in BOOLEAN
      BY <1>1 DEF TypeOK
    <3>2. DOMAIN models = 1 .. Len(models) /\ Len(models) \in Nat
      BY <1>1 DEF ModelTypes
    <3> QED BY <3>1, <3>2
  <2>2. CASE \E m \in DOMAIN models, token \in {None, "token"}, streams \in BOOLEAN, n \in Instructions :
               Call(t, m, token, streams, n)
    <3>1. PICK m \in DOMAIN models, token \in {None, "token"}, streams \in BOOLEAN, n \in Instructions :
            Call(t, m, token, streams, n)
      BY <2>2
    <3>2. PICK j : j = [NoJob EXCEPT !.m = m, !.token = token, !.streams = streams,
                                     !.frame = _encode_instruction(n), !.after = transport.closed]
      OBVIOUS
    <3>3. j \in Jobs /\ j.m = m /\ j.after = transport.closed
      <4>1. m \in Nat /\ _encode_instruction(n) \in [length : Nat, version : Nat]
        BY <2>1, InstructionAssumption DEF _encode_instruction
      <4> QED BY <2>0, <2>1, <3>2, <4>1 DEF Jobs
    <3>4. job' = [job EXCEPT ![t] = j]
      BY <3>1, <3>2 DEF Call
    <3> QED BY <3>1, <3>2, <3>3, <3>4 DEF Call
  <2>3. CASE \E op \in {"decode", "send"} : CallDecode(t, op)
    <3>1. PICK op \in {"decode", "send"} : CallDecode(t, op)
      BY <2>3
    <3>2. PICK j : j = [NoJob EXCEPT !.frame = [length |-> HEADER_SIZE + 1, version |-> 256], !.token = op]
      OBVIOUS
    <3>3. j \in Jobs /\ ~j.after /\ ~j.late
      <4>1. [length |-> HEADER_SIZE + 1, version |-> 256] \in [length : Nat, version : Nat]
        BY DEF HEADER_SIZE
      <4>2. PICK f \in [length : Nat, version : Nat] : j = [NoJob EXCEPT !.frame = f, !.token = op]
        BY <3>2, <4>1
      <4>3. j \in Jobs
        BY <2>0, <4>2 DEF Jobs
      <4>4. j.after = NoJob.after /\ j.late = NoJob.late
        BY <2>0, <4>2 DEF Jobs
      <4> QED BY <2>0, <4>3, <4>4
    <3>4. job' = [job EXCEPT ![t] = j]
      BY <3>1, <3>2 DEF CallDecode
    <3> QED BY <3>1, <3>2, <3>3, <3>4 DEF CallDecode
  <2> QED BY <2>2, <2>3
<1>3. pc'[t] = to /\ Moves(t, {pc[t]}, {to})
  BY <1>1, <1>2, GoMoves
<1>4. /\ pc[t] \notin Holding /\ to \notin Holding /\ pc[t] \notin ClosePoints /\ to \notin ClosePoints
      /\ pc[t] \notin {"view", "use view"} /\ to \notin {"view", "use view"}
  BY <1>2 DEF Holding, ClosePoints
<1>5. TokenInv'
  BY <1>1, <1>2, <1>3, <1>4, TokenFrame
<1>6. CloseInv'
  BY <1>1, <1>2, <1>3, <1>4, CloseFrame
<1>7. ViewsBalance'
  BY <1>1, <1>2, <1>3, <1>4, ViewFrame
<1>8. /\ job'[t] = j /\ job' \in [Threads -> Jobs] /\ \A u \in Threads \ {t} : job'[u] = job[u]
  BY <1>1, <1>2 DEF TypeOK
<1>9. TypeOK'
  <2>1. ThreadTypes(t)' /\ ModelTypes'
    BY <1>1, <1>2, <1>3, <1>8 DEF ThreadTypes, ModelTypes
  <2>2. /\ _closed' \in BOOLEAN /\ rt_lock' \in Threads \cup {None}
        /\ transport' \in [kind : {"native", "http"}, closed : BOOLEAN, ctx : BOOLEAN]
        /\ views' \in [made : Nat, freed : Nat, bare : Nat, dropped : Nat]
        /\ DOMAIN models \subseteq DOMAIN models'
    BY <1>1, <1>2 DEF TypeOK
  <2> QED BY <1>1, <1>3, <1>8, <2>1, <2>2, TypesFrame
<1>10. CallInv'
  <2>1. \A u \in Threads \ {t} : pc'[u] = pc[u]
    BY <1>3 DEF Moves
  <2>2. UNCHANGED <<transport, results, sent, _cancelled>>
    BY <1>2 DEF tokenVars
  <2>3. CallsKnowClosed'
    BY <1>1, <1>2, <1>3, <1>8, <2>1, <2>2 DEF CallInv, CallsKnowClosed, Sending
  <2>4. CallsKnowCancelled'
    BY <1>1, <1>2, <1>3, <1>8, <2>1, <2>2 DEF CallInv, CallsKnowCancelled
  <2> QED BY <1>1, <2>2, <2>3, <2>4 DEF CallInv, ClosedIsSilent, NoLateSuccess
<1> QED BY <1>5, <1>6, <1>7, <1>9, <1>10 DEF Parts

----------------------------------------------------------------------------
(* The initial state has the invariant. *)
LEMMA Starts == Init => Parts
<1> SUFFICES ASSUME Init PROVE Parts
  OBVIOUS
<1>1. /\ _cancelled = FALSE /\ _event = FALSE /\ _callbacks = << >> /\ _lock = None
      /\ pc = [t \in Threads |-> "idle"] /\ arg = [t \in Threads |-> None]
      /\ given = {} /\ runs = [c \in Callbacks |-> 0]
  BY DEF Init, TokenInit
<1>2. /\ _models = << >> /\ _closed = FALSE /\ rt_lock = None /\ models = << >>
      /\ job = [t \in Threads |-> NoJob] /\ sent = {} /\ results = {}
      /\ views = [made |-> 0, freed |-> 0, bare |-> 0, dropped |-> 0]
  BY DEF Init
<1>3. transport \in [kind : {"native", "http"}, closed : BOOLEAN, ctx : BOOLEAN]
  BY DEF Init, Select
<1>4. NoJob \in Jobs /\ ~NoJob.after /\ ~NoJob.late
  BY DEF NoJob, Jobs
<1>5. TokenInv
  <2>1. ToRun = << >>
    BY <1>1 DEF ToRun
  <2>2. TokenTypeOK
    <3>1. _callbacks \in Seq(Callbacks) /\ given \subseteq Callbacks
      BY <1>1
    <3>2. runs \in [Callbacks -> Nat] /\ DOMAIN pc = Threads /\ DOMAIN arg = Threads
      BY <1>1
    <3>3. \A t \in Threads : pc[t] # "callbacks"
      BY <1>1
    <3> QED BY <1>1, <3>1, <3>2, <3>3 DEF TokenTypeOK
  <2>3. LockHeld /\ ListedOnce /\ WaitingOnce /\ NoneForgotten
    BY <1>1, <2>1, ThreadAssumption DEF LockHeld, ListedOnce, WaitingOnce, NoneForgotten
  <2> QED BY <2>2, <2>3 DEF TokenInv
<1>6. TypeOK
  <2>1. models \in Seq(Range(models)) /\ DOMAIN models = {}
    BY <1>2
  <2> QED BY <1>1, <1>2, <1>3, <1>4, <2>1 DEF TypeOK
<1>7. CloseInv
  <2>1. DOMAIN models = {} /\ Range(_models) = {}
    BY <1>2 DEF Range
  <2> QED BY <1>1, <1>2, <2>1, ThreadAssumption DEF CloseInv, CloseHoldsLock, ModelsKnown
<1>8. CallInv
  BY <1>1, <1>2, <1>4 DEF CallInv, CallsKnowClosed, CallsKnowCancelled, ClosedIsSilent, NoLateSuccess, Sending
<1>9. ViewsBalance
  <2>1. Hand = {}
    BY <1>1 DEF Hand
  <2>2. InHand = 0
    BY <2>1, FS_EmptySet DEF InHand, Hand
  <2> QED BY <1>2, <2>2 DEF ViewsBalance
<1> QED BY <1>5, <1>6, <1>7, <1>8, <1>9 DEF Parts

(* Every step of the SDK keeps it. *)
LEMMA Keeps == Parts /\ [Next]_vars => Parts'
<1> SUFFICES ASSUME Parts, [Next]_vars PROVE Parts'
  OBVIOUS
<1>1. CASE UNCHANGED vars
  <2>1. UNCHANGED <<_cancelled, _event, _callbacks, _lock, given, runs, pc, arg>>
        /\ UNCHANGED <<_models, _closed, rt_lock, models, transport, job, sent, results, replaced, late, views>>
    BY <1>1 DEF vars, tokenVars, sdkVars
  <2>2. TokenInv'
    BY <2>1 DEF Parts, TokenInv, TokenTypeOK, LockHeld, ListedOnce, WaitingOnce, NoneForgotten, ToRun, Waiting
  <2>3. TypeOK'
    BY <2>1 DEF Parts, TypeOK
  <2>4. CloseInv'
    BY <2>1 DEF Parts, CloseInv, CloseHoldsLock, ModelsKnown
  <2>5. CallInv'
    BY <2>1 DEF Parts, CallInv, CallsKnowClosed, CallsKnowCancelled, ClosedIsSilent, NoLateSuccess
  <2>6. ViewsBalance'
    BY <2>1 DEF Parts, ViewsBalance, InHand
  <2> QED BY <2>2, <2>3, <2>4, <2>5, <2>6 DEF Parts
<1>2. ASSUME NEW t \in Threads, Begin(t) PROVE Parts'
  <2>1. CASE TokenCall(t) /\ UNCHANGED sdkVars
    BY <2>1, TokenKeeps
  <2>2. CASE RuntimeStep(t)
    BY <2>2, RuntimeSteps
  <2>3. CASE \/ \E m \in DOMAIN models, token \in {None, "token"}, streams \in BOOLEAN, n \in Instructions :
                  Call(t, m, token, streams, n)
             \/ \E op \in {"decode", "send"} : CallDecode(t, op)
    BY <2>3, CallBegins
  <2> QED BY <1>2, <2>1, <2>2, <2>3 DEF Begin, RuntimeStep
<1>3. ASSUME NEW t \in Threads, Run(t) PROVE Parts'
  <2>1. CASE TokenStep(t) /\ UNCHANGED sdkVars
    BY <2>1, TokenKeeps
  <2>2. CASE RuntimeStep(t)
    BY <2>2, RuntimeSteps
  <2>3. CASE CallStep(t)
    BY <2>3, CallSteps
  <2> QED BY <1>3, <2>1, <2>2, <2>3 DEF Run, Step, RuntimeStep, CallStep
<1> QED BY <1>1, <1>2, <1>3 DEF Next

(* The inductive invariant of the SDK: whatever the threads do, callbacks  *)
(* are on their way once, close has the dict to itself, calls know of the  *)
(* flags they passed, and views are accounted for.                         *)
THEOREM SdkCorrect == Spec => []SdkInv
<1>1. Parts => SdkInv
  BY DEF Parts, SdkInv, CloseInv, CallInv
<1> QED BY <1>1, Starts, Keeps, PTL DEF Spec

(* cancel and on_cancelled, however they meet: each callback is called at  *)
(* most once, never before a cancel, and none is forgotten.                *)
THEOREM CallbacksCalledOnce == Spec => []CallbacksOnce
<1>1. SdkInv => CallbacksOnce
  <2> SUFFICES ASSUME SdkInv PROVE CallbacksOnce
    OBVIOUS
  <2>1. \A c \in Callbacks : runs[c] <= IF _cancelled THEN 1 ELSE 0
    BY DEF SdkInv, TokenInv, NoneForgotten
  <2>2. ASSUME _cancelled, _lock = None, NEW c \in given
        PROVE  runs[c] = 1 \/ Waiting(c)
    <3>1. ToRun = << >>
      BY <2>2 DEF ToRun
    <3>2. runs[c] = 1 \/ Waiting(c) \/ \E i \in 1 .. Len(ToRun) : ToRun[i] = c
      BY <2>2 DEF SdkInv, TokenInv, NoneForgotten
    <3> QED BY <3>1, <3>2
  <2> QED BY <2>1, <2>2 DEF CallbacksOnce, Waiting
<1> QED BY <1>1, SdkCorrect, PTL

(* AICLRuntime.close reaches every model whose entry in the dict is its    *)
(* own, also when connect runs at the same time.                           *)
THEOREM CloseReaches == Spec => []CloseReachesModels
<1>1. SdkInv => CloseReachesModels
  BY DEF SdkInv, ModelsKnown, CloseReachesModels
<1> QED BY <1>1, SdkCorrect, PTL

(* No call or stream begun after the transport was closed puts a request   *)
(* on the wire or succeeds.                                                *)
THEOREM ClosedStaysSilent == Spec => []ClosedIsSilent
<1>1. SdkInv => ClosedIsSilent
  BY DEF SdkInv
<1> QED BY <1>1, SdkCorrect, PTL

(* Model.call never returns, as a success, an answer that a cancel of its  *)
(* token came before.                                                      *)
THEOREM CancelledIsNoSuccess == Spec => []NoLateSuccess
<1>1. SdkInv => NoLateSuccess
  BY DEF SdkInv
<1> QED BY <1>1, SdkCorrect, PTL

(* Every view that aicl_decode made is in a thread's hands, was freed by   *)
(* AiclPacketView, or was lost by send or to a context closed meanwhile.   *)
THEOREM ViewsAccounted == Spec => []ViewsBalance
<1>1. SdkInv => ViewsBalance
  BY DEF SdkInv
<1> QED BY <1>1, SdkCorrect, PTL

=============================================================================
