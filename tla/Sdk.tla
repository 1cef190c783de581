-------------------------------- MODULE Sdk --------------------------------
(***************************************************************************)
(* aicl/sdk: runtime.py, model.py, transport.py, capabilities.py and the   *)
(* part of _ffi.py they use.  Threads of the application share a runtime,  *)
(* the models it handed out and one cancellation token.                    *)
(*                                                                         *)
(* Models are numbered in the order they are made.  A frame is the record  *)
(* of what the native decoder looks at.  The gateway behind HttpTransport  *)
(* is external and answers anything; the Rust core is there as far as it   *)
(* looks at the frames, which is their length and their version.           *)
(***************************************************************************)
EXTENDS CancellationToken, FiniteSets

CONSTANTS Queries,          \* strings connect may be asked for
          Capabilities,     \* the names of a CapabilitySet, in its order
          Matches,          \* Matches[q]: the capabilities that match q
          Instructions,     \* the lengths of the instructions of calls
          MaxOps            \* bound on the operations the threads begin

ASSUME InstructionAssumption == Instructions \subseteq Nat

VARIABLES _models,     \* AICLRuntime._models, from capability names
          _closed,     \* AICLRuntime._closed
          rt_lock,     \* AICLRuntime._lock
          models,      \* every Model made: capability, closed, counter, lock; history:
                       \* was it handed out
          transport,   \* the kind of transport, its closed flag, has it a context
          job,         \* the call a thread is in: model, message id, token
          sent,        \* history: the calls whose request reached the gateway
          results,     \* history: the calls that returned, and what
          replaced, late,   \* history: models whose entry was overwritten; registered after close
          views,       \* history: native views made, freed, built without a context, dropped by send
          ops          \* operations begun

sdkVars == <<_models, _closed, rt_lock, models, transport, job, sent, results, replaced, late, views>>
vars    == <<tokenVars, pc, arg, sdkVars, ops>>

----------------------------------------------------------------------------
(* Which transport __init__ chooses.  http=True matters only where no      *)
(* library is found.                                                       *)
Select(native, http) == IF native THEN "native" ELSE IF http THEN "http" ELSE "AICLError"

(* CapabilitySet.find: the capabilities that match, in order. *)
find(q) == SelectSeq(Capabilities, LAMBDA c : c \in Matches[q])

(* The frame of Model: a header of 28 bytes and version 1. *)
_encode_instruction(instruction) == [length |-> 28 + instruction, version |-> 1]

(* aicl_decode is AiclCodec::decode, which begins with validate_header.    *)
(* What it checks further, the header's CRC, the payload and the opcode,   *)
(* no frame of Model gets to, and the frames of CallDecode pass.           *)
HEADER_SIZE == 56
aicl_decode(frame) == CASE frame.length < HEADER_SIZE    -> "BAD_HEADER"
                        [] frame.version \div 256 # 1    -> "UNSUPPORTED_VERSION"
                        [] OTHER                         -> "OK"

(* late: the token was cancelled before the answer was there; after: the   *)
(* transport was closed before the call began.                             *)
NoJob == [m |-> 0, id |-> 0, token |-> None, streams |-> FALSE, frame |-> None, late |-> FALSE, after |-> FALSE]

Init ==
  /\ TokenInit
  /\ _models = << >> /\ _closed = FALSE /\ rt_lock = None /\ models = << >>
  /\ \E native, http \in BOOLEAN :
       /\ Select(native, http) # "AICLError"
       /\ transport = [kind |-> Select(native, http), closed |-> FALSE, ctx |-> native]
  /\ job = [t \in Threads |-> NoJob]
  /\ sent = {} /\ results = {} /\ replaced = {} /\ late = {}
  /\ views = [made |-> 0, freed |-> 0, bare |-> 0, dropped |-> 0] /\ ops = 0

----------------------------------------------------------------------------
(* connect and connect_any, whose queries are tried in turn.  The closed   *)
(* flag is read, and the model made, before the lock is taken.             *)
CallConnect(t, queries) ==
  /\ pc[t] = "idle" /\ Go(t, "connect", [queries |-> queries])
  /\ UNCHANGED <<tokenVars, sdkVars>>

connect(t) ==
  /\ pc[t] = "connect"
  /\ LET caps == find(Head(arg[t].queries))
     IN  \/ /\ _closed \/ (caps = << >> /\ Tail(arg[t].queries) = << >>)    \* AICLError, CapabilityError
            /\ Go(t, "idle", None) /\ UNCHANGED models
         \/ /\ ~_closed /\ caps = << >> /\ Tail(arg[t].queries) # << >>     \* connect_any goes on
            /\ Go(t, "connect", [queries |-> Tail(arg[t].queries)]) /\ UNCHANGED models
         \/ /\ ~_closed /\ caps # << >>
            /\ models' = Append(models, [cap |-> Head(caps), closed |-> FALSE, counter |-> 0, lock |-> None,
                                         ready |-> FALSE])
            /\ Go(t, "register", [model |-> Len(models) + 1])
  /\ UNCHANGED <<tokenVars, _models, _closed, rt_lock, transport, job, sent, results, replaced, late, views>>

(* The model takes the place of an earlier one for the same capability. *)
Register(t) ==
  LET m == arg[t].model  cap == models[m].cap
  IN  /\ pc[t] = "register" /\ rt_lock = None
      /\ _models' = [c \in DOMAIN _models \cup {cap} |-> IF c = cap THEN m ELSE _models[c]]
      /\ replaced' = replaced \cup {_models[c] : c \in DOMAIN _models \cap {cap}}
      /\ late' = IF _closed THEN late \cup {m} ELSE late
      /\ models' = [models EXCEPT ![m].ready = TRUE]
      /\ Go(t, "idle", None)
      /\ UNCHANGED <<tokenVars, _closed, rt_lock, transport, job, sent, results, views>>

(* close: the models of the dict one after the other, then the transport,  *)
(* all with the runtime's lock held.                                       *)
CallClose(t) == pc[t] = "idle" /\ Go(t, "close", None) /\ UNCHANGED <<tokenVars, sdkVars>>

close(t) ==
  /\ pc[t] = "close" /\ rt_lock = None
  /\ rt_lock' = t /\ Go(t, "close models", [left |-> Range(_models)])
  /\ UNCHANGED <<tokenVars, _models, _closed, models, transport, job, sent, results, replaced, late, views>>

CloseModels(t) ==
  /\ pc[t] = "close models" /\ arg[t].left # {}
  /\ \E m \in arg[t].left : models' = [models EXCEPT ![m].closed = TRUE] /\ Go(t, "close models", [left |-> arg[t].left \ {m}])
  /\ UNCHANGED <<tokenVars, _models, _closed, rt_lock, transport, job, sent, results, replaced, late, views>>

CloseRuntime(t) ==
  /\ pc[t] = "close models" /\ arg[t].left = {}
  /\ _models' = << >> /\ _closed' = TRUE /\ Go(t, "close transport", None)
  /\ UNCHANGED <<tokenVars, rt_lock, models, transport, job, sent, results, replaced, late, views>>

CloseTransport(t) ==
  /\ pc[t] = "close transport"
  /\ transport' = [transport EXCEPT !.closed = TRUE] /\ Go(t, "drop context", None)
  /\ UNCHANGED <<tokenVars, _models, _closed, rt_lock, models, job, sent, results, replaced, late, views>>

DropContext(t) ==
  /\ pc[t] = "drop context"
  /\ transport' = [transport EXCEPT !.ctx = FALSE] /\ rt_lock' = None /\ Go(t, "idle", None)
  /\ UNCHANGED <<tokenVars, _models, _closed, models, job, sent, results, replaced, late, views>>

(* Model.close, by the application. *)
CloseModel(t, m) ==
  /\ pc[t] = "idle" /\ models[m].ready /\ ~models[m].closed
  /\ models' = [models EXCEPT ![m].closed = TRUE]
  /\ UNCHANGED <<tokenVars, pc, arg, _models, _closed, rt_lock, transport, job, sent, results, replaced, late, views>>

----------------------------------------------------------------------------
(* Model.call and Model.stream.  acall is call in a thread of a pool. *)
Return(t, r) ==
  /\ results' = results \cup {[r |-> r, streams |-> job[t].streams, late |-> job[t].late, after |-> job[t].after]}
  /\ Go(t, "idle", None) /\ job' = [job EXCEPT ![t] = NoJob]
  /\ UNCHANGED sent
GoOn(t, to) == Go(t, to, None) /\ UNCHANGED <<job, results, sent>>

callFrame == <<tokenVars, _models, _closed, rt_lock, transport, replaced, late, views>>

Call(t, m, token, streams, instruction) ==
  /\ pc[t] = "idle" /\ models[m].ready
  /\ job' = [job EXCEPT ![t] = [NoJob EXCEPT !.m = m, !.token = token, !.streams = streams,
                                             !.frame = _encode_instruction(instruction),
                                             !.after = transport.closed]]
  /\ Go(t, "call", None)
  /\ UNCHANGED <<tokenVars, _models, _closed, rt_lock, models, transport, sent, results, replaced, late, views>>

(* Only call looks at the model's own closed flag. *)
call(t) == /\ pc[t] = "call"
           /\ IF models[job[t].m].closed /\ ~job[t].streams THEN Return(t, "TransportError") ELSE GoOn(t, "id")
           /\ UNCHANGED <<callFrame, models>>

(* _next_message_id: += reads and writes, under the model's lock. *)
NextIdLock(t) ==
  LET m == job[t].m
  IN  /\ pc[t] = "id" /\ models[m].lock = None
      /\ models' = [models EXCEPT ![m].lock = t] /\ Go(t, "take id", [counter |-> models[m].counter])
      /\ UNCHANGED <<callFrame, job, sent, results>>
_next_message_id(t) ==
  LET m == job[t].m
  IN  /\ pc[t] = "take id"
      /\ models' = [models EXCEPT ![m].counter = arg[t].counter + 1, ![m].lock = None]
      /\ job' = [job EXCEPT ![t].id = arg[t].counter + 1]
      /\ Go(t, IF job[t].streams THEN "check 2" ELSE "check 1", None)
      /\ UNCHANGED <<callFrame, sent, results>>

(* The checkpoints: before the frame is built, before it is sent, and, in  *)
(* call, after the answer is there.                                        *)
Check(t) ==
  /\ pc[t] \in {"check 1", "check 2", "check 3"}
  /\ IF check(job[t].token) THEN Return(t, "CancelledError")
     ELSE GoOn(t, CASE pc[t] = "check 1" -> "check 2" [] pc[t] = "check 2" -> "send" [] OTHER -> "decode")
  /\ UNCHANGED <<callFrame, models>>

(* An answer is there: call checks its token, stream does not. *)
Answered(t) == /\ Go(t, IF job[t].streams THEN "decode" ELSE "check 3", None)
               /\ job' = [job EXCEPT ![t].late = job[t].token # None /\ _cancelled]
               /\ UNCHANGED results

(* Mutant: a closed transport is noticed only when it decodes. *)
HttpSend_open(t) ==
  /\ pc[t] = "send" /\ transport.kind = "http"
  /\ Go(t, "gateway", None) /\ sent' = sent \cup {[after |-> job[t].after]}
  /\ UNCHANGED <<job, results>>
  /\ UNCHANGED <<callFrame, models>>

HttpSend(t) ==
  /\ pc[t] = "send" /\ transport.kind = "http"
  /\ IF transport.closed THEN Return(t, "TransportError")
     ELSE /\ Go(t, "gateway", None)
          /\ sent' = sent \cup {[after |-> job[t].after]}
          /\ UNCHANGED <<job, results>>
  /\ UNCHANGED <<callFrame, models>>

(* Mutant: an answer goes straight to the decoder. *)
HttpReply_unchecked(t) ==
  /\ pc[t] = "gateway"
  /\ \/ Return(t, "HTTPCompatError") \/ Return(t, "TimeoutError")
     \/ Go(t, "decode", None) /\ job' = [job EXCEPT ![t].late = job[t].token # None /\ _cancelled]
          /\ UNCHANGED <<results, sent>>
  /\ UNCHANGED <<callFrame, models>>

(* The gateway answers, refuses or is too slow. *)
HttpReply(t) ==
  /\ pc[t] = "gateway"
  /\ \/ Return(t, "HTTPCompatError") \/ Return(t, "TimeoutError") \/ (Answered(t) /\ UNCHANGED sent)
  /\ UNCHANGED <<callFrame, models>>

(* decode; a stream yields the answer as it is. *)
HttpDecode(t) ==
  /\ pc[t] = "decode" /\ transport.kind = "http"
  /\ \/ job[t].streams /\ Return(t, "ok")
     \/ ~job[t].streams /\ transport.closed /\ Return(t, "TransportError")
     \/ ~job[t].streams /\ ~transport.closed /\ (Return(t, "ok") \/ Return(t, "HTTPCompatError"))
  /\ UNCHANGED <<callFrame, models>>

(* NativeTransport.encode and as_bytes: the frame is copied out and back. *)
NativeEncode(t) ==
  /\ pc[t] = "send" /\ transport.kind = "native"
  /\ IF transport.closed THEN Return(t, "TransportError") ELSE Answered(t) /\ UNCHANGED sent
  /\ UNCHANGED <<callFrame, models>>

(* NativeTransport.decode, called by call and stream, or with a frame of   *)
(* the application's own: the closed flag, then the context, then the core,*)
(* then the context again for the view.                                    *)
CallDecode(t, op) ==
  /\ pc[t] = "idle" /\ transport.kind = "native"
  /\ job' = [job EXCEPT ![t] = [NoJob EXCEPT !.frame = [length |-> HEADER_SIZE + 1, version |-> 256],
                                             !.token = op]]
  /\ Go(t, "decode", None)
  /\ UNCHANGED <<tokenVars, _models, _closed, rt_lock, models, transport, sent, results, replaced, late, views>>

NativeDecode(t) ==
  /\ pc[t] = "decode" /\ transport.kind = "native"
  /\ IF transport.closed THEN Return(t, "TransportError") ELSE GoOn(t, "context")
  /\ UNCHANGED <<callFrame, models>>

CtxDecode(t) ==
  /\ pc[t] = "context"
  /\ \/ ~transport.ctx /\ Return(t, "AttributeError") /\ UNCHANGED views
     \/ /\ transport.ctx /\ aicl_decode(job[t].frame) # "OK"
        /\ Return(t, "NativeError") /\ UNCHANGED views
     \/ /\ transport.ctx /\ aicl_decode(job[t].frame) = "OK"
        /\ views' = [views EXCEPT !.made = @ + 1, !.dropped = @ + IF job[t].token = "send" THEN 1 ELSE 0]
        /\ IF job[t].token = "send" THEN Return(t, "ok") ELSE GoOn(t, "view")
  /\ UNCHANGED <<tokenVars, _models, _closed, rt_lock, transport, replaced, late, models>>

(* AiclPacketView(view_ptr, self._ctx) *)
MakeView(t) ==
  /\ pc[t] = "view"
  /\ Go(t, "use view", [ctx |-> transport.ctx])
  /\ views' = [views EXCEPT !.bare = @ + IF transport.ctx THEN 0 ELSE 1]
  /\ UNCHANGED <<tokenVars, _models, _closed, rt_lock, models, transport, job, sent, results, replaced, late>>

(* AiclPacketView.__del__, when the caller is done with it. *)
DelView(t) ==
  /\ pc[t] = "use view"
  /\ views' = [views EXCEPT !.freed = @ + IF arg[t].ctx THEN 1 ELSE 0]
  /\ Return(t, "ok")
  /\ UNCHANGED <<tokenVars, _models, _closed, rt_lock, models, transport, replaced, late>>

----------------------------------------------------------------------------
Begin(t) ==
  \/ (TokenCall(t) /\ UNCHANGED sdkVars)
  \/ \E q \in Queries : CallConnect(t, <<q>>) \/ \E r \in Queries \ {q} : CallConnect(t, <<r, q>>)
  \/ CallClose(t)
  \/ \E m \in DOMAIN models : CloseModel(t, m)
  \/ \E m \in DOMAIN models, token \in {None, "token"}, streams \in BOOLEAN, n \in Instructions :
       Call(t, m, token, streams, n)
  \/ \E op \in {"decode", "send"} : CallDecode(t, op)

Step(t) ==
  \/ (TokenStep(t) /\ UNCHANGED sdkVars)
  \/ connect(t) \/ Register(t)
  \/ close(t) \/ CloseModels(t) \/ CloseRuntime(t) \/ CloseTransport(t) \/ DropContext(t)
  \/ call(t) \/ NextIdLock(t) \/ _next_message_id(t) \/ Check(t)
  \/ HttpSend(t) \/ HttpReply(t) \/ HttpDecode(t)
  \/ NativeEncode(t) \/ NativeDecode(t) \/ CtxDecode(t) \/ MakeView(t) \/ DelView(t)

Run(t) == Step(t) /\ UNCHANGED ops

Next == \E t \in Threads : (Begin(t) /\ ops < MaxOps /\ ops' = ops + 1) \/ Run(t)

(* Threads that can run do: locks are held for a few statements, and the   *)
(* gateway is waited for with a timeout.                                   *)
Spec == Init /\ [][Next]_vars /\ \A t \in Threads : WF_vars(Run(t))

----------------------------------------------------------------------------
(* "Close the runtime and all connected models": no model that connect     *)
(* returned is left open when the runtime is closed.                       *)
CloseClosesModels ==
  _closed => \A m \in DOMAIN models : models[m].ready => models[m].closed

(* What close does reach are the models whose entry in _models is still    *)
(* theirs: a model left open was replaced by another connect for its       *)
(* capability, or registered after the close by a connect that had read    *)
(* the closed flag before it.                                              *)
CloseReachesModels ==
  _closed =>
    \A m \in DOMAIN models : models[m].ready => models[m].closed \/ m \in replaced \cup late

(* Also a model left open is silent: no call or stream begun after the     *)
(* transport was closed succeeds or puts a request on the wire.            *)
ClosedIsSilent == /\ \A r \in results : r.after => r.r # "ok"
                  /\ \A s \in sent : ~s.after

(* An answer that comes after the cancel is not returned as a success by   *)
(* call, however long the gateway took; stream has no check there.         *)
NoLateSuccess == \A r \in results : r.late /\ ~r.streams => r.r # "ok"

(* The balance of the native views: each is in the hands of a thread,      *)
(* freed, or lost in one of two ways, dropped by NativeTransport.send or   *)
(* without a context because close ran between the decode and the view.    *)
InHand == Cardinality({t \in Threads : pc[t] = "view" \/ (pc[t] = "use view" /\ arg[t].ctx)})
ViewsBalance == views.made = views.freed + views.dropped + views.bare + InHand

(* Every operation comes back, the wait for a gateway included: no two     *)
(* locks of the SDK wait for each other, and a cancel wakes every waiter,  *)
(* also when one of its callbacks never returns, for the event is set      *)
(* first.  Only a callback that calls its own token stops threads for      *)
(* good: it runs with the token's non-reentrant lock held.                 *)
OperationsReturn == \A t \in Threads : pc[t] # "idle" ~> pc[t] = "idle" \/ Stays(t)

(* Violated: model.py and runtime.py show a call on the default transport  *)
(* as "result = model.call(...)", "result.unwrap()".                       *)
NativeCallAnswers == \A r \in results : r.r # "NativeError"

----------------------------------------------------------------------------
(* The inductive invariant: TokenInv, and for each promise what the steps  *)
(* of the calls and of close rely on.                                      *)

Jobs == [m : Nat, id : Nat, token : {None, "token", "decode", "send"}, streams : BOOLEAN,
         frame : {None} \cup [length : Nat, version : Nat], late : BOOLEAN, after : BOOLEAN]

TypeOK ==
  /\ _closed \in BOOLEAN /\ rt_lock \in Threads \cup {None}
  /\ models \in Seq(Range(models))
  /\ \A m \in DOMAIN models :
       /\ DOMAIN models[m] = {"cap", "closed", "counter", "lock", "ready"}
       /\ models[m].closed \in BOOLEAN /\ models[m].ready \in BOOLEAN /\ models[m].counter \in Nat
  /\ transport \in [kind : {"native", "http"}, closed : BOOLEAN, ctx : BOOLEAN]
  /\ job \in [Threads -> Jobs]
  /\ views \in [made : Nat, freed : Nat, bare : Nat, dropped : Nat]
  /\ \A t \in Threads :
       /\ pc[t] \in {"call", "id", "take id"} => job[t].m \in DOMAIN models
       /\ pc[t] = "take id" => arg[t].counter \in Nat
       /\ pc[t] = "use view" => arg[t].ctx \in BOOLEAN

(* The call is past the point where a closed transport stops it. *)
Sending == {"gateway", "check 3", "decode", "context", "view", "use view"}

(* A call begun after the close meets the transport's closed flag, which   *)
(* is never taken back, before anything is sent.                           *)
CallsKnowClosed ==
  \A t \in Threads : /\ job[t].after => transport.closed
                     /\ pc[t] \in Sending => ~job[t].after

(* The last checkpoint of call sees a cancel that came before the answer. *)
CallsKnowCancelled ==
  \A t \in Threads :
    /\ pc[t] = "check 3" => (job[t].late => job[t].token # None /\ _cancelled)
    /\ pc[t] \in {"decode", "context", "view", "use view"} => (job[t].late => job[t].streams)

(* The runtime's lock is held from the first model to the context. *)
CloseHoldsLock ==
  \A t \in Threads : pc[t] \in {"close models", "close transport", "drop context"} <=> rt_lock = t

(* A model handed out is in the dict, or closed, or out of close's reach;  *)
(* in a closed runtime the dict has only models that came too late.        *)
ModelsKnown ==
  /\ Range(_models) \subseteq DOMAIN models
  /\ \A m \in DOMAIN models :
       models[m].ready => m \in Range(_models) \/ models[m].closed \/ m \in replaced \cup late
  /\ _closed => Range(_models) \subseteq late
  /\ \A t \in Threads :
       /\ pc[t] = "register" => arg[t].model \in DOMAIN models
       /\ pc[t] = "close models" =>
            /\ arg[t].left \subseteq DOMAIN models
            /\ \A m \in Range(_models) : m \in arg[t].left \/ models[m].closed

SdkInv == /\ TokenInv /\ TypeOK /\ CallsKnowClosed /\ CallsKnowCancelled /\ CloseHoldsLock
          /\ ModelsKnown /\ ClosedIsSilent /\ NoLateSuccess /\ ViewsBalance
=============================================================================
