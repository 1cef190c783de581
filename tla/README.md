# AICL: a verification project in TLA+

AICL moves packets between AI models: a binary instruction format, transports
that carry it between threads and processes, and a runtime that gates and routes
it. This directory models the parts of it that keep state and can go wrong over
time, checks the models with TLC on small instances, and proves the central
results with TLAPS for every size.

`PROJECT.json` holds the machine-readable index: components, runs, the lines each
definition translates, mutants, findings, hazards and theorems.

## 1. Inventory

Paths are relative to the repository. "State" is what outlives a call.

| Component | Source | State | Operations | What is hard | What makes it correct |
|---|---|---|---|---|---|
| Shared-memory ring | `aicl/transport/shared_memory_ring.py` | slots with a used byte, length and data in a shared segment; one private cursor per side | create, attach, push(_nowait), pop(_nowait), close | two processes, no lock, no shared counter; polling until a deadline; create against attach | a bounded FIFO; a slot is never touched by both; refusals are true; calls end |
| Local ring | `core-rust/src/local_path.rs` | head and tail counters, slots with header and bytes | push (reserve, commit), try_pop (acquire, release), available, pending, the borrow of a popped frame | two threads, weak memory, counters that wrap, a slot released while it is still borrowed | pending frames intact; headers in order; promises of available and pending kept |
| Capability table | `core-rust/src/capability.rs` | slots, watermark | register, unregister, get, find_by_name | free-slot reuse against the watermark, the 16-bit limit | an index resolves to what was registered under it |
| Gate and policy | `core-rust/src/gate.rs`, `safety.rs` | capability table, policy, audit flag | check, validate_packet, check_and_validate, register_capability | recursion over nested operands, bounds | exactly the packets within policy pass |
| In-process transport | `core-rust/src/transport.rs` | two queues, each behind a spinlock; an open flag per end | send, push, recv, pop, close | a hand-written lock over an UnsafeCell | mutual exclusion, FIFO, lock always released |
| Runtime and sessions | `core-rust/src/runtime.rs`, `session.rs` | map of sessions, gate, endpoint registry; per session a state, two counters, a transport | create_session, close_session, register_capability, dispatch_packet, tick | a peer that answers late; answers dropped by tick or lost in decoding | no answer early or out of order; nothing sent round the gate; the answer to this request, which does not hold |
| Router, connection | `core-rust/src/router.rs` | handlers, cursor, capability per handler; a queue | add_handler, add_capability_handler, enqueue, drain | a drain that stops at an error; a cursor that outlives changes of the handlers | each packet once, in order, to the right handler; even load |
| Endpoint registry | `core-rust/src/endpoint.rs` | map behind a lock | register, unregister, find, list | little | the map |
| Pool, channel, dispatch table, nonce | `core-rust/src/local_path.rs` | free lists per tier; two rings and a counter; a table by opcode | get, put; send, recv, request; register, dispatch; next | limits, buffers that grew, ids equal at both ends | bounded pool, matching ids |
| ABI buffers, handles, streams | `core-rust/src/abi.rs` | reference counts, stream flags | clone, drop, retain, release, next, cancel | two threads drop at once | freed once, never used after |
| Binary codec (Python) | `aicl/bin/*` | none | encode, decode, the properties of a view | lengths of one byte, varints of four, two files that must agree on 30 layouts, packets cut or altered on the way | decode inverts encode; damage is noticed |
| Wire codec (Rust) | `core-rust/src/codec.rs`, `packet.rs`, `operand.rs`, ... | none | encode, decode | limits of varints | decode inverts encode |
| Streaming decoder | `aicl/bin/streaming.py` | a byte buffer | feed, pending, clear | chunk borders, resynchronisation, a packet that does not decode | each packet of the stream comes out once and in order |
| SDK | `aicl/sdk/*` | token flag, event and callbacks; models by capability, closed flags; native contexts and views | cancel, on_cancelled, wait; connect, close, call, stream | callbacks under a lock; close against connect and calls; an answer against a cancel; views of a native library | every callback once; nothing succeeds after close or cancel; everything returns; each native view freed, which does not hold |
| Python transport session, factory, address | `aicl/transport/session.py`, ... | an open flag | send, recv, close | nothing: the factory imports backends that are not in the repository | - |
| C++ adapter and context | `core-cpp/src`, `core-cpp/include` | models by 16-bit id, sessions by correlation key, buffers | register, handle_call, handle_stream, handle_cancel, shutdown | raw pointers outside the lock, colliding keys, a stream ended twice | a cancel reaches its call; one end per stream |
| Semantic layer | `aicl/semantic` | a gate | parse a model's output, validate, gate, encode, observe, ask, answer; fast encode and decode; schemas; dictionaries | several translations in a row, each with defaults, and two codecs without tags | what was said is what is observed; an answer arrives as it was given; constrained output is valid, which does not hold |
| Formatter | `aicl/sl` | none | format | none over time | - |
| Benchmarks, examples | `aicl/semantic/*benchmark.py`, `examples` | none | print | none | - |
| llama.cpp backend | `native-cpp` | the external library's | generate | external | - |

How they interact. A caller hands the **runtime** a packet; the **gate** looks its
Refs up in the **capability table** and validates its operands; the runtime takes a
**session** and sends the encoded packet on its transport, one end of an
**in-process pair**, and polls the same end for an answer that the peer at the
other end may or may not have pushed by then. Between processes the transport is
the **shared-memory ring**, between threads of one process the **local ring**;
both promise what the in-process pair promises. A peer that serves packets queues
them in a **connection** and drains them through a **router** to its handlers.

On the Python side a model's output becomes an action in the **semantic layer**,
which shows it to a gate and hands it to the **binary codec**; at the other end
bytes become a view, an observation and a request, and the answer goes back the
same way. Bytes that arrive in chunks go through the **streaming decoder**. An
application reaches models through the **SDK**: threads share a runtime, the models
it handed out and **cancellation tokens**.

## 2. Modules

| Module | Models | State and actions against the code |
|---|---|---|
| `BoundedFifo` | the abstract specification of every channel | `sent` and `received` are histories; Enqueue needs room, Dequeue delivers the oldest |
| `ShmRing` | `SharedMemoryRing.push*`, `pop*` | one action for each access to the shared segment: check of the used byte, length, data, publish; check, length, data, release. A polling push or pop is one that stays at its check until the byte changes or the deadline ends it |
| `ShmSegment` | `SharedMemoryRing.create`, `attach`, `close` | create is a step per system call and per write (unlink, make, header, each used byte), attach one per try, sleep and read of the header; both processes may die anywhere and start again. A push or pop is one step, since `ShmRing` shows that their steps do not interfere |
| `LocalRing` | `LocalRingBuffer`, `RingBorrow` | counters modulo `Modulus`; `hseen`, `tseen`: an Acquire load returns any value between the newest one seen before and the current one; the copy of a frame takes two steps, because a borrow may be read meanwhile |
| `NatLemmas` | index arithmetic of the rings and of round robin; a set of naturals has a least element | no state |
| `CapabilityTable` | `CapabilityTable` | the table is created with any of the sizes in `Capacities`; register is three actions, one for each way through it |
| `Gate` | `AiclGate`, `SafetyPolicy` | `validate_operand` as a recursive function over the levels of nesting (`ValidAt` is one level, given the answer of the next); `Show` is a packet shown to `check_and_validate` |
| `InProcChannel` | `LockedQueue`, one direction of `InProcChannel` | an operation on the queue is a read and a write of it, so that a lock that did not exclude would show |
| `Runtime` | `AiclRuntime`, `AiclSession` | dispatch_packet is three actions (gate and choice of session, send, receive), since peers run between them; tick reads session by session |
| `Connection` | `Router`, `Connection` | drain is a step per packet; a handler succeeds or fails |
| `BinValues` | `varint.py`, tags, `struct` | no state: results and exceptions, Python values, varints, numbers of a width |
| `BinOperands` | `operands.py`, `_to_binary_symbol` | no state: operands to bytes and back, recursive as the code is |
| `BinCodec` | `aicl/bin`: symbols, extensions, header, trailer, `encode`, `decode`, `PacketView` | a packet is encoded, the bytes are cut, altered or followed by others (the transport, external), and decoded. Bytes are numbers, the header a record of its fields; CRC32 has no collisions |
| `Semantic` | `aicl/semantic`: types, adapter, grammars, fast codecs | extends `BinCodec`, so that an action really travels as bytes: `Say` and `action_to_bytes` at one end, `bytes_to_observation`, `Ask` and `result_to_bytes` at the other, `FastEncode` and `FastDecode` beside them |
| `StreamingDecoder` | `StreamingDecoder` | the buffer; `Receive` feeds a chunk of any size. The loop of `feed` is a recursive function of its passes; a header is two cells, so that a chunk may end within it |
| `CancellationToken` | `CancellationToken` | a step for each stretch between lock, flag, event and callbacks |
| `Sdk` | `AICLRuntime`, `Model`, both transports, `AiclContext`, views | extends `CancellationToken`. A thread's `pc` is where it is in connect, close, call, stream or decode; every read of a flag that another thread writes is a step |
| `MCShmRing`, `MCShmSegment`, `MCLocalRing`, `MCSdk` | one TLC instance each | small sets of frames, packets, threads and capabilities |
| `MCRuntime` | TLC instance of `Runtime` and `InProcChannel` | `part` says which of the two a behaviour moves |
| `MCDispatch` | TLC instance of `CapabilityTable`, `Gate` and `Connection` | the same |
| `MCCodec` | TLC instance of `Semantic` (`MCSemantic`, over the packets of `MCBinCodec`) and `StreamingDecoder` | the same |
| `*Proofs` | theorems | see section 5 |

`BinCodec` and `Semantic` take the codec of nested operands as operator constants
(`EncodeSymbol`, `CanEncode`, `DecodeItems`, `DecodeSymbols`, `ToSymbol`), to which
`Codec.cfg` gives the definitions of `BinOperands`: TLC runs with the code's
recursion, and the proofs hold whatever the operands' codec is.

`Semantic` composes the adapters with the codec, `Sdk` the runtime and its models
with the token. `ShmRing`, `LocalRing` and `InProcChannel` each instantiate `BoundedFifo`; `Runtime`
uses queues with the promise of `BoundedFifo` in place of the channel's steps, which
is what `ImplementsFifo` in `RuntimeProofs` allows.

Data is abstract throughout: a frame is a record of the parts that are written
separately (length, opcode, bytes), a packet a record of what is decided on (its
Ref, whether its operands are valid). Definitions called "Mutant" are never part of
a specification; they are changed forms of the definition that follows, used to
show that the properties can fail.

## 3. Runs and what they show

| Run | Bounds | Shows |
|---|---|---|
| `shm_ring` | 2 slots, 5 messages | implements `BoundedFifo`; no slot touched by both processes; RingFull and RingEmpty are true; every call ends even if the other process is gone; every message is popped while the reader keeps calling pop |
| `shm_segment` | 2 slots, 2 segments of the name, one of them possibly left behind, 3 messages each | a finished segment with one user is a bounded FIFO whoever dies and whatever older segment is still mapped; attach ends |
| `local_ring` | 2 slots, counters modulo 4, 5 frames | pending frames intact across the wrap, headers in order, available and pending keep their promise, a borrow holds until it is lapped |
| `runtime` | runtime: 2 sessions, capacity 2, 3 requests, 1 undecodable frame; channel: capacity 2, 4 frames | answers in order, never early and never twice; nothing sent round the gate or on a closed session; FIFO behind the spinlock, true refusals, the lock is released |
| `dispatch` | table: limit 5, created with 0, 3 or all of its slots; gate: up to 3 operands where the policy allows 2, nested one level deeper than it allows, lengths at and past each bound; connection: 3 handlers, 4 packets, queue of 2, both strategies | indices are stable in a table created full or empty, and refusals come only when it is full; the walk accepts exactly what the policy allows; each packet is taken once and in order, with true counts; round robin even, a direct handler called only for a Ref to its own capability |
| `codec` | packets with every field, outputs valid and not, the open gate and two that deny, values up to 160 bytes, texts past each limit; streams of three segments out of seven, 2 packets per feed | decode inverts encode, but for what section 4 lists; damage is noticed; an action is refused exactly for the reasons the code has; what is said is observed; an answer arrives as it was given; both fast codecs are exact. However the stream is cut, what came out and what is held are its packets, once and in order; a complete packet is held only at the limit, or with one in the buffer that does not decode: packets before one that does not decode stay in the buffer and never come out |
| `sdk` | 2 threads, 4 operations, both transports, a callback that calls its own token | callbacks once; nothing succeeds after close, or after a cancel; every operation returns, except where a callback waits for its own lock |
| `shm_segment_used` (violation) | as `shm_segment` | create writes a used byte from 1 to 0 and erases a message |
| `runtime_answer` (violation) | as `runtime` | a dispatch returns the answer to an earlier request |
| `semantic_constrained` (violation) | as `codec`, with five schemas | output that a schema admits is not valid |
| `sdk_close` (violation) | as `sdk` | a connected model is open after close has returned |
| `sdk_native_call` (violation) | as `sdk` | a call on the native transport ends in NativeError: the core refuses the frame |

`runtime`, `dispatch` and `codec` each hold components that share no variable. They
are checked one at a time: `part` is chosen at the start, the component it names
moves and the others stay in an initial state, so the states of the run are the sum
and not the product of theirs.

**Why the bounds are enough.** Two slots and five messages make each side lap the
ring twice; with one slot fewer no two messages are pending, with more nothing new
can interfere, since an access concerns one slot. Counters modulo 4 wrap during the
run. Two segments are an old and a new one of the same name, mapped by different
processes; three messages overfill one. Three requests on a session let two answers be outstanding when a third is
polled for; two sessions make the choice between them visible. A table of
limit five, created empty, with three slots or full, takes each way through
register with slots freed in between. Operands one level
deeper than the policy allows, and one longer, are the two sides of each
comparison. The round-robin cursor does not reach its wrap at 2^64 (`CursorModulus`
is larger than the calls of a run), and `StrategyKept` speaks only of fewer calls
than that: at the wrap the distribution is uneven once, unless the number of handlers
divides 2^64. Every bound is a CONSTANT, named in the
module that uses it.

A value longer than `MAX_TLV_VALUE_SIZE` (2^24 in the code), and numbers and lengths
that two, four or eight bytes cannot hold, occur with small instances of the limits:
`UINT16_LIMIT` is 600, `UINT32_LIMIT` 10^8 and `UINT64_LIMIT` 6 * 10^8, which keeps
their order and TLC's integers. Lengths and numbers of one byte keep their real limit.
The numbers of a model's output, confidence and deadline, may be `null`, on which
`validate` raises TypeError; the other fields have the types the dataclass declares,
and the name of the origin is short. `Numbers` of `MCBinCodec` has both sides of each
varint length. After damage only what came undamaged is followed into the model
(`Undamaged` in `Ask`): a damaged packet that decodes is looked at by
`DamageNoticed` and no further. Three segments make a packet stand before, behind
and between others, and seven kinds of segment include the magic in a payload, in
garbage and inside a packet whose header is damaged. Four operations of two threads
are enough for connect, close and two calls, or for two registrations around two
cancels; any lock of the SDK has then been waited for.

**Fairness.** `FairSpec` of `ShmRing`: a push or pop that has begun takes its next
step; neither waits for a lock, and the polling loops look at a deadline. That the
reader keeps calling pop is left to the user of the class, so `EventuallyDelivered`
has it as a premise; `CallsEnd` has none. `FairSpec` of
`ShmSegment`: the user's process runs and its clock reaches attach's deadline;
nothing is assumed about the owner. `ChannelFairSpec` of
`InProcChannel`, and with it `MCSpec` of `MCRuntime`: a thread that holds the lock goes on. Nothing is assumed about a
thread that spins, since the lock is not fair and a spinner may lose every time.
`Spec` of `Sdk`: each thread that has begun an operation runs on, and so does the
gateway, whose answer `urllib` bounds with a timeout; a thread need not begin
anything, and a lock goes to any of those that wait. The other specifications state
no fairness and check safety only. Deadlock is checked in every run but those of
`Sdk`, where all may really stop: at the bound on operations, or for good behind a
callback that calls its own token.

## 4. Where code and text disagree

Five disagreements have a run that shows them:

- **create erases a message** (`shm_segment_used`). `shared_memory_ring.py:18` says
  "the `used` byte is only ever written 0->1 by the producer and 1->0 by the
  consumer", but create clears the bytes (line 89) after the header that attach looks
  at. `UsedByteOwners` is violated by a push in between.
- **An answer to another request** (`runtime_answer`). `protocol/AICL-ISA.md:264` says
  "Correlation: receiver uses correlation_id == sender.message_id.", and
  dispatch_packet (`runtime.rs:116`) returns whatever comes next. `AnswersMatch`.
  `AnswersInOrder` and theorem `LagIsBounded` say what is left.
- **Constrained output that is not valid** (`semantic_constrained`). `grammar.py:3`
  says that grammars "force model output to be valid AICL ModelAction JSON", and
  `types.py:10` "Grammar-constrained decoding enforces valid output."; the schema of
  `for_intents` requires neither the target nor the tool's name that validate wants,
  that of `for_classify` bounds no confidence. `ConstrainedIsValid`.
- **Models left open** (`sdk_close`). `sdk/runtime.py:235` says "Close the runtime and
  all connected models."; a second connect to the same capability takes the first
  model out of the dict, and a connect that overlaps close may register its model
  after it. `CloseClosesModels`; theorem `CloseReaches` says which models are closed.
- **The native call** (`sdk_native_call`). `Model` writes headers of 28 bytes with
  version 1 (`aicl/sdk/model.py:311`), and the native path gives them to a decoder that
  wants 56 bytes and major version 1 in the high byte (`core-rust/src/codec.rs:119`),
  so `call` on the default transport always returns an error.

Two more are stated by what does hold in place of the text:

- **The borrow outlives its slot.** `local_path.rs:452` says "The data is valid as
  long as the borrow exists.", but try_pop releases the slot first (line 408), and a
  producer one lap ahead overwrites it. `BorrowIntactUntilLapped` is what is left.
- **A live capability is overwritten.** `capability.rs:103` says "Try to find a free
  slot first; then bump the watermark.", and the watermark starts at 1 however many
  slots are in use (line 118). Only a table created full, as the gate's is, or empty
  keeps its indices (`StableIfFullOrEmpty`); any other overwrites each of its initial
  slots at most once (theorem `EvictionBounded`).

Smaller ones, which the models contain as the code has them:

- no code reads `SafetyPolicy::max_payload_size` (`core-rust/src/safety.rs:11`);
- `drain` (`core-rust/src/router.rs:154`) drops the packet whose dispatch failed,
  together with the count of those answered before it;
- the gate looks up only the Refs at the top level of a packet
  (`core-rust/src/gate.rs:72`), not those inside a List;
- dispatch takes the first open session, whatever the packet's Ref
  (`core-rust/src/runtime.rs:105`);
- binary codec: `blob_refs` are packed in native and read in network order
  (`codec_packet.py:108`), `ack_info` is read with its message as its type, names that
  contain a comma come back as two, and a packet that lost exactly its trailer passes,
  since the trailer's flag is not consulted (`codec_api.py:65`);
- streaming decoder: "Feed raw bytes in any chunk size" (`streaming.py:14`), but
  packets before one that does not decode come out in small chunks and not in a large
  one, where they stay in the buffer with it; nothing comes out any more until clear,
  which drops them. `NothingLost` and `HeldBack` count such packets as held;
- semantic layer: an observation's inputs and params are always empty
  (`adapter.py:357` looks for tuples and operands are Symbols), although
  `types.py:247` describes them, and `ObservedAsSaid` says nothing of the two;
  an answer carries as its correlation id the session id of what it answers and not
  the message id that `AICL-ISA.md:264` names; the stream flag of the adapter is the bit that
  `constants.py` calls FLAG_COMPRESSED; replies with an error set only FLAG_RESPONSE;
  the fast codecs validate nothing, a negative
  deadline or one of 2^32 wraps and a short id shifts a frame of v2;
- SDK: `http=True` is ignored where the native library is found, `timeout` of
  `Model.call` is never used, `connect` also matches parts of descriptions,
  `NativeTransport.send` drops the view it decodes, and a view decoded while the
  transport closes has no context to be freed with, although `_ffi.py:9` says that
  Python must free each (theorem `ViewsAccounted` gives the balance), `stream` looks
  neither at the model's closed flag nor at the token after the answer, and message ids are unique for one model only.

## 5. Proofs

| Module | Theorems | Argument |
|---|---|---|
| `ShmRingProofs` | `TypeCorrect`, `RingCorrect`, `NoSlotRace`, `UsedBytesExact`, `RefusalsReal`, `ImplementsFifo` | `RingInv` |
| `LocalRingProofs` | `RingCorrect`, `TypeCorrect`, `NoOverrun`, `BorrowGuarantee`, `CountersAgree`, `PromisesHold`, `HeadersFifo` | `LocalInv` |
| `DispatchProofs` | of the capability table: `TableCorrect`, `EvictionBounded`, `WatermarkBounded`, `FullOrEmptyIsStable`, `OverflowReal` | `TableInv` |
| | of the gate: `PolicyIsExact` | `WalkExact` |
| | of router and connection: `ConnectionCorrect`, `ConnectionTypes`, `DrainIsAccountable`, `StrategiesKept` | `ConnectionInv` |
| `ShmSegmentProofs` | `SegmentCorrect`, `SegmentFifo` | `SegmentInv` |
| `RuntimeProofs` | `RuntimeCorrect`, `RuntimeTypes`, `ResponsesInOrder`, `LagIsBounded`, `SendsAreAllowed` | `RuntimeInv` |
| | of the channel pairs under the sessions: `ChannelCorrect`, `MutualExclusion`, `RefusalsReal`, `ImplementsFifo` | `ChannelInv` |
| `SdkProofs` | `SdkCorrect`, `CallbacksCalledOnce`, `CloseReaches`, `ClosedStaysSilent`, `CancelledIsNoSuccess`, `ViewsAccounted` | `SdkInv` |
| `CodecProofs` | of the streaming decoder: `DecoderInvariant`, `NothingIsLost`, `HeldBackForAReason` | `DecoderInv` |
| | of the binary codec: `DamageIsNoticed`, `VarintIsExact` | `DamageInv`, `VarintOf` |
| | of the semantic layer: `ConversationInvariant`, `NothingInvalidIsSent` | `ConversationInv` |
| `NatLemmas` | arithmetic of `%`, least elements | division with remainder, well-founded `<` |

The invariants were invariants of TLC runs before their proofs were begun, but for
`DecoderInv` and `DamageInv`: the one speaks of every stream that may follow, the
other of some header and payload, and TLC checked only what they imply.

*ShmRing.* Slot ownership alone is not inductive: that the used byte is 0 when the
producer looks says nothing unless it is known which slots are marked. `RingInv`
adds that the used bytes mark exactly the pending messages and that the cursors are
at most a lap apart; two pending messages then have different slots
(`NatLemmas!SlotsDistinct`), a write disturbs no pending one, and a slot found in
use is the one a lap back, so the ring is full. With the contents of pending slots
and of the calls in progress it implies that a publish is an Enqueue and a release
a Dequeue.

*LocalRing.* The counters are the counts modulo `Modulus`, and `LocalInv` says how
far each thread may be behind: `hseen <= popped <= tseen <= sent <= hseen +
Capacity`. Stale loads then err on the safe side, differences of wrapped counters
are the true ones, and the promise of `available` is covered by what was seen. The
assumption that the capacity divides the modulus (`ModulusAssumption`) is not
checked by the code; without it the slot of a counter jumps at the wrap.

*CapabilityTable.* `evicted <= next - 1`: each overwrite advances the watermark,
which never passes the length. A table created with `MAX_CAPABILITY` slots, as the
gate's is, never reaches the watermark path, and in one created empty the watermark
is the length, so a bump appends: `FullOrEmptyIsStable` adds to `TableInv` that
nothing was evicted and every index held resolves, and the slot of a registration is
then an empty one.

*Gate.* The code walks down from each operand, `PolicyExact` speaks of the packet
level by level; `ValidByLevel` connects them: an operand passes at a depth exactly
when those below it pass at the next, so a packet passes exactly when each of its
levels keeps the bounds and the one past `max_nesting_depth` is empty
(`WalkExact`). Operands are any set closed under `Children`, nested to any depth.

*StreamingDecoder.* `NothingLost` compares what came out with the packets of what was
fed, and is not inductive: it does not say what the buffer still holds. `DecoderInv`
does, for every continuation `d`: the packets of `fed \o d` are those that came out,
followed by those of `_buf \o d` (`Reads`). `LoopInv` is the same statement for one
pass of the loop in `feed`. It needs that where a packet begins cannot change with the
cells that follow (`LongerStream`), that cells which begin no packet may be skipped
(`SameHeads`), and that what was consumed does not matter to what is read after it
(`SuffixReadsSame`). `Within` says that a cell in the buffer was fed, which
turns the undecodable packet that keeps the rest back into one of the stream.

*BinCodec.* Until it is damaged, a packet on the wire is `Good`: its header's CRC is
that of its fields, its body has the announced length, its trailer is the CRC over
both. Each damage is then looked at once: a byte of the payload, of the trailer or of
the header replaced (`OtherByte`, `OtherHeader`), the end cut off (`CutShort`), bytes
added (`Followed`); decode raises, or it is one of the listed cases that it cannot
tell. The theorem is about `Spec` of `BinCodec`, the packets of an application; the
run also has those the adapters make. `VarintIsExact` holds for all naturals, as
`VarintOf` computes the four groups of seven bits and what a fifth would hold.

*Semantic.* What is said of the bytes on the wire holds because of where the action
comes from, and `ConversationInv` says just that: the action is what the model's
output parses to, a request follows an observation, and bytes are the packet's, the
model's or the peer's. The parsed action has numbers, or `null`, where validate
compares (`ParsedNumbers`), and action_to_packet refuses what validate, the gate or
the id's format rule out (`UnsendableIsRefused`).

*InProcChannel.* The lock is held exactly in the critical section, what a thread
has read is still the queue, and `sent = received \o queue`. The proofs are in
`RuntimeProofs`, beside those of the runtime that sits on the channels.

*ShmSegment.* That a segment is a FIFO is stated only of the segments used as they
are meant (`Sound`), so the invariant must say which segment create works on and
that everything pushed into it before create returned is marked early
(`OwnersKnown`, `Numbered`). Of the sound ones it says that the slots hold exactly the
pending messages, each at its number modulo the capacity (`HoldsPending`), and that a
process that has the segment has a cursor equal to the number of messages it moved
there (`CursorsExact`). The cursors belong to processes and not to segments, so the
step that matters is the one that changes segment: create restarts the owner's cursor
on a blank segment (`Blank`), and the first attach the user's on one from which it has
moved nothing.

*Runtime.* dispatch_packet matches nothing, so the order of the answers is that of
the queues. `PipelineInOrder` says that the numbers from the last response returned
to the last request sent lie in order along `fromPeer`, `todo` and `toPeer`, with gaps
only in `fromPeer`, and that every answer already returned is older than all of them.
`DispatchesCounted` (a request was answered, missed or is awaited) turns a gap into a
missed dispatch, which bounds the lag. `DispatchAllowed` carries what the gate and the
choice of the session established over the steps of the peers.

*Connection.* The packets taken out, followed by the queue, are those accepted; the
count of a drain under way covers packets that were answered (`CountKept`). Round
robin is even because the calls since the last handler was added are a number of full
rounds and the handlers before the cursor once more (`InTurn`); the first of them is
wherever the cursor stood, so the turns are counted from there.

*Sdk.* `TokenInv` says where each callback is: in the hands of one thread that waits
to register it, once in the list that cancel has yet to call, or called
(`WaitingOnce`, `ListedOnce`, `NoneForgotten`); only a callback that calls its own token
makes cancel forget the rest. The flag is set and the list is called under one lock
(`LockHeld`), which is why a registration that saw no cancel is in the list. For close,
the runtime's lock is held over the whole loop (`CloseHoldsLock`) and a model handed
out is in the dict, closed, replaced or late (`ModelsKnown`). A call that got past the
closed flag was begun before the close (`CallsKnowClosed`); a cancel that came before
the answer is still there at the last checkpoint, and only a stream, which has none,
gets past it (`CallsKnowCancelled`). The views
in hand are counted by the threads at the steps that have one, so that each step moves
one view from one class to another; `ThreadAssumption` makes that count finite. All
this is about different variables, and most of the module's lemmas say that a step
of one operation leaves the others' parts alone.

Assumptions are the ASSUMEs of the modules, which TLC evaluates in every run: bounds
and capacities are naturals, `None` is no thread and no capability, threads are
finitely many, Refs and instructions are naturals, `Capacity` divides `Modulus`; the
children of an operand are operands (`OperandAssumption`); a stream is cells, and the
length in a header a natural (`StreamAssumption`, `CellAssumption`); `None` is no
value of a field, a deadline is an integer and a payload is bytes (`NoneAssumption`,
`PacketAssumption`: the dataclass declares the fields, and `build_payload` joins
`bytes`); the limits of `struct` are naturals (`LimitAssumption`); confidence and deadline of an
output are integers or `None`, and words looked for in a text are intents
(`OutputAssumption`); `None` is no observation and no result (`GivenAssumption`).
Refinements are proved for the next-state relations; there is no fairness in
`BoundedFifo`.

**Recursion.** No RECURSIVE operator is in reach of a theorem. A loop or a descent is
a recursive function of the number of passes or of the depth, and that the function
exists is proved by its least counterexample (`NatLemmas!LeastNatural`; `PassesDef`,
`FromDef`, `LevelDef`, `ValidDef`). What cannot be done in this way, since it descends
into its data, is the codec of nested operands, which stays in `BinOperands`.

**Only model-checked.** Liveness (`EventuallyDelivered`, `CallsEnd`, `LockReleased`,
`AttachEnds`, `OperationsReturn`) is out of this prover's reach. `RoundTrip`,
`ObservedAsSaid`, `AnswerArrives` and `FastExact` need that decoding inverts encoding
for texts, extensions and operands of any length, an induction over data. Of
`SentUnlessRefused` the half that matters is proved (`NothingInvalidIsSent`); that
nothing else is refused needs the codec again. Every other safety property is
proved. Conversely `UsedBytesExact`, `CountersAgree`, `WatermarkBounded`,
`EvictionBounded`, `MutualExclusion`, `LagIsBounded`, `CloseReaches`, `ViewsAccounted` and the theorems that state a whole inductive
invariant or type correctness have no run of their own.

## 6. Not modelled, and the plan

Not to be modelled: layout and parsing of text (the formatter, addresses, the GBNF
templates of `grammar.py`, `action_to_sl`, diagnostics), pure I/O (HTTP, ctypes
signatures, library discovery, memory mapping), the wrapped external library, fixed
tables (`ops.py`), the transport factory, which imports backends that the repository
does not have, and the benchmarks and examples, which are programs that print. A
panic inside a handler or under the spinlock is left out, and so is `get_lib` called
by two threads before the signatures are set. `find_by_name`, `list` and `len` of the
capability table only read it. Of the dictionaries of `semantic/types.py` only
`ModelAction.from_dict` is used by the layer and modelled; `to_dict` and the other
`from_dict` serve benchmarks. `create` writes the segment's header in one step, so
that an attach which reads half of it is left out.

`ShmSegment` checks its FIFO only for segments that one user attached to once: a
user that attaches again starts with a fresh cursor, for which the class makes no
promise.

Theorems to add next: `FastExact` for the header fields of fixed width, which need no
induction; that each extension alone is read back, as a step towards `RoundTrip`; and
those of the components below.

Components still to be modelled, in this order: reference counts and streams of the
ABI under concurrent clone and drop; BufferPool, LocalChannel over two `LocalRing`s
with its nonces, DispatchTable; the C++ adapter with calls, streams, cancellation and
shutdown; the Rust codec against `BinCodec`; the endpoint registry.

Hazards that no property covers and `PROJECT.json` does not list, to be taken up with
their components: ids of `LocalNonce` equal at both ends of a channel
(`local_path.rs:962`); buffers that grew and are returned to another tier of the pool
(`local_path.rs:565`); a capability index used again after unregister
(`capability.rs:131`); a stream ended twice by the C++ adapter
(`aicl_adapter.cpp:130`); garbage that the streaming decoder keeps and scans again at
every feed (`streaming.py:61`).
