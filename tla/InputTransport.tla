--------------------------- MODULE InputTransport ---------------------------
(***************************************************************************)
(* The way a controller state takes from the page to the emulated pad:     *)
(*   - the main thread numbers each changed state, writes it word by word  *)
(*     into shared memory under a sequence word (src/input-transport.js,   *)
(*     setInputState of src/upstream-worker-adapter.js) and posts it;      *)
(*   - the worker reads the words from its presentation loop, receives the *)
(*     posts between two turns of it, and hands the core what is newer     *)
(*     than all it handed over before (src/upstream-discio-worker.js);     *)
(*   - the core keeps one state under a mutex                              *)
(*     (core/upstream/dolphin_web_discio.cpp).                             *)
(* One action is one access to shared memory or one message handler.  The  *)
(* model starts after a successful load.  Every word of a state carries    *)
(* the state's value, so words of two states are always told apart.        *)
(***************************************************************************)
EXTENDS Integers, Sequences

CONSTANTS
  Values,             \* what the words of a state may hold; Centre is 0
  WordCount,          \* control words of a state (9: the mask, then the axes)
  GenerationModulus,  \* values of a generation word (2^32)
  SequenceModulus,    \* values of the sequence word (2^32)
  MaxAttempts,        \* reads of one poll (3)
  Sharing,            \* whether SharedArrayBuffer may be there, or missing
  Calls,              \* which other calls the page may make: sets of "reset"
                      \*   and "mask"
  MaxPosts,           \* bound: messages under way
  None

Centre == 0

ASSUME ConstantsAssumption ==
  /\ Values \subseteq Nat /\ Centre \in Values
  /\ WordCount \in Nat \ {0}
  /\ GenerationModulus \in Nat /\ SequenceModulus \in Nat
  /\ MaxAttempts \in Nat \ {0} /\ MaxPosts \in Nat \ {0}
  /\ Sharing \subseteq BOOLEAN /\ Calls \subseteq SUBSET {"reset", "mask"}
  /\ None \notin Values

(* The compare is by half the modulus: no post may be that far behind.     *)
ASSUME GenerationAssumption ==
  GenerationModulus % 2 = 0 /\ GenerationModulus > 2 * (MaxPosts + 2)
ASSUME SequenceAssumption == SequenceModulus % 2 = 0 /\ SequenceModulus > 2

Words == 1 .. WordCount
Pad(m, axes) == [w \in Words |-> IF w = 1 THEN m ELSE axes]
Neutral == Pad(Centre, Centre)
States == {Pad(v, v) : v \in Values}
Generations == 0 .. GenerationModulus - 1

VARIABLES
  adapter,   \* main thread: [shared, calls, pc, held, generation, stored]
  sab,       \* shared memory: [words, generation, sequence]
  posts,     \* messages to the worker, in order
  reader,    \* a poll: [pc, attempt, before, overlap, words, loaded, generation]
  worker,    \* [last, mask]: lastInputStateGeneration, inputMask
  core,      \* s_input_state: [words, generation]
  unapplied  \* history: [words, generation] of the states after worker.last

vars == <<adapter, sab, posts, reader, worker, core, unapplied>>

Idle == [pc |-> "idle", attempt |-> 0, before |-> 0, overlap |-> 0,
         words |-> Neutral, loaded |-> 0, generation |-> 0]

Init ==
  /\ \E shared \in Sharing, calls \in Calls :
       adapter = [shared |-> shared, calls |-> calls, pc |-> "idle", held |-> None,
                  generation |-> 0, stored |-> 0]
  /\ sab = [words |-> Neutral, generation |-> 0, sequence |-> 0]
  /\ posts = <<>>
  /\ reader = Idle
  /\ worker = [last |-> 0, mask |-> Centre]
  /\ core = [words |-> Neutral, generation |-> 0]
  /\ unapplied = <<>>
-----------------------------------------------------------------------------
(* The main thread.                                                        *)

(* Generation 0 means "none", so the counter skips it when it wraps.       *)
NextGeneration(g) ==
  IF (g + 1) % GenerationModulus = 0 THEN 1 ELSE (g + 1) % GenerationModulus

WriteSequence(s) ==
  (IF (s + 1) % 2 = 1 THEN s + 1 ELSE s + 2) % SequenceModulus
ReadSequence_Faulty(s) == s + 1
ReadSequence(s) == (s + 1) % SequenceModulus

RoomToPost == adapter.pc = "idle" /\ Len(posts) < MaxPosts

(* A poll does not last for half the sequence word's range of writes.      *)
OverlapBound == reader.overlap + 2 < SequenceModulus

(* An unchanged state is dropped; a changed one gets the next generation.  *)
SetInputState(s) ==
  /\ RoomToPost
  /\ s # adapter.held
  /\ LET g == NextGeneration(adapter.generation) IN
     /\ adapter' = [adapter EXCEPT !.pc = IF adapter.shared THEN "open" ELSE "post",
                                   !.held = s, !.generation = g]
     /\ unapplied' = Append(unapplied, [words |-> s, generation |-> g])
  /\ UNCHANGED <<sab, posts, reader, worker, core>>

StoreSequence(s) ==
  /\ sab' = [sab EXCEPT !.sequence = s]
  /\ reader' = IF reader.pc \in {"load", "check"}
               THEN [reader EXCEPT !.overlap = @ + 1] ELSE reader

OpenWrite ==
  /\ adapter.pc = "open" /\ OverlapBound
  /\ StoreSequence(WriteSequence(sab.sequence))
  /\ adapter' = [adapter EXCEPT !.pc = "store"]
  /\ UNCHANGED <<posts, worker, core, unapplied>>

StoreWord ==
  /\ adapter.pc = "store" /\ adapter.stored < WordCount
  /\ sab' = [sab EXCEPT !.words[adapter.stored + 1] =
                          adapter.held[adapter.stored + 1]]
  /\ adapter' = [adapter EXCEPT !.stored = @ + 1]
  /\ UNCHANGED <<posts, reader, worker, core, unapplied>>

StoreGeneration ==
  /\ adapter.pc = "store" /\ adapter.stored = WordCount
  /\ sab' = [sab EXCEPT !.generation = adapter.generation]
  /\ adapter' = [adapter EXCEPT !.pc = "close", !.stored = 0]
  /\ UNCHANGED <<posts, reader, worker, core, unapplied>>

CloseWrite ==
  /\ adapter.pc = "close"
  /\ StoreSequence(ReadSequence(sab.sequence))
  /\ adapter' = [adapter EXCEPT !.pc = "post"]
  /\ UNCHANGED <<posts, worker, core, unapplied>>

Post ==
  /\ adapter.pc = "post"
  /\ posts' = Append(posts, [type |-> "state", words |-> adapter.held,
                             generation |-> adapter.generation])
  /\ adapter' = [adapter EXCEPT !.pc = "idle"]
  /\ UNCHANGED <<sab, reader, worker, core, unapplied>>

(* A request for a reset, and the bare-mask call of setPressedButtons.     *)
RequestReset ==
  /\ RoomToPost /\ "reset" \in adapter.calls
  /\ posts' = Append(posts, [type |-> "reset"])
  /\ UNCHANGED <<adapter, sab, reader, worker, core, unapplied>>

SetInputMask(m) ==
  /\ RoomToPost /\ "mask" \in adapter.calls
  /\ posts' = Append(posts, [type |-> "mask", mask |-> m])
  /\ UNCHANGED <<adapter, sab, reader, worker, core, unapplied>>
-----------------------------------------------------------------------------
(* The worker: one poll of shared memory, or one message, at a time.       *)

CompareInputGenerations_Faulty(candidate, current) ==
  IF candidate = current THEN 0 ELSE IF candidate > current THEN 1 ELSE -1
CompareInputGenerations(candidate, current) ==
  LET delta == (candidate - current) % GenerationModulus IN
  IF delta = 0 THEN 0 ELSE IF 2 * delta < GenerationModulus THEN 1 ELSE -1

(* History: the states offered after the one of generation g.              *)
OfferOf(g) == {i \in DOMAIN unapplied : unapplied[i].generation = g}
After(g) ==
  IF OfferOf(g) = {} THEN unapplied
  ELSE LET i == CHOOSE j \in OfferOf(g) : TRUE
       IN SubSeq(unapplied, i + 1, Len(unapplied))

CoreSetInputState(words, g) ==
  core' = [words |-> words, generation |-> g]

(* The core's SetInputMask centres the sticks and forgets the generation.  *)
CoreSetInputMask(m) ==
  core' = [words |-> Pad(m, Centre), generation |-> 0]

Newer_Faulty(g) == g # 0 /\ g # worker.last
Newer(g) == g # 0 /\ CompareInputGenerations(g, worker.last) = 1

ApplyInputStateSnapshot_Faulty(words, g) ==
  IF Newer(g)
  THEN /\ worker' = [worker EXCEPT !.last = g]
       /\ CoreSetInputState(words, g)
       /\ unapplied' = After(g)
  ELSE UNCHANGED <<worker, core, unapplied>>
ApplyInputStateSnapshot(words, g) ==
  IF Newer(g)
  THEN /\ worker' = [last |-> g, mask |-> words[1]]
       /\ CoreSetInputState(words, g)
       /\ unapplied' = After(g)
  ELSE UNCHANGED <<worker, core, unapplied>>

IsEven(s) == s % 2 = 0

(* A poll that finds the sequence word odd gives up at once.               *)
LoadSequence(attempt) ==
  reader' = IF IsEven(sab.sequence)
            THEN [Idle EXCEPT !.pc = "load", !.attempt = attempt,
                              !.before = sab.sequence]
            ELSE Idle

BeginPoll ==
  /\ reader.pc = "idle" /\ adapter.shared
  /\ LoadSequence(1)
  /\ UNCHANGED <<adapter, sab, posts, worker, core, unapplied>>

LoadWord ==
  /\ reader.pc = "load" /\ reader.loaded < WordCount
  /\ reader' = [reader EXCEPT !.words[reader.loaded + 1] =
                                sab.words[reader.loaded + 1],
                              !.loaded = @ + 1]
  /\ UNCHANGED <<adapter, sab, posts, worker, core, unapplied>>

LoadGeneration ==
  /\ reader.pc = "load" /\ reader.loaded = WordCount
  /\ reader' = [reader EXCEPT !.pc = "check", !.generation = sab.generation]
  /\ UNCHANGED <<adapter, sab, posts, worker, core, unapplied>>

Unchanged_Faulty == TRUE
Unchanged == sab.sequence = reader.before

Accept ==
  /\ reader.pc = "check" /\ Unchanged
  /\ ApplyInputStateSnapshot(reader.words, reader.generation)
  /\ reader' = Idle
  /\ UNCHANGED <<adapter, sab, posts>>

Reject ==
  /\ reader.pc = "check" /\ ~Unchanged
  /\ reader' = IF reader.attempt < MaxAttempts
               THEN [Idle EXCEPT !.pc = "retry", !.attempt = reader.attempt + 1]
               ELSE Idle
  /\ UNCHANGED <<adapter, sab, posts, worker, core, unapplied>>

Retry ==
  /\ reader.pc = "retry"
  /\ LoadSequence(reader.attempt)
  /\ UNCHANGED <<adapter, sab, posts, worker, core, unapplied>>

Receives(type) ==
  /\ reader.pc = "idle" /\ posts # <<>> /\ Head(posts).type = type
  /\ posts' = Tail(posts)
  /\ UNCHANGED <<adapter, sab, reader>>

ReceiveState ==
  /\ Receives("state")
  /\ ApplyInputStateSnapshot(Head(posts).words, Head(posts).generation)

(* The core's Reset leaves the pad alone; the handler re-applies the mask. *)
ReceiveReset ==
  /\ Receives("reset")
  /\ CoreSetInputMask(worker.mask)
  /\ UNCHANGED <<worker, unapplied>>

ReceiveMask ==
  /\ Receives("mask")
  /\ worker' = [worker EXCEPT !.mask = Head(posts).mask]
  /\ CoreSetInputMask(Head(posts).mask)
  /\ UNCHANGED unapplied
-----------------------------------------------------------------------------
Write == OpenWrite \/ StoreWord \/ StoreGeneration \/ CloseWrite \/ Post
Read == LoadWord \/ LoadGeneration \/ Accept \/ Reject \/ Retry
Receive == ReceiveState \/ ReceiveReset \/ ReceiveMask

Next ==
  \/ \E s \in States : SetInputState(s)
  \/ OpenWrite \/ StoreWord \/ StoreGeneration \/ CloseWrite \/ Post
  \/ RequestReset \/ \E m \in Values : SetInputMask(m)
  \/ BeginPoll \/ LoadWord \/ LoadGeneration \/ Accept \/ Reject \/ Retry
  \/ ReceiveState \/ ReceiveReset \/ ReceiveMask

Spec == Init /\ [][Next]_vars

(* setInputState and a poll are synchronous code: once begun they finish.  *)
RunToCompletion == WF_vars(Write) /\ WF_vars(Read)

(* Where memory is shared only the presentation loop need turn: no message *)
(* is ever served.  Where it is not, messages are served between two turns *)
(* however often the loop turns.                                           *)
HeldSpec ==
  /\ Spec /\ RunToCompletion
  /\ WF_vars(BeginPoll)
  /\ SF_vars(~adapter.shared /\ Receive)
-----------------------------------------------------------------------------
Message ==
  [type : {"state"}, words : States, generation : Generations]
    \union [type : {"reset"}] \union [type : {"mask"}, mask : Values]

(* Type invariant.                                                         *)
TypeOK ==
  /\ adapter \in [shared : BOOLEAN, calls : SUBSET {"reset", "mask"},
                  pc : {"idle", "open", "store", "close", "post"},
                  held : States \union {None}, generation : Generations,
                  stored : 0 .. WordCount]
  /\ sab \in [words : [Words -> Values], generation : Generations,
              sequence : 0 .. SequenceModulus - 1]
  /\ posts \in Seq(Message) /\ Len(posts) <= MaxPosts
  /\ reader \in [pc : {"idle", "load", "check", "retry"},
                 attempt : 0 .. MaxAttempts, before : 0 .. SequenceModulus - 1,
                 overlap : 0 .. SequenceModulus - 1, words : [Words -> Values],
                 loaded : 0 .. WordCount, generation : Generations]
  /\ worker \in [last : Generations, mask : Values]
  /\ core \in [words : [Words -> Values], generation : Generations]
  /\ unapplied \in Seq([words : States, generation : Generations])

(* No torn snapshot: when the second read of the sequence word agrees with *)
(* the first, the words and the generation read in between are those of    *)
(* the one state the main thread published last, whatever it stored while  *)
(* the poll was under way.                                                 *)
NoTornSnapshot ==
  reader.pc = "check" /\ Unchanged =>
    /\ reader.generation = sab.generation
    /\ reader.words = sab.words
    /\ adapter.pc \in {"idle", "open", "post"}

(* What shared memory and the posts hand over races, and each path repeats *)
(* what the other delivered: yet the worker only ever takes up a state     *)
(* offered after the last one it took, across the wrap of the counter.     *)
NeverGoesBack ==
  [][worker'.last # worker.last =>
       \E i \in OfferOf(worker'.last) : core'.words = unapplied[i].words]_vars

(* Both paths together implement the register of the latest input: resets  *)
(* and bare-mask calls change the pad in their own way, but bring no older *)
(* state back.                                                             *)
SticksCentred(words) == Pad(words[1], Centre)
LatestInput ==
  INSTANCE LatestInput WITH
    Bare <- {Pad(m, Centre) : m \in Values}, calls <- adapter.calls,
    offered <- [i \in DOMAIN unapplied |-> unapplied[i].words],
    pad <- core.words
ImplementsLatestInput == LatestInput!Spec

(* A state the page holds reaches the core and stays there, over shared    *)
(* memory alone or by messages alone.  Resets centre the sticks and forget *)
(* the generation, but the held buttons survive them: the worker re-applies*)
(* the mask of the last state it took.                                     *)
Arrived(s) ==
  CASE adapter.calls = {} -> core.words = s
    [] adapter.calls = {"reset"} -> core.words[1] = s[1]
    [] "mask" \in adapter.calls -> TRUE
HeldStateArrives ==
  \A s \in States : <>[](adapter.held = s) => <>[]Arrived(s)
=============================================================================
