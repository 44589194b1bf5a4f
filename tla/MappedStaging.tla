---------------------------- MODULE MappedStaging ----------------------------
(***************************************************************************)
(* Uploads through mapped staging buffers (?wgpuuploadtransport=mapped).   *)
(* The worker copies each upload of the command ring into a mapped buffer  *)
(* (a slot) and notes a copy record; a submission seals every slot with    *)
(* records, puts their copies before the render commands of the drain, and *)
(* remaps the slots once the GPU is done with them                         *)
(* (wgpu-mapped-staging-pool.js).  With ?wgpumappeddraincoalescing=1 a     *)
(* drain of uploads alone may wait for the next one, or for a timer of     *)
(* 4 ms (wgpu-mapped-drain-coalescer.js).  An upload that finds no room    *)
(* stays in the ring until a remap ends.  quiesce waits until all of this  *)
(* has come to rest (wgpu-renderer-runtime.js).                            *)
(*                                                                         *)
(* The worker handles one event at a time: between the first record of a   *)
(* drain and its boundary only the video thread and the GPU move.  The     *)
(* ring is two counters here, and what its next record is, is chosen when  *)
(* it is replayed; CommandRing has its slots and its payload bytes.  A     *)
(* pass is published whole, after the uploads it needs (PushBatch there):  *)
(* an upload inside a pass, which fails replay if it finds no room, comes  *)
(* only from builds before the pass transactions and is left out.          *)
(***************************************************************************)
EXTENDS Integers, Sequences, FiniteSetsExt

CONSTANTS
  SlotCount,    \* staging buffers of the pool          (3, or 4)
  SlotSize,     \* cells of one buffer                  (4 MiB)
  BufferCells,  \* cells of the buffer uploads go to; one more is a texture
  MaxRecords,   \* bound: records the video thread publishes,
  FaultyRecords,\*   and those in a session that may fail
  Coalescing,   \* sessions: with the deferral of drains, or without
  MayFail,      \* remaps and submissions may fail, and the device be lost
  None          \* null

Setups == [coalescing : Coalescing, mayFail : MayFail]
Slots == 1 .. SlotCount
Texture == BufferCells
Memory == 0 .. BufferCells
Values == 0 .. MaxRecords        \* an upload writes the number of its record

(* Every upload fits in an empty slot: "payload-too-large" is left out.    *)
ASSUME StagingAssumption ==
  /\ SlotCount \in Nat \ {0} /\ SlotSize \in Nat \ {0}
  /\ BufferCells \in 1 .. SlotSize
  /\ MaxRecords \in Nat /\ FaultyRecords \in 0 .. MaxRecords
ASSUME SetupAssumption ==
  /\ Coalescing \subseteq BOOLEAN /\ MayFail \subseteq BOOLEAN
  /\ None \notin Nat

VARIABLES
  setup,
  written, read,     \* the ring: records published and replayed
  held,              \* the upload that waits in the ring for room
  draining, limit,   \* a drain, and the record it stops at
  enc,               \* its command encoder has commands
  slot, sequence,    \* the pool, and records staged since the last seal
  deferred, timer,   \* the coalescer's deferral and the worker's timer
  remaps, blocked,   \* promises of remaps; no room until one settles
  fatal,             \* wgpuReplayFatal: "no", "yes", or "lost" (the device)
  queue, memory,     \* the GPU: submissions, and what buffer and texture hold
  direct,            \* history: what they would hold with queue.writeBuffer
  quiescer           \* a call of quiesce

ringVars == <<written, read, held, draining, limit>>
pool == <<slot, sequence, remaps>>
coalescer == <<deferred, timer>>
gpu == <<queue, memory>>
vars == <<setup, ringVars, enc, pool, coalescer, blocked, fatal, gpu, direct, quiescer>>

Upload == {u \in [at : Memory, size : 1 .. BufferCells] :
             u.at + u.size <= BufferCells \/ (u.at = Texture /\ u.size = 1)}
CellsOf(c) == c.at .. c.at + c.size - 1

NewSlot == [state |-> "mapped", cursor |-> 0, records |-> <<>>,
            bytes |-> [k \in 0 .. SlotSize - 1 |-> 0]]
Idle == [pc |-> "idle", stable |-> None, awaited |-> {}, ahead |-> 0]

Init ==
  /\ setup \in Setups
  /\ written = 0 /\ read = 0 /\ held = None /\ draining = FALSE /\ limit = 0
  /\ enc = FALSE
  /\ slot = [i \in Slots |-> NewSlot] /\ sequence = 0 /\ remaps = {}
  /\ deferred = FALSE /\ timer = FALSE /\ blocked = FALSE /\ fatal = "no"
  /\ queue = <<>> /\ memory = [c \in Memory |-> 0] /\ direct = memory
  /\ quiescer = Idle

-----------------------------------------------------------------------------
(* The pool.  First fit among the mapped slots (allocate).                 *)
Fits(i, u) == slot[i].state = "mapped" /\ slot[i].cursor + u.size <= SlotSize
Room(u) == {i \in Slots : Fits(i, u)}

(* appendBufferRecord: the last record of the slot grows if it goes on, in *)
(* the slot and at the destination, and nothing was staged in between.     *)
Continues_Faulty(r, i, u) ==
  /\ r.at # Texture /\ u.at # Texture
  /\ r.source + r.size = slot[i].cursor /\ r.at + r.size = u.at
Continues(r, i, u) ==
  /\ r.at # Texture /\ u.at # Texture
  /\ r.last = sequence
  /\ r.source + r.size = slot[i].cursor /\ r.at + r.size = u.at

Appended(i, u) ==
  LET rs == slot[i].records
      n  == Len(rs)
  IN  IF n > 0 /\ Continues(rs[n], i, u)
      THEN [rs EXCEPT ![n].size = @ + u.size, ![n].last = sequence + 1]
      ELSE Append(rs, [first |-> sequence + 1, last |-> sequence + 1,
                       source |-> slot[i].cursor, size |-> u.size, at |-> u.at])

(* stageBuffer, stageTexture: copy the bytes of record number n.           *)
Stage(u, n) ==
  LET i == Min(Room(u))
      old == slot[i]
      cells == old.cursor .. old.cursor + u.size - 1
      bytes == [k \in DOMAIN old.bytes |-> IF k \in cells THEN n ELSE old.bytes[k]]
  IN  /\ slot' = [slot EXCEPT ![i] = [old EXCEPT !.bytes = bytes, !.records = Appended(i, u),
                                                !.cursor = old.cursor + u.size]]
      /\ sequence' = sequence + 1
      /\ direct' = [c \in Memory |-> IF c \in CellsOf(u) THEN n ELSE direct[c]]

(* seal takes every slot with records, so their sequence may start again.  *)
(* The copies are encoded in the order of the sequence.                    *)
Pending == {i \in Slots : slot[i].state = "mapped" /\ slot[i].records # <<>>}
Copies ==
  UNION {{[slot |-> i, source |-> r.source, size |-> r.size, at |-> r.at,
           order |-> r.first] : r \in {slot[i].records[k] : k \in 1 .. Len(slot[i].records)}}
         : i \in Pending}

Remapping_Faulty(s) == [s EXCEPT !.state = "mapped", !.cursor = 0, !.records = <<>>]
Remapping(s) == [s EXCEPT !.state = "remapping", !.cursor = 0, !.records = <<>>]
Failed(s) == [s EXCEPT !.state = "failed", !.cursor = 0, !.records = <<>>]

CancelDeferral == deferred' = FALSE /\ timer' = FALSE

(* The submission of submitEnc (with a render encoder) and of              *)
(* submitPendingWgpuMappedUploads (without); prepareWgpuMappedDrain-       *)
(* Submission and forceWgpuMappedDrainLifecycle cancel a deferral first.   *)
Submit(render) ==
  /\ CancelDeferral
  /\ IF Pending = {} /\ ~render
     THEN UNCHANGED <<pool, queue>>
     ELSE /\ queue' = Append(queue, [copies |-> Copies, direct |-> direct])
          /\ slot' = [i \in Slots |-> IF i \in Pending THEN Remapping(slot[i]) ELSE slot[i]]
          /\ sequence' = 0
          /\ remaps' = IF Pending = {} THEN remaps ELSE remaps \cup {Pending}
  /\ UNCHANGED <<fatal, memory>>

(* invalidate, and markWgpuReplayFatal: what was staged is dropped with    *)
(* its pool.                                                               *)
Invalidate == slot' = [i \in Slots |-> Failed(slot[i])] /\ sequence' = 0
MarkFatal_Faulty ==
  /\ fatal' = "yes" /\ CancelDeferral
  /\ UNCHANGED <<pool, gpu>>
MarkFatal ==
  /\ fatal' = "yes" /\ CancelDeferral
  /\ IF Pending # {} THEN Invalidate ELSE UNCHANGED <<slot, sequence>>
  /\ UNCHANGED <<remaps, gpu>>

(* queue.submit may throw: the batch is rejected, and its pool with it.    *)
Rejected(render) == setup.mayFail /\ (render \/ Pending # {}) /\ MarkFatal
SubmitOrFail(render) == Submit(render) \/ Rejected(render)

-----------------------------------------------------------------------------
(* The video thread publishes a record, unless the ring has failed.        *)
Publish ==
  /\ fatal = "no" /\ written < (IF setup.mayFail THEN FaultyRecords ELSE MaxRecords)
  /\ written' = written + 1
  /\ UNCHANGED <<setup, read, held, draining, limit, enc, pool, coalescer,
                 blocked, fatal, gpu, direct, quiescer>>

(* A drain starts, from the pump or from the presentation loop, unless an  *)
(* upload waits for room and a remap is on its way.  It replays up to some *)
(* limit (the window; a pass not yet complete).                            *)
Waiting == blocked /\ remaps # {}
StartDrain(to) ==
  /\ fatal = "no" /\ ~draining /\ read # written /\ ~Waiting
  /\ draining' = TRUE /\ limit' = to
  /\ UNCHANGED <<setup, written, read, held, enc, pool, coalescer, blocked, fatal,
                 gpu, direct, quiescer>>

Replayable == draining /\ fatal = "no" /\ read < limit
(* A record that turned replay fatal stays.                                *)
Consume ==
  /\ read' = IF fatal' = "no" THEN read + 1 ELSE read
  /\ UNCHANGED <<written, draining, limit>>

(* An upload that finds room.                                              *)
ReplayUpload(u) ==
  /\ Replayable /\ held \in {None, u} /\ Room(u) # {}
  /\ Stage(u, read + 1)
  /\ held' = None
  /\ UNCHANGED <<setup, enc, remaps, coalescer, blocked, fatal, gpu, quiescer>>
  /\ Consume

(* One that finds none stays in the ring (mappedCapacityHold).  What is    *)
(* encoded goes out ahead of it, and without a remap to wait for there is  *)
(* no way on.                                                              *)
HoldUpload(u) ==
  /\ Replayable /\ held \in {None, u} /\ Room(u) = {}
  /\ held' = u /\ blocked' = TRUE /\ limit' = read
  /\ IF ~enc /\ Pending = {} /\ remaps = {} THEN MarkFatal ELSE SubmitOrFail(enc)
  /\ enc' = FALSE
  /\ UNCHANGED <<setup, written, read, draining, direct, quiescer>>

(* A blit, or a pass replayed whole: commands for the encoder.             *)
ReplayRender ==
  /\ Replayable /\ held = None
  /\ enc' = TRUE
  /\ UNCHANGED <<setup, held, pool, coalescer, blocked, fatal, gpu, direct, quiescer>>
  /\ Consume

(* A creation, or a destruction with nothing to put before it.             *)
ReplayOther ==
  /\ Replayable /\ held = None
  /\ UNCHANGED <<setup, held, enc, pool, coalescer, blocked, fatal, gpu, direct, quiescer>>
  /\ Consume

(* A present submits what is encoded.                                      *)
ReplayPresent ==
  /\ Replayable /\ held = None
  /\ SubmitOrFail(enc)
  /\ enc' = FALSE /\ Consume
  /\ UNCHANGED <<setup, held, blocked, direct, quiescer>>

(* A destruction: with coalescing, what is staged goes out before it.      *)
ReplayDestroy ==
  /\ Replayable /\ held = None
  /\ setup.coalescing /\ Pending # {}
  /\ SubmitOrFail(enc)
  /\ enc' = FALSE
  /\ Consume
  /\ UNCHANGED <<setup, held, blocked, direct, quiescer>>

(* The boundary of a drain.  Uploads alone may be deferred, once: the caps *)
(* on their age, bytes and records may forbid it (atBoundary).             *)
MayDefer == setup.coalescing /\ ~deferred /\ ~enc /\ Pending # {}
EndDrain_Faulty ==
  /\ draining /\ (fatal # "no" \/ read = limit)
  /\ draining' = FALSE /\ limit' = 0 /\ enc' = FALSE
  /\ \/ fatal # "no" /\ UNCHANGED <<pool, coalescer, fatal, gpu>>
     \/ fatal = "no" /\ SubmitOrFail(enc)
     \/ /\ fatal = "no" /\ setup.coalescing /\ ~enc /\ Pending # {}
        /\ deferred' = TRUE /\ UNCHANGED <<timer, pool, fatal, gpu>>
  /\ UNCHANGED <<setup, written, read, held, blocked, direct, quiescer>>
EndDrain ==
  /\ draining /\ (fatal # "no" \/ read = limit)
  /\ draining' = FALSE /\ limit' = 0 /\ enc' = FALSE
  /\ \/ fatal # "no" /\ UNCHANGED <<pool, coalescer, fatal, gpu>>
     \/ fatal = "no" /\ SubmitOrFail(enc)
     \/ /\ fatal = "no" /\ MayDefer
        /\ deferred' = TRUE /\ timer' = TRUE /\ UNCHANGED <<pool, fatal, gpu>>
  /\ UNCHANGED <<setup, written, read, held, blocked, direct, quiescer>>

-----------------------------------------------------------------------------
(* The worker's other events.  The timer of a deferral:                    *)
TimerFires ==
  /\ timer /\ ~draining
  /\ SubmitOrFail(FALSE)
  /\ UNCHANGED <<setup, ringVars, enc, blocked, direct, quiescer>>

(* A reset or a state load forces out what is staged                       *)
(* (forceWgpuMappedDrainLifecycle).                                        *)
ForceLifecycle ==
  /\ ~draining /\ (Pending # {} \/ deferred)
  /\ SubmitOrFail(FALSE)
  /\ UNCHANGED <<setup, ringVars, enc, blocked, direct, quiescer>>

(* A slot is mapped again, once the GPU no longer reads it; the promise    *)
(* tracked is that of its whole batch (trackWgpuMappedRemap).  What was in *)
(* the slot is forgotten: only cells staged since are copied.              *)
InUse(i) == \E k \in 1 .. Len(queue) : \E c \in queue[k].copies : c.slot = i
BatchOf(i) == CHOOSE b \in remaps : i \in b
Settle(i) ==
  /\ remaps' = (remaps \ {BatchOf(i)}) \cup ({BatchOf(i) \ {i}} \ {{}})
  /\ quiescer' = [quiescer EXCEPT !.awaited = @ \ {i}]
Unblocked_Faulty(i) == blocked
Unblocked(i) == blocked /\ BatchOf(i) # {i}

SlotRemapped(i) ==
  /\ ~draining /\ i \in UNION remaps
  /\ \/ slot[i].state = "failed" /\ UNCHANGED slot
     \/ /\ slot[i].state = "remapping" /\ ~InUse(i)
        /\ slot' = [slot EXCEPT ![i] = NewSlot]
  /\ Settle(i) /\ blocked' = Unblocked(i)
  /\ UNCHANGED <<setup, ringVars, enc, sequence, coalescer, fatal, gpu, direct>>

(* A remap fails: the pool is invalid, and with it the other remaps.  (The *)
(* promises of its batch settle, and mark replay fatal, in the same task.) *)
RemapFails(i) ==
  /\ setup.mayFail /\ fatal = "no" /\ ~draining /\ i \in UNION remaps
  /\ fatal' = "yes" /\ CancelDeferral /\ Invalidate
  /\ Settle(i) /\ blocked' = Unblocked(i)
  /\ UNCHANGED <<setup, ringVars, enc, gpu, direct>>

(* handleWgpuDeviceLoss and clearWgpuReplayStateAfterDeviceLoss.           *)
DeviceLost ==
  /\ setup.mayFail /\ fatal # "lost" /\ ~draining
  /\ fatal' = "lost" /\ CancelDeferral /\ Invalidate
  /\ blocked' = FALSE /\ queue' = <<>>
  /\ UNCHANGED <<setup, ringVars, enc, remaps, memory, direct, quiescer>>

(* The GPU runs the submissions in order; a copy reads its slot then.      *)
Copied(copies, c) ==
  LET over == {k \in copies : c \in CellsOf(k)}
      last == CHOOSE k \in over : \A j \in over : j.order <= k.order
  IN  IF over = {} THEN memory[c]
      ELSE slot[last.slot].bytes[last.source + c - last.at]
GpuExecutes ==
  /\ queue # <<>>
  /\ memory' = [c \in Memory |-> Copied(Head(queue).copies, c)]
  /\ queue' = Tail(queue)
  /\ quiescer' = [quiescer EXCEPT !.ahead = IF @ > 0 THEN @ - 1 ELSE 0]
  /\ UNCHANGED <<setup, ringVars, enc, pool, coalescer, blocked, fatal, direct>>

-----------------------------------------------------------------------------
(***************************************************************************)
(* quiesce: until two observations in a row find nothing to do and the     *)
(* same write index, drain (StartDrain) and finalize; then wait for the    *)
(* GPU and look once more.  finalizeWgpuMappedDrain forces out what is     *)
(* staged and awaits the remaps there are, until there are none.  The time *)
(* between observations and the timeouts are left out.                     *)
(***************************************************************************)
AtRest ==
  /\ read = written /\ Pending = {} /\ remaps = {} /\ ~blocked /\ ~timer
  /\ fatal = "no"

StartQuiesce ==
  /\ quiescer.pc = "idle"
  /\ quiescer' = [quiescer EXCEPT !.pc = "finalize"]
  /\ UNCHANGED <<setup, ringVars, enc, pool, coalescer, blocked, fatal, gpu, direct>>

Finalize ==
  /\ quiescer.pc = "finalize" /\ ~draining /\ fatal = "no"
  /\ Pending # {} \/ remaps # {}
  /\ IF Pending # {} THEN SubmitOrFail(FALSE)
     ELSE UNCHANGED <<pool, coalescer, fatal, gpu>>
  /\ quiescer' = [quiescer EXCEPT !.pc = "await", !.awaited = UNION remaps']
  /\ UNCHANGED <<setup, ringVars, enc, blocked, direct>>
RemapsAwaited ==
  /\ quiescer.pc = "await" /\ quiescer.awaited = {}
  /\ quiescer' = [quiescer EXCEPT !.pc = "finalize"]
  /\ UNCHANGED <<setup, ringVars, enc, pool, coalescer, blocked, fatal, gpu, direct>>

Observed(q) ==
  IF ~AtRest THEN [q EXCEPT !.stable = None]
  ELSE IF q.stable = written
  THEN [q EXCEPT !.pc = "gpu", !.ahead = Len(queue)]
  ELSE [q EXCEPT !.stable = written]
Observe ==
  /\ quiescer.pc = "finalize" /\ ~draining
  /\ \/ fatal # "no" /\ quiescer' = [quiescer EXCEPT !.pc = "threw"]
     \/ /\ fatal = "no" /\ Pending = {} /\ remaps = {}
        /\ quiescer' = IF blocked THEN [quiescer EXCEPT !.pc = "threw"]
                       ELSE Observed(quiescer)
  /\ UNCHANGED <<setup, ringVars, enc, pool, coalescer, blocked, fatal, gpu, direct>>

(* validatePostCompletionReplaySnapshot                                    *)
Validated_Faulty == AtRest
Validated == AtRest /\ written = quiescer.stable
GpuAwaited ==
  /\ quiescer.pc = "gpu" /\ ~draining /\ quiescer.ahead = 0
  /\ quiescer' = [quiescer EXCEPT !.pc = IF Validated THEN "returned" ELSE "threw"]
  /\ UNCHANGED <<setup, ringVars, enc, pool, coalescer, blocked, fatal, gpu, direct>>

-----------------------------------------------------------------------------
Replay ==
  \/ \E u \in Upload : ReplayUpload(u) \/ HoldUpload(u)
  \/ ReplayRender \/ ReplayOther \/ ReplayPresent \/ ReplayDestroy
  \/ EndDrain
Drain == \E to \in read + 1 .. written : StartDrain(to)
Quiesce == Finalize \/ RemapsAwaited \/ Observe \/ GpuAwaited

Next ==
  \/ Publish \/ Drain \/ Replay
  \/ TimerFires \/ ForceLifecycle
  \/ \E i \in Slots : SlotRemapped(i) \/ RemapFails(i)
  \/ DeviceLost \/ GpuExecutes
  \/ StartQuiesce \/ Quiesce

(* The event loop runs the pump, the timer, the promises and the caller of *)
(* quiesce; the GPU works on.  Nothing makes a message arrive.             *)
Fairness ==
  /\ WF_vars(Drain) /\ WF_vars(Replay) /\ WF_vars(TimerFires)
  /\ \A i \in Slots : WF_vars(SlotRemapped(i))
  /\ WF_vars(GpuExecutes) /\ WF_vars(Quiesce)

Spec == Init /\ [][Next]_vars /\ Fairness

-----------------------------------------------------------------------------
CopyRecord == [first : Nat, last : Nat, source : 0 .. SlotSize - 1,
               size : 1 .. SlotSize, at : Memory]
SlotState == [state : {"mapped", "remapping", "failed"}, cursor : 0 .. SlotSize,
              records : Seq(CopyRecord), bytes : [0 .. SlotSize - 1 -> Values]]
Submission == [copies : SUBSET [slot : Slots, source : 0 .. SlotSize - 1,
                                size : 1 .. SlotSize, at : Memory, order : Nat],
               direct : [Memory -> Values]]

(* Types.  Besides: a slot is awaited by at most one promise and exactly   *)
(* while it is being remapped, its records lie in what is allocated, and   *)
(* the coalescer has a deferral exactly while the worker has its timer,    *)
(* and only for uploads that are still staged.                             *)
TypeOK ==
  /\ setup \in Setups /\ written \in 0 .. MaxRecords /\ read \in 0 .. written
  /\ held \in Upload \cup {None} /\ limit \in 0 .. written
  /\ {draining, enc, deferred, timer, blocked} \subseteq BOOLEAN
  /\ \A i \in Slots :
       /\ slot[i] \in SlotState
       /\ \A k \in 1 .. Len(slot[i].records) :
            slot[i].records[k].source + slot[i].records[k].size <= slot[i].cursor
       /\ slot[i].state = "remapping" => i \in UNION remaps
       /\ slot[i].state = "mapped" => i \notin UNION remaps
  /\ sequence \in Nat
  /\ remaps \subseteq ((SUBSET Slots) \ {{}})
  /\ \A b, d \in remaps : b # d => b \cap d = {}
  /\ deferred <=> timer
  /\ deferred => Pending # {}
  /\ fatal \in {"no", "yes", "lost"}
  /\ queue \in Seq(Submission) /\ memory \in [Memory -> Values]
  /\ direct \in [Memory -> Values]
  /\ quiescer \in [pc : {"idle", "finalize", "await", "gpu", "returned", "threw"},
                   stable : 0 .. MaxRecords \cup {None},
                   awaited : SUBSET Slots, ahead : Nat]

(* Staging is invisible: when the GPU runs a submission, its commands find *)
(* in the buffer and the texture what queue.writeBuffer would have put     *)
(* there, although uploads were joined, spread over slots, held back by a  *)
(* full pool or a deferral, and the slots have been written again since.   *)
RendersSeeTheirUploads ==
  [][fatal' # "lost" /\ queue # <<>> /\ queue' = Tail(queue) =>
       memory' = Head(queue).direct]_vars

(* A full pool is no failure: while the GPU is well and the producer       *)
(* keeps uploads out of passes, replay never turns fatal, however much is  *)
(* uploaded, and quiesce throws only if the producer wrote meanwhile.      *)
HealthyGpuNeverFails ==
  ~setup.mayFail =>
    /\ fatal = "no"
    /\ quiescer.pc = "threw" => quiescer.stable # None /\ written # quiescer.stable

(* A failure is final: nothing is staged or submitted after it, by no      *)
(* timer, message or late remap.                                           *)
FatalIsFinal ==
  [][fatal # "no" => /\ fatal' # "no" /\ UNCHANGED <<read, direct>>
                     /\ Len(queue') <= Len(queue)]_vars

(* When quiesce returns, all that was published has been replayed, sent    *)
(* and run: the GPU is idle, and holds what was uploaded.                  *)
QuiescedMeansDone ==
  [][quiescer'.pc = "returned" /\ quiescer.pc # "returned" =>
       read = written /\ queue = <<>> /\ Pending = {} /\ memory = direct]_vars

(* Once the producer rests, everything reaches the GPU or replay has       *)
(* failed: no upload is left deferred, none waits for room for ever, and   *)
(* a call of quiesce ends.                                                 *)
EverythingReachesTheGpu ==
  []<>(\/ fatal # "no"
       \/ /\ read = written /\ Pending = {} /\ queue = <<>>
          /\ quiescer.pc \in {"idle", "returned", "threw"})
=============================================================================
