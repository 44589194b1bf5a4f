---------------------------- MODULE CommandRing -----------------------------
(***************************************************************************)
(* The WebGPU command ring.  The emulator's video thread records commands  *)
(* and upload payloads into shared memory (WebGPUCommandStream, in         *)
(* patches/dolphin-wasm/snapshot); the worker drains them into the GPU     *)
(* (drainWebGpuCmdRing in src/upstream-discio-worker.js).                  *)
(*                                                                         *)
(* Two structures are shared: a ring of fixed-size records, handed back by *)
(* the read index once per drain, and an arena of payload bytes, handed    *)
(* back by the uploadRead watermark as soon as a payload is copied.  A     *)
(* record that may not be replayed yet (its pass is incomplete, or the     *)
(* drain's budget is spent) keeps its slot, but its payload is copied      *)
(* aside ("staged") so that the arena does not fill up behind it.          *)
(*                                                                         *)
(* The worker handles one event at a time, so a drain is only interleaved  *)
(* with the video thread.  A drain is one action per record, and copying a *)
(* payload and releasing its bytes are two.  What a record does on the GPU *)
(* is left out: only its kind and the bytes it uploads are kept.  Uploads  *)
(* go through queue.writeBuffer/writeTexture (wgpuUploadTransport "queue").*)
(***************************************************************************)
EXTENDS Integers, Sequences, FiniteSetsExt

CONSTANTS
  Capacity,      \* records in the ring              (262144 in the code)
  IndexModulus,  \* record indices are 32-bit words  (2^32)
  ArenaSize,     \* bytes of the upload arena, in allocation units
  ByteModulus,   \* arena positions are 32-bit words (2^32)
  Window,        \* WGPU_REPLAY_WINDOW_RECORDS       (16384)
  DeferLimit,    \* deferrals of a trailing BEGIN in legacy mode (8)
  Lengths,       \* lengths of an upload
  Records,       \* bound: what is recorded besides passes of uploads:
                 \*   "command" (anywhere), "upload" (between passes)
  MaxPass,       \* bound: records of one pass, BEGIN and END included
  Modes,         \* replay modes: "atomic", "legacy" (?wgpuatomic=0),
                 \*   "budget" (?wgpureplayms=4 or 6)
  Producers,     \* "batched": a pass is published whole, by PushBatch
                 \* "incremental": record by record, as builds before the
                 \*   pass transactions did and drains still allow for
  Fenced,        \* producers whose sessions may have ?wgpuloadfence=1
  MayFail,       \* the GPU may fail: device loss, a failing submit
  None           \* no index (null in the code)

(* Both word ranges wrap at a multiple of the buffer they index.           *)
ASSUME RingAssumption ==
  /\ Capacity \in Nat \ {0} /\ IndexModulus \in Nat
  /\ IndexModulus >= 2 * Capacity /\ IndexModulus % Capacity = 0
  /\ ArenaSize \in Nat \ {0} /\ ByteModulus \in Nat
  /\ ByteModulus >= 2 * ArenaSize /\ ByteModulus % ArenaSize = 0
  /\ Window \in Nat \ {0} /\ DeferLimit \in Nat
(* ReserveUpload refuses what is larger than the arena, and the end of a   *)
(* reservation, padding included, does not run a whole lap ahead of what   *)
(* the worker has handed back (the code's arena has 32 or 64 MiB).  It     *)
(* does not ask for what UploadsAreNotStarved needs: padding up to the     *)
(* arena's start plus more than half of it can exceed the arena.           *)
ASSUME UploadsFit ==
  \A n \in Lengths : n \in 1 .. ArenaSize /\ ArenaSize + 2 * n <= ByteModulus
ASSUME PassesFit == MaxPass \in 2 .. Capacity
ASSUME ChoiceAssumption ==
  /\ Modes \subseteq {"atomic", "legacy", "budget"}
  /\ Records \subseteq {"command", "upload"}
  /\ Producers \subseteq {"batched", "incremental"}
  /\ Fenced \subseteq Producers /\ MayFail \in BOOLEAN
ASSUME NoneIsNoIndex == None \notin 0 .. IndexModulus - 1

VARIABLES
  setup,       \* the replay mode and the kind of producer of this session
  \* shared memory: header words, record slots, payload bytes
  write, read, uploadRead, failed, slots, arena,
  \* the video thread
  uploadWrite, uploadBefore, ppc, length, passRecords,
  \* the worker: the ring object's fields
  held, staged, stagedBytes, stagedStart, cursor, fence, deferrals,
  \* the worker: program counter and locals of a drain
  cpc, first, next, seen, limit, passOpen, copied

shared == <<write, read, uploadRead, failed, slots, arena>>
producer == <<uploadWrite, uploadBefore, ppc, length, passRecords>>
ring == <<held, staged, stagedBytes, stagedStart, cursor, fence, deferrals>>
drain == <<cpc, first, next, seen, limit, passOpen, copied>>
vars == <<setup, shared, producer, ring, drain>>

Index == 0 .. IndexModulus - 1
Position == 0 .. ByteModulus - 1

(* A record is known by the index it was published at, and a payload byte  *)
(* by the record it belongs to.  "command" stands for every record that is *)
(* neither an upload nor the mark of a pass: creations, draws, presents.   *)
Op == {"command", "upload", "begin", "end"}
Record == [op : Op, at : Index, off : 0 .. ArenaSize - 1, len : Lengths \cup {0}]
Forgotten == [op |-> "none", at |-> 0, off |-> 0, len |-> 0]
Free == None
NotStaged == [bytes |-> {}, len |-> 0]

Advance_Faulty(i, n) == i + n
Advance(i, n) == (i + n) % IndexModulus
Distance(to, from) == (to - from) % IndexModulus
Ahead(to, from) == (to - from) % ByteModulus
Lesser(a, b) == IF a <= b THEN a ELSE b

Slot(i) == slots[i % Capacity]
Bytes(r) == {arena[b] : b \in r.off .. r.off + r.len - 1}
Own(i) == {i}

Init ==
  /\ setup \in [mode : Modes, producer : Producers]
  /\ write = 0 /\ read = 0 /\ uploadRead = 0 /\ failed = FALSE
  /\ slots = [s \in 0 .. Capacity - 1 |-> Forgotten]
  /\ arena = [b \in 0 .. ArenaSize - 1 |-> Free]
  /\ uploadWrite = 0 /\ uploadBefore = 0 /\ ppc = "idle" /\ length = 0
  /\ passRecords = 0
  /\ held = None /\ staged = [i \in Index |-> NotStaged]
  /\ stagedBytes = 0 /\ stagedStart = None /\ cursor = None
  /\ fence = FALSE /\ deferrals = 0
  /\ cpc = "idle" /\ first = 0 /\ next = 0 /\ seen = 0 /\ limit = 0
  /\ passOpen = FALSE /\ copied = {}

-----------------------------------------------------------------------------
(* The video thread.  With a live protocol-3 consumer its waits, for a     *)
(* slot and for payload bytes, last until there is room; they are futex    *)
(* waits of 4 ms that look again, so a missed notify only costs time.      *)
(* Once the consumer has failed every publication is refused.              *)
Batched == setup.producer = "batched"

RingHasRoom(n) == Distance(write, read) + n <= Capacity

Padding(n) ==
  LET off == uploadWrite % ArenaSize
  IN  IF off + n > ArenaSize THEN ArenaSize - off ELSE 0
UploadFits(n) ==
  Ahead(uploadWrite + Padding(n) + n, uploadRead) <= ArenaSize

(* Push, and PushBatch for a whole pass: fill the slots, then move write.  *)
Publish(records) ==
  /\ ~failed /\ RingHasRoom(Len(records))
  /\ slots' = [s \in DOMAIN slots |->
                 IF \E k \in 1 .. Len(records) : s = Advance(write, k - 1) % Capacity
                 THEN records[CHOOSE k \in 1 .. Len(records) :
                                s = Advance(write, k - 1) % Capacity]
                 ELSE slots[s]]
  /\ write' = Advance(write, Len(records))
  /\ UNCHANGED <<setup, read, uploadRead, failed, arena, ring, drain>>

Mark(op, k) == [op |-> op, at |-> Advance(write, k), off |-> 0, len |-> 0]

(* A resource command; while a batched producer records a pass too.        *)
PushCommand ==
  /\ ppc = "idle" /\ (Batched \/ passRecords = 0) /\ "command" \in Records
  /\ Publish(<<Mark("command", 0)>>)
  /\ UNCHANGED producer

(* A batched producer records a pass in private and publishes it at END.   *)
StagePassRecord ==
  /\ ppc = "idle" /\ Batched /\ passRecords < MaxPass - 1
  /\ passRecords' = passRecords + 1
  /\ UNCHANGED <<setup, shared, ring, drain, uploadWrite, uploadBefore, ppc, length>>

AbortPass ==
  /\ ppc = "idle" /\ Batched /\ passRecords > 0
  /\ passRecords' = 0
  /\ UNCHANGED <<setup, shared, ring, drain, uploadWrite, uploadBefore, ppc, length>>

PassOp(k) == IF k = 0 THEN "begin" ELSE IF k = passRecords THEN "end" ELSE "command"
PushBatch ==
  /\ ppc = "idle" /\ Batched /\ passRecords > 0
  /\ Publish([k \in 1 .. passRecords + 1 |-> Mark(PassOp(k - 1), k - 1)])
  /\ passRecords' = 0
  /\ UNCHANGED <<uploadWrite, uploadBefore, ppc, length>>

(* An incremental one publishes each record of the pass as it comes.       *)
PushPassRecord ==
  /\ ppc = "idle" /\ ~Batched
  /\ \E op \in {"begin", "command", "end"} :
       /\ op = "begin" <=> passRecords = 0
       /\ op = "command" => passRecords < MaxPass - 1 /\ op \in Records
       /\ Publish(<<Mark(op, 0)>>)
       /\ passRecords' = IF op = "end" THEN 0 ELSE passRecords + 1
  /\ UNCHANGED <<uploadWrite, uploadBefore, ppc, length>>

(* An upload: wait for bytes and fill them, then wait for a slot.          *)
IssueUpload(n) ==
  /\ ppc = "idle" /\ (Batched \/ passRecords < MaxPass - 1)
  /\ passRecords > 0 \/ "upload" \in Records
  /\ ppc' = "reserve" /\ length' = n
  /\ UNCHANGED <<setup, shared, ring, drain, uploadWrite, uploadBefore, passRecords>>

ReserveUpload ==
  /\ ppc = "reserve" /\ ~failed /\ UploadFits(length)
  /\ uploadBefore' = uploadWrite
  /\ uploadWrite' = (uploadWrite + Padding(length) + length) % ByteModulus
  /\ LET off == (uploadWrite + Padding(length)) % ArenaSize
     IN  arena' = [b \in DOMAIN arena |->
                     IF b \in off .. off + length - 1 THEN write ELSE arena[b]]
  /\ ppc' = "push"
  /\ UNCHANGED <<setup, write, read, uploadRead, failed, slots, ring, drain,
                 length, passRecords>>

PushUpload ==
  /\ ppc = "push"
  /\ Publish(<<[op |-> "upload", at |-> write, len |-> length,
                off |-> (uploadWrite - length) % ArenaSize]>>)
  /\ passRecords' = IF ~Batched /\ passRecords > 0 THEN passRecords + 1 ELSE passRecords
  /\ ppc' = "idle" /\ length' = 0 /\ uploadBefore' = 0
  /\ UNCHANGED uploadWrite

(* RollbackLastUpload, and whatever pass was being recorded is poisoned.   *)
Refuse ==
  /\ failed /\ ppc # "refused"
  /\ uploadWrite' = IF ppc = "push" THEN uploadBefore ELSE uploadWrite
  /\ ppc' = "refused" /\ length' = 0 /\ uploadBefore' = 0 /\ passRecords' = 0
  /\ UNCHANGED <<setup, shared, ring, drain>>

Produce ==
  \/ PushCommand \/ StagePassRecord \/ AbortPass \/ PushBatch \/ PushPassRecord
  \/ \E n \in Lengths : IssueUpload(n)
  \/ ReserveUpload \/ PushUpload \/ Refuse

-----------------------------------------------------------------------------
(* The worker: which records a drain may replay.  OpAt(from, k) is the     *)
(* kind of the k-th record after from.                                     *)
Mode == setup.mode
OpAt(from, k) == Slot(Advance(from, k)).op

InsidePass_Faulty(from, k) == OpAt(from, k - 1) = "begin"
InsidePass(from, k) ==
  \E b \in 0 .. k - 1 :
    OpAt(from, b) = "begin" /\ \A e \in b + 1 .. k - 1 : OpAt(from, e) # "end"
PassBegin(from, k) ==
  Min({b \in 0 .. k - 1 :
           OpAt(from, b) = "begin" /\ \A e \in b + 1 .. k - 1 : OpAt(from, e) # "end"})

(* selectAtomicReplayLimit: at least the window, on to the end of a pass   *)
(* that crosses it, but never into a pass whose END is not yet visible.    *)
ScanStop_Faulty(from, to) == Lesser(Window, Distance(to, from))
ScanStop(from, to) ==
  Min({k \in 0 .. Distance(to, from) :
           \/ k = Distance(to, from)
           \/ k >= Window /\ ~InsidePass(from, k)})
AtomicLimit_Faulty(from, to) == Advance(from, ScanStop(from, to))
AtomicLimit(from, to) ==
  LET stop == ScanStop(from, to)
  IN  Advance(from, IF InsidePass(from, stop) THEN PassBegin(from, stop) ELSE stop)

(* backlog is what a drain finds before a fence discards any of it: legacy  *)
(* mode reckons with it from where the discard leaves off.                 *)
ReplayLimit(from, to, backlog) ==
  CASE Mode = "atomic" -> AtomicLimit(from, to)
    [] Mode = "legacy" -> Advance(from, Lesser(backlog, Window))
    [] Mode = "budget" -> to

(* findPublishedAtomicPassEnd, for passes that do not nest.                *)
PassIsPublished(from, to) ==
  \E e \in 1 .. Distance(to, from) - 1 : OpAt(from, e) = "end"

(* nextWgpuUploadRead: past the record's bytes, and past the padding       *)
(* before them.                                                            *)
NextUploadRead_Faulty(r) == (uploadRead + r.len) % ByteModulus
NextUploadRead(r) ==
  (uploadRead + ((r.off - uploadRead) % ArenaSize) + r.len) % ByteModulus

(* Handing bytes back: the model forgets what was in them.                 *)
Release(r) ==
  /\ uploadRead' = NextUploadRead(r)
  /\ arena' = [b \in DOMAIN arena |->
                 IF \E k \in 0 .. Ahead(NextUploadRead(r), uploadRead) - 1 :
                      b = (uploadRead + k) % ArenaSize
                 THEN Free ELSE arena[b]]

IsStaged(i) == staged[i] # NotStaged
Unstage_Faulty(i) ==
  /\ staged' = [staged EXCEPT ![i] = NotStaged]
  /\ UNCHANGED stagedBytes
Unstage(i) ==
  /\ staged' = [staged EXCEPT ![i] = NotStaged]
  /\ stagedBytes' = stagedBytes - staged[i].len

(* Handing records back, and what they were is forgotten too.              *)
PublishRead(i) ==
  /\ read' = i
  /\ slots' = [s \in DOMAIN slots |->
                 IF \E k \in 0 .. Distance(i, read) - 1 : s = Advance(read, k) % Capacity
                 THEN Forgotten ELSE slots[s]]

ForgetHeldSuffix ==
  /\ held' = None /\ stagedStart' = None /\ cursor' = None

(***************************************************************************)
(* A drain: it looks at write once (seen), discards up to an END if the    *)
(* load fence is up, replays records from next on to limit, closes the     *)
(* pass and submits, stages uploads of the suffix it leaves, and publishes *)
(* the read index.                                                         *)
(***************************************************************************)
BeginReplay(from) ==
  /\ limit' = ReplayLimit(from, seen', Distance(seen', read))
  /\ held' = IF held = None /\ Mode # "budget" /\ limit' # seen' THEN limit' ELSE held
  /\ cpc' = "replay"

StartDrain_Faulty ==
  /\ cpc = "idle" /\ write # read
  /\ first' = IF Mode = "budget" THEN read ELSE 0
  /\ seen' = write
  /\ IF fence THEN cpc' = "discard" /\ UNCHANGED <<limit, held>> ELSE BeginReplay(read)
  /\ UNCHANGED <<setup, shared, producer, staged, stagedBytes, stagedStart, cursor,
                 fence, deferrals, next, passOpen, copied>>
StartDrain ==
  /\ cpc = "idle" /\ ~failed /\ write # read
  /\ first' = IF Mode = "budget" THEN read ELSE 0
  /\ seen' = write
  /\ IF fence THEN cpc' = "discard" /\ UNCHANGED <<limit, held>> ELSE BeginReplay(read)
  /\ UNCHANGED <<setup, shared, producer, staged, stagedBytes, stagedStart, cursor,
                 fence, deferrals, next, passOpen, copied>>

(* The fence: records up to and including the first END are dropped, their *)
(* payloads released or, if already copied, forgotten.                     *)
DropRecord(r) ==
  CASE IsStaged(next) -> Unstage(next) /\ UNCHANGED <<uploadRead, arena>>
    [] ~IsStaged(next) /\ r.op = "upload" -> Release(r) /\ UNCHANGED <<staged, stagedBytes>>
    [] OTHER -> UNCHANGED <<uploadRead, arena, staged, stagedBytes>>

Discard_Faulty ==
  /\ cpc = "discard" /\ next # seen /\ fence
  /\ DropRecord(Slot(next))
  /\ next' = Advance(next, 1)
  /\ fence' = (fence /\ next' # seen)
  /\ UNCHANGED <<setup, write, read, failed, slots, producer, held, stagedStart, cursor,
                 deferrals, cpc, first, seen, limit, passOpen, copied>>
Discard ==
  /\ cpc = "discard" /\ next # seen /\ fence
  /\ DropRecord(Slot(next))
  /\ next' = Advance(next, 1)
  /\ IF Slot(next).op = "end"
     THEN fence' = FALSE /\ ForgetHeldSuffix
     ELSE UNCHANGED <<fence, held, stagedStart, cursor>>
  /\ UNCHANGED <<setup, write, read, failed, slots, producer, deferrals,
                 cpc, first, seen, limit, passOpen, copied>>

EndDiscard ==
  /\ cpc = "discard" /\ (next = seen \/ ~fence)
  /\ PublishRead(next)
  /\ IF next = seen
     THEN cpc' = "idle" /\ first' = 0 /\ seen' = 0 /\ UNCHANGED <<limit, held>>
     ELSE UNCHANGED <<first, seen>> /\ BeginReplay(next)
  /\ UNCHANGED <<setup, write, uploadRead, failed, arena, producer, staged, stagedBytes,
                 stagedStart, cursor, fence, deferrals, next, passOpen, copied>>

(* A budgeted drain stops between passes: before a pass whose END is not   *)
(* published, at the record window, or when its time is up.  Time is       *)
(* looked at every 32 records and at each BEGIN and END; here it may be up *)
(* before any record but a drain's first.                                  *)
Processed == Distance(next, first)
MustStop ==
  /\ Mode = "budget" /\ ~passOpen
  /\ \/ Processed >= Window
     \/ Slot(next).op = "begin" /\ ~PassIsPublished(next, limit)
MayYield == Mode = "budget" /\ ~passOpen /\ Processed > 0

(* Legacy mode waits for the SET_VIEWPORT after a BEGIN, up to 8 times.    *)
TrailingBegin ==
  Mode # "budget" /\ Slot(next).op = "begin" /\ Advance(next, 1) = limit
Defers == TrailingBegin /\ deferrals < DeferLimit
DeferralsAfter ==
  IF Slot(next).op # "begin" THEN deferrals
  ELSE IF TrailingBegin THEN Lesser(deferrals + 1, DeferLimit + 1) ELSE 0

Replayable == cpc = "replay" /\ next # limit /\ ~MustStop /\ ~Defers

(* Any record that needs no bytes of the arena.                            *)
ReplayRecord ==
  /\ Replayable
  /\ LET r == Slot(next) IN
     /\ r.op # "upload" \/ IsStaged(next)
     /\ IF IsStaged(next) THEN Unstage(next) ELSE UNCHANGED <<staged, stagedBytes>>
     /\ passOpen' = ((passOpen \/ r.op = "begin") /\ r.op # "end")
  /\ deferrals' = DeferralsAfter
  /\ next' = Advance(next, 1)
  /\ UNCHANGED <<setup, shared, producer, held, stagedStart, cursor, fence,
                 cpc, first, seen, limit, copied>>

CopyUpload ==
  /\ Replayable /\ Slot(next).op = "upload" /\ ~IsStaged(next)
  /\ copied' = Bytes(Slot(next)) /\ cpc' = "release"
  /\ UNCHANGED <<setup, shared, producer, ring, first, next, seen, limit, passOpen>>

ReleaseUpload ==
  /\ cpc = "release"
  /\ Release(Slot(next))
  /\ next' = Advance(next, 1) /\ copied' = {} /\ cpc' = "replay"
  /\ UNCHANGED <<setup, write, read, failed, slots, producer, ring,
                 first, seen, limit, passOpen>>

(* rebaseWgpuStagedUploadWindow.                                           *)
StageOrderOk(start) ==
  \A i \in Index : IsStaged(i) => Distance(i, start) < Distance(seen, start)
RebasedCursor_Faulty(start) == start
RebasedCursor(start) ==
  IF cursor # None /\ Distance(cursor, start) <= Distance(seen, start) THEN cursor ELSE start

StartStaging(start) ==
  IF stagedStart = start
  THEN /\ cpc' = "scan" /\ cursor' = (IF cursor = None THEN start ELSE cursor)
       /\ UNCHANGED stagedStart
  ELSE IF StageOrderOk(start)
  THEN cpc' = "scan" /\ stagedStart' = start /\ cursor' = RebasedCursor(start)
  ELSE cpc' = "publish" /\ UNCHANGED <<stagedStart, cursor>>

(* The end of the replay loop: the pass is ended, the encoder submitted,   *)
(* and the uploads of the suffix are staged if all of the prefix went out. *)
CloseReplay ==
  /\ passOpen' = FALSE
  /\ limit' = IF Mode = "budget" THEN next ELSE limit
  /\ held' = IF Mode = "budget" /\ next # seen /\ held = None THEN next ELSE held
  /\ IF next = limit' /\ limit' # seen
     THEN StartStaging(next)
     ELSE cpc' = "publish" /\ UNCHANGED <<stagedStart, cursor>>
  /\ UNCHANGED <<setup, write, read, uploadRead, slots, arena, producer, staged, stagedBytes,
                 fence, first, next, seen, copied>>

StopReplay ==
  /\ cpc = "replay"
  /\ \/ (next = limit \/ MustStop \/ MayYield) /\ UNCHANGED deferrals
     \/ next # limit /\ Defers /\ deferrals' = DeferralsAfter
  /\ failed' \in {failed, MayFail \/ failed}                        \* submitEnc
  /\ CloseReplay

(* A fatal error inside a record (a failing submit): the record stays.     *)
FailRecord ==
  /\ MayFail /\ Replayable /\ ~failed
  /\ failed' = TRUE
  /\ CloseReplay /\ UNCHANGED deferrals

(* stageHeldWgpuUploads.  Records without a payload are passed over.       *)
NextUpload ==
  Advance(cursor, Min({k \in 0 .. Distance(seen, cursor) :
                           \/ k = Distance(seen, cursor)
                           \/ OpAt(cursor, k) = "upload"}))
StageLimit == ArenaSize
HasStagingRoom == stagedBytes + Slot(NextUpload).len <= StageLimit

StageCopy ==
  /\ cpc = "scan" /\ NextUpload # seen /\ HasStagingRoom
  /\ cursor' = NextUpload
  /\ copied' = Bytes(Slot(NextUpload)) /\ cpc' = "stage"
  /\ UNCHANGED <<setup, shared, producer, held, staged, stagedBytes, stagedStart, fence,
                 deferrals, first, next, seen, limit, passOpen>>

StageRelease ==
  /\ cpc = "stage"
  /\ Release(Slot(cursor))
  /\ staged' = [staged EXCEPT ![cursor] = [bytes |-> copied, len |-> Slot(cursor).len]]
  /\ stagedBytes' = stagedBytes + Slot(cursor).len
  /\ cursor' = Advance(cursor, 1) /\ copied' = {} /\ cpc' = "scan"
  /\ UNCHANGED <<setup, write, read, failed, slots, producer, held, stagedStart, fence,
                 deferrals, first, next, seen, limit, passOpen>>

(* At the end of the suffix, at the byte limit, or, with a budget, as soon *)
(* as its deadline passes.                                                 *)
StopStaging_Faulty ==
  /\ cpc = "scan" /\ cursor' = seen /\ cpc' = "publish"
  /\ UNCHANGED <<setup, shared, producer, held, staged, stagedBytes, stagedStart, fence,
                 deferrals, first, next, seen, limit, passOpen, copied>>
StopStaging ==
  /\ cpc = "scan"
  /\ \/ NextUpload = seen \/ ~HasStagingRoom
     \/ Mode = "budget"
  /\ cursor' = NextUpload
  /\ cpc' = "publish"
  /\ UNCHANGED <<setup, shared, producer, held, staged, stagedBytes, stagedStart, fence,
                 deferrals, first, next, seen, limit, passOpen, copied>>

EndDrain ==
  /\ cpc = "publish"
  /\ PublishRead(next)
  /\ IF next = seen THEN ForgetHeldSuffix ELSE UNCHANGED <<held, stagedStart, cursor>>
  /\ cpc' = "idle" /\ first' = 0 /\ seen' = 0 /\ limit' = 0
  /\ UNCHANGED <<setup, write, uploadRead, failed, arena, producer, staged, stagedBytes,
                 fence, deferrals, next, passOpen, copied>>

(* loadStateFile arms the fence when the ring holds an open pass or a held *)
(* suffix.                                                                 *)
OpenPass == InsidePass(read, Distance(write, read))
HoldsReplay == held # None \/ \E i \in Index : IsStaged(i)
LoadState ==
  /\ setup.producer \in Fenced /\ cpc = "idle"
  /\ fence' = (OpenPass \/ HoldsReplay)
  /\ UNCHANGED <<setup, shared, producer, held, staged, stagedBytes, stagedStart, cursor,
                 deferrals, drain>>

(* handleWgpuDeviceLoss, between two drains.                               *)
DeviceLoss ==
  /\ MayFail /\ cpc = "idle" /\ ~failed
  /\ failed' = TRUE
  /\ ForgetHeldSuffix
  /\ staged' = [i \in Index |-> NotStaged] /\ stagedBytes' = 0
  /\ UNCHANGED <<setup, write, read, uploadRead, slots, arena, producer, fence, deferrals,
                 drain>>

Replay == StartDrain \/ ReplayRecord \/ CopyUpload \/ ReleaseUpload \/ StopReplay
          \/ StageCopy \/ StageRelease \/ StopStaging \/ EndDrain
Fence == LoadState \/ Discard \/ EndDiscard
Failure == FailRecord \/ DeviceLoss

Next == Produce \/ Replay \/ Fence \/ Failure
Spec == Init /\ [][Next]_vars

(* The pump's timer is always set again, so a drain that can go on does.   *)
(* The video thread, once it waits for room, goes on when there is room;   *)
(* nothing makes it record anything.  A budgeted drain's clock starts with  *)
(* the drain, so it does not run out before the first upload for ever.     *)
Fairness ==
  /\ WF_vars(Replay) /\ WF_vars(Discard \/ EndDiscard) /\ SF_vars(StageCopy)
  /\ WF_vars(ReserveUpload) /\ WF_vars(PushUpload) /\ WF_vars(Refuse)
FairSpec == Spec /\ Fairness

-----------------------------------------------------------------------------
(* Every word, slot, byte and local has its type.                          *)
TypeOK ==
  /\ setup \in [mode : Modes, producer : Producers]
  /\ write \in Index /\ read \in Index /\ uploadRead \in Position
  /\ failed \in BOOLEAN
  /\ slots \in [0 .. Capacity - 1 -> Record \cup {Forgotten}]
  /\ arena \in [0 .. ArenaSize - 1 -> Index \cup {Free}]
  /\ uploadWrite \in Position /\ uploadBefore \in Position
  /\ ppc \in {"idle", "reserve", "push", "refused"}
  /\ length \in Lengths \cup {0} /\ passRecords \in 0 .. MaxPass - 1
  /\ held \in Index \cup {None}
  /\ staged \in [Index -> [bytes : SUBSET (Index \cup {Free}), len : Lengths \cup {0}]]
  /\ stagedBytes \in 0 .. StageLimit
  /\ stagedStart \in Index \cup {None} /\ cursor \in Index \cup {None}
  /\ fence \in BOOLEAN /\ deferrals \in 0 .. DeferLimit + 1
  /\ cpc \in {"idle", "discard", "replay", "release", "scan", "stage", "publish"}
  /\ first \in Index /\ next \in Index /\ seen \in Index /\ limit \in Index
  /\ passOpen \in BOOLEAN /\ copied \in SUBSET (Index \cup {Free})

(* Records not yet replayed or dropped.                                    *)
Waiting(i) == Distance(i, next) < Distance(write, next)

(* Until it is replayed, an upload's bytes are its own, wherever they are: *)
(* in the arena, on their way, or staged.                                  *)
QueuedUploadsIntact ==
  \/ failed
  \/ /\ \A i \in Index :
          Waiting(i) /\ Slot(i).op = "upload" =>
            IF IsStaged(i) THEN staged[i].bytes = Own(i) ELSE Bytes(Slot(i)) = Own(i)
     /\ cpc = "release" => copied = Own(next)
     /\ cpc = "stage" => copied = Own(cursor)

(* What is staged are uploads still waiting, and stagedBytes counts each    *)
(* of their bytes once: nothing is left behind a drain, so the rebase to a *)
(* later suffix never fails.                                               *)
StagedPayload == {b \in Index \X (1 .. ArenaSize) : b[2] <= staged[b[1]].len}
StagedAreWaiting ==
  failed \/
  /\ \A i \in Index : IsStaged(i) => Waiting(i) /\ Slot(i).op = "upload"
  /\ stagedBytes = Cardinality(StagedPayload)

(* When everything published has been handed back, so has every byte.      *)
ArenaDrainsEmpty ==
  cpc = "idle" /\ write = read /\ ppc # "push" => uploadRead = uploadWrite

(* In legacy mode with the load fence a drain may run past what has been   *)
(* published, by as many records as its fence has just discarded (see      *)
(* ReplayLimit): such sessions are left out of what is stated and proved.  *)
LegacyIsUnfenced == Mode = "legacy" => setup.producer \notin Fenced

(* Legacy mode cuts passes, and so may a fence over passes that are         *)
(* published record by record: it drops a BEGIN, is lowered by the next    *)
(* LoadState, and lets the END through.                                    *)
FencedPassesAreBatched == setup.producer \in Fenced => Batched
TakesWholePasses == Mode # "legacy" /\ FencedPassesAreBatched

(* In every other session a pass is encoded by one drain, from BEGIN to    *)
(* END.                                                                    *)
PassesReplayWhole ==
  [][TakesWholePasses /\ cpc = "replay" /\ ~failed' =>
       /\ cpc' \notin {"replay", "release"} => ~passOpen
       /\ next' # next /\ Slot(next).op = "end" => passOpen]_vars

(* The ring implements the queue of passes (ReplayQueue).                  *)
Queue == INSTANCE ReplayQueue WITH
  MayDrop <- Fenced # {}, MayStop <- MayFail,
  queue <- [k \in 1 .. Distance(write, read) |->
              LET r == Slot(Advance(read, k - 1)) IN [op |-> r.op, at |-> r.at]],
  whole <- TakesWholePasses, dropping <- cpc = "discard", stopped <- failed /\ cpc = "idle"
ImplementsReplayQueue == Queue!Spec

(* A video thread waiting for room for an upload gets it, or is told that  *)
(* the consumer failed, however long the pass its uploads belong to.       *)
UploadsAreNotStarved == ppc \in {"reserve", "push"} ~> ppc \in {"idle", "refused"}

(* A pass whose END is published does not wait behind a drain that is      *)
(* stuck, unless the consumer failed: records go on leaving the ring.      *)
CompletePassWaits == \E i \in Index : Waiting(i) /\ Slot(i).op = "end"
PassesAreReplayed ==
  <>[](CompletePassWaits /\ ~failed) => []<><<next' # next>>_next
=============================================================================
