------------------------- MODULE MappedStagingProofs -------------------------
(***************************************************************************)
(* That staging is invisible to the GPU, that a failure is final, that     *)
(* what quiesce promises holds and that a full pool is no failure; for any *)
(* number and size of slots, any buffer and any number of records.         *)
(***************************************************************************)
EXTENDS MappedStaging, SequenceTheorems, WellFoundedInduction, TLAPS

-----------------------------------------------------------------------------
(* A set of naturals has a least element, a bounded one a greatest.        *)
LEMMA LeastExists ==
  ASSUME NEW S \in SUBSET Nat, S # {}
  PROVE  \E x \in S : \A y \in S : x <= y
<1> DEFINE R == {ss \in Nat \X Nat : ss[1] < ss[2]}
<1>1. IsWellFoundedOn(R, Nat)
  BY NatLessThanWellFounded DEF OpToRel
<1> HIDE DEF R
<1>2. \E x \in S : \A y \in S : ~(<<y, x>> \in R)
  BY <1>1, WFMin
<1>3. ASSUME NEW x \in S, NEW y \in S, ~(<<y, x>> \in R)
      PROVE  x <= y
  BY <1>3 DEF R
<1>4. QED BY <1>2, <1>3

(* First fit: Min of the slots with room is one of them.                   *)
LEMMA MinIsMember ==
  ASSUME NEW S \in SUBSET Nat, S # {}
  PROVE  Min(S) \in S
<1>1. \E x \in S : \A y \in S : x =< y
  BY LeastExists
<1>2. QED BY <1>1 DEF Min

(* So has a bounded set a greatest element: the copy staged last.          *)
LEMMA GreatestExists ==
  ASSUME NEW S \in SUBSET Nat, S # {}, NEW b \in Nat, \A x \in S : x <= b
  PROVE  \E x \in S : \A y \in S : y <= x
<1> DEFINE T == {b - x : x \in S}
<1>1. T \in SUBSET Nat /\ T # {}
  <2>1. \A x \in S : b - x \in Nat
    OBVIOUS
  <2>2. QED BY <2>1
<1>2. PICK t \in T : \A y \in T : t <= y
  BY <1>1, LeastExists
<1>3. PICK x \in S : t = b - x
  OBVIOUS
<1>4. ASSUME NEW y \in S PROVE y <= x
  <2>1. b - y \in T
    OBVIOUS
  <2>2. QED BY <2>1, <1>2, <1>3
<1>5. QED BY <1>4

-----------------------------------------------------------------------------
(* Types and bounds.  A slot that is not mapped has no records, and one    *)
(* without records has nothing allocated: it has room for any upload.      *)
CountersInv ==
  /\ setup \in Setups /\ written \in 0 .. MaxRecords /\ read \in 0 .. written
  /\ held = None \/ held \in Upload
  /\ limit \in 0 .. written
FlagsInv == draining \in BOOLEAN /\ enc \in BOOLEAN /\ blocked \in BOOLEAN
RingInv == CountersInv /\ FlagsInv

Within(r, cursor) ==
  /\ r.first \in Nat \ {0} /\ r.first <= r.last
  /\ r.source + r.size <= cursor
  /\ IF r.at = Texture THEN r.size = 1 ELSE r.at + r.size <= Texture

SlotInv(s) ==
  /\ s \in SlotState
  /\ s.state # "mapped" => s.records = <<>>
  /\ s.records = <<>> => s.cursor = 0
  /\ \A k \in 1 .. Len(s.records) : Within(s.records[k], s.cursor)

PoolInv ==
  /\ slot \in [Slots -> SlotState] /\ \A i \in Slots : SlotInv(slot[i])
  /\ sequence \in Nat
  /\ remaps \subseteq ((SUBSET Slots) \ {{}})
  /\ \A b, d \in remaps : b # d => b \cap d = {}
  /\ \A i \in Slots : /\ slot[i].state = "remapping" => i \in UNION remaps
                      /\ slot[i].state = "mapped" => i \notin UNION remaps

(* The records of the pool were staged one after the other.                *)
Rec(i, k) == slot[i].records[k]
Recs(i) == 1 .. Len(slot[i].records)
OrderInv ==
  /\ \A i \in Slots : \A k \in Recs(i) : Rec(i, k).last <= sequence
  /\ \A i, j \in Slots : \A k \in Recs(i), l \in Recs(j) :
       i # j \/ k # l =>
         Rec(i, k).last < Rec(j, l).first \/ Rec(j, l).last < Rec(i, k).first

(* After a failure nothing is staged and no timer runs.                    *)
FatalInv ==
  /\ fatal \in {"no", "yes", "lost"}
  /\ deferred \in BOOLEAN /\ timer = deferred
  /\ deferred => Pending # {}
  /\ fatal # "no" => Pending = {} /\ ~timer

(* What a set of copies leaves in cell c if the GPU runs them now, over    *)
(* base: where copies overlap, the one staged last counts.                 *)
Leaves(slots, copies, c, base, value) ==
  /\ (\A k \in copies : c \notin CellsOf(k)) => base = value
  /\ \A k \in copies :
       /\ c \in CellsOf(k)
       /\ \A j \in copies : c \in CellsOf(j) => j.order <= k.order
       => slots[k.slot].bytes[k.source + c - k.at] = value

(* The slots of the submissions under way stay as they were submitted, and *)
(* each submission leaves what direct writes would have left.              *)
Ready(slots, submission, base) ==
  /\ \A k \in submission.copies : slots[k.slot].state # "mapped"
  /\ \A c \in Memory :
       Leaves(slots, submission.copies, c, base[c], submission.direct[c])
  /\ \E b \in Nat : \A k \in submission.copies : k.order <= b
Before(n) == IF n = 1 THEN memory ELSE queue[n - 1].direct
QueueInv ==
  /\ memory \in [Memory -> Values] /\ direct \in [Memory -> Values]
  /\ queue \in Seq(Submission)
  /\ \A n \in 1 .. Len(queue) : Ready(slot, queue[n], Before(n))

(* So will what is staged by now.                                          *)
Sent == Before(Len(queue) + 1)
Newest(i, k, c) ==
  /\ c \in CellsOf(Rec(i, k))
  /\ \A j \in Slots : \A l \in Recs(j) :
       c \in CellsOf(Rec(j, l)) => Rec(j, l).first <= Rec(i, k).first
StagedInv ==
  fatal = "no" => \A c \in Memory :
    /\ (\A i \in Slots : \A k \in Recs(i) : c \notin CellsOf(Rec(i, k)))
         => Sent[c] = direct[c]
    /\ \A i \in Slots : \A k \in Recs(i) :
         Newest(i, k, c) =>
           slot[i].bytes[Rec(i, k).source + c - Rec(i, k).at] = direct[c]

(* Once quiesce has seen all at rest twice, only the video thread or the   *)
(* loss of the device ends the rest, and what the GPU still has to do was  *)
(* counted.                                                                *)
QuiescerType ==
  [pc : {"idle", "finalize", "await", "gpu", "returned", "threw"},
   stable : (0 .. MaxRecords) \cup {None}, awaited : SUBSET Slots, ahead : Nat]
QuiesceInv ==
  /\ quiescer \in QuiescerType
  /\ quiescer.stable # None => quiescer.stable <= written
  /\ quiescer.pc = "gpu" =>
       /\ quiescer.stable # None
       /\ quiescer.stable = written /\ fatal = "no" =>
            AtRest /\ ~draining /\ Len(queue) <= quiescer.ahead

(* While nothing can fail, whoever waits for room waits for a remap, and   *)
(* quiesce throws only if the producer wrote meanwhile.                    *)
NoneFailed == \A i \in Slots : slot[i].state # "failed"
HealthyPool == fatal = "no" /\ NoneFailed /\ (blocked => remaps # {})
Threw == quiescer.pc = "threw" => quiescer.stable # None /\ quiescer.stable < written
HealthyInv == ~setup.mayFail => HealthyPool /\ Threw

DataInv == RingInv /\ PoolInv /\ OrderInv /\ FatalInv /\ QueueInv /\ StagedInv
IInv == DataInv /\ QuiesceInv /\ HealthyInv

-----------------------------------------------------------------------------
(* The ring's counters and flags.                                          *)
LEMMA CountersInit == Init => CountersInv
BY StagingAssumption DEF Init, CountersInv

(* The flags of the drain, the encoder and the wait for room are Booleans. *)
LEMMA FlagsInit == Init => FlagsInv
BY DEF Init, FlagsInv

(* No drain replays more than was published, or passes its limit.          *)
LEMMA CountersNext == CountersInv /\ [Next]_vars => CountersInv'
<1> SUFFICES ASSUME CountersInv, [Next]_vars PROVE CountersInv'
  OBVIOUS
<1> USE StagingAssumption DEF CountersInv
<1>1. CASE Publish
  BY <1>1 DEF Publish, Setups
<1>2. ASSUME NEW to \in read + 1 .. written, StartDrain(to) PROVE CountersInv'
  BY <1>2 DEF StartDrain
<1>3. ASSUME NEW u \in Upload, ReplayUpload(u) PROVE CountersInv'
  BY <1>3 DEF ReplayUpload, Replayable, Consume
<1>4. ASSUME NEW u \in Upload, HoldUpload(u) PROVE CountersInv'
  BY <1>4 DEF HoldUpload, Replayable
<1>5. CASE ReplayRender \/ ReplayOther \/ ReplayPresent \/ ReplayDestroy
  BY <1>5 DEF ReplayRender, ReplayOther, ReplayPresent, ReplayDestroy, Replayable, Consume
<1>6. CASE EndDrain
  BY <1>6 DEF EndDrain
<1>7. CASE TimerFires \/ ForceLifecycle
  BY <1>7 DEF TimerFires, ForceLifecycle, ringVars
<1>8. ASSUME NEW i \in Slots, SlotRemapped(i) \/ RemapFails(i) PROVE CountersInv'
  BY <1>8 DEF SlotRemapped, RemapFails, Unblocked, ringVars
<1>9. CASE DeviceLost \/ GpuExecutes
  BY <1>9 DEF DeviceLost, GpuExecutes, ringVars
<1>10. CASE StartQuiesce \/ Finalize
  BY <1>10 DEF StartQuiesce, Finalize, ringVars
<1>11. CASE RemapsAwaited \/ Observe \/ GpuAwaited
  BY <1>11 DEF RemapsAwaited, Observe, GpuAwaited, ringVars
<1>12. CASE UNCHANGED vars
  BY <1>12 DEF vars, ringVars
<1>13. QED
  BY <1>1, <1>2, <1>3, <1>4, <1>5, <1>6, <1>7, <1>8, <1>9, <1>10, <1>11, <1>12
     DEF Next, Replay, Drain, Quiesce

(* The flags stay Booleans.                                                *)
LEMMA FlagsNext == FlagsInv /\ [Next]_vars => FlagsInv'
<1> SUFFICES ASSUME FlagsInv, [Next]_vars PROVE FlagsInv'
  OBVIOUS
<1> USE DEF FlagsInv
<1>1. CASE Publish
  BY <1>1 DEF Publish
<1>2. ASSUME NEW to \in read + 1 .. written, StartDrain(to) PROVE FlagsInv'
  BY <1>2 DEF StartDrain
<1>3. ASSUME NEW u \in Upload, ReplayUpload(u) PROVE FlagsInv'
  BY <1>3 DEF ReplayUpload, Replayable, Consume
<1>4. ASSUME NEW u \in Upload, HoldUpload(u) PROVE FlagsInv'
  BY <1>4 DEF HoldUpload, Replayable
<1>5. CASE ReplayRender \/ ReplayOther \/ ReplayPresent \/ ReplayDestroy
  BY <1>5 DEF ReplayRender, ReplayOther, ReplayPresent, ReplayDestroy, Replayable, Consume
<1>6. CASE EndDrain
  BY <1>6 DEF EndDrain
<1>7. CASE TimerFires \/ ForceLifecycle
  BY <1>7 DEF TimerFires, ForceLifecycle, ringVars
<1>8. ASSUME NEW i \in Slots, SlotRemapped(i) \/ RemapFails(i) PROVE FlagsInv'
  BY <1>8 DEF SlotRemapped, RemapFails, Unblocked, ringVars
<1>9. CASE DeviceLost \/ GpuExecutes
  BY <1>9 DEF DeviceLost, GpuExecutes, ringVars
<1>10. CASE StartQuiesce \/ Finalize
  BY <1>10 DEF StartQuiesce, Finalize, ringVars
<1>11. CASE RemapsAwaited \/ Observe \/ GpuAwaited
  BY <1>11 DEF RemapsAwaited, Observe, GpuAwaited, ringVars
<1>12. CASE UNCHANGED vars
  BY <1>12 DEF vars, ringVars
<1>13. QED
  BY <1>1, <1>2, <1>3, <1>4, <1>5, <1>6, <1>7, <1>8, <1>9, <1>10, <1>11, <1>12
     DEF Next, Replay, Drain, Quiesce

-----------------------------------------------------------------------------
(* What a step may do to the pool, the deferral and the GPU's queue.       *)
Settles(i) == remaps' = (remaps \ {BatchOf(i)}) \cup ({BatchOf(i) \ {i}} \ {{}})

Staging(u, n) == /\ fatal = "no" /\ Room(u) # {} /\ Stage(u, n)
                 /\ UNCHANGED <<remaps, coalescer, fatal, gpu>>
Submitting(render) == fatal = "no" /\ Submit(render) /\ UNCHANGED direct
Failing == fatal = "no" /\ MarkFatal /\ UNCHANGED direct
Remapped(i) == /\ i \in UNION remaps /\ Settles(i)
               /\ \/ slot[i].state = "failed" /\ UNCHANGED slot
                  \/ /\ slot[i].state = "remapping" /\ ~InUse(i)
                     /\ slot' = [slot EXCEPT ![i] = NewSlot]
               /\ UNCHANGED <<sequence, coalescer, fatal, gpu, direct>>
RemapFailing(i) == /\ i \in UNION remaps /\ Settles(i) /\ fatal = "no" /\ fatal' = "yes"
                   /\ CancelDeferral /\ Invalidate /\ UNCHANGED <<gpu, direct>>
Losing == /\ fatal' = "lost" /\ CancelDeferral /\ Invalidate /\ queue' = <<>>
          /\ UNCHANGED <<remaps, memory, direct>>
Executing == /\ queue # <<>> /\ queue' = Tail(queue)
             /\ memory' = [c \in Memory |-> Copied(Head(queue).copies, c)]
             /\ UNCHANGED <<pool, coalescer, fatal, direct>>
Deferring == /\ fatal = "no" /\ Pending # {} /\ deferred' = TRUE /\ timer' = TRUE
             /\ UNCHANGED <<pool, fatal, gpu, direct>>
Idling == UNCHANGED <<pool, coalescer, fatal, gpu, direct>>

Move ==
  \/ \E u \in Upload, n \in Values : Staging(u, n)
  \/ \E render \in BOOLEAN : Submitting(render)
  \/ \E i \in Slots : Remapped(i) \/ RemapFailing(i)
  \/ Failing \/ Losing \/ Executing \/ Deferring \/ Idling

(* Whoever submits makes one of two moves.                                 *)
LEMMA SubmitsOrFails ==
  ASSUME NEW render \in BOOLEAN, fatal = "no", SubmitOrFail(render), UNCHANGED direct
  PROVE  Move
BY DEF SubmitOrFail, Rejected, Submitting, Failing, Move

(* Every step of the worker, the video thread, the GPU and quiesce is one  *)
(* of these moves.                                                         *)
LEMMA StepsAreMoves == RingInv /\ FatalInv /\ [Next]_vars => Move
<1> SUFFICES ASSUME RingInv, FatalInv, [Next]_vars PROVE Move
  OBVIOUS
<1>1. CASE Publish
  BY <1>1 DEF Publish, Move, Idling, pool, coalescer, gpu
<1>2. ASSUME NEW to \in read + 1 .. written, StartDrain(to) PROVE Move
  BY <1>2 DEF StartDrain, Move, Idling, pool, coalescer, gpu
<1>3. ASSUME NEW u \in Upload, ReplayUpload(u) PROVE Move
  <2>1. read + 1 \in Values
    BY <1>3, StagingAssumption DEF ReplayUpload, Replayable, RingInv, CountersInv, Values
  <2>2. Staging(u, read + 1)
    BY <1>3 DEF ReplayUpload, Replayable, Staging
  <2>3. QED BY <2>1, <2>2 DEF Move
<1>4. ASSUME NEW u \in Upload, HoldUpload(u) PROVE Move
  <2>1. fatal = "no" /\ UNCHANGED direct /\ enc \in BOOLEAN
    BY <1>4 DEF HoldUpload, Replayable, RingInv, FlagsInv
  <2>2. CASE MarkFatal
    BY <2>1, <2>2 DEF Failing, Move
  <2>3. CASE SubmitOrFail(enc)
    BY <2>1, <2>3, SubmitsOrFails
  <2>4. QED BY <1>4, <2>2, <2>3 DEF HoldUpload
<1>5. CASE ReplayRender \/ ReplayOther
  BY <1>5 DEF ReplayRender, ReplayOther, Move, Idling, pool, coalescer, gpu
<1>6. CASE ReplayPresent \/ ReplayDestroy
  <2>1. fatal = "no" /\ SubmitOrFail(enc) /\ UNCHANGED direct /\ enc \in BOOLEAN
    BY <1>6 DEF ReplayPresent, ReplayDestroy, Replayable, RingInv, FlagsInv
  <2>2. QED BY <2>1, SubmitsOrFails
<1>7. CASE EndDrain
  <2>1. UNCHANGED direct /\ enc \in BOOLEAN
    BY <1>7 DEF EndDrain, RingInv, FlagsInv
  <2>2. CASE fatal # "no" /\ UNCHANGED <<pool, coalescer, fatal, gpu>>
    BY <2>1, <2>2 DEF Move, Idling
  <2>3. CASE fatal = "no" /\ SubmitOrFail(enc)
    BY <2>1, <2>3, SubmitsOrFails
  <2>4. CASE /\ fatal = "no" /\ MayDefer
             /\ deferred' = TRUE /\ timer' = TRUE /\ UNCHANGED <<pool, fatal, gpu>>
    BY <2>1, <2>4 DEF Move, Deferring, MayDefer
  <2>5. QED BY <1>7, <2>2, <2>3, <2>4 DEF EndDrain
<1>8. CASE TimerFires \/ ForceLifecycle
  <2>1. fatal = "no" /\ SubmitOrFail(FALSE) /\ UNCHANGED direct
    BY <1>8 DEF TimerFires, ForceLifecycle, FatalInv
  <2>2. QED BY <2>1, SubmitsOrFails
<1>9. ASSUME NEW i \in Slots, SlotRemapped(i) PROVE Move
  BY <1>9 DEF SlotRemapped, Settle, Settles, Move, Remapped
<1>10. ASSUME NEW i \in Slots, RemapFails(i) PROVE Move
  BY <1>10 DEF RemapFails, Settle, Settles, Move, RemapFailing
<1>11. CASE DeviceLost
  BY <1>11 DEF DeviceLost, Move, Losing
<1>12. CASE GpuExecutes
  BY <1>12 DEF GpuExecutes, Move, Executing
<1>13. CASE StartQuiesce \/ RemapsAwaited \/ Observe \/ GpuAwaited
  BY <1>13 DEF StartQuiesce, RemapsAwaited, Observe, GpuAwaited, Move, Idling
<1>14. CASE Finalize
  <2>1. fatal = "no" /\ UNCHANGED direct
    BY <1>14 DEF Finalize
  <2>2. CASE SubmitOrFail(FALSE)
    BY <2>1, <2>2, SubmitsOrFails
  <2>3. CASE UNCHANGED <<pool, coalescer, fatal, gpu>>
    BY <2>1, <2>3 DEF Move, Idling
  <2>4. QED BY <1>14, <2>2, <2>3 DEF Finalize
<1>15. CASE UNCHANGED vars
  BY <1>15 DEF vars, Move, Idling
<1>16. QED
  BY <1>1, <1>2, <1>3, <1>4, <1>5, <1>6, <1>7, <1>8, <1>9, <1>10, <1>11, <1>12, <1>13,
     <1>14, <1>15
     DEF Next, Replay, Drain, Quiesce

-----------------------------------------------------------------------------
(* Staging an upload.                                                      *)
LEMMA UploadIs ==
  ASSUME NEW u \in Upload
  PROVE  /\ u.at \in Memory /\ u.at \in 0 .. BufferCells /\ u.size \in 1 .. BufferCells
         /\ u.size \in 1 .. SlotSize
         /\ IF u.at = Texture THEN u.size = 1 ELSE u.at + u.size <= Texture
BY StagingAssumption DEF Upload, Memory, Texture

(* The slot that takes an upload is one with room.                         *)
LEMMA FirstFit ==
  ASSUME NEW u, Room(u) # {}
  PROVE  Min(Room(u)) \in Slots /\ Fits(Min(Room(u)), u)
<1>1. Room(u) \in SUBSET Nat
  BY DEF Room, Slots
<1>2. QED BY <1>1, MinIsMember DEF Room

(* The last record grows, or there is one more.                            *)
Grows(i, u) ==
  LET rs == slot[i].records
  IN  Len(rs) > 0 /\ Continues(rs[Len(rs)], i, u)
Grown(r, u) == [r EXCEPT !.size = @ + u.size, !.last = sequence + 1]
Fresh(i, u) == [first |-> sequence + 1, last |-> sequence + 1,
                source |-> slot[i].cursor, size |-> u.size, at |-> u.at]

(* A record that grows keeps its start in the slot and at the destination. *)
LEMMA GrownIs ==
  ASSUME NEW r \in CopyRecord, NEW u \in Upload, sequence \in Nat,
         NEW cursor \in 0 .. SlotSize, cursor + u.size <= SlotSize, r.source + r.size <= cursor
  PROVE  LET g == Grown(r, u)
         IN  /\ g \in CopyRecord
             /\ g.first = r.first /\ g.last = sequence + 1 /\ g.source = r.source
             /\ g.size = r.size + u.size /\ g.at = r.at
<1>1. u.size \in 1 .. SlotSize
  BY UploadIs
<1>2. r.size + u.size \in 1 .. SlotSize
  <2>1. r.source \in 0 .. SlotSize - 1 /\ r.size \in 1 .. SlotSize
    BY DEF CopyRecord
  <2>2. \A source, size, more, max, end \in Int :
          /\ source >= 0 /\ size >= 1 /\ more >= 1
          /\ source + size <= end /\ end + more <= max
          => size + more \in 1 .. max
    OBVIOUS
  <2>3. SlotSize \in Int
    BY StagingAssumption
  <2>4. r.source \in Int /\ r.size \in Int /\ r.source >= 0 /\ r.size >= 1
    BY <2>1, <2>3
  <2>5. u.size \in Int /\ u.size >= 1
    BY <1>1, <2>3
  <2>6. cursor \in Int
    BY <2>3
  <2>7. QED BY <2>2, <2>3, <2>4, <2>5, <2>6
<1>3. sequence + 1 \in Nat
  OBVIOUS
<1>4. Grown(r, u) \in CopyRecord
  BY <1>2, <1>3 DEF Grown, CopyRecord
<1>5. QED BY <1>4 DEF Grown, CopyRecord

(* The records of the slot that took an upload.                            *)
LEMMA AppendedIs ==
  ASSUME NEW i \in Slots, NEW u \in Upload, SlotInv(slot[i]), sequence \in Nat, Fits(i, u)
  PROVE  LET rs == slot[i].records
             n  == Len(rs)
             new == Appended(i, u)
         IN  /\ n \in Nat
             /\ new \in Seq(CopyRecord)
             /\ IF Grows(i, u)
                THEN /\ Len(new) = n /\ new[n] = Grown(rs[n], u)
                     /\ \A k \in 1 .. n : k # n => new[k] = rs[k]
                ELSE /\ Len(new) = n + 1 /\ new[n + 1] = Fresh(i, u)
                     /\ \A k \in 1 .. n : new[k] = rs[k]
<1> DEFINE rs == slot[i].records
           n  == Len(rs)
<1>1. rs \in Seq(CopyRecord) /\ n \in Nat /\ slot[i].cursor \in 0 .. SlotSize
  BY DEF SlotInv, SlotState
<1>2. u.at \in Memory /\ u.size \in 1 .. SlotSize /\ slot[i].cursor + u.size <= SlotSize
  BY UploadIs DEF Fits
<1>3. CASE Grows(i, u)
  <2>1. n > 0 /\ Continues(rs[n], i, u) /\ n \in 1 .. n
    BY <1>1, <1>3 DEF Grows
  <2>2. Appended(i, u) = [rs EXCEPT ![n] = Grown(rs[n], u)]
    BY <2>1 DEF Appended, Grown
  <2>3. rs[n] \in CopyRecord /\ Within(rs[n], slot[i].cursor)
    BY <1>1, <2>1, ElementOfSeq DEF SlotInv
  <2>4. rs[n].source + rs[n].size <= slot[i].cursor
    BY <2>3 DEF Within
  <2>5. Grown(rs[n], u) \in CopyRecord
    <3> HIDE DEF rs, n
    <3>1. QED BY <1>1, <1>2, <2>3, <2>4, GrownIs
  <2>6. QED BY <1>1, <1>3, <2>1, <2>2, <2>5, ExceptSeq
<1>4. CASE ~Grows(i, u)
  <2>1. Appended(i, u) = Append(rs, Fresh(i, u))
    BY <1>4 DEF Appended, Grows, Fresh
  <2>2. Fresh(i, u) \in CopyRecord
    BY <1>1, <1>2, StagingAssumption DEF Fresh, CopyRecord
  <2>3. QED BY <1>1, <1>4, <2>1, <2>2, AppendProperties
<1>5. QED BY <1>3, <1>4

(* The slot that takes the upload, and the others.                         *)
Taker(u) == Min(Room(u))
Written(i, u) == slot[i].cursor .. slot[i].cursor + u.size - 1

(* The pool after staging: one slot has changed, only behind its cursor.   *)
LEMMA StageIs ==
  ASSUME PoolInv, NEW u \in Upload, NEW n \in Values, Room(u) # {}, Stage(u, n)
  PROVE  LET i == Taker(u)
         IN  /\ i \in Slots /\ Fits(i, u) /\ SlotInv(slot[i])
             /\ slot' \in [Slots -> SlotState] /\ SlotInv(slot'[i])
             /\ \A j \in Slots : j # i => slot'[j] = slot[j]
             /\ slot'[i].state = "mapped" /\ slot'[i].records = Appended(i, u)
             /\ slot'[i].cursor = slot[i].cursor + u.size
             /\ \A k \in 0 .. SlotSize - 1 :
                  slot'[i].bytes[k] = IF k \in Written(i, u) THEN n ELSE slot[i].bytes[k]
             /\ sequence' = sequence + 1
             /\ direct' = [c \in Memory |-> IF c \in CellsOf(u) THEN n ELSE direct[c]]
<1> DEFINE i == Taker(u)
           old == slot[i]
           new == [old EXCEPT !.bytes = [k \in DOMAIN old.bytes |-> IF k \in Written(i, u)
                                                                   THEN n ELSE old.bytes[k]],
                              !.records = Appended(i, u), !.cursor = old.cursor + u.size]
<1>1. i \in Slots /\ Fits(i, u)
  BY FirstFit DEF Taker
<1>2. slot \in [Slots -> SlotState] /\ SlotInv(slot[i]) /\ sequence \in Nat /\ slot[i] \in SlotState
  BY <1>1 DEF PoolInv
<1>3. slot' = [slot EXCEPT ![i] = new]
  BY DEF Stage, Taker, Written
<1>4. u.size \in 1 .. SlotSize /\ u.size \in Nat \ {0}
  BY UploadIs
<1>5. slot[i].cursor + u.size \in 0 .. SlotSize
  <2>1. slot[i].cursor \in 0 .. SlotSize
    BY <1>2 DEF SlotState
  <2>2. slot[i].cursor + u.size <= SlotSize
    BY <1>1 DEF Fits
  <2>3. QED BY <2>1, <2>2, <1>4, StagingAssumption
<1>6. Appended(i, u) \in Seq(CopyRecord)
  BY <1>1, <1>2, AppendedIs
<1>7. slot[i].bytes \in [0 .. SlotSize - 1 -> Values]
  BY <1>2 DEF SlotState
<1> DEFINE bytes == [k \in 0 .. SlotSize - 1 |-> IF k \in Written(i, u) THEN n ELSE slot[i].bytes[k]]
<1>8. bytes \in [0 .. SlotSize - 1 -> Values]
  BY <1>7
<1>9. new = [slot[i] EXCEPT !.bytes = bytes, !.records = Appended(i, u), !.cursor = @ + u.size]
  BY <1>7
<1> HIDE DEF bytes
<1>10. /\ new \in SlotState
       /\ new.state = slot[i].state /\ new.bytes = bytes /\ new.records = Appended(i, u)
       /\ new.cursor = slot[i].cursor + u.size
  BY <1>2, <1>5, <1>6, <1>8, <1>9 DEF SlotState
<1>11. slot[i].state = "mapped"
  BY <1>1 DEF Fits
<1> HIDE DEF new
<1>12. slot' \in [Slots -> SlotState] /\ slot'[i] = new /\ \A j \in Slots : j # i => slot'[j] = slot[j]
  BY <1>1, <1>2, <1>3, <1>10
<1>13. SlotInv(new)
  <2> DEFINE rs == slot[i].records
             m == Len(rs)
  <2>1. rs \in Seq(CopyRecord) /\ slot[i].cursor \in 0 .. SlotSize
    BY <1>2 DEF SlotState
  <2>2. \A r : Within(r, slot[i].cursor) /\ r \in CopyRecord => Within(r, slot[i].cursor + u.size)
    <3>1. \A a, b, c \in Int : a <= b /\ c >= 1 => a <= b + c
      OBVIOUS
    <3>2. \A r \in CopyRecord : r.source + r.size \in Int
      BY DEF CopyRecord
    <3>3. slot[i].cursor \in Int /\ u.size \in Int /\ u.size >= 1
      BY <2>1, <1>4, StagingAssumption
    <3>4. QED BY <3>1, <3>2, <3>3 DEF Within
  <2>3. \A k \in 1 .. m : rs[k] \in CopyRecord /\ Within(rs[k], slot[i].cursor + u.size)
    BY <1>2, <2>1, <2>2, ElementOfSeq DEF SlotInv
  <2>4. CASE Grows(i, u)
    <3>1. m \in Nat /\ m > 0 /\ Continues(rs[m], i, u) /\ m \in 1 .. m
      BY <2>1, <2>4, LenProperties DEF Grows
    <3>2. rs[m].source + rs[m].size = slot[i].cursor /\ rs[m].at + rs[m].size = u.at
          /\ rs[m].at # Texture /\ u.at # Texture
      BY <3>1 DEF Continues
    <3> DEFINE g == Grown(rs[m], u)
    <3>3. g \in CopyRecord /\ g.first = rs[m].first /\ g.last = sequence + 1
          /\ g.source = rs[m].source /\ g.size = rs[m].size + u.size /\ g.at = rs[m].at
      <4>1. rs[m] \in CopyRecord /\ rs[m].source + rs[m].size <= slot[i].cursor
        <5>1. rs[m] \in CopyRecord /\ rs[m].source + rs[m].size = slot[i].cursor
          BY <2>3, <3>1, <3>2
        <5>2. slot[i].cursor \in Int
          BY <2>1, StagingAssumption
        <5>3. QED BY <5>1, <5>2
      <4>2. slot[i].cursor + u.size <= SlotSize
        BY <1>1 DEF Fits
      <4> HIDE DEF rs, m
      <4>3. QED BY <4>1, <4>2, <2>1, <1>2, GrownIs
    <3>4. Within(g, slot[i].cursor + u.size)
      <4>1. u.at + u.size <= Texture
        BY UploadIs, <3>2
      <4>2. g.first \in Nat \ {0} /\ g.first <= g.last
        <5>1. rs[m].first \in Nat \ {0} /\ rs[m].first <= rs[m].last /\ rs[m].last = sequence
          BY <2>3, <3>1 DEF Within, Continues
        <5>2. QED BY <5>1, <3>3, <1>2
      <4>3. /\ rs[m].source \in Int /\ rs[m].size \in Int /\ rs[m].at \in Int
            /\ u.size \in Int
        BY <2>3, <3>1, <1>4 DEF CopyRecord, Memory
      <4>0. \A x, size, more \in Int : x + (size + more) = (x + size) + more
        OBVIOUS
      <4>4. g.source + g.size <= slot[i].cursor + u.size
        <5>1. g.source + g.size = slot[i].cursor + u.size
          BY <3>2, <3>3, <4>0, <4>3
        <5>2. slot[i].cursor + u.size \in Int
          BY <2>1, <4>3, StagingAssumption
        <5>3. QED BY <5>1, <5>2
      <4>5. g.at + g.size <= Texture
        <5>1. g.at + g.size = u.at + u.size
          BY <3>2, <3>3, <4>0, <4>3
        <5>2. QED BY <4>1, <5>1
      <4>6. g.at # Texture
        BY <3>3, <3>2
      <4> HIDE DEF g
      <4>7. QED BY <4>2, <4>4, <4>5, <4>6 DEF Within
    <3>5. \A k \in 1 .. Len(Appended(i, u)) : Within(Appended(i, u)[k], slot[i].cursor + u.size)
      BY <1>1, <1>2, <2>3, <2>4, <3>4, AppendedIs
    <3>6. Appended(i, u) # <<>>
      BY <1>1, <1>2, <2>4, <3>1, AppendedIs
    <3>7. QED BY <3>5, <3>6, <1>10, <1>11 DEF SlotInv
  <2>5. CASE ~Grows(i, u)
    <3>1. Within(Fresh(i, u), slot[i].cursor + u.size)
      <4>1. /\ IF u.at = Texture THEN u.size = 1 ELSE u.at + u.size <= Texture
        BY UploadIs
      <4>2. QED BY <4>1, <1>2, <2>1, <1>4, StagingAssumption DEF Within, Fresh
    <3>2. \A k \in 1 .. Len(Appended(i, u)) : Within(Appended(i, u)[k], slot[i].cursor + u.size)
      <4>1. \A k \in 1 .. m + 1 : k \in 1 .. m \/ k = m + 1
        BY <2>1, LenProperties
      <4>2. QED BY <4>1, <1>1, <1>2, <2>3, <2>5, <3>1, AppendedIs
    <3>3. Appended(i, u) # <<>>
      BY <1>1, <1>2, <2>5, AppendedIs
    <3>4. QED BY <3>2, <3>3, <1>10, <1>11 DEF SlotInv
  <2>6. QED BY <2>4, <2>5
<1>14. SlotInv(slot'[i])
  BY <1>12, <1>13
<1>15. /\ sequence' = sequence + 1
       /\ direct' = [c \in Memory |-> IF c \in CellsOf(u) THEN n ELSE direct[c]]
  BY DEF Stage
<1>16. QED
  BY <1>1, <1>2, <1>10, <1>11, <1>12, <1>14, <1>15 DEF bytes

-----------------------------------------------------------------------------
(* A slot that is sealed, failed or mapped again has no records, and what  *)
(* was written into it is still there until it is mapped again.            *)
LEMMA EmptiedSlots ==
  /\ SlotInv(NewSlot) /\ NewSlot.state = "mapped"
  /\ \A s \in SlotState :
       /\ SlotInv(Remapping(s)) /\ SlotInv(Failed(s))
       /\ Remapping(s) \in SlotState /\ Failed(s) \in SlotState
       /\ Remapping(s).state = "remapping" /\ Failed(s).state = "failed"
       /\ Remapping(s).records = <<>> /\ Failed(s).records = <<>>
       /\ Remapping(s).bytes = s.bytes /\ Failed(s).bytes = s.bytes
  /\ NewSlot \in SlotState /\ NewSlot.records = <<>>
<1>1. <<>> \in Seq(CopyRecord) /\ 0 \in 0 .. SlotSize /\ 0 \in Values
  BY StagingAssumption DEF Values
<1>2. NewSlot \in SlotState /\ NewSlot.state = "mapped" /\ NewSlot.records = <<>> /\ NewSlot.cursor = 0
  BY <1>1 DEF NewSlot, SlotState
<1>3. ASSUME NEW s \in SlotState
      PROVE  /\ Remapping(s) \in SlotState /\ Failed(s) \in SlotState
             /\ Remapping(s).state = "remapping" /\ Failed(s).state = "failed"
             /\ Remapping(s).records = <<>> /\ Failed(s).records = <<>>
             /\ Remapping(s).bytes = s.bytes /\ Failed(s).bytes = s.bytes
             /\ Remapping(s).cursor = 0 /\ Failed(s).cursor = 0
  BY <1>1 DEF Remapping, Failed, SlotState
<1>4. QED BY <1>2, <1>3 DEF SlotInv

(* Submitting and invalidating, slot by slot.                              *)
LEMMA SubmitIs ==
  ASSUME PoolInv, NEW render \in BOOLEAN, Submitting(render)
  PROVE  /\ slot' \in [Slots -> SlotState]
         /\ \A i \in Slots : slot'[i] = IF i \in Pending THEN Remapping(slot[i]) ELSE slot[i]
         /\ sequence' \in Nat
         /\ remaps' = IF Pending = {} THEN remaps ELSE remaps \cup {Pending}
         /\ UNCHANGED <<fatal, memory, direct>>
         /\ \/ Pending = {} /\ UNCHANGED <<slot, sequence, queue>>
            \/ queue' = Append(queue, [copies |-> Copies, direct |-> direct])
<1>1. PoolInv /\ slot \in [Slots -> SlotState]
  BY DEF PoolInv
<1>2. CASE Pending = {} /\ ~render
  BY <1>1, <1>2 DEF Submitting, Submit, pool, gpu, PoolInv
<1>3. CASE ~(Pending = {} /\ ~render)
  <2>1. slot' = [i \in Slots |-> IF i \in Pending THEN Remapping(slot[i]) ELSE slot[i]]
    BY <1>3 DEF Submitting, Submit
  <2>2. \A i \in Slots : slot[i] \in SlotState /\ Remapping(slot[i]) \in SlotState
    BY <1>1, EmptiedSlots
  <2>3. slot' \in [Slots -> SlotState]
        /\ \A i \in Slots : slot'[i] = IF i \in Pending THEN Remapping(slot[i]) ELSE slot[i]
    BY <2>1, <2>2
  <2>4. QED BY <1>3, <2>3 DEF Submitting, Submit
<1>4. QED BY <1>2, <1>3

(* An invalid pool has failed slots.                                       *)
LEMMA InvalidateIs ==
  ASSUME PoolInv, Invalidate
  PROVE  /\ slot' \in [Slots -> SlotState] /\ sequence' = 0
         /\ \A i \in Slots : slot'[i] = Failed(slot[i]) /\ SlotInv(slot'[i])
<1>1. slot' = [i \in Slots |-> Failed(slot[i])] /\ sequence' = 0
  BY DEF Invalidate
<1>2. \A i \in Slots : slot[i] \in SlotState
  BY DEF PoolInv
<1>3. QED BY <1>1, <1>2, EmptiedSlots

(* The promises of the batches stay disjoint when one of them settles.     *)
Disjoint(R) == R \subseteq ((SUBSET Slots) \ {{}}) /\ \A b, d \in R : b # d => b \cap d = {}

(* A remap that settles leaves the other promises as they were.            *)
LEMMA SettlesIs ==
  ASSUME Disjoint(remaps), NEW i \in UNION remaps, Settles(i)
  PROVE  Disjoint(remaps') /\ UNION remaps' = (UNION remaps) \ {i}
<1> DEFINE b == BatchOf(i)
<1>1. b \in remaps /\ i \in b
  BY DEF BatchOf
<1>2. remaps' = (remaps \ {b}) \cup ({b \ {i}} \ {{}})
  BY DEF Settles
<1> HIDE DEF b
<1>3. \A d \in remaps : d # b => d \cap b = {} /\ i \notin d
  BY <1>1 DEF Disjoint
<1>4. Disjoint(remaps')
  BY <1>1, <1>2, <1>3 DEF Disjoint
<1>5. \A j : j \in UNION remaps' <=> j \in UNION remaps /\ j # i
  <2>1. ASSUME NEW j \in UNION remaps' PROVE j \in UNION remaps /\ j # i
    <3>1. PICK d \in remaps' : j \in d
      OBVIOUS
    <3>2. QED BY <1>1, <1>2, <1>3, <3>1
  <2>2. ASSUME NEW j \in UNION remaps, j # i PROVE j \in UNION remaps'
    <3>1. PICK d \in remaps : j \in d
      OBVIOUS
    <3>2. CASE d = b
      <4>1. j \in b \ {i} /\ b \ {i} # {}
        BY <2>2, <3>1, <3>2
      <4>2. b \ {i} \in remaps'
        BY <1>2, <4>1
      <4>3. QED BY <4>1, <4>2
    <3>3. CASE d # b
      BY <1>2, <3>1, <3>3
    <3>4. QED BY <3>2, <3>3
  <2>3. QED BY <2>1, <2>2
<1>6. QED BY <1>4, <1>5

(* The invariant of the pool, put together.                                *)
LEMMA PoolFromParts ==
  ASSUME slot' \in [Slots -> SlotState], \A i \in Slots : SlotInv(slot'[i]),
         sequence' \in Nat, Disjoint(remaps'),
         \A i \in Slots : /\ slot'[i].state = "remapping" => i \in UNION remaps'
                          /\ slot'[i].state = "mapped" => i \notin UNION remaps'
  PROVE  PoolInv'
BY Zenon DEF PoolInv, Disjoint

(* At first every slot is mapped and empty.                                *)
LEMMA PoolInit == Init => PoolInv
<1> SUFFICES ASSUME Init PROVE PoolInv
  OBVIOUS
<1>1. slot = [i \in Slots |-> NewSlot] /\ sequence = 0 /\ remaps = {}
  BY DEF Init
<1>2. QED BY <1>1, EmptiedSlots DEF PoolInv

(* No move breaks the pool: its records lie in what is allocated, and a    *)
(* slot is awaited exactly while it is remapped.                           *)
LEMMA PoolNext == PoolInv /\ Move => PoolInv'
<1> SUFFICES ASSUME PoolInv, Move PROVE PoolInv'
  OBVIOUS
<1> DEFINE States == \A i \in Slots :
             /\ slot[i].state = "remapping" => i \in UNION remaps
             /\ slot[i].state = "mapped" => i \notin UNION remaps
<1>0. Disjoint(remaps) /\ States /\ \A i \in Slots : slot[i] \in SlotState /\ SlotInv(slot[i])
  BY DEF PoolInv, Disjoint
<1>1. ASSUME NEW u \in Upload, NEW n \in Values, Staging(u, n) PROVE PoolInv'
  <2>1. Room(u) # {} /\ Stage(u, n) /\ remaps' = remaps
    BY <1>1 DEF Staging
  <2> DEFINE i == Taker(u)
  <2>2. /\ i \in Slots /\ Fits(i, u) /\ SlotInv(slot'[i]) /\ slot'[i].state = "mapped"
        /\ slot' \in [Slots -> SlotState] /\ \A j \in Slots : j # i => slot'[j] = slot[j]
        /\ sequence' = sequence + 1
    BY <2>1, StageIs
  <2>3. slot[i].state = "mapped" /\ sequence \in Nat
    BY <2>2 DEF Fits, PoolInv
  <2> HIDE DEF i
  <2>4. \A j \in Slots : SlotInv(slot'[j]) /\ slot'[j].state = slot[j].state
    BY <1>0, <2>2, <2>3
  <2>5. QED BY <1>0, <2>1, <2>2, <2>3, <2>4 DEF PoolInv, Disjoint
<1>2. ASSUME NEW render \in BOOLEAN, Submitting(render) PROVE PoolInv'
  <2>1. \A i \in Pending : i \in Slots /\ slot[i].state = "mapped" /\ i \notin UNION remaps
    BY <1>0 DEF Pending
  <2>2. Disjoint(remaps')
    BY <1>0, <1>2, <2>1, SubmitIs DEF Disjoint
  <2>3. \A i \in Slots : SlotInv(slot'[i])
    BY <1>0, <1>2, SubmitIs, EmptiedSlots
  <2>4. States'
    BY <1>0, <1>2, <2>1, SubmitIs, EmptiedSlots
  <2>5. slot' \in [Slots -> SlotState] /\ sequence' \in Nat
    BY <1>2, SubmitIs
  <2>6. QED BY <2>2, <2>3, <2>4, <2>5, PoolFromParts
<1>3. ASSUME NEW i \in Slots, Remapped(i) PROVE PoolInv'
  <2>1. Disjoint(remaps') /\ UNION remaps' = (UNION remaps) \ {i}
    BY <1>0, <1>3, SettlesIs DEF Remapped
  <2>2. /\ slot' \in [Slots -> SlotState]
        /\ \A j \in Slots : j # i => slot'[j] = slot[j]
        /\ slot'[i] = NewSlot \/ (slot'[i] = slot[i] /\ slot[i].state = "failed")
    BY <1>3, EmptiedSlots DEF Remapped, PoolInv
  <2>3. \A j \in Slots : SlotInv(slot'[j])
    BY <1>0, <2>2, EmptiedSlots
  <2>4. States'
    BY <1>0, <2>1, <2>2, EmptiedSlots
  <2>5. sequence' \in Nat
    BY <1>3 DEF Remapped, PoolInv
  <2>6. QED BY <2>1, <2>2, <2>3, <2>4, <2>5, PoolFromParts
<1>4. ASSUME NEW i \in Slots, RemapFailing(i) PROVE PoolInv'
  <2>1. Disjoint(remaps')
    BY <1>0, <1>4, SettlesIs DEF RemapFailing
  <2>2. QED BY <1>0, <1>4, <2>1, InvalidateIs, EmptiedSlots DEF RemapFailing, PoolInv, Disjoint
<1>5. CASE Failing
  <2>1. CASE UNCHANGED <<slot, sequence>>
    BY <1>5, <2>1 DEF Failing, MarkFatal, PoolInv
  <2>2. CASE Invalidate
    BY <1>0, <1>5, <2>2, InvalidateIs, EmptiedSlots DEF Failing, MarkFatal, PoolInv
  <2>3. QED BY <1>5, <2>1, <2>2 DEF Failing, MarkFatal
<1>6. CASE Losing
  BY <1>0, <1>6, InvalidateIs, EmptiedSlots DEF Losing, PoolInv
<1>7. CASE Executing \/ Deferring \/ Idling
  BY <1>7 DEF Executing, Deferring, Idling, pool, PoolInv
<1>8. QED BY <1>1, <1>2, <1>3, <1>4, <1>5, <1>6, <1>7 DEF Move

-----------------------------------------------------------------------------
(* The record that takes an upload, and the others.                        *)
Top(i, u) == IF Grows(i, u) THEN Len(slot[i].records) ELSE Len(slot[i].records) + 1

(* Staging changes the record on top only: it is new, or the last one      *)
(* grown.                                                                  *)
LEMMA StagedRecords ==
  ASSUME PoolInv, NEW u \in Upload, NEW n \in Values, Room(u) # {}, Stage(u, n)
  PROVE  LET i   == Taker(u)
             top == Top(i, u)
             old == slot[i].records
             new == slot'[i].records
         IN  /\ top \in 1 .. Len(new)
             /\ \A k \in 1 .. Len(new) : k # top => k \in Recs(i) /\ new[k] = old[k]
             /\ \A k \in Recs(i) : k # top => k \in 1 .. Len(new) /\ new[k] = old[k]
             /\ new[top].last = sequence + 1
             /\ \/ /\ top \notin Recs(i)
                   /\ new[top] = Fresh(i, u)
                \/ /\ top \in Recs(i) /\ old[top] \in CopyRecord
                   /\ Within(old[top], slot[i].cursor) /\ Continues(old[top], i, u)
                   /\ new[top].first = old[top].first /\ new[top].source = old[top].source
                   /\ new[top].size = old[top].size + u.size /\ new[top].at = old[top].at
<1> DEFINE i   == Taker(u)
           old == slot[i].records
           new == slot'[i].records
           m   == Len(old)
<1>1. /\ i \in Slots /\ Fits(i, u) /\ SlotInv(slot[i]) /\ new = Appended(i, u)
      /\ sequence \in Nat
  BY StageIs DEF PoolInv
<1>2. old \in Seq(CopyRecord) /\ m \in Nat /\ slot[i].cursor \in 0 .. SlotSize
      /\ slot[i].cursor + u.size <= SlotSize
  BY <1>1 DEF SlotInv, SlotState, Fits
<1>3. Recs(i) = 1 .. m
  BY DEF Recs
<1>4. IF Grows(i, u)
      THEN /\ Len(new) = m /\ new[m] = Grown(old[m], u)
           /\ \A k \in 1 .. m : k # m => new[k] = old[k]
      ELSE /\ Len(new) = m + 1 /\ new[m + 1] = Fresh(i, u)
           /\ \A k \in 1 .. m : new[k] = old[k]
  BY <1>1, AppendedIs
<1>5. CASE Grows(i, u)
  <2>1. m > 0 /\ Continues(old[m], i, u) /\ m \in 1 .. m /\ Top(i, u) = m
    BY <1>2, <1>5 DEF Grows, Top
  <2>2. old[m] \in CopyRecord /\ Within(old[m], slot[i].cursor)
    BY <1>1, <1>2, <2>1, ElementOfSeq DEF SlotInv
  <2>3. old[m].source + old[m].size <= slot[i].cursor
    BY <2>2 DEF Within
  <2> HIDE DEF old, new, m, i
  <2>4. /\ new[m].first = old[m].first /\ new[m].last = sequence + 1
        /\ new[m].source = old[m].source /\ new[m].size = old[m].size + u.size
        /\ new[m].at = old[m].at
    BY <1>1, <1>2, <1>4, <1>5, <2>2, <2>3, GrownIs
  <2>5. QED BY <1>2, <1>3, <1>4, <1>5, <2>1, <2>2, <2>4 DEF i, old, new, m
<1>6. CASE ~Grows(i, u)
  <2>1. Top(i, u) = m + 1 /\ new[m + 1].last = sequence + 1
    BY <1>4, <1>6 DEF Top, Fresh
  <2>2. \A k \in 1 .. m + 1 : k # m + 1 => k \in 1 .. m
    BY <1>2
  <2>3. m + 1 \in 1 .. m + 1 /\ m + 1 \notin 1 .. m /\ \A k \in 1 .. m : k \in 1 .. m + 1
    BY <1>2
  <2> HIDE DEF old, new, m, i
  <2>4. QED BY <1>3, <1>4, <1>6, <2>1, <2>2, <2>3 DEF i, old, new, m
<1>7. QED BY <1>5, <1>6

(* Every other step leaves a slot's records alone or takes them all.       *)
LEMMA SealedRecords ==
  ASSUME PoolInv, NEW render \in BOOLEAN, Submitting(render),
         ~(Pending = {} /\ UNCHANGED <<slot, sequence, queue>>)
  PROVE  \A i \in Slots : slot'[i].records = <<>>
<1>1. ASSUME NEW i \in Slots PROVE slot'[i].records = <<>>
  <2>1. slot[i] \in SlotState /\ SlotInv(slot[i])
    BY DEF PoolInv
  <2>2. CASE i \in Pending
    BY <2>1, <2>2, SubmitIs, EmptiedSlots
  <2>3. CASE i \notin Pending
    BY <2>1, <2>3, SubmitIs DEF Pending, SlotInv, SlotState
  <2>4. QED BY <2>2, <2>3
<1>2. QED BY <1>1

(* Invalidating takes all records.                                         *)
LEMMA InvalidatedRecords ==
  ASSUME PoolInv, Invalidate
  PROVE  \A i \in Slots : slot'[i].records = <<>> /\ slot'[i].state = "failed"
BY InvalidateIs, EmptiedSlots DEF PoolInv

(* A remap changes one slot, which had no records.                         *)
LEMMA RemappedRecords ==
  ASSUME PoolInv, NEW i \in Slots, Remapped(i)
  PROVE  /\ slot'[i] = NewSlot \/ (slot'[i] = slot[i] /\ slot[i].state = "failed")
         /\ \A j \in Slots : j # i => slot'[j] = slot[j]
         /\ \A j \in Slots : slot'[j].records = slot[j].records
         /\ sequence' = sequence
<1>1. /\ slot'[i] = NewSlot \/ slot'[i] = slot[i]
      /\ \A j \in Slots : j # i => slot'[j] = slot[j]
  BY DEF Remapped, PoolInv
<1>2. CASE slot[i].state = "failed" /\ UNCHANGED slot
  BY <1>2 DEF Remapped
<1>3. CASE slot[i].state = "remapping" /\ slot' = [slot EXCEPT ![i] = NewSlot]
  <2>1. slot[i].records = <<>> /\ slot'[i] = NewSlot
    BY <1>3 DEF PoolInv, SlotInv
  <2>2. QED BY <1>1, <2>1, EmptiedSlots DEF Remapped
<1>4. QED BY <1>2, <1>3 DEF Remapped

(* The order of the records.                                               *)
LEMMA EmptyOrder ==
  ASSUME \A i \in Slots : slot'[i].records = <<>>
  PROVE  OrderInv'
<1>1. \A i \in Slots : Recs(i)' = {}
  BY DEF Recs
<1>2. QED BY <1>1 DEF OrderInv

(* Records that stay keep their order.                                     *)
LEMMA SameOrder ==
  ASSUME OrderInv, sequence' = sequence, \A i \in Slots : slot'[i].records = slot[i].records
  PROVE  OrderInv'
BY DEF OrderInv, Recs, Rec

(* No record, no order to break.                                           *)
LEMMA OrderInit == Init => OrderInv
BY EmptiedSlots DEF Init, OrderInv, Recs

(* The record on top comes after all the others, also when it has grown:   *)
(* nothing was staged since it was the last.                               *)
LEMMA StagedOrder ==
  ASSUME PoolInv, OrderInv, NEW u \in Upload, NEW n \in Values, Room(u) # {}, Stage(u, n)
  PROVE  OrderInv'
<1> DEFINE i   == Taker(u)
           top == Top(i, u)
           new == slot'[i].records
<1>1. /\ i \in Slots /\ sequence' = sequence + 1 /\ sequence \in Nat
      /\ \A j \in Slots : j # i => slot'[j] = slot[j]
  BY StageIs DEF PoolInv
<1>2. /\ top \in 1 .. Len(new) /\ new[top].last = sequence + 1
      /\ \A k \in 1 .. Len(new) : k # top => k \in Recs(i) /\ new[k] = Rec(i, k)
      /\ \/ top \notin Recs(i) /\ new[top].first = sequence + 1
         \/ /\ top \in Recs(i) /\ Rec(i, top).last = sequence
            /\ new[top].first = Rec(i, top).first
  <2> DEFINE old == slot[i].records
  <2>1. /\ top \in 1 .. Len(new) /\ new[top].last = sequence + 1
        /\ \A k \in 1 .. Len(new) : k # top => k \in Recs(i) /\ new[k] = old[k]
    BY StagedRecords
  <2>2. \/ top \notin Recs(i) /\ new[top] = Fresh(i, u)
        \/ /\ top \in Recs(i) /\ Continues(old[top], i, u)
           /\ new[top].first = old[top].first
    BY StagedRecords
  <2> HIDE DEF i, top, new
  <2>3. QED BY <2>1, <2>2 DEF Rec, Fresh, Continues
<1> HIDE DEF i, top, new
<1>3. \A j \in Slots : \A k \in Recs(j) :
        /\ Rec(j, k).first \in Nat /\ Rec(j, k).last \in Nat
        /\ Rec(j, k).first <= Rec(j, k).last /\ Rec(j, k).last <= sequence
  <2> SUFFICES ASSUME NEW j \in Slots, NEW k \in Recs(j)
               PROVE  /\ Rec(j, k).first \in Nat /\ Rec(j, k).last \in Nat
                      /\ Rec(j, k).first <= Rec(j, k).last /\ Rec(j, k).last <= sequence
    OBVIOUS
  <2>1. slot[j].records \in Seq(CopyRecord) /\ k \in 1 .. Len(slot[j].records)
    BY DEF PoolInv, SlotState, Recs
  <2>2. Rec(j, k) \in CopyRecord
    BY <2>1, ElementOfSeq DEF Rec
  <2>3. Within(Rec(j, k), slot[j].cursor)
    BY <2>1 DEF PoolInv, SlotInv, Rec
  <2>4. QED BY <2>2, <2>3 DEF CopyRecord, Within, OrderInv
(* Two records of the new pool: which of them is the one on top?           *)
<1> DEFINE R(j, k) == slot'[j].records[k]
           Entry(j, k) == j \in Slots /\ k \in 1 .. Len(slot'[j].records)
<1>4. \A j, k : Entry(j, k) =>
        \/ j = i /\ k = top
        \/ k \in Recs(j) /\ R(j, k) = Rec(j, k) /\ ~(j = i /\ k = top)
  BY <1>1, <1>2 DEF new, Recs, Rec
<1>5. \A j, k : Entry(j, k) => R(j, k).last <= sequence + 1
  BY <1>1, <1>2, <1>3, <1>4 DEF new
<1>6. ASSUME NEW j, NEW k, Entry(j, k), ~(j = i /\ k = top)
      PROVE  R(j, k).last < R(i, top).first
  <2>1. k \in Recs(j) /\ j \in Slots /\ R(j, k) = Rec(j, k)
    BY <1>4, <1>6
  <2>2. CASE new[top].first = sequence + 1
    BY <2>1, <2>2, <1>1, <1>3 DEF new
  <2>3. CASE top \in Recs(i) /\ Rec(i, top).last = sequence /\ new[top].first = Rec(i, top).first
    <3>1. Rec(j, k).last < Rec(i, top).first \/ Rec(i, top).last < Rec(j, k).first
      BY <1>1, <1>6, <2>1, <2>3 DEF OrderInv
    <3>2. /\ Rec(j, k).first \in Nat /\ Rec(j, k).last \in Nat
          /\ Rec(j, k).first <= Rec(j, k).last /\ Rec(j, k).last <= sequence
          /\ Rec(i, top).first \in Nat
      BY <1>1, <1>3, <2>1, <2>3
    <3>3. Rec(j, k).last < Rec(i, top).first
      BY <3>1, <3>2, <2>3, <1>1
    <3>4. QED BY <3>3, <2>1, <2>3 DEF new
  <2>4. QED BY <1>2, <2>2, <2>3
<1>7. ASSUME NEW j, NEW k, NEW h, NEW l, Entry(j, k), Entry(h, l), j # h \/ k # l
      PROVE  R(j, k).last < R(h, l).first \/ R(h, l).last < R(j, k).first
  <2>1. CASE j = i /\ k = top
    BY <1>6, <1>7, <2>1
  <2>2. CASE h = i /\ l = top
    BY <1>6, <1>7, <2>2
  <2>3. CASE ~(j = i /\ k = top) /\ ~(h = i /\ l = top)
    <3>1. /\ j \in Slots /\ k \in Recs(j) /\ R(j, k) = Rec(j, k)
          /\ h \in Slots /\ l \in Recs(h) /\ R(h, l) = Rec(h, l)
      BY <1>4, <1>7, <2>3
    <3> HIDE DEF R, Entry
    <3>2. QED BY <3>1, <1>7 DEF OrderInv
  <2>4. QED BY <2>1, <2>2, <2>3
<1>8. \A j \in Slots : \A k \in Recs(j)' : Entry(j, k) /\ Rec(j, k)' = R(j, k)
  BY Zenon DEF Recs, Rec
<1>9. \A j \in Slots : \A k \in Recs(j)' : Rec(j, k)'.last <= sequence'
  BY <1>1, <1>5, <1>8
<1>10. \A j, h \in Slots : \A k \in Recs(j)', l \in Recs(h)' :
         j # h \/ k # l =>
           Rec(j, k)'.last < Rec(h, l)'.first \/ Rec(h, l)'.last < Rec(j, k)'.first
  <2> HIDE DEF R, Entry
  <2>1. QED BY <1>7, <1>8
<1>11. QED BY <1>9, <1>10 DEF OrderInv

(* Records are staged one after the other, in whichever slots.             *)
LEMMA OrderNext == PoolInv /\ OrderInv /\ Move => OrderInv'
<1> SUFFICES ASSUME PoolInv, OrderInv, Move PROVE OrderInv'
  OBVIOUS
<1>1. ASSUME NEW u \in Upload, NEW n \in Values, Staging(u, n) PROVE OrderInv'
  BY <1>1, StagedOrder DEF Staging
<1>2. ASSUME NEW render \in BOOLEAN, Submitting(render) PROVE OrderInv'
  BY <1>2, SealedRecords, EmptyOrder, SameOrder
<1>3. ASSUME NEW i \in Slots, Remapped(i) PROVE OrderInv'
  BY <1>3, RemappedRecords, SameOrder
<1>4. CASE Invalidate
  BY <1>4, InvalidatedRecords, EmptyOrder
<1>5. CASE UNCHANGED <<slot, sequence>>
  BY <1>5, SameOrder
<1>6. QED
  BY <1>1, <1>2, <1>3, <1>4, <1>5
     DEF Move, RemapFailing, Failing, MarkFatal, Losing, Executing, Deferring, Idling, pool

-----------------------------------------------------------------------------
(* After a failure: no deferral, nothing staged.                           *)
LEMMA FatalInit == Init => FatalInv
BY DEF Init, FatalInv

(* Nothing is staged in an invalid pool,                                   *)
LEMMA InvalidatedPending ==
  ASSUME PoolInv, Invalidate
  PROVE  Pending' = {}
BY InvalidatedRecords DEF Pending

(* a remap leaves what is staged,                                          *)
LEMMA RemappedPending ==
  ASSUME PoolInv, NEW i \in Slots, Remapped(i)
  PROVE  Pending' = Pending
<1>1. \A j \in Slots : slot'[j].records # <<>> => slot'[j] = slot[j]
  BY RemappedRecords, EmptiedSlots
<1>2. \A j \in Slots : slot[j].records # <<>> => slot'[j] = slot[j]
  BY <1>1, RemappedRecords
<1>3. QED BY <1>1, <1>2 DEF Pending

(* and staging makes a slot pending.                                       *)
LEMMA StagedPending ==
  ASSUME PoolInv, NEW u \in Upload, NEW n \in Values, Room(u) # {}, Stage(u, n)
  PROVE  Taker(u) \in Pending'
<1> DEFINE i == Taker(u)
           top == Top(i, u)
<1>1. i \in Slots /\ slot'[i].state = "mapped"
  BY StageIs
<1>2. top \in 1 .. Len(slot'[i].records)
  BY StagedRecords
<1> HIDE DEF i, top
<1>3. slot'[i].records # <<>>
  BY <1>2
<1>4. i \in Pending'
  BY <1>1, <1>3 DEF Pending
<1>5. QED BY <1>4 DEF i

(* A failure leaves nothing staged and no timer; a deferral ends with what *)
(* it deferred.                                                            *)
LEMMA FatalNext == PoolInv /\ FatalInv /\ Move => FatalInv'
<1> SUFFICES ASSUME PoolInv, FatalInv, Move PROVE FatalInv'
  OBVIOUS
<1>1. ASSUME NEW u \in Upload, NEW n \in Values, Staging(u, n) PROVE FatalInv'
  <2>1. Pending' # {}
    BY <1>1, StagedPending DEF Staging
  <2>2. QED BY <1>1, <2>1 DEF Staging, coalescer, FatalInv
<1>2. ASSUME NEW render \in BOOLEAN, Submitting(render) PROVE FatalInv'
  BY <1>2, SubmitIs DEF Submitting, Submit, CancelDeferral, FatalInv
<1>3. ASSUME NEW i \in Slots, Remapped(i) PROVE FatalInv'
  BY <1>3, RemappedPending DEF Remapped, coalescer, FatalInv
<1>4. ASSUME CancelDeferral, fatal' \in {"yes", "lost"}, Pending' = {} PROVE FatalInv'
  BY <1>4 DEF CancelDeferral, FatalInv
<1>5. ASSUME NEW i \in Slots, RemapFailing(i) PROVE FatalInv'
  BY <1>4, <1>5, InvalidatedPending DEF RemapFailing
<1>6. CASE Failing
  <2>1. Pending' = {}
    BY <1>6, InvalidatedPending DEF Failing, MarkFatal, Pending
  <2>2. QED BY <1>4, <1>6, <2>1 DEF Failing, MarkFatal
<1>7. CASE Losing
  BY <1>4, <1>7, InvalidatedPending DEF Losing
<1>8. CASE Executing \/ Deferring \/ Idling
  <2>1. Pending' = Pending
    BY <1>8 DEF Executing, Deferring, Idling, pool, Pending
  <2>2. CASE Executing \/ Idling
    <3>1. fatal' = fatal /\ deferred' = deferred /\ timer' = timer
      BY <2>2 DEF Executing, Idling, coalescer
    <3>2. QED BY <2>1, <3>1, Zenon DEF FatalInv
  <2>3. CASE Deferring
    <3>1. /\ fatal' = "no" /\ Pending' # {}
          /\ deferred' = TRUE /\ timer' = TRUE
      BY <2>1, <2>3 DEF Deferring
    <3>2. QED BY <3>1, Zenon DEF FatalInv
  <2>4. QED BY <1>8, <2>2, <2>3
<1>9. QED BY <1>1, <1>2, <1>3, <1>5, <1>6, <1>7, <1>8 DEF Move

-----------------------------------------------------------------------------
(* The copies of a submission are the records of the pool.                 *)
CopyOf(i, k) == [slot |-> i, source |-> Rec(i, k).source, size |-> Rec(i, k).size,
                 at |-> Rec(i, k).at, order |-> Rec(i, k).first]

(* One copy for each record, with its order.                               *)
LEMMA CopiesAre ==
  ASSUME PoolInv
  PROVE  /\ \A copy \in Copies : \E i \in Slots : \E k \in Recs(i) : copy = CopyOf(i, k)
         /\ \A i \in Slots : \A k \in Recs(i) : CopyOf(i, k) \in Copies
<1>1. ASSUME NEW copy \in Copies
      PROVE  \E i \in Slots : \E k \in Recs(i) : copy = CopyOf(i, k)
  <2>1. PICK i \in Pending : \E r \in {slot[i].records[k] : k \in 1 .. Len(slot[i].records)} :
             copy = [slot |-> i, source |-> r.source, size |-> r.size, at |-> r.at,
                     order |-> r.first]
    BY <1>1 DEF Copies
  <2>2. QED BY <2>1 DEF Pending, CopyOf, Recs, Rec
<1>2. ASSUME NEW i \in Slots, NEW k \in Recs(i)
      PROVE  CopyOf(i, k) \in Copies
  <2>1. SlotInv(slot[i]) /\ slot[i].records \in Seq(CopyRecord) /\ slot[i] \in SlotState
    BY DEF PoolInv, SlotInv, SlotState
  <2>2. slot[i].records # <<>>
    BY <2>1 DEF Recs
  <2>3. i \in Pending
    BY <2>1, <2>2 DEF Pending, SlotInv, SlotState
  <2> DEFINE Of(j) == {[slot |-> j, source |-> r.source, size |-> r.size, at |-> r.at,
                        order |-> r.first] :
                         r \in {slot[j].records[l] : l \in 1 .. Len(slot[j].records)}}
  <2>4. CopyOf(i, k) \in Of(i)
    BY DEF CopyOf, Recs, Rec
  <2>5. Copies = UNION {Of(j) : j \in Pending}
    BY Zenon DEF Copies
  <2> HIDE DEF Of
  <2>6. QED BY <2>3, <2>4, <2>5
<1>3. QED BY <1>1, <1>2

-----------------------------------------------------------------------------
(* Running the copies of a ready submission leaves what direct writes      *)
(* would have left.                                                        *)
LEMMA CopiedIs ==
  ASSUME NEW sub \in Submission, Ready(slot, sub, memory), NEW c \in Memory
  PROVE  Copied(sub.copies, c) = sub.direct[c]
<1> DEFINE over == {k \in sub.copies : c \in CellsOf(k)}
           last == CHOOSE k \in over : \A j \in over : j.order <= k.order
<1>1. Leaves(slot, sub.copies, c, memory[c], sub.direct[c])
  BY DEF Ready
<1>2. CASE over = {}
  BY <1>1, <1>2 DEF Copied, Leaves
<1>3. CASE over # {}
  <2> DEFINE S == {k.order : k \in over}
  <2>1. \A k \in over : k.order \in Nat
    BY DEF Submission
  <2>2. S \in SUBSET Nat /\ S # {}
    BY <1>3, <2>1
  <2>3. PICK b \in Nat : \A k \in sub.copies : k.order <= b
    BY DEF Ready
  <2>4. \A x \in S : x <= b
    BY <2>3
  <2>5. \E x \in S : \A y \in S : y <= x
    BY <2>2, <2>4, GreatestExists
  <2>6. \E k \in over : \A j \in over : j.order <= k.order
    BY <2>5
  <2>7. last \in over /\ \A j \in over : j.order <= last.order
    BY <2>6
  <2>8. Copied(sub.copies, c) = slot[last.slot].bytes[last.source + c - last.at]
    BY <1>3 DEF Copied
  <2> HIDE DEF last
  <2>9. slot[last.slot].bytes[last.source + c - last.at] = sub.direct[c]
    BY <1>1, <2>7 DEF Leaves
  <2>10. QED BY <2>8, <2>9
<1>4. QED BY <1>2, <1>3

(* A submission under way is ready as long as its slots are left alone.    *)
LEMMA ReadyKept ==
  ASSUME NEW old, NEW new, NEW sub, NEW base, Ready(old, sub, base),
         \A k \in sub.copies : /\ new[k.slot].state # "mapped"
                               /\ new[k.slot].bytes = old[k.slot].bytes
  PROVE  Ready(new, sub, base)
BY DEF Ready, Leaves

(* So is the queue, while its slots are neither mapped nor written.        *)
LEMMA QueueKept ==
  ASSUME QueueInv, UNCHANGED gpu, direct' \in [Memory -> Values],
         \A i \in Slots : InUse(i) /\ slot[i].state # "mapped" =>
                            /\ slot'[i].state # "mapped"
                            /\ slot'[i].bytes = slot[i].bytes
  PROVE  QueueInv'
<1>1. queue \in Seq(Submission) /\ memory' = memory /\ queue' = queue
  BY DEF QueueInv, gpu
<1>2. ASSUME NEW n \in 1 .. Len(queue) PROVE Ready(slot', queue[n], Before(n))
  <2>1. queue[n] \in Submission
    BY <1>1, ElementOfSeq
  <2>2. Ready(slot, queue[n], Before(n))
    BY DEF QueueInv
  <2>3. \A k \in queue[n].copies : /\ k.slot \in Slots /\ InUse(k.slot)
                                   /\ slot[k.slot].state # "mapped"
    BY <2>1, <2>2 DEF Submission, InUse, Ready
  <2>4. QED BY <2>2, <2>3, ReadyKept
<1>3. \A n \in 1 .. Len(queue) : Before(n)' = Before(n)
  BY <1>1 DEF Before
<1>4. QED BY <1>1, <1>2, <1>3 DEF QueueInv

(* When the head has run, the next submission finds what it counts on.     *)
LEMMA QueueExecuted == QueueInv /\ Executing => QueueInv' /\ memory' = Head(queue).direct
<1> SUFFICES ASSUME QueueInv, Executing PROVE QueueInv' /\ memory' = Head(queue).direct
  OBVIOUS
<1>1. /\ queue \in Seq(Submission) /\ queue # <<>> /\ queue' = Tail(queue)
      /\ memory' = [c \in Memory |-> Copied(Head(queue).copies, c)]
      /\ slot' = slot /\ direct' = direct
  BY DEF QueueInv, Executing, pool
<1>2. /\ Len(queue) \in Nat \ {0} /\ Head(queue) = queue[1] /\ queue[1] \in Submission
      /\ queue' \in Seq(Submission) /\ Len(queue') = Len(queue) - 1
      /\ \A n \in 1 .. Len(queue') : queue'[n] = queue[n + 1]
  <2>1. Len(queue) \in Nat /\ Len(queue) # 0
    BY <1>1, EmptySeq, LenProperties
  <2>2. QED BY <1>1, <2>1, HeadTailProperties, ElementOfSeq
<1>3. Ready(slot, queue[1], memory)
  BY <1>2 DEF QueueInv, Before
<1>4. memory' = queue[1].direct
  <2>1. \A c \in Memory : Copied(queue[1].copies, c) = queue[1].direct[c]
    BY <1>2, <1>3, CopiedIs
  <2>2. queue[1].direct \in [Memory -> Values]
    BY <1>2 DEF Submission
  <2>3. QED BY <1>1, <1>2, <2>1, <2>2
<1>5. memory' \in [Memory -> Values]
  BY <1>2, <1>4 DEF Submission
<1>6. ASSUME NEW n \in 1 .. Len(queue')
      PROVE  Ready(slot', queue'[n], Before(n)')
  <2>1. n + 1 \in 1 .. Len(queue) /\ queue'[n] = queue[n + 1]
    BY <1>2
  <2>2. Before(n)' = Before(n + 1)
    <3>1. CASE n = 1
      BY <1>4, <3>1 DEF Before
    <3>2. CASE n # 1
      <4>1. n - 1 \in 1 .. Len(queue') /\ queue'[n - 1] = queue[n]
        BY <1>2, <3>2
      <4>2. QED BY <3>2, <4>1 DEF Before
    <3>3. QED BY <3>1, <3>2
  <2>3. Ready(slot, queue[n + 1], Before(n + 1))
    BY <2>1 DEF QueueInv
  <2>4. QED BY <1>1, <2>1, <2>2, <2>3
<1>7. QED BY <1>1, <1>2, <1>4, <1>5, <1>6 DEF QueueInv

(* What is staged becomes a submission that is ready after the others.     *)
LEMMA SubmissionIsReady ==
  ASSUME PoolInv, OrderInv, QueueInv, StagedInv, NEW render \in BOOLEAN, Submitting(render)
  PROVE  LET sub == [copies |-> Copies, direct |-> direct]
         IN  sub \in Submission /\ Ready(slot', sub, Sent)
<1> DEFINE sub == [copies |-> Copies, direct |-> direct]
<1>1. direct \in [Memory -> Values] /\ fatal = "no"
  BY DEF QueueInv, Submitting
<1>2. ASSUME NEW i \in Slots, NEW k \in Recs(i)
      PROVE  /\ Rec(i, k) \in CopyRecord /\ Rec(i, k).first <= sequence
             /\ slot'[i].state # "mapped" /\ slot'[i].bytes = slot[i].bytes
  <2>1. slot[i].records \in Seq(CopyRecord) /\ SlotInv(slot[i]) /\ slot[i] \in SlotState
    BY DEF PoolInv, SlotState
  <2>2. Rec(i, k) \in CopyRecord
    BY <2>1, ElementOfSeq DEF Recs, Rec
  <2>3. Rec(i, k).first <= Rec(i, k).last /\ Rec(i, k).last <= sequence
    BY <2>1 DEF SlotInv, Within, Recs, Rec, OrderInv
  <2>4. Rec(i, k).first \in Nat /\ Rec(i, k).last \in Nat /\ sequence \in Nat
    BY <2>2 DEF CopyRecord, PoolInv
  <2>5. i \in Pending
    <3>1. slot[i].records # <<>>
      BY <2>1 DEF Recs
    <3>2. QED BY <2>1, <3>1 DEF SlotInv, Pending
  <2>6. slot'[i] = Remapping(slot[i])
    BY <2>5, SubmitIs
  <2>7. slot'[i].state # "mapped" /\ slot'[i].bytes = slot[i].bytes
    BY <2>1, <2>6, EmptiedSlots
  <2>8. QED BY <2>2, <2>3, <2>4, <2>7
<1>3. ASSUME NEW copy \in Copies
      PROVE  \E i \in Slots : \E k \in Recs(i) : copy = CopyOf(i, k)
  BY CopiesAre
<1>4. ASSUME NEW i \in Slots, NEW k \in Recs(i)
      PROVE  /\ CopyOf(i, k) \in Copies /\ CopyOf(i, k).order = Rec(i, k).first
             /\ CopyOf(i, k).slot = i /\ CopyOf(i, k).source = Rec(i, k).source
             /\ CopyOf(i, k).at = Rec(i, k).at
             /\ CellsOf(CopyOf(i, k)) = CellsOf(Rec(i, k))
  BY CopiesAre DEF CopyOf, CellsOf
<1>5. sub \in Submission
  <2>1. \A i \in Slots : \A k \in Recs(i) :
          CopyOf(i, k) \in [slot : Slots, source : 0 .. SlotSize - 1,
                           size : 1 .. SlotSize, at : Memory, order : Nat]
    BY <1>2 DEF CopyOf, CopyRecord
  <2>2. QED BY <1>1, <1>3, <2>1 DEF Submission
<1>6. \A copy \in Copies : slot'[copy.slot].state # "mapped" /\ copy.order <= sequence
  BY <1>2, <1>3, <1>4
<1>7. ASSUME NEW c \in Memory PROVE Leaves(slot', Copies, c, Sent[c], direct[c])
  <2>1. ASSUME \A k \in Copies : c \notin CellsOf(k) PROVE Sent[c] = direct[c]
    <3>1. \A i \in Slots : \A k \in Recs(i) : c \notin CellsOf(Rec(i, k))
      BY <1>4, <2>1
    <3>2. QED BY <1>1, <3>1 DEF StagedInv
  <2>2. ASSUME NEW copy \in Copies, c \in CellsOf(copy),
               \A j \in Copies : c \in CellsOf(j) => j.order <= copy.order
        PROVE  slot'[copy.slot].bytes[copy.source + c - copy.at] = direct[c]
    <3>0. PICK i \in Slots : \E k \in Recs(i) : copy = CopyOf(i, k)
      BY <1>3
    <3>1. PICK k \in Recs(i) : copy = CopyOf(i, k)
      BY <3>0
    <3>2. Newest(i, k, c)
      BY <1>4, <2>2, <3>1 DEF Newest
    <3>3. slot[i].bytes[Rec(i, k).source + c - Rec(i, k).at] = direct[c]
      BY <1>1, <3>2 DEF StagedInv
    <3>4. slot'[i].bytes = slot[i].bytes
      BY <1>2
    <3>5. copy.slot = i /\ copy.source = Rec(i, k).source /\ copy.at = Rec(i, k).at
      BY <1>4, <3>1
    <3>6. QED BY <3>3, <3>4, <3>5
  <2>3. QED BY <2>1, <2>2 DEF Leaves
<1>8. sequence \in Nat
  BY DEF PoolInv
<1>9. Ready(slot', sub, Sent)
  BY <1>6, <1>7, <1>8 DEF Ready
<1>10. QED BY <1>5, <1>9

(* Submitting keeps the submissions before: their slots are not pending.   *)
LEMMA QueueSubmitted ==
  ASSUME PoolInv, OrderInv, QueueInv, StagedInv, NEW render \in BOOLEAN, Submitting(render)
  PROVE  QueueInv'
<1> DEFINE sub == [copies |-> Copies, direct |-> direct]
<1>1. /\ \A i \in Slots : slot'[i] = IF i \in Pending THEN Remapping(slot[i]) ELSE slot[i]
      /\ UNCHANGED <<memory, direct>>
      /\ \/ Pending = {} /\ UNCHANGED <<slot, sequence, queue>>
         \/ queue' = Append(queue, sub)
  BY SubmitIs
<1>2. sub \in Submission /\ Ready(slot', sub, Sent)
  BY SubmissionIsReady
<1> HIDE DEF sub
<1>3. CASE UNCHANGED <<slot, queue>>
  BY <1>1, <1>3, QueueKept DEF QueueInv, gpu
<1>4. CASE queue' = Append(queue, sub)
  <2>1. /\ queue \in Seq(Submission) /\ queue' \in Seq(Submission)
        /\ Len(queue) \in Nat /\ Len(queue') = Len(queue) + 1
        /\ \A n \in 1 .. Len(queue) : queue'[n] = queue[n]
        /\ queue'[Len(queue) + 1] = sub
    BY <1>2, <1>4, AppendProperties, LenProperties DEF QueueInv
  <2>2. \A n \in 1 .. Len(queue) + 1 : Before(n)' = Before(n)
    <3>1. ASSUME NEW n \in 1 .. Len(queue) + 1, n # 1 PROVE queue'[n - 1] = queue[n - 1]
      BY <2>1, <3>1
    <3>2. QED BY <1>1, <3>1 DEF Before
  <2>3. ASSUME NEW n \in 1 .. Len(queue) PROVE Ready(slot', queue'[n], Before(n)')
    <3>1. queue[n] \in Submission /\ Ready(slot, queue[n], Before(n))
      BY <2>1, ElementOfSeq DEF QueueInv
    <3>2. \A k \in queue[n].copies : k.slot \in Slots /\ slot[k.slot].state # "mapped"
      BY <3>1 DEF Submission, Ready
    <3>3. \A k \in queue[n].copies : slot'[k.slot] = slot[k.slot]
      BY <1>1, <3>2 DEF Pending
    <3>4. Ready(slot', queue[n], Before(n))
      BY <3>1, <3>2, <3>3, ReadyKept
    <3>5. queue'[n] = queue[n] /\ Before(n)' = Before(n)
      BY <2>1, <2>2
    <3>6. QED BY <3>4, <3>5
  <2>4. ASSUME NEW n \in Nat, n = Len(queue) + 1 PROVE Ready(slot', queue'[n], Before(n)')
    BY <1>2, <2>1, <2>2, <2>4 DEF Sent
  <2>5. \A n \in 1 .. Len(queue') : Ready(slot', queue'[n], Before(n)')
    <3>1. \A n \in 1 .. Len(queue') : n \in 1 .. Len(queue) \/ n = Len(queue) + 1
      BY <2>1
    <3>2. QED BY <2>1, <2>3, <2>4, <3>1
  <2>6. QED BY <1>1, <2>1, <2>5 DEF QueueInv
<1>5. QED BY <1>1, <1>3, <1>4

(* At first the queue is empty.                                            *)
LEMMA QueueInit == Init => QueueInv
<1> SUFFICES ASSUME Init PROVE QueueInv
  OBVIOUS
<1>1. queue = <<>> /\ memory = [c \in Memory |-> 0] /\ direct = memory
  BY DEF Init
<1>2. 0 \in Values /\ queue \in Seq(Submission) /\ Len(queue) = 0
  BY <1>1, StagingAssumption, EmptySeq DEF Values
<1>3. QED BY <1>1, <1>2 DEF QueueInv

(* No move disturbs the submissions under way: a slot is written or mapped *)
(* again only when no copy reads it any more.                              *)
LEMMA QueueNext ==
  PoolInv /\ OrderInv /\ QueueInv /\ StagedInv /\ Move => QueueInv'
<1> SUFFICES ASSUME PoolInv, OrderInv, QueueInv, StagedInv, Move PROVE QueueInv'
  OBVIOUS
<1>0. direct \in [Memory -> Values] /\ \A i \in Slots : slot[i] \in SlotState
  BY DEF QueueInv, PoolInv
<1>1. ASSUME NEW u \in Upload, NEW n \in Values, Staging(u, n) PROVE QueueInv'
  <2>1. Room(u) # {} /\ Stage(u, n) /\ UNCHANGED gpu
    BY <1>1 DEF Staging
  <2> DEFINE i == Taker(u)
  <2>2. /\ i \in Slots /\ Fits(i, u) /\ \A j \in Slots : j # i => slot'[j] = slot[j]
        /\ direct' = [c \in Memory |-> IF c \in CellsOf(u) THEN n ELSE direct[c]]
    BY <2>1, StageIs
  <2>3. slot[i].state = "mapped"
    BY <2>2 DEF Fits
  <2>4. direct' \in [Memory -> Values]
    BY <1>0, <2>2
  <2> HIDE DEF i
  <2>5. \A j \in Slots : slot[j].state # "mapped" => slot'[j] = slot[j]
    BY <2>2, <2>3
  <2>6. QED BY <2>1, <2>4, <2>5, QueueKept
<1>2. ASSUME NEW render \in BOOLEAN, Submitting(render) PROVE QueueInv'
  BY <1>2, QueueSubmitted
<1>3. ASSUME NEW i \in Slots, Remapped(i) PROVE QueueInv'
  <2>1. UNCHANGED <<gpu, direct>> /\ \A j \in Slots : j # i => slot'[j] = slot[j]
    BY <1>3, RemappedRecords DEF Remapped
  <2>2. InUse(i) => slot'[i] = slot[i]
    BY <1>3 DEF Remapped
  <2>3. QED BY <1>0, <2>1, <2>2, QueueKept
<1>4. CASE Invalidate /\ UNCHANGED <<gpu, direct>>
  <2>1. \A j \in Slots : slot'[j].state # "mapped" /\ slot'[j].bytes = slot[j].bytes
    <3>1. ASSUME NEW j \in Slots
          PROVE  slot'[j].state # "mapped" /\ slot'[j].bytes = slot[j].bytes
      <4>1. slot'[j] = Failed(slot[j]) /\ slot[j] \in SlotState
        BY <1>0, <1>4, InvalidateIs
      <4>2. QED BY <4>1, EmptiedSlots
    <3>2. QED BY <3>1
  <2>2. QED BY <1>0, <1>4, <2>1, QueueKept
<1>5. CASE UNCHANGED <<slot, gpu, direct>>
  BY <1>0, <1>5, QueueKept
<1>6. CASE Losing
  <2>1. /\ queue' = <<>> /\ memory' = memory /\ direct' = direct
        /\ queue' \in Seq(Submission) /\ Len(queue') = 0
    BY <1>6, EmptySeq DEF Losing
  <2>2. QED BY <2>1 DEF QueueInv
<1>7. CASE Executing
  BY <1>7, QueueExecuted
<1>8. CASE Failing
  <2>1. CASE Invalidate
    BY <1>4, <1>8, <2>1 DEF Failing, MarkFatal
  <2>2. CASE UNCHANGED <<slot, sequence>>
    BY <1>5, <1>8, <2>2 DEF Failing, MarkFatal
  <2>3. QED BY <1>8, <2>1, <2>2 DEF Failing, MarkFatal
<1>9. QED
  BY <1>1, <1>2, <1>3, <1>4, <1>5, <1>6, <1>7, <1>8
     DEF Move, RemapFailing, Deferring, Idling, pool

-----------------------------------------------------------------------------
(* What is staged is not disturbed by a step that leaves the records.      *)
LEMMA SentKept == UNCHANGED gpu => Sent' = Sent
BY DEF gpu, Sent, Before

(* A step that leaves records, their bytes and direct keeps what is staged *)
(* right.                                                                  *)
LEMMA StagedKept ==
  ASSUME StagedInv, fatal' = "no" => fatal = "no", Sent' = Sent, direct' = direct,
         \A i \in Slots : /\ slot'[i].records = slot[i].records
                          /\ slot[i].records # <<>> => slot'[i].bytes = slot[i].bytes
  PROVE  StagedInv'
<1> SUFFICES ASSUME fatal' = "no" PROVE StagedInv'
  BY DEF StagedInv
<1>1. \A i \in Slots : Recs(i)' = Recs(i) /\ \A k \in Recs(i) : Rec(i, k)' = Rec(i, k)
  BY DEF Recs, Rec
<1>2. ASSUME NEW i \in Slots, NEW k \in Recs(i) PROVE slot'[i].bytes = slot[i].bytes
  <2>1. slot[i].records # <<>>
    BY DEF Recs
  <2>2. QED BY <2>1
<1>3. ASSUME NEW c \in Memory,
             \A i \in Slots : \A k \in Recs(i)' : c \notin CellsOf(Rec(i, k)')
      PROVE  Sent'[c] = direct'[c]
  BY <1>1, <1>3 DEF StagedInv
<1>4. ASSUME NEW c \in Memory, NEW i \in Slots, NEW k \in Recs(i)', Newest(i, k, c)'
      PROVE  slot'[i].bytes[Rec(i, k)'.source + c - Rec(i, k)'.at] = direct'[c]
  <2>1. k \in Recs(i) /\ Rec(i, k)' = Rec(i, k)
    BY <1>1
  <2>2. Newest(i, k, c)
    BY <1>1, <1>4 DEF Newest
  <2>3. QED BY <1>2, <2>1, <2>2 DEF StagedInv
<1>5. QED BY <1>3, <1>4 DEF StagedInv

(* At first nothing is staged and the GPU holds what direct does.          *)
LEMMA StagedInit == Init => StagedInv
<1> SUFFICES ASSUME Init PROVE StagedInv
  OBVIOUS
<1>1. queue = <<>> /\ direct = memory /\ slot = [i \in Slots |-> NewSlot]
  BY DEF Init
<1>2. Sent = memory
  BY <1>1 DEF Sent, Before
<1>3. \A i \in Slots : Recs(i) = {}
  BY <1>1, EmptiedSlots DEF Recs
<1>4. QED BY <1>1, <1>2, <1>3 DEF StagedInv

(* After a submission nothing is staged, and the last submission leaves    *)
(* what direct holds.                                                      *)
LEMMA StagedSubmitted ==
  ASSUME PoolInv, QueueInv, StagedInv, NEW render \in BOOLEAN, Submitting(render)
  PROVE  StagedInv'
<1> DEFINE sub == [copies |-> Copies, direct |-> direct]
<1>1. /\ UNCHANGED <<memory, direct, fatal>>
      /\ \/ Pending = {} /\ UNCHANGED <<slot, sequence, queue>>
         \/ queue' = Append(queue, sub)
  BY SubmitIs
<1>2. CASE Pending = {} /\ UNCHANGED <<slot, sequence, queue>>
  <2>1. Sent' = Sent
    BY <1>1, <1>2, SentKept DEF gpu
  <2>2. QED BY <1>1, <1>2, <2>1, StagedKept
<1>3. CASE ~(Pending = {} /\ UNCHANGED <<slot, sequence, queue>>)
  <2>1. queue \in Seq(Submission) /\ Len(queue) \in Nat
    BY LenProperties DEF QueueInv
  <2>2. queue' = Append(queue, sub)
    BY <1>1, <1>3
  <2>3. Len(queue') = Len(queue) + 1 /\ queue'[Len(queue) + 1] = sub
    <3> HIDE DEF sub
    <3>1. QED BY <2>1, <2>2
  <2>4. Sent' = direct
    <3>1. Sent' = IF Len(queue') + 1 = 1 THEN memory' ELSE queue'[Len(queue') + 1 - 1].direct
      BY DEF Sent, Before
    <3>2. queue'[Len(queue') + 1 - 1] = sub /\ Len(queue') + 1 # 1
      BY <2>1, <2>3
    <3>3. QED BY <3>1, <3>2
  <2>5. \A i \in Slots : Recs(i)' = {}
    BY <1>3, SealedRecords DEF Recs
  <2>6. QED BY <1>1, <2>4, <2>5 DEF StagedInv
<1>4. QED BY <1>2, <1>3

(* Running a submission does not change what all of them leave.            *)
LEMMA StagedExecuted ==
  ASSUME QueueInv, StagedInv, Executing
  PROVE  StagedInv'
<1>1. memory' = Head(queue).direct
  BY QueueExecuted
<1>2. queue \in Seq(Submission) /\ queue # <<>> /\ queue' = Tail(queue)
  BY DEF QueueInv, Executing
<1>3. /\ Len(queue) \in Nat \ {0} /\ Head(queue) = queue[1] /\ Len(queue') = Len(queue) - 1
      /\ \A n \in 1 .. Len(queue') : queue'[n] = queue[n + 1]
  <2>1. Len(queue) \in Nat /\ Len(queue) # 0
    BY <1>2, EmptySeq, LenProperties
  <2>2. QED BY <1>2, <2>1, HeadTailProperties
<1>4. Sent' = Sent
  <2>1. /\ Sent' = IF Len(queue') + 1 = 1 THEN memory' ELSE queue'[Len(queue') + 1 - 1].direct
        /\ Sent = IF Len(queue) + 1 = 1 THEN memory ELSE queue[Len(queue) + 1 - 1].direct
    BY DEF Sent, Before
  <2>2. Len(queue) + 1 # 1 /\ Len(queue) + 1 - 1 = Len(queue)
    BY <1>3
  <2>3. CASE Len(queue) = 1
    <3>1. Len(queue') + 1 = 1
      BY <1>3, <2>3
    <3>2. QED BY <1>1, <1>3, <2>1, <2>2, <2>3, <3>1
  <2>4. CASE Len(queue) # 1
    <3>1. Len(queue') + 1 # 1 /\ Len(queue') + 1 - 1 = Len(queue) - 1
          /\ Len(queue) - 1 \in 1 .. Len(queue')
      BY <1>3, <2>4
    <3>2. queue'[Len(queue) - 1] = queue[Len(queue)]
      BY <1>3, <3>1
    <3>3. QED BY <2>1, <2>2, <3>1, <3>2
  <2>5. QED BY <2>3, <2>4
<1>5. direct' = direct /\ fatal' = fatal /\ slot' = slot
  BY DEF Executing, pool
<1>6. QED BY <1>4, <1>5, StagedKept
(* Staging an upload: the record on top has its cells, whatever else they  *)
(* are in; the others stay.                                                *)
LEMMA StagedUpload ==
  ASSUME PoolInv, OrderInv, QueueInv, StagedInv,
         NEW u \in Upload, NEW n \in Values, Staging(u, n)
  PROVE  StagedInv'
<1> DEFINE i   == Taker(u)
           top == Top(i, u)
           old == slot[i].records
           new == slot'[i].records
<1>1. /\ Room(u) # {} /\ Stage(u, n)
      /\ fatal = "no" /\ Sent' = Sent
  BY SentKept DEF Staging
<1>2. OrderInv' /\ PoolInv'
  BY <1>1, StagedOrder, PoolNext DEF Move
<1>3. /\ i \in Slots /\ slot[i].cursor + u.size <= SlotSize
      /\ \A j \in Slots : j # i => slot'[j] = slot[j]
      /\ \A k \in 0 .. SlotSize - 1 :
           slot'[i].bytes[k] = IF k \in Written(i, u) THEN n ELSE slot[i].bytes[k]
      /\ sequence' = sequence + 1
      /\ direct' = [c \in Memory |-> IF c \in CellsOf(u) THEN n ELSE direct[c]]
  BY <1>1, StageIs DEF Fits
<1>4. /\ top \in 1 .. Len(new)
      /\ \A k \in 1 .. Len(new) : k # top => k \in Recs(i) /\ new[k] = old[k]
      /\ \A k \in Recs(i) : k # top => k \in 1 .. Len(new) /\ new[k] = old[k]
      /\ new[top].last = sequence + 1
  BY <1>1, StagedRecords
<1>5. \/ /\ top \notin Recs(i)
         /\ new[top] = Fresh(i, u)
      \/ /\ top \in Recs(i) /\ Continues(old[top], i, u)
         /\ new[top].first = old[top].first /\ new[top].source = old[top].source
         /\ new[top].size = old[top].size + u.size /\ new[top].at = old[top].at
  BY <1>1, StagedRecords
<1> HIDE DEF i, top, old, new
(* The shape of a record, before and after.                                *)
<1>6. /\ u.at \in Int /\ u.size \in Int /\ u.size >= 1
      /\ slot[i].cursor \in Int /\ slot[i].cursor >= 0 /\ SlotSize \in Int
      /\ sequence \in Int
  <2>1. slot[i].cursor \in 0 .. SlotSize /\ sequence \in Nat
    BY <1>3 DEF PoolInv, SlotState
  <2>2. QED BY <2>1, UploadIs, StagingAssumption
<1>7. ASSUME NEW j \in Slots, NEW k \in Recs(j)
      PROVE  /\ Rec(j, k).source \in Int /\ Rec(j, k).source >= 0
             /\ Rec(j, k).size \in Int /\ Rec(j, k).size >= 1 /\ Rec(j, k).at \in Int
             /\ Rec(j, k).first \in Int
             /\ Rec(j, k).source + Rec(j, k).size <= slot[j].cursor
             /\ slot[j].cursor \in Int /\ slot[j].cursor <= SlotSize
  <2>1. slot[j].records \in Seq(CopyRecord) /\ SlotInv(slot[j]) /\ slot[j].cursor \in 0 .. SlotSize
    BY DEF PoolInv, SlotState
  <2>2. Rec(j, k) \in CopyRecord /\ Within(Rec(j, k), slot[j].cursor)
    BY <2>1, ElementOfSeq DEF Recs, Rec, SlotInv
  <2>3. QED BY <2>1, <2>2, StagingAssumption DEF CopyRecord, Within, Memory
<1> DEFINE R(j, k) == slot'[j].records[k]
           Entry(j, k) == j \in Slots /\ k \in 1 .. Len(slot'[j].records)
           NewestNow(j, k, c) ==
             /\ c \in CellsOf(R(j, k))
             /\ \A h, l : Entry(h, l) /\ c \in CellsOf(R(h, l)) => R(h, l).first <= R(j, k).first
<1>8. \A j, k : Entry(j, k) =>
        \/ j = i /\ k = top
        \/ k \in Recs(j) /\ R(j, k) = Rec(j, k) /\ ~(j = i /\ k = top)
  BY <1>3, <1>4 DEF new, old, Recs, Rec
<1>9. \A j, k : j \in Slots /\ k \in Recs(j) /\ ~(j = i /\ k = top) =>
        Entry(j, k) /\ R(j, k) = Rec(j, k)
  BY <1>3, <1>4 DEF new, old, Recs, Rec
<1>10. R(i, top) = new[top] /\ Rec(i, top) = old[top] /\ Entry(i, top)
  BY <1>3, <1>4 DEF new, old, Rec
(* The cells of the record on top.                                         *)
<1>11. ASSUME NEW c \in Memory
       PROVE  /\ c \in CellsOf(u) => c \in CellsOf(R(i, top))
              /\ c \notin CellsOf(u) /\ c \in CellsOf(R(i, top)) =>
                   top \in Recs(i) /\ c \in CellsOf(Rec(i, top))
              /\ top \in Recs(i) /\ c \in CellsOf(Rec(i, top)) => c \in CellsOf(R(i, top))
              /\ c \in CellsOf(u) =>
                   /\ R(i, top).source + c - R(i, top).at \in Written(i, u)
                   /\ R(i, top).source + c - R(i, top).at \in 0 .. SlotSize - 1
  <2> SUFFICES
        /\ c \in CellsOf(u) => c \in CellsOf(new[top])
        /\ c \notin CellsOf(u) /\ c \in CellsOf(new[top]) =>
             top \in Recs(i) /\ c \in CellsOf(old[top])
        /\ top \in Recs(i) /\ c \in CellsOf(old[top]) => c \in CellsOf(new[top])
        /\ c \in CellsOf(u) =>
             /\ new[top].source + c - new[top].at \in Written(i, u)
             /\ new[top].source + c - new[top].at \in 0 .. SlotSize - 1
    BY <1>10
  <2>1. c \in Int
    BY DEF Memory
  <2>2. CASE top \notin Recs(i) /\ new[top] = Fresh(i, u)
    <3>1. /\ new[top].source = slot[i].cursor /\ new[top].at = u.at /\ new[top].size = u.size
      BY <2>2 DEF Fresh
    <3>2. QED BY <1>3, <1>6, <2>1, <2>2, <3>1 DEF CellsOf, Written
  <2>3. CASE /\ top \in Recs(i) /\ Continues(old[top], i, u)
             /\ new[top].first = old[top].first /\ new[top].source = old[top].source
             /\ new[top].size = old[top].size + u.size /\ new[top].at = old[top].at
    <3>1. old[top].source + old[top].size = slot[i].cursor /\ old[top].at + old[top].size = u.at
      BY <2>3 DEF Continues
    <3>2. /\ old[top].source \in Int /\ old[top].source >= 0
          /\ old[top].size \in Int /\ old[top].size >= 1 /\ old[top].at \in Int
      BY <1>3, <1>7, <1>10, <2>3
    <3>3. QED BY <1>3, <1>6, <2>1, <2>3, <3>1, <3>2 DEF CellsOf, Written
  <2>4. QED BY <1>5, <2>2, <2>3
<1>12. \A j, k : Entry(j, k) /\ ~(j = i /\ k = top) =>
         ~(R(i, top).first <= R(j, k).first)
  <2> SUFFICES ASSUME NEW j, NEW k, Entry(j, k), ~(j = i /\ k = top)
               PROVE  ~(R(i, top).first <= R(j, k).first)
    OBVIOUS
  <2>1. \A h, l : Entry(h, l) =>
          /\ R(h, l).first \in Int /\ R(h, l).last \in Int /\ R(h, l).first <= R(h, l).last
          /\ R(h, l).last <= sequence'
    <3> SUFFICES ASSUME NEW h, NEW l, Entry(h, l)
                 PROVE  /\ R(h, l).first \in Int /\ R(h, l).last \in Int
                        /\ R(h, l).first <= R(h, l).last /\ R(h, l).last <= sequence'
      OBVIOUS
    <3>1. h \in Slots /\ l \in 1 .. Len(slot'[h].records)
      OBVIOUS
    <3>2. slot' \in [Slots -> SlotState] /\ SlotInv(slot'[h])
      BY <1>2, <3>1 DEF PoolInv
    <3>3. slot'[h].records \in Seq(CopyRecord)
      BY <3>1, <3>2 DEF SlotState
    <3>4. R(h, l) \in CopyRecord /\ Within(R(h, l), slot'[h].cursor)
      BY <3>1, <3>2, <3>3, ElementOfSeq DEF SlotInv
    <3>5. R(h, l).last <= sequence'
      BY <1>2, <3>1 DEF OrderInv, Recs, Rec
    <3>6. QED BY <3>4, <3>5 DEF CopyRecord, Within
  <2>2. R(j, k).last < R(i, top).first \/ R(i, top).last < R(j, k).first
    <3>1. i \in Slots /\ top \in 1 .. Len(slot'[i].records)
      BY <1>10
    <3>2. QED BY <1>2, <3>1 DEF OrderInv, Recs, Rec
  <2>3. R(i, top).last = sequence'
    BY <1>3, <1>4, <1>10
  <2> HIDE DEF R, Entry
  <2>4. QED BY <1>3, <1>6, <1>10, <2>1, <2>2, <2>3
<1>13. ASSUME NEW c \in Memory,
              \A j, k : Entry(j, k) => c \notin CellsOf(R(j, k))
       PROVE  Sent[c] = direct'[c]
  <2>1. c \notin CellsOf(u)
    BY <1>10, <1>11, <1>13
  <2>2. \A j \in Slots : \A k \in Recs(j) : c \notin CellsOf(Rec(j, k))
    BY <1>9, <1>10, <1>11, <1>13
  <2>3. Sent[c] = direct[c]
    BY <1>1, <2>2 DEF StagedInv
  <2>4. QED BY <1>3, <2>1, <2>3
<1>14. ASSUME NEW c \in Memory, NEW j, NEW k, Entry(j, k), NewestNow(j, k, c)
       PROVE  slot'[j].bytes[R(j, k).source + c - R(j, k).at] = direct'[c]
  <2>0. /\ c \in CellsOf(R(j, k)) /\ j \in Slots
        /\ \A h, l : Entry(h, l) /\ c \in CellsOf(R(h, l)) => R(h, l).first <= R(j, k).first
    BY <1>14
  <2>1. CASE c \in CellsOf(u)
    <3>1. j = i /\ k = top
      BY <1>10, <1>11, <1>12, <1>14, <2>0, <2>1
    <3>2. /\ R(i, top).source + c - R(i, top).at \in Written(i, u)
          /\ R(i, top).source + c - R(i, top).at \in 0 .. SlotSize - 1
      BY <1>11, <2>1
    <3>3. slot'[i].bytes[R(i, top).source + c - R(i, top).at] = n
      BY <1>3, <3>2
    <3>4. direct'[c] = n
      BY <1>3, <2>1
    <3>5. QED BY <3>1, <3>3, <3>4
  <2>2. CASE c \notin CellsOf(u)
    <3>1. /\ k \in Recs(j) /\ c \in CellsOf(Rec(j, k)) /\ R(j, k).first = Rec(j, k).first
          /\ R(j, k).source = Rec(j, k).source /\ R(j, k).at = Rec(j, k).at
      BY <1>5, <1>8, <1>10, <1>11, <1>14, <2>0, <2>2
    <3>2. ASSUME NEW h \in Slots, NEW l \in Recs(h), c \in CellsOf(Rec(h, l))
          PROVE  Rec(h, l).first <= Rec(j, k).first
      <4>1. Entry(h, l) /\ c \in CellsOf(R(h, l)) /\ R(h, l).first = Rec(h, l).first
        BY <1>5, <1>9, <1>10, <1>11, <3>2
      <4>2. QED BY <2>0, <3>1, <4>1
    <3>3. Newest(j, k, c)
      BY <3>1, <3>2 DEF Newest
    <3>4. slot[j].bytes[Rec(j, k).source + c - Rec(j, k).at] = direct[c]
      BY <1>1, <2>0, <3>1, <3>3 DEF StagedInv
    <3> DEFINE at == Rec(j, k).source + c - Rec(j, k).at
    <3>5. at \in 0 .. SlotSize - 1 /\ at < slot[j].cursor
      <4>1. c \in Int /\ Rec(j, k).at <= c /\ c <= Rec(j, k).at + Rec(j, k).size - 1
        BY <1>7, <2>0, <3>1 DEF Memory, CellsOf
      <4>2. /\ Rec(j, k).source \in Int /\ Rec(j, k).source >= 0
            /\ Rec(j, k).size \in Int /\ Rec(j, k).at \in Int
            /\ Rec(j, k).source + Rec(j, k).size <= slot[j].cursor
            /\ slot[j].cursor \in Int /\ slot[j].cursor <= SlotSize
        BY <1>7, <2>0, <3>1
      <4>3. \A source, size, to, cursor, max, x \in Int :
              /\ source >= 0 /\ source + size <= cursor /\ cursor <= max
              /\ to <= x /\ x <= to + size - 1
              => source + x - to \in 0 .. max - 1 /\ source + x - to < cursor
        OBVIOUS
      <4>4. QED BY <1>6, <4>1, <4>2, <4>3
    <3>6. slot'[j].bytes[at] = slot[j].bytes[at]
      <4>1. CASE j = i
        <5>1. at \notin Written(i, u)
          BY <1>6, <3>5, <4>1 DEF Written
        <5> HIDE DEF at
        <5>2. QED BY <1>3, <3>5, <4>1, <5>1
      <4>2. CASE j # i
        BY <1>3, <2>0, <4>2
      <4>3. QED BY <4>1, <4>2
    <3>7. direct'[c] = direct[c]
      BY <1>3, <2>2
    <3>8. QED BY <3>1, <3>4, <3>6, <3>7
  <2>3. QED BY <2>1, <2>2
<1>15. \A j \in Slots : \A k \in Recs(j)' : Entry(j, k) /\ Rec(j, k)' = R(j, k)
  BY Zenon DEF Recs, Rec
<1>16. \A j, k : Entry(j, k) => j \in Slots /\ k \in Recs(j)' /\ Rec(j, k)' = R(j, k)
  BY Zenon DEF Recs, Rec
<1>17. ASSUME NEW c \in Memory,
              \A j \in Slots : \A k \in Recs(j)' : c \notin CellsOf(Rec(j, k)')
       PROVE  Sent'[c] = direct'[c]
  BY <1>1, <1>13, <1>16, <1>17
<1>18. ASSUME NEW c \in Memory, NEW j \in Slots, NEW k \in Recs(j)', Newest(j, k, c)'
       PROVE  slot'[j].bytes[Rec(j, k)'.source + c - Rec(j, k)'.at] = direct'[c]
  <2>1. Entry(j, k) /\ Rec(j, k)' = R(j, k)
    BY <1>15
  <2>2. /\ c \in CellsOf(Rec(j, k)')
        /\ \A h \in Slots : \A l \in Recs(h)' :
             c \in CellsOf(Rec(h, l)') => Rec(h, l)'.first <= Rec(j, k)'.first
    BY <1>18 DEF Newest
  <2> HIDE DEF R, Entry
  <2>3. NewestNow(j, k, c)
    BY <1>16, <2>1, <2>2
  <2> HIDE DEF NewestNow
  <2>4. QED BY <1>14, <2>1, <2>3
<1>19. QED BY <1>17, <1>18 DEF StagedInv

(* After any move, what is sent and then what is staged leave what direct  *)
(* writes would.                                                           *)
LEMMA StagedNext ==
  PoolInv /\ OrderInv /\ FatalInv /\ QueueInv /\ StagedInv /\ Move => StagedInv'
<1> SUFFICES ASSUME PoolInv, OrderInv, FatalInv, QueueInv, StagedInv, Move PROVE StagedInv'
  OBVIOUS
<1>1. ASSUME NEW u \in Upload, NEW n \in Values, Staging(u, n) PROVE StagedInv'
  BY <1>1, StagedUpload
<1>2. ASSUME NEW render \in BOOLEAN, Submitting(render) PROVE StagedInv'
  BY <1>2, StagedSubmitted
<1>3. ASSUME NEW i \in Slots, Remapped(i) PROVE StagedInv'
  <2>1. UNCHANGED <<fatal, gpu, direct>>
    BY <1>3 DEF Remapped
  <2>2. Sent' = Sent
    BY <2>1, SentKept
  <2>3. \A j \in Slots : /\ slot'[j].records = slot[j].records
                         /\ slot[j].records # <<>> => slot'[j] = slot[j]
    BY <1>3, RemappedRecords, EmptiedSlots
  <2>4. QED BY <2>1, <2>2, <2>3, StagedKept
<1>4. CASE fatal' \in {"yes", "lost"}
  BY <1>4 DEF StagedInv
<1>5. CASE Executing
  BY <1>5, StagedExecuted
<1>6. CASE UNCHANGED <<pool, fatal, gpu, direct>>
  BY <1>6, SentKept, StagedKept DEF pool
<1>7. QED
  BY <1>1, <1>2, <1>3, <1>4, <1>5, <1>6
     DEF Move, RemapFailing, Failing, MarkFatal, Losing, Deferring, Idling
-----------------------------------------------------------------------------
(* The rings, the pool and the GPU together.                               *)
LEMMA DataInit == Init => DataInv
BY CountersInit, FlagsInit, PoolInit, OrderInit, FatalInit, QueueInit, StagedInit
   DEF DataInv, RingInv

(* Every step keeps them, and is a move.                                   *)
LEMMA DataNext == DataInv /\ [Next]_vars => DataInv' /\ Move
<1> SUFFICES ASSUME DataInv, [Next]_vars PROVE DataInv' /\ Move
  OBVIOUS
<1>1. RingInv /\ PoolInv /\ OrderInv /\ FatalInv /\ QueueInv /\ StagedInv
  BY DEF DataInv
<1>2. Move
  BY <1>1, StepsAreMoves
<1>3. RingInv'
  BY <1>1, CountersNext, FlagsNext DEF RingInv
<1>4. PoolInv' /\ OrderInv' /\ FatalInv'
  BY <1>1, <1>2, PoolNext, OrderNext, FatalNext
<1>5. QueueInv' /\ StagedInv'
  BY <1>1, <1>2, QueueNext, StagedNext
<1>6. QED BY <1>2, <1>3, <1>4, <1>5 DEF DataInv

(* Only the GPU takes the head of its queue, while the device is there.    *)
LEMMA HeadsAreRun ==
  ASSUME DataInv, Move, fatal' # "lost", queue # <<>>, queue' = Tail(queue)
  PROVE  memory' = Head(queue).direct
<1>1. PoolInv /\ QueueInv /\ queue \in Seq(Submission) /\ Len(queue) \in Nat
  BY LenProperties DEF DataInv, QueueInv
<1>2. Len(queue') = Len(queue) - 1
  BY <1>1, HeadTailProperties
<1>3. queue' # queue
  <2>1. queue' = queue => Len(queue') = Len(queue)
    OBVIOUS
  <2>2. Len(queue) - 1 # Len(queue)
    BY <1>1
  <2>3. QED BY <1>2, <2>1, <2>2, Zenon
<1>4. CASE Executing
  BY <1>1, <1>4, QueueExecuted
<1>5. ASSUME NEW render \in BOOLEAN, Submitting(render) PROVE FALSE
  <2>1. queue' = Append(queue, [copies |-> Copies, direct |-> direct])
    BY <1>1, <1>3, <1>5, SubmitIs
  <2> DEFINE sub == [copies |-> Copies, direct |-> direct]
  <2> HIDE DEF sub
  <2>2. Len(Append(queue, sub)) = Len(queue) + 1
    BY <1>1
  <2>3. QED BY <1>1, <1>2, <2>1, <2>2 DEF sub
<1>6. QED
  BY <1>3, <1>4, <1>5
     DEF Move, Staging, Remapped, RemapFailing, Failing, MarkFatal, Losing, Deferring, Idling, gpu

(* A failure stays, and nothing is staged or submitted after it.           *)
LEMMA FailuresStay ==
  ASSUME DataInv, Move, fatal # "no"
  PROVE  fatal' # "no" /\ direct' = direct /\ Len(queue') <= Len(queue)
<1>1. queue \in Seq(Submission) /\ Len(queue) \in Nat
  BY LenProperties DEF DataInv, QueueInv
<1>2. CASE UNCHANGED <<fatal, direct, queue>>
  BY <1>1, <1>2
<1>3. CASE Losing
  BY <1>1, <1>3 DEF Losing
<1>4. CASE Executing
  <2>1. queue # <<>> /\ queue' = Tail(queue) /\ UNCHANGED <<fatal, direct>>
    BY <1>4 DEF Executing
  <2>2. Len(queue') = Len(queue) - 1
    BY <1>1, <2>1, HeadTailProperties
  <2>3. QED BY <1>1, <2>1, <2>2
<1>5. QED
  BY <1>2, <1>3, <1>4
     DEF Move, Staging, Submitting, Remapped, RemapFailing, Failing, Deferring, Idling, gpu

(* and replays nothing.                                                    *)
LEMMA ReadStays ==
  ASSUME [Next]_vars, fatal # "no"
  PROVE  read' = read
<1>1. ~Replayable
  BY DEF Replayable
<1>2. CASE Publish \/ EndDrain \/ TimerFires \/ ForceLifecycle
  BY <1>2 DEF Publish, EndDrain, TimerFires, ForceLifecycle, ringVars
<1>3. ASSUME NEW to, StartDrain(to) PROVE FALSE
  BY <1>3 DEF StartDrain
<1>4. ASSUME NEW u, ReplayUpload(u) \/ HoldUpload(u) PROVE FALSE
  BY <1>1, <1>4 DEF ReplayUpload, HoldUpload
<1>5. ~ReplayRender /\ ~ReplayOther /\ ~ReplayPresent /\ ~ReplayDestroy
  BY <1>1 DEF ReplayRender, ReplayOther, ReplayPresent, ReplayDestroy
<1>6. ASSUME NEW i \in Slots, SlotRemapped(i) \/ RemapFails(i) PROVE read' = read
  BY <1>6 DEF SlotRemapped, RemapFails, ringVars
<1>7. CASE DeviceLost \/ GpuExecutes \/ StartQuiesce \/ Quiesce
  BY <1>7 DEF DeviceLost, GpuExecutes, StartQuiesce, Quiesce, Finalize, RemapsAwaited, Observe,
              GpuAwaited, ringVars
<1>8. CASE UNCHANGED vars
  BY <1>8 DEF vars, ringVars
<1>9. QED
  BY <1>2, <1>3, <1>4, <1>5, <1>6, <1>7, <1>8 DEF Next, Drain, Replay

(* When a submission runs, the GPU holds what direct writes would have put *)
(* there: staging, splitting, holding and deferring are invisible to it.   *)
THEOREM UploadsAreSeen == Spec => RendersSeeTheirUploads
<1>1. Init => DataInv
  BY DataInit
<1>2. DataInv /\ [Next]_vars => DataInv'
  BY DataNext
<1>3. DataInv /\ [Next]_vars =>
        (fatal' # "lost" /\ queue # <<>> /\ queue' = Tail(queue) => memory' = Head(queue).direct)
  BY DataNext, HeadsAreRun
<1>4. QED BY <1>1, <1>2, <1>3, PTL DEF Spec, RendersSeeTheirUploads

(* After a failure no timer, message or late remap stages or submits.      *)
THEOREM FailuresAreFinal == Spec => FatalIsFinal
<1>1. Init => DataInv
  BY DataInit
<1>2. DataInv /\ [Next]_vars => DataInv'
  BY DataNext
<1>3. DataInv /\ [Next]_vars =>
        (fatal # "no" => /\ fatal' # "no" /\ UNCHANGED <<read, direct>>
                         /\ Len(queue') <= Len(queue))
  BY DataNext, FailuresStay, ReadStays
<1>4. QED BY <1>1, <1>2, <1>3, PTL DEF Spec, FatalIsFinal
-----------------------------------------------------------------------------
(* quiesce.  Once all is at rest no drain, timer or remap does anything.   *)
LEMMA NothingLeft ==
  ASSUME FatalInv, AtRest, ~draining
  PROVE  /\ ~Drain /\ ~Replay /\ ~TimerFires /\ ~ForceLifecycle
         /\ \A i \in Slots : ~SlotRemapped(i) /\ ~RemapFails(i)
<1>1. /\ read = written /\ Pending = {} /\ remaps = {} /\ ~timer /\ fatal = "no"
      /\ deferred = timer /\ ~Replayable
  BY DEF AtRest, FatalInv, Replayable
<1>2. ~Drain
  BY <1>1 DEF Drain, StartDrain
<1>3. \A u \in Upload : ~ReplayUpload(u) /\ ~HoldUpload(u)
  BY <1>1 DEF ReplayUpload, HoldUpload
<1>4. ~ReplayRender /\ ~ReplayOther /\ ~ReplayPresent /\ ~ReplayDestroy /\ ~EndDrain
  BY <1>1 DEF ReplayRender, ReplayOther, ReplayPresent, ReplayDestroy, EndDrain
<1>5. ~Replay
  BY <1>3, <1>4 DEF Replay
<1>6. ~TimerFires
  BY <1>1 DEF TimerFires
<1>7. ~ForceLifecycle
  <2>1. ~deferred
    BY <1>1
  <2>2. QED BY <1>1, <2>1 DEF ForceLifecycle
<1>8. \A i \in Slots : ~SlotRemapped(i) /\ ~RemapFails(i)
  BY <1>1 DEF SlotRemapped, RemapFails
<1>9. QED BY <1>2, <1>5, <1>6, <1>7, <1>8

(* Whoever is not quiesce and not the GPU leaves its observations alone.   *)
LEMMA QuiescerSame ==
  Drain \/ Replay \/ TimerFires \/ ForceLifecycle \/ DeviceLost =>
    UNCHANGED <<quiescer, written>>
<1>1. ASSUME NEW to \in read + 1 .. written, StartDrain(to) PROVE UNCHANGED <<quiescer, written>>
  BY <1>1 DEF StartDrain
<1>2. ASSUME NEW u \in Upload, ReplayUpload(u) PROVE UNCHANGED <<quiescer, written>>
  BY <1>2 DEF ReplayUpload, Consume
<1>3. ASSUME NEW u \in Upload, HoldUpload(u) PROVE UNCHANGED <<quiescer, written>>
  BY <1>3 DEF HoldUpload
<1>4. CASE ReplayRender \/ ReplayOther \/ ReplayPresent \/ ReplayDestroy
  BY <1>4 DEF ReplayRender, ReplayOther, ReplayPresent, ReplayDestroy, Consume
<1>5. CASE EndDrain \/ TimerFires \/ ForceLifecycle \/ DeviceLost
  BY <1>5 DEF EndDrain, TimerFires, ForceLifecycle, DeviceLost, ringVars
<1>6. QED BY <1>1, <1>2, <1>3, <1>4, <1>5 DEF Drain, Replay

(* All stays at rest while none of this changes.                           *)
LEMMA RestKept ==
  ASSUME AtRest, UNCHANGED <<read, written, slot, remaps, blocked, timer, fatal>>
  PROVE  AtRest'
BY DEF AtRest, Pending

(* No call of quiesce at first.                                            *)
LEMMA QuiesceInit == Init => QuiesceInv
BY DEF Init, Idle, QuiesceInv, QuiescerType

(* While quiesce waits for the GPU, only a record published in the         *)
(* meantime or the loss of the device can end the rest it has seen, and    *)
(* the GPU has no more to do than was counted.                             *)
LEMMA QuiesceNext == DataInv /\ QuiesceInv /\ [Next]_vars => QuiesceInv'
<1> SUFFICES ASSUME DataInv, QuiesceInv, [Next]_vars PROVE QuiesceInv'
  OBVIOUS
<1> DEFINE Rest == AtRest /\ ~draining /\ Len(queue) <= quiescer.ahead
<1>0. /\ DataInv' /\ Move /\ FatalInv /\ FatalInv' /\ quiescer \in QuiescerType
      /\ PoolInv' /\ written \in Nat /\ queue \in Seq(Submission) /\ Len(queue) \in Nat
      /\ fatal # "no" => fatal' # "no"
  BY DataNext, FailuresStay, LenProperties
     DEF DataInv, QuiesceInv, RingInv, CountersInv, QueueInv
<1>1. ASSUME quiescer'.pc = quiescer.pc, quiescer'.stable = quiescer.stable,
             quiescer' \in QuiescerType, written' = written, ~Rest \/ fatal' # "no"
      PROVE  QuiesceInv'
  BY <1>0, <1>1 DEF QuiesceInv
<1>2. ASSUME quiescer'.pc # "gpu", quiescer'.stable = quiescer.stable,
             quiescer' \in QuiescerType, written' = written
      PROVE  QuiesceInv'
  BY <1>2 DEF QuiesceInv
<1>3. CASE Publish
  <2>1. quiescer' = quiescer /\ written' = written + 1
    BY <1>3 DEF Publish
  <2>2. quiescer.stable # None => quiescer.stable # written'
    <3>1. quiescer.stable # None => quiescer.stable <= written /\ quiescer.stable \in Int
      BY <1>0, StagingAssumption DEF QuiesceInv, QuiescerType
    <3>2. QED BY <1>0, <2>1, <3>1
  <2>3. quiescer.stable # None => quiescer.stable <= written'
    <3>1. quiescer.stable # None => quiescer.stable <= written /\ quiescer.stable \in Int
      BY <1>0, StagingAssumption DEF QuiesceInv, QuiescerType
    <3>2. QED BY <1>0, <2>1, <3>1
  <2>4. quiescer.pc = "gpu" => quiescer.stable # None
    BY DEF QuiesceInv
  <2>5. QED BY <1>0, <2>1, <2>2, <2>3, <2>4 DEF QuiesceInv
<1>4. CASE Drain \/ Replay \/ TimerFires \/ ForceLifecycle
  <2>1. ~Rest
    BY <1>0, <1>4, NothingLeft
  <2>2. UNCHANGED <<quiescer, written>>
    BY <1>4, QuiescerSame
  <2>3. QED BY <1>0, <1>1, <2>1, <2>2
<1>5. ASSUME NEW i \in Slots, SlotRemapped(i) \/ RemapFails(i) PROVE QuiesceInv'
  <2>1. ~Rest
    BY <1>0, <1>5, NothingLeft
  <2>2. quiescer' = [quiescer EXCEPT !.awaited = @ \ {i}] /\ written' = written
    BY <1>5 DEF SlotRemapped, RemapFails, Settle, ringVars
  <2>3. quiescer' \in QuiescerType /\ quiescer'.pc = quiescer.pc /\ quiescer'.stable = quiescer.stable
    BY <1>0, <2>2 DEF QuiescerType
  <2>4. QED BY <1>1, <2>1, <2>2, <2>3
<1>6. CASE DeviceLost
  <2>1. UNCHANGED <<quiescer, written>> /\ fatal' # "no"
    BY <1>6, QuiescerSame DEF DeviceLost
  <2>2. QED BY <1>0, <1>1, <2>1
<1>7. CASE GpuExecutes
  <2>1. /\ queue # <<>> /\ queue' = Tail(queue)
        /\ quiescer' = [quiescer EXCEPT !.ahead = IF quiescer.ahead > 0 THEN quiescer.ahead - 1 ELSE 0]
        /\ UNCHANGED <<read, written, draining, slot, remaps, blocked, timer, fatal>>
    BY <1>7 DEF GpuExecutes, ringVars, pool, coalescer
  <2>2. Len(queue) # 0 /\ Len(queue') = Len(queue) - 1
    BY <1>0, <2>1, HeadTailProperties, EmptySeq
  <2>3. /\ quiescer' \in QuiescerType /\ quiescer'.pc = quiescer.pc
        /\ quiescer'.stable = quiescer.stable
        /\ quiescer'.ahead = IF quiescer.ahead > 0 THEN quiescer.ahead - 1 ELSE 0
        /\ quiescer.ahead \in Nat
    BY <1>0, <2>1 DEF QuiescerType
  <2>4. CASE ~Rest
    BY <1>1, <2>1, <2>3, <2>4
  <2>5. CASE Rest
    <3>1. AtRest' /\ ~draining'
      BY <2>1, <2>5, RestKept
    <3>2. Len(queue') <= quiescer'.ahead
      BY <1>0, <2>2, <2>3, <2>5
    <3>3. QED BY <2>1, <2>3, <3>1, <3>2 DEF QuiesceInv
  <2>6. QED BY <2>4, <2>5
<1>8. CASE StartQuiesce \/ RemapsAwaited
  <2>1. quiescer' = [quiescer EXCEPT !.pc = "finalize"] /\ written' = written
    BY <1>8 DEF StartQuiesce, RemapsAwaited, ringVars
  <2>2. quiescer' \in QuiescerType /\ quiescer'.pc = "finalize" /\ quiescer'.stable = quiescer.stable
    BY <1>0, <2>1 DEF QuiescerType
  <2>3. QED BY <1>2, <2>1, <2>2
<1>9. CASE Finalize
  <2>1. /\ quiescer' = [quiescer EXCEPT !.pc = "await", !.awaited = UNION remaps']
        /\ written' = written
    BY <1>9 DEF Finalize, ringVars
  <2>2. UNION remaps' \in SUBSET Slots
    BY <1>0 DEF PoolInv
  <2>3. quiescer' \in QuiescerType /\ quiescer'.pc = "await" /\ quiescer'.stable = quiescer.stable
    BY <1>0, <2>1, <2>2 DEF QuiescerType
  <2>4. QED BY <1>2, <2>1, <2>3
<1>10. CASE Observe
  <2>1. ~draining /\ UNCHANGED <<written, queue, draining, read, slot, remaps, blocked, timer, fatal>>
    BY <1>10 DEF Observe, ringVars, pool, coalescer, gpu
  <2>2. CASE quiescer' = [quiescer EXCEPT !.pc = "threw"]
    <3>1. quiescer' \in QuiescerType /\ quiescer'.pc = "threw" /\ quiescer'.stable = quiescer.stable
      BY <1>0, <2>2 DEF QuiescerType
    <3>2. QED BY <1>2, <2>1, <3>1
  <2>3. CASE quiescer.pc = "finalize" /\ quiescer' = Observed(quiescer)
    <3>1. CASE ~AtRest
      <4>1. quiescer' = [quiescer EXCEPT !.stable = None]
        BY <2>3, <3>1 DEF Observed
      <4>2. quiescer' \in QuiescerType /\ quiescer'.pc = "finalize" /\ quiescer'.stable = None
        BY <1>0, <2>3, <4>1 DEF QuiescerType
      <4>3. QED BY <4>2 DEF QuiesceInv
    <3>2. CASE AtRest /\ quiescer.stable = written
      <4>1. quiescer' = [quiescer EXCEPT !.pc = "gpu", !.ahead = Len(queue)]
        BY <2>3, <3>2 DEF Observed
      <4>2. /\ quiescer' \in QuiescerType /\ quiescer'.pc = "gpu"
            /\ quiescer'.stable = quiescer.stable /\ quiescer'.ahead = Len(queue)
        BY <1>0, <4>1 DEF QuiescerType
      <4>3. AtRest' /\ ~draining' /\ Len(queue') <= quiescer'.ahead
        BY <1>0, <2>1, <3>2, <4>2, RestKept
      <4>4. written' # None /\ quiescer'.stable = written' /\ quiescer'.stable <= written'
        BY <1>0, <2>1, <3>2, <4>2, SetupAssumption
      <4>5. QED BY <4>2, <4>3, <4>4 DEF QuiesceInv
    <3>3. CASE AtRest /\ quiescer.stable # written
      <4>1. quiescer' = [quiescer EXCEPT !.stable = written]
        BY <2>3, <3>3 DEF Observed
      <4>2. written \in 0 .. MaxRecords
        BY DEF DataInv, RingInv, CountersInv
      <4>3. quiescer' \in QuiescerType /\ quiescer'.pc = "finalize" /\ quiescer'.stable = written
        BY <1>0, <2>3, <4>1, <4>2 DEF QuiescerType
      <4>4. quiescer'.stable <= written'
        BY <1>0, <2>1, <4>3
      <4>5. QED BY <4>3, <4>4 DEF QuiesceInv
    <3>4. QED BY <3>1, <3>2, <3>3
  <2>4. QED BY <1>10, <2>2, <2>3 DEF Observe
<1>11. CASE GpuAwaited
  <2>1. /\ quiescer' = [quiescer EXCEPT !.pc = IF Validated THEN "returned" ELSE "threw"]
        /\ written' = written
    BY <1>11 DEF GpuAwaited, ringVars
  <2>2. /\ quiescer' \in QuiescerType /\ quiescer'.pc \in {"returned", "threw"}
        /\ quiescer'.stable = quiescer.stable
    BY <1>0, <2>1 DEF QuiescerType
  <2>3. QED BY <1>2, <2>1, <2>2
<1>12. CASE UNCHANGED vars
  <2>1. UNCHANGED <<quiescer, written, queue, draining, read, slot, remaps, blocked, timer, fatal>>
    BY <1>12 DEF vars, ringVars, pool, coalescer, gpu
  <2>2. CASE ~Rest
    BY <1>0, <1>1, <2>1, <2>2
  <2>3. CASE Rest
    BY <2>1, <2>3, RestKept DEF QuiesceInv
  <2>4. QED BY <2>2, <2>3
<1>13. QED
  BY <1>3, <1>4, <1>5, <1>6, <1>7, <1>8, <1>9, <1>10, <1>11, <1>12 DEF Next, Quiesce
(* With nothing staged or under way, the GPU holds what was uploaded.      *)
LEMMA AllIsSent ==
  ASSUME PoolInv, QueueInv, StagedInv, fatal = "no", Pending = {}, queue = <<>>
  PROVE  memory = direct
<1>1. \A i \in Slots : Recs(i) = {}
  <2>1. ASSUME NEW i \in Slots PROVE Recs(i) = {}
    <3>1. slot[i].records = <<>>
      BY DEF PoolInv, SlotInv, SlotState, Pending
    <3>2. QED BY <3>1 DEF Recs
  <2>2. QED BY <2>1
<1>2. Sent = memory
  BY DEF Sent, Before
<1>3. \A c \in Memory : memory[c] = direct[c]
  BY <1>1, <1>2 DEF StagedInv
<1>4. QED BY <1>3 DEF QueueInv

(* The step in which quiesce returns.                                      *)
LEMMA ReturnsWhenDone ==
  ASSUME DataInv, QuiesceInv, [Next]_vars, quiescer'.pc = "returned", quiescer.pc # "returned"
  PROVE  read = written /\ queue = <<>> /\ Pending = {} /\ memory = direct
<1>1. /\ quiescer \in QuiescerType /\ queue \in Seq(Submission) /\ Len(queue) \in Nat
      /\ PoolInv /\ QueueInv /\ StagedInv
  BY LenProperties DEF DataInv, QuiesceInv, QueueInv
<1>2. GpuAwaited
  <2>1. quiescer' # quiescer
    OBVIOUS
  <2>2. ~UNCHANGED vars
    BY <2>1 DEF vars
  <2>3. ~Publish /\ ~Drain /\ ~Replay /\ ~TimerFires /\ ~ForceLifecycle /\ ~DeviceLost
    BY <2>1, QuiescerSame DEF Publish
  <2>4. ASSUME NEW i \in Slots, SlotRemapped(i) \/ RemapFails(i) PROVE FALSE
    <3>1. quiescer' = [quiescer EXCEPT !.awaited = @ \ {i}]
      BY <2>4 DEF SlotRemapped, RemapFails, Settle
    <3>2. QED BY <1>1, <3>1 DEF QuiescerType
  <2>5. ~GpuExecutes
    <3>1. GpuExecutes => \E n : quiescer' = [quiescer EXCEPT !.ahead = n]
      BY DEF GpuExecutes
    <3>2. QED BY <1>1, <3>1 DEF QuiescerType
  <2>6. ~StartQuiesce /\ ~RemapsAwaited
    <3>1. StartQuiesce \/ RemapsAwaited => quiescer' = [quiescer EXCEPT !.pc = "finalize"]
      BY DEF StartQuiesce, RemapsAwaited
    <3>2. QED BY <1>1, <3>1 DEF QuiescerType
  <2>7. ~Finalize
    <3>1. Finalize => quiescer' = [quiescer EXCEPT !.pc = "await", !.awaited = UNION remaps']
      BY DEF Finalize
    <3>2. QED BY <1>1, <3>1 DEF QuiescerType
  <2>8. ~Observe
    <3>1. Observe => \/ quiescer' = [quiescer EXCEPT !.pc = "threw"]
                     \/ quiescer' = Observed(quiescer)
      BY DEF Observe
    <3>2. Observed(quiescer).pc \in {quiescer.pc, "gpu"}
      BY <1>1 DEF Observed, QuiescerType
    <3>3. QED BY <1>1, <3>1, <3>2 DEF QuiescerType
  <2>9. QED BY <2>2, <2>3, <2>4, <2>5, <2>6, <2>7, <2>8 DEF Next, Quiesce
<1>3. quiescer.pc = "gpu" /\ quiescer.ahead = 0 /\ Validated
  <2>1. /\ quiescer.pc = "gpu" /\ quiescer.ahead = 0
        /\ quiescer' = [quiescer EXCEPT !.pc = IF Validated THEN "returned" ELSE "threw"]
    BY <1>2 DEF GpuAwaited
  <2>2. ~Validated => quiescer'.pc = "threw"
    BY <1>1, <2>1 DEF QuiescerType
  <2>3. QED BY <2>1, <2>2
<1>4. read = written /\ Pending = {} /\ fatal = "no" /\ written = quiescer.stable
  BY <1>3 DEF Validated, AtRest
<1>5. Len(queue) <= 0
  BY <1>3, <1>4 DEF QuiesceInv
<1>6. queue = <<>>
  BY <1>1, <1>5, EmptySeq
<1>7. QED BY <1>1, <1>4, <1>6, AllIsSent

(* quiesce returns only when all that was published has been replayed,     *)
(* sent and run.                                                           *)
THEOREM QuiescedIsDone == Spec => QuiescedMeansDone
<1>1. Init => DataInv /\ QuiesceInv
  BY DataInit, QuiesceInit
<1>2. DataInv /\ QuiesceInv /\ [Next]_vars => (DataInv /\ QuiesceInv)'
  BY DataNext, QuiesceNext
<1>3. DataInv /\ QuiesceInv /\ [Next]_vars =>
        (quiescer'.pc = "returned" /\ quiescer.pc # "returned" =>
           read = written /\ queue = <<>> /\ Pending = {} /\ memory = direct)
  BY ReturnsWhenDone
<1>4. QED BY <1>1, <1>2, <1>3, PTL DEF Spec, QuiescedMeansDone

(* Types.                                                                  *)
THEOREM TypeCorrect == Spec => []TypeOK
<1>1. Init => DataInv /\ QuiesceInv
  BY DataInit, QuiesceInit
<1>2. DataInv /\ QuiesceInv /\ [Next]_vars => (DataInv /\ QuiesceInv)'
  BY DataNext, QuiesceNext
<1>3. DataInv /\ QuiesceInv => TypeOK
  <2> SUFFICES ASSUME DataInv, QuiesceInv PROVE TypeOK
    OBVIOUS
  <2>1. /\ setup \in Setups /\ written \in 0 .. MaxRecords /\ read \in 0 .. written
        /\ held \in Upload \cup {None} /\ limit \in 0 .. written
    BY DEF DataInv, RingInv, CountersInv
  <2>2. {draining, enc, deferred, timer, blocked} \subseteq BOOLEAN
    BY DEF DataInv, RingInv, FlagsInv, FatalInv
  <2>3. ASSUME NEW i \in Slots
        PROVE  /\ slot[i] \in SlotState
               /\ \A k \in 1 .. Len(slot[i].records) :
                    slot[i].records[k].source + slot[i].records[k].size <= slot[i].cursor
               /\ slot[i].state = "remapping" => i \in UNION remaps
               /\ slot[i].state = "mapped" => i \notin UNION remaps
    BY DEF DataInv, PoolInv, SlotInv, Within
  <2>4. /\ sequence \in Nat
        /\ remaps \subseteq ((SUBSET Slots) \ {{}})
        /\ \A b, d \in remaps : b # d => b \cap d = {}
    BY DEF DataInv, PoolInv
  <2>5. /\ deferred <=> timer
        /\ deferred => Pending # {}
        /\ fatal \in {"no", "yes", "lost"}
    BY DEF DataInv, FatalInv
  <2>6. queue \in Seq(Submission) /\ memory \in [Memory -> Values] /\ direct \in [Memory -> Values]
    BY DEF DataInv, QueueInv
  <2>7. quiescer \in [pc : {"idle", "finalize", "await", "gpu", "returned", "threw"},
                      stable : 0 .. MaxRecords \cup {None},
                      awaited : SUBSET Slots, ahead : Nat]
    BY DEF QuiesceInv, QuiescerType
  <2>8. QED BY <2>1, <2>2, <2>3, <2>4, <2>5, <2>6, <2>7 DEF TypeOK
<1>4. QED BY <1>1, <1>2, <1>3, PTL DEF Spec
-----------------------------------------------------------------------------
(* An upload that finds no room has a remap to wait for, unless what is    *)
(* staged becomes one: an empty slot would take any upload.                *)
LEMMA NoRoomWaits ==
  ASSUME PoolInv, NoneFailed, NEW u \in Upload, Room(u) = {}, Pending = {}
  PROVE  remaps # {}
<1>1. SlotCount \in Nat \ {0} /\ 1 \in Slots
  BY StagingAssumption DEF Slots
<1>2. slot[1] \in SlotState /\ SlotInv(slot[1]) /\ slot[1].state # "failed"
  BY <1>1 DEF PoolInv, NoneFailed
<1>3. CASE slot[1].state = "mapped"
  <2>1. slot[1].records = <<>>
    BY <1>1, <1>3 DEF Pending
  <2>2. slot[1].cursor = 0
    BY <1>2, <2>1 DEF SlotInv
  <2>3. 0 + u.size <= SlotSize
    BY UploadIs, StagingAssumption
  <2>4. Fits(1, u)
    BY <1>3, <2>2, <2>3 DEF Fits
  <2>5. QED BY <1>1, <2>4 DEF Room
<1>4. CASE slot[1].state = "remapping"
  BY <1>1, <1>4 DEF PoolInv
<1>5. QED BY <1>2, <1>3, <1>4 DEF SlotState

(* No submission is rejected, and one that takes slots makes a remap.      *)
LEMMA HealthySubmits ==
  ASSUME ~setup.mayFail, PoolInv, fatal = "no", NoneFailed,
         NEW render \in BOOLEAN, SubmitOrFail(render), UNCHANGED direct
  PROVE  /\ fatal' = "no" /\ NoneFailed'
         /\ remaps # {} \/ Pending # {} => remaps' # {}
<1>1. Submitting(render)
  BY DEF SubmitOrFail, Rejected, Submitting
<1>2. /\ \A i \in Slots : slot'[i] = IF i \in Pending THEN Remapping(slot[i]) ELSE slot[i]
      /\ remaps' = IF Pending = {} THEN remaps ELSE remaps \cup {Pending}
      /\ fatal' = fatal
  BY <1>1, SubmitIs
<1>3. NoneFailed'
  <2>1. ASSUME NEW i \in Slots PROVE slot'[i].state # "failed"
    <3>1. slot[i] \in SlotState /\ slot[i].state # "failed"
      BY DEF PoolInv, NoneFailed
    <3>2. Remapping(slot[i]).state = "remapping"
      BY <3>1, EmptiedSlots
    <3>3. QED BY <1>2, <3>1, <3>2
  <2>2. QED BY <2>1 DEF NoneFailed
<1>4. QED BY <1>2, <1>3

(* Nothing fails, and whoever is blocked has a remap to wait for.          *)
LEMMA HealthyPoolNext ==
  ASSUME DataInv, ~setup.mayFail, HealthyPool, [Next]_vars
  PROVE  HealthyPool'
<1>0. PoolInv /\ RingInv /\ FatalInv /\ fatal = "no" /\ NoneFailed /\ enc \in BOOLEAN
      /\ (blocked => remaps # {})
  BY DEF DataInv, HealthyPool, RingInv, FlagsInv
<1>1. ASSUME UNCHANGED <<fatal, slot, blocked, remaps>> PROVE HealthyPool'
  BY <1>1 DEF HealthyPool, NoneFailed
<1>2. ASSUME NEW render \in BOOLEAN, SubmitOrFail(render), UNCHANGED <<direct, blocked>>
      PROVE  HealthyPool'
  <2>1. /\ fatal' = "no" /\ NoneFailed'
        /\ remaps # {} \/ Pending # {} => remaps' # {}
    BY <1>0, <1>2, HealthySubmits
  <2>2. QED BY <1>0, <1>2, <2>1 DEF HealthyPool
<1>3. ASSUME NEW u \in Upload, ReplayUpload(u) PROVE HealthyPool'
  <2>1. /\ Room(u) # {} /\ Stage(u, read + 1) /\ read + 1 \in Values
        /\ UNCHANGED <<remaps, blocked, fatal>>
    BY <1>0, <1>3, StagingAssumption DEF ReplayUpload, Replayable, RingInv, CountersInv, Values
  <2>2. /\ \A j \in Slots : j # Taker(u) => slot'[j] = slot[j]
        /\ slot'[Taker(u)].state = "mapped"
    BY <1>0, <2>1, StageIs
  <2>3. NoneFailed'
    BY <1>0, <2>2 DEF NoneFailed
  <2>4. QED BY <1>0, <2>1, <2>3 DEF HealthyPool
<1>4. ASSUME NEW u \in Upload, HoldUpload(u) PROVE HealthyPool'
  <2>1. Room(u) = {} /\ UNCHANGED direct
        /\ IF ~enc /\ Pending = {} /\ remaps = {} THEN MarkFatal ELSE SubmitOrFail(enc)
    BY <1>4 DEF HoldUpload
  <2>2. Pending = {} => remaps # {}
    BY <1>0, <1>4, <2>1, NoRoomWaits
  <2>3. SubmitOrFail(enc)
    BY <2>1, <2>2
  <2>4. /\ fatal' = "no" /\ NoneFailed'
        /\ remaps # {} \/ Pending # {} => remaps' # {}
    BY <1>0, <2>1, <2>3, HealthySubmits
  <2>5. QED BY <2>2, <2>4 DEF HealthyPool
<1>5. CASE ReplayPresent \/ ReplayDestroy
  <2>1. SubmitOrFail(enc) /\ UNCHANGED <<direct, blocked>>
    BY <1>5 DEF ReplayPresent, ReplayDestroy
  <2>2. QED BY <1>0, <1>2, <2>1
<1>6. CASE EndDrain
  <2>1. UNCHANGED <<direct, blocked>>
    BY <1>6 DEF EndDrain
  <2>2. SubmitOrFail(enc) \/ UNCHANGED <<pool, fatal>>
    BY <1>6 DEF EndDrain
  <2>3. QED BY <1>0, <1>1, <1>2, <2>1, <2>2 DEF pool
<1>7. CASE TimerFires \/ ForceLifecycle
  <2>1. SubmitOrFail(FALSE) /\ UNCHANGED <<direct, blocked>>
    BY <1>7 DEF TimerFires, ForceLifecycle
  <2>2. QED BY <1>0, <1>2, <2>1
<1>8. CASE Finalize
  <2>1. /\ UNCHANGED <<direct, blocked>>
        /\ SubmitOrFail(FALSE) \/ UNCHANGED <<pool, fatal>>
    BY <1>8 DEF Finalize
  <2>2. QED BY <1>0, <1>1, <1>2, <2>1 DEF pool
<1>9. ASSUME NEW i \in Slots, SlotRemapped(i) PROVE HealthyPool'
  <2>1. /\ i \in UNION remaps /\ Settles(i) /\ blocked' = Unblocked(i) /\ fatal' = fatal
        /\ slot' = [slot EXCEPT ![i] = NewSlot] \/ UNCHANGED slot
    BY <1>9 DEF SlotRemapped, Settle, Settles
  <2>2. NoneFailed'
    <3>1. \A j \in Slots : slot'[j] = NewSlot \/ slot'[j] = slot[j]
      BY <1>0, <2>1 DEF PoolInv
    <3>2. QED BY <1>0, <3>1, EmptiedSlots DEF NoneFailed
  <2>3. blocked' => remaps' # {}
    <3>1. BatchOf(i) \in remaps /\ i \in BatchOf(i)
      BY <2>1 DEF BatchOf
    <3>2. blocked' => BatchOf(i) # {i}
      BY <2>1 DEF Unblocked
    <3>3. BatchOf(i) # {i} => BatchOf(i) \ {i} \in remaps'
      BY <2>1, <3>1 DEF Settles
    <3>4. QED BY <3>2, <3>3
  <2>4. QED BY <1>0, <2>1, <2>2, <2>3 DEF HealthyPool
<1>10. ASSUME NEW i \in Slots, RemapFails(i) PROVE FALSE
  BY <1>10 DEF RemapFails
<1>11. CASE DeviceLost
  BY <1>11 DEF DeviceLost
<1>12. CASE Publish \/ Drain \/ ReplayRender \/ ReplayOther
  BY <1>1, <1>12 DEF Publish, Drain, StartDrain, ReplayRender, ReplayOther, pool
<1>13. CASE GpuExecutes \/ StartQuiesce \/ RemapsAwaited \/ Observe \/ GpuAwaited
  BY <1>1, <1>13 DEF GpuExecutes, StartQuiesce, RemapsAwaited, Observe, GpuAwaited, pool
<1>14. CASE UNCHANGED vars
  BY <1>1, <1>14 DEF vars, pool
<1>15. QED
  BY <1>3, <1>4, <1>5, <1>6, <1>7, <1>8, <1>9, <1>10, <1>11, <1>12, <1>13, <1>14
     DEF Next, Replay, Quiesce

(* quiesce then throws only if the producer wrote in the meantime.         *)
LEMMA ThrewNext ==
  ASSUME DataInv, QuiesceInv, QuiesceInv', HealthyPool, Threw, [Next]_vars
  PROVE  Threw'
<1>0. /\ quiescer \in QuiescerType /\ written \in Nat /\ fatal = "no" /\ FatalInv
      /\ blocked => remaps # {}
  BY DEF DataInv, QuiesceInv, HealthyPool, RingInv, CountersInv
<1>1. quiescer.stable # None => quiescer.stable \in Int
  BY <1>0, StagingAssumption DEF QuiescerType
<1>2. ASSUME quiescer'.pc = quiescer.pc, quiescer'.stable = quiescer.stable,
             written' \in {written, written + 1}
      PROVE  Threw'
  BY <1>0, <1>1, <1>2 DEF Threw
<1>3. CASE Publish
  BY <1>2, <1>3 DEF Publish
<1>4. CASE Drain \/ Replay \/ TimerFires \/ ForceLifecycle \/ DeviceLost
  BY <1>2, <1>4, QuiescerSame
<1>5. ASSUME NEW i \in Slots, SlotRemapped(i) \/ RemapFails(i) PROVE Threw'
  <2>1. quiescer' = [quiescer EXCEPT !.awaited = @ \ {i}] /\ written' = written
    BY <1>5 DEF SlotRemapped, RemapFails, Settle, ringVars
  <2>2. quiescer'.pc = quiescer.pc /\ quiescer'.stable = quiescer.stable
    BY <1>0, <2>1 DEF QuiescerType
  <2>3. QED BY <1>2, <2>1, <2>2
<1>6. CASE GpuExecutes
  <2>1. /\ \E n : quiescer' = [quiescer EXCEPT !.ahead = n]
        /\ written' = written
    BY <1>6 DEF GpuExecutes, ringVars
  <2>2. quiescer'.pc = quiescer.pc /\ quiescer'.stable = quiescer.stable
    BY <1>0, <2>1 DEF QuiescerType
  <2>3. QED BY <1>2, <2>1, <2>2
<1>7. CASE StartQuiesce \/ RemapsAwaited \/ Finalize
  <2>1. \/ quiescer' = [quiescer EXCEPT !.pc = "finalize"]
        \/ quiescer' = [quiescer EXCEPT !.pc = "await", !.awaited = UNION remaps']
    BY <1>7 DEF StartQuiesce, RemapsAwaited, Finalize
  <2>2. quiescer'.pc # "threw"
    BY <1>0, <2>1 DEF QuiescerType
  <2>3. QED BY <2>2 DEF Threw
<1>8. CASE Observe
  <2>1. ~blocked
    BY <1>0, <1>8 DEF Observe
  <2>2. quiescer.pc = "finalize" /\ quiescer' = Observed(quiescer)
    BY <1>0, <1>8, <2>1 DEF Observe
  <2>3. quiescer'.pc # "threw"
    BY <1>0, <2>2 DEF Observed, QuiescerType
  <2>4. QED BY <2>3 DEF Threw
<1>9. CASE GpuAwaited
  <2>1. /\ quiescer.pc = "gpu" /\ written' = written
        /\ quiescer' = [quiescer EXCEPT !.pc = IF Validated THEN "returned" ELSE "threw"]
    BY <1>9 DEF GpuAwaited, ringVars
  <2>2. quiescer'.stable = quiescer.stable /\ (Validated => quiescer'.pc = "returned")
    BY <1>0, <2>1 DEF QuiescerType
  <2>3. quiescer.stable # None /\ quiescer.stable <= written
        /\ (quiescer.stable = written => AtRest)
    BY <1>0, <2>1 DEF QuiesceInv
  <2>4. CASE Validated
    BY <2>2, <2>4 DEF Threw
  <2>5. CASE ~Validated
    <3>1. quiescer.stable # written
      BY <2>3, <2>5 DEF Validated
    <3>2. quiescer.stable < written
      BY <1>0, <1>1, <2>3, <3>1
    <3>3. QED BY <2>1, <2>2, <2>3, <3>2 DEF Threw
  <2>6. QED BY <2>4, <2>5
<1>10. CASE UNCHANGED vars
  BY <1>2, <1>10 DEF vars, ringVars
<1>11. QED
  BY <1>3, <1>4, <1>5, <1>6, <1>7, <1>8, <1>9, <1>10 DEF Next, Quiesce

(* The setup of a session stays.                                           *)
LEMMA SetupKept == [Next]_vars => setup' = setup
<1>1. CASE Publish \/ Drain
  BY <1>1 DEF Publish, Drain, StartDrain
<1>2. ASSUME NEW u \in Upload, ReplayUpload(u) \/ HoldUpload(u) PROVE setup' = setup
  BY <1>2 DEF ReplayUpload, HoldUpload
<1>3. CASE ReplayRender \/ ReplayOther \/ ReplayPresent \/ ReplayDestroy
  BY <1>3 DEF ReplayRender, ReplayOther, ReplayPresent, ReplayDestroy
<1>4. CASE EndDrain \/ TimerFires \/ ForceLifecycle
  BY <1>4 DEF EndDrain, TimerFires, ForceLifecycle
<1>5. ASSUME NEW i \in Slots, SlotRemapped(i) \/ RemapFails(i) PROVE setup' = setup
  BY <1>5 DEF SlotRemapped, RemapFails
<1>6. CASE DeviceLost \/ GpuExecutes \/ StartQuiesce
  BY <1>6 DEF DeviceLost, GpuExecutes, StartQuiesce
<1>7. CASE Quiesce
  BY <1>7 DEF Quiesce, Finalize, RemapsAwaited, Observe, GpuAwaited
<1>8. CASE UNCHANGED vars
  BY <1>8 DEF vars
<1>9. QED BY <1>1, <1>2, <1>3, <1>4, <1>5, <1>6, <1>7, <1>8 DEF Next, Replay

(* A full pool is no failure: replay of a healthy GPU never turns fatal,   *)
(* and quiesce throws only if the producer wrote meanwhile.                *)
THEOREM FullPoolsAreNoFailure == Spec => []HealthyGpuNeverFails
<1>1. Init => IInv
  <2>1. Init => HealthyInv
    BY EmptiedSlots DEF Init, Idle, HealthyInv, HealthyPool, NoneFailed, Threw
  <2>2. QED BY <2>1, DataInit, QuiesceInit DEF IInv
<1>2. IInv /\ [Next]_vars => IInv'
  <2> SUFFICES ASSUME IInv, [Next]_vars PROVE IInv'
    OBVIOUS
  <2>1. DataInv /\ QuiesceInv /\ DataInv' /\ QuiesceInv' /\ setup' = setup
    BY DataNext, QuiesceNext, SetupKept DEF IInv
  <2>2. HealthyInv'
    <3> SUFFICES ASSUME ~setup.mayFail PROVE HealthyPool' /\ Threw'
      BY <2>1 DEF HealthyInv
    <3>1. HealthyPool /\ Threw
      BY DEF IInv, HealthyInv
    <3>2. QED BY <2>1, <3>1, HealthyPoolNext, ThrewNext
  <2>3. QED BY <2>1, <2>2 DEF IInv
<1>3. IInv => HealthyGpuNeverFails
  <2> SUFFICES ASSUME IInv, ~setup.mayFail
               PROVE  /\ fatal = "no"
                      /\ quiescer.pc = "threw" =>
                           quiescer.stable # None /\ written # quiescer.stable
    BY DEF HealthyGpuNeverFails
  <2>1. fatal = "no" /\ Threw
    BY DEF IInv, HealthyInv, HealthyPool
  <2>2. quiescer.pc = "threw" => quiescer.stable # None /\ quiescer.stable < written
    BY <2>1 DEF Threw
  <2>3. quiescer.stable # None => quiescer.stable \in Int /\ written \in Int
    BY StagingAssumption DEF IInv, DataInv, RingInv, CountersInv, QuiesceInv, QuiescerType
  <2>4. QED BY <2>1, <2>2, <2>3
<1>4. QED BY <1>1, <1>2, <1>3, PTL DEF Spec
=============================================================================
