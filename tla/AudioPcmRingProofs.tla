------------------------- MODULE AudioPcmRingProofs -------------------------
(***************************************************************************)
(* Proofs about AudioPcmRing, for every capacity, fill level and index     *)
(* range that satisfies the assumptions of that module.                    *)
(***************************************************************************)
EXTENDS AudioPcmRing, RingArithmetic

-----------------------------------------------------------------------------
(* The wrapping index operators behave like plain addition and subtraction *)
(* as long as no distance exceeds the capacity.                            *)
LEMMA AdvanceType ==
  ASSUME NEW i \in Index, NEW n \in 0 .. Capacity
  PROVE  Advance(i, n) \in Index
  BY CapacityAssumption DEF Advance, Index

(* A distance is less than the modulus.                                     *)
LEMMA DistanceType ==
  ASSUME NEW w \in Index, NEW r \in Index
  PROVE  Distance(w, r) \in 0 .. IndexModulus - 1
  BY CapacityAssumption DEF Distance, Index

(* Nothing lies between an index and itself.                                *)
LEMMA DistanceSame ==
  ASSUME NEW w \in Index
  PROVE  Distance(w, w) = 0
  BY CapacityAssumption DEF Distance, Index

(* Publishing n frames makes n more available.                              *)
LEMMA DistanceGrows ==
  ASSUME NEW w \in Index, NEW r \in Index, NEW n \in 0 .. Capacity,
         Distance(w, r) + n <= Capacity
  PROVE  Distance(Advance(w, n), r) = Distance(w, r) + n
  BY CapacityAssumption DEF Distance, Advance, Index

(* Taking n frames leaves n fewer.                                          *)
LEMMA DistanceShrinks ==
  ASSUME NEW w \in Index, NEW r \in Index, NEW n \in 0 .. Capacity,
         n <= Distance(w, r), Distance(w, r) <= Capacity
  PROVE  Distance(w, Advance(r, n)) = Distance(w, r) - n
  BY CapacityAssumption DEF Distance, Advance, Index

(* The write index, seen from the read index.                               *)
LEMMA AdvanceFromRead ==
  ASSUME NEW w \in Index, NEW r \in Index, NEW n \in 0 .. Capacity,
         Distance(w, r) + n <= Capacity
  PROVE  Advance(w, n) = Advance(r, Distance(w, r) + n)
  BY CapacityAssumption DEF Distance, Advance, Index

(* Advancing in two steps or in one.                                        *)
LEMMA AdvanceTwice ==
  ASSUME NEW r \in Index, NEW a \in 0 .. Capacity, NEW b \in 0 .. Capacity,
         a + b <= Capacity
  PROVE  Advance(Advance(r, a), b) = Advance(r, a + b)
  BY CapacityAssumption DEF Advance, Index

(* Within one capacity of READ_INDEX, different frames have different      *)
(* slots, also where the index words wrap.                                 *)
LEMMA SlotsDiffer ==
  ASSUME NEW i \in Index, NEW a \in 0 .. Capacity, NEW b \in 0 .. Capacity,
         a < b, b < a + Capacity
  PROVE  SlotOf(Advance(i, a)) # SlotOf(Advance(i, b))
<1> USE CapacityAssumption DEF Index
<1>1. ASSUME NEW n \in 0 .. Capacity
      PROVE  SlotOf(Advance(i, n)) = (i + n) % Capacity
  <2> DEFINE x == i + n
  <2>1. /\ x \in Int /\ Capacity \in Nat \ {0}
        /\ IndexModulus \in Int /\ IndexModulus % Capacity = 0
    OBVIOUS
  <2>2. Advance(i, n) = (IF x >= IndexModulus THEN x - IndexModulus ELSE x)
    BY DEF Advance
  <2> HIDE DEF x
  <2>3. (x - IndexModulus) % Capacity = x % Capacity
    BY <2>1, ModShift
  <2>4. SlotOf(Advance(i, n)) = x % Capacity
    BY <2>1, <2>2, <2>3 DEF SlotOf
  <2>5. QED BY <2>4 DEF x
<1>2. (i + a) % Capacity # (i + b) % Capacity
  <2> DEFINE x == i + a
             y == i + b
  <2>1. x \in Int /\ y \in Int /\ x < y /\ y < x + Capacity
    OBVIOUS
  <2> HIDE DEF x, y
  <2>2. x % Capacity # y % Capacity
    BY <2>1, ModDistinct
  <2>3. QED BY <2>2 DEF x, y
<1>3. QED BY <1>1, <1>2

(* A frame has a slot of the ring.                                          *)
LEMMA SlotType == \A i \in Index : SlotOf(i) \in Slot
  BY DivMod, CapacityAssumption DEF SlotOf, Slot, Index

-----------------------------------------------------------------------------
(* The inductive invariant.                                                *)
EpochInv ==
  /\ epochAck <= epoch
  /\ ppc = "bumpEpoch" => epoch < MaxEpoch

HandshakeInv ==
  /\ Refilling => epochAck = epoch /\ ring /\ ~muted
  /\ Flushing => epochAck < cEpoch /\ cEpoch <= epoch
  /\ cpc = "flush" => cWrite = writeIndex
  /\ cpc = "acknowledge" => readIndex = writeIndex
  /\ cpc \in {"loadState", "loadAvailable", "copy"} => cEpoch = epochAck

ClaimInv ==
  /\ ClaimsAreDisjoint
  /\ MixedFramesFit
  /\ ppc = "readFree" => AvailableFrames + mixed <= Capacity
  /\ ppc = "write" => pcopied <= writable
  /\ ppc # "write" => pcopied = 0
  /\ ppc \in {"mix", "readFree", "write"} => attempt > 0
  /\ cpc = "copy" => Len(output) <= consumed
  /\ cpc # "copy" => output = <<>>

MuteInv ==
  /\ ring /\ muted => state = "MUTED"
  /\ ring /\ muted /\ ppc = "idle" /\ epochAck = epoch => ~Playing

IInv == TypeOK /\ EpochInv /\ HandshakeInv /\ ClaimInv /\ MuteInv

(* It holds of a ring that was just made.                                   *)
LEMMA InitInv == Init => IInv
<1> SUFFICES ASSUME Init PROVE IInv
  OBVIOUS
<1>1. Silence \in Frame
  BY CapacityAssumption DEF Silence, Frame, Index
<1>2. AvailableFrames = 0
  BY DistanceSame, CapacityAssumption DEF Init, AvailableFrames, Index
<1>3. TypeOK
  BY <1>1, CapacityAssumption, FillAssumption, EpochAssumption
     DEF Init, TypeOK, RingState, Index, Slot
<1>4. EpochInv /\ HandshakeInv /\ ClaimInv /\ MuteInv
  BY <1>2, CapacityAssumption
     DEF Init, EpochInv, HandshakeInv, ClaimInv, MuteInv, Refilling, Flushing,
         Playing, ClaimsAreDisjoint, MixedFramesFit
<1>5. QED BY <1>3, <1>4 DEF IInv

(* Each action of Next preserves the invariant.  Only PublishWrite,        *)
(* PublishRead and Flush move an index; every other action keeps           *)
(* AvailableFrames.                                                        *)
LEMMA StepInv == IInv /\ [Next]_vars => IInv'
<1> SUFFICES ASSUME IInv, [Next]_vars PROVE IInv'
  OBVIOUS
<1> USE CapacityAssumption, FillAssumption, EpochAssumption
<1> USE DEF IInv, TypeOK, EpochInv, HandshakeInv, ClaimInv, MuteInv, Refilling,
            Flushing, Playing, ClaimsAreDisjoint, MixedFramesFit, RingState,
            header, producer, consumer, history
<1>0. AvailableFrames \in 0 .. Capacity
  BY DistanceType DEF AvailableFrames, Index
<1>u. ASSUME UNCHANGED <<writeIndex, readIndex>>
      PROVE  AvailableFrames' = AvailableFrames
  BY <1>u DEF AvailableFrames
<1>1. ASSUME NEW m \in BOOLEAN, Install(m)
      PROVE  IInv'
  BY <1>0, <1>u, <1>1 DEF Install, RequestEpoch, MuteState
<1>2. ASSUME NEW m \in BOOLEAN, SetMuted(m)
      PROVE  IInv'
  BY <1>0, <1>u, <1>2 DEF SetMuted, RequestEpoch, MuteState
<1>3. ASSUME Transition
      PROVE  IInv'
  BY <1>0, <1>u, <1>3 DEF Transition, RequestEpoch, MuteState
<1>4. ASSUME BumpEpoch
      PROVE  IInv'
  BY <1>0, <1>u, <1>4 DEF BumpEpoch
<1>5. ASSUME Stop
      PROVE  IInv'
  BY <1>0, <1>u, <1>5 DEF Stop
<1>6. ASSUME NEW n \in 1 .. 2, Refill(n)
      PROVE  IInv'
  BY <1>0, <1>u, <1>6 DEF Refill, MayRefill, EpochAcknowledged
<1>7. ASSUME ReadFill
      PROVE  IInv'
  BY <1>0, <1>u, <1>7 DEF ReadFill
<1>8. ASSUME NEW n \in 1 .. Capacity, Mix(n)
      PROVE  IInv'
  BY <1>0, <1>u, <1>8 DEF Mix, Requested, FreeFrames, Lesser
<1>9. ASSUME MixNothing
      PROVE  IInv'
  BY <1>0, <1>u, <1>9 DEF MixNothing
<1>10. ASSUME ReadFree
      PROVE  IInv'
  BY <1>0, <1>u, <1>10 DEF ReadFree, FreeFrames, Lesser
<1>11. ASSUME WriteFrame
      PROVE  IInv'
  <2> DEFINE i == Advance(writeIndex, pcopied)
  <2>1. i \in Index
    BY <1>0, <1>11, AdvanceType DEF WriteFrame
  <2>2. SlotOf(i) \in Slot /\ [epoch |-> epoch, index |-> i] \in Frame
    BY <2>1, SlotType DEF Frame
  <2> HIDE DEF i
  <2>3. samples' = [samples EXCEPT ![SlotOf(i)] = [epoch |-> epoch, index |-> i]]
    BY <1>11 DEF WriteFrame, i
  <2>4. samples' \in [Slot -> Frame]
    BY <2>2, <2>3
  <2>5. QED BY <1>0, <1>u, <1>11, <2>4 DEF WriteFrame
<1>12. ASSUME PublishWrite
      PROVE  IInv'
  <2>1. ppc = "write" /\ writeIndex' = Advance(writeIndex, writable)
        /\ readIndex' = readIndex
    BY <1>12 DEF PublishWrite
  <2>2. writeIndex' \in Index
    BY <2>1, AdvanceType
  <2>3. AvailableFrames' = AvailableFrames + writable
    BY <2>1, DistanceGrows DEF AvailableFrames
  <2>4. QED BY <1>0, <1>12, <2>2, <2>3 DEF PublishWrite
<1>13. ASSUME ReadFinal
      PROVE  IInv'
  BY <1>0, <1>u, <1>13 DEF ReadFinal
<1>14. ASSUME SetRunning
      PROVE  IInv'
  BY <1>0, <1>u, <1>14 DEF SetRunning
<1>15. ASSUME LoadEpoch
      PROVE  IInv'
  BY <1>0, <1>u, <1>15 DEF LoadEpoch
<1>16. ASSUME LoadWrite
      PROVE  IInv'
  BY <1>0, <1>u, <1>16 DEF LoadWrite
<1>17. ASSUME Flush
      PROVE  IInv'
  <2>1. AvailableFrames' = 0
    BY <1>17, DistanceSame DEF Flush, AvailableFrames
  <2>2. readIndex' = writeIndex /\ writeIndex' = writeIndex
        /\ ppc \in {"idle", "bumpEpoch"} /\ cpc' = "acknowledge"
    BY <1>17 DEF Flush
  <2>3. TypeOK' /\ EpochInv' /\ HandshakeInv' /\ MuteInv'
    BY <1>17, <2>2 DEF Flush
  <2>4. ClaimInv'
    BY <1>17, <2>1, <2>2 DEF Flush
  <2>5. QED BY <2>3, <2>4
<1>18. ASSUME Acknowledge
      PROVE  IInv'
  BY <1>0, <1>u, <1>18 DEF Acknowledge, Index
<1>19. ASSUME LoadState
      PROVE  IInv'
  BY <1>0, <1>u, <1>19 DEF LoadState
<1>20. ASSUME LoadAvailable
      PROVE  IInv'
  BY <1>0, <1>u, <1>20 DEF LoadAvailable, QuantumFrames, Lesser
<1>21. ASSUME CopyFrame
      PROVE  IInv'
  <2>1. Len(output) \in Nat /\ Len(output) < consumed
    BY <1>21 DEF CopyFrame
  <2>2. NextToCopy \in Index
    BY <2>1, AdvanceType DEF NextToCopy
  <2>3. samples[SlotOf(NextToCopy)] \in Frame
    BY <2>2, SlotType
  <2>4. output' \in Seq(Frame) /\ Len(output') = Len(output) + 1
    BY <1>21, <2>3 DEF CopyFrame
  <2>5. QED BY <1>0, <1>u, <1>21, <2>1, <2>4 DEF CopyFrame
<1>22. ASSUME PublishRead
      PROVE  IInv'
  <2>1. cpc = "copy" /\ readIndex' = Advance(readIndex, consumed)
        /\ writeIndex' = writeIndex /\ consumed <= AvailableFrames
    BY <1>22 DEF PublishRead
  <2>2. readIndex' \in Index
    BY <2>1, <1>0, AdvanceType
  <2>3. AvailableFrames' = AvailableFrames - consumed
    BY <2>1, <1>0, DistanceShrinks DEF AvailableFrames
  <2>4. QED BY <1>0, <1>22, <2>2, <2>3 DEF PublishRead
<1>23. CASE UNCHANGED vars
  BY <1>u, <1>23 DEF vars
<1>24. QED
  BY <1>1, <1>2, <1>3, <1>4, <1>5, <1>6, <1>7, <1>8, <1>9, <1>10, <1>11, <1>12, <1>13, <1>14, <1>15, <1>16, <1>17, <1>18, <1>19, <1>20, <1>21, <1>22, <1>23
     DEF Next, Requests, RefillSteps, Consume

(* Type correctness of the ring and of both threads.                       *)
THEOREM TypeCorrect == Spec => []TypeOK
<1>1. IInv => TypeOK
  BY DEF IInv
<1>2. QED BY <1>1, InitInv, StepInv, PTL DEF Spec

(* The epoch handshake excludes refill and flush from each other, the two  *)
(* threads never claim the same frames, and nothing mixed is dropped.      *)
THEOREM HandshakeIsALock ==
  Spec => [](FlushExcludesRefill /\ ClaimsAreDisjoint /\ MixedFramesFit)
<1>1. IInv => FlushExcludesRefill /\ ClaimsAreDisjoint /\ MixedFramesFit
  BY DEF IInv, TypeOK, HandshakeInv, ClaimInv, FlushExcludesRefill
<1>2. QED BY <1>1, InitInv, StepInv, PTL DEF Spec

(* An acknowledged mute is silent until the next request.                  *)
THEOREM MuteIsHonoured == Spec => []MutedIsQuiet
<1>1. IInv => MutedIsQuiet
  BY DEF IInv, MuteInv, MutedIsQuiet, Playing
<1>2. QED BY <1>1, InitInv, StepInv, PTL DEF Spec

-----------------------------------------------------------------------------
(* The contents of the ring: every slot between the two indices, and every *)
(* slot already rewritten by the copy in progress, holds the frame of its  *)
(* own index and of the acknowledged epoch.                                *)
FrameAt(k) == [epoch |-> epochAck, index |-> Advance(readIndex, k)]

StoredFrames ==
  \A k \in 0 .. Capacity - 1 :
    k < AvailableFrames + pcopied =>
      samples[SlotOf(Advance(readIndex, k))] = FrameAt(k)

CopiedFrames ==
  \A k \in 0 .. Quantum - 1 : k < Len(output) => output[k + 1] = FrameAt(k)

FrameInv == StoredFrames /\ CopiedFrames

(* No frame is stored or copied at first.                                   *)
LEMMA FrameInit == Init => FrameInv
<1> SUFFICES ASSUME Init PROVE FrameInv
  OBVIOUS
<1>1. AvailableFrames + pcopied = 0 /\ Len(output) = 0
  BY DistanceSame, CapacityAssumption DEF Init, AvailableFrames, Index
<1>2. QED
  BY <1>1, CapacityAssumption, FillAssumption
     DEF FrameInv, StoredFrames, CopiedFrames

(* Every step keeps the frames where they belong.                           *)
LEMMA FrameStep == IInv /\ FrameInv /\ [Next]_vars => FrameInv'
<1> SUFFICES ASSUME IInv, FrameInv, [Next]_vars PROVE FrameInv'
  OBVIOUS
<1> USE CapacityAssumption, FillAssumption
<1> USE DEF FrameInv, header, producer, consumer, history
<1>0. /\ writeIndex \in Index /\ readIndex \in Index
      /\ AvailableFrames \in 0 .. Capacity
      /\ pcopied \in 0 .. Capacity /\ AvailableFrames + pcopied <= Capacity
      /\ samples \in [Slot -> Frame] /\ output \in Seq(Frame)
      /\ consumed \in 0 .. Quantum /\ Len(output) \in 0 .. Quantum
  <2>1. /\ writeIndex \in Index /\ readIndex \in Index
        /\ pcopied \in 0 .. Capacity /\ writable \in 0 .. Capacity
        /\ samples \in [Slot -> Frame] /\ output \in Seq(Frame)
        /\ consumed \in 0 .. Quantum /\ Len(output) \in 0 .. Quantum
    BY DEF IInv, TypeOK
  <2>2. AvailableFrames \in 0 .. Capacity
    BY <2>1, DistanceType
       DEF IInv, ClaimInv, ClaimsAreDisjoint, AvailableFrames
  <2>3. AvailableFrames + pcopied <= Capacity
    BY <2>1, <2>2 DEF IInv, ClaimInv, ClaimsAreDisjoint
  <2>4. QED BY <2>1, <2>2, <2>3
<1>u. ASSUME UNCHANGED <<writeIndex, readIndex, epochAck, samples, pcopied,
                         output>>
      PROVE  FrameInv'
  BY <1>u DEF StoredFrames, CopiedFrames, FrameAt, AvailableFrames
<1>e. ASSUME AvailableFrames' + pcopied' = 0, Len(output') = 0
      PROVE  FrameInv'
  BY <1>e DEF StoredFrames, CopiedFrames
<1>1. ASSUME ReadFree
      PROVE  FrameInv'
  BY <1>1, <1>u DEF ReadFree, IInv, ClaimInv
<1>2. ASSUME WriteFrame
      PROVE  FrameInv'
  <2> DEFINE n == AvailableFrames + pcopied
             i == Advance(readIndex, n)
  <2>1. ppc = "write" /\ pcopied < writable
        /\ AvailableFrames + writable <= Capacity /\ epoch = epochAck
    BY <1>2 DEF WriteFrame, IInv, TypeOK, ClaimInv, ClaimsAreDisjoint,
                HandshakeInv, Refilling
  <2>2. n \in 0 .. Capacity - 1
    BY <1>0, <2>1, <1>2 DEF WriteFrame, IInv, TypeOK
  <2>3. Advance(writeIndex, pcopied) = i
    BY <1>0, AdvanceFromRead DEF AvailableFrames
  <2>4. UNCHANGED <<writeIndex, readIndex, epochAck, output>>
        /\ pcopied' = pcopied + 1 /\ AvailableFrames' = AvailableFrames
    BY <1>2 DEF WriteFrame, AvailableFrames
  <2>5. samples' = [samples EXCEPT ![SlotOf(i)] = FrameAt(n)]
    BY <1>2, <2>1, <2>3 DEF WriteFrame, FrameAt
  <2>6. i \in Index /\ SlotOf(i) \in Slot
    BY <1>0, <2>2, AdvanceType, SlotType
  <2>7. ASSUME NEW k \in 0 .. Capacity - 1, k < n + 1
        PROVE  samples'[SlotOf(Advance(readIndex, k))] = FrameAt(k)
    <3>1. CASE k = n
      BY <3>1, <2>5, <2>6, <1>0
    <3>2. CASE k < n
      <4>1. SlotOf(Advance(readIndex, k)) # SlotOf(i)
        BY <1>0, <2>2, <3>2, SlotsDiffer
      <4>2. SlotOf(Advance(readIndex, k)) \in Slot
        BY <1>0, AdvanceType, SlotType
      <4>3. samples[SlotOf(Advance(readIndex, k))] = FrameAt(k)
        BY <3>2 DEF StoredFrames
      <4>4. QED BY <1>0, <4>1, <4>2, <4>3, <2>5
    <3>3. QED BY <2>2, <2>7, <3>1, <3>2
  <2>8. StoredFrames'
    <3>1. AvailableFrames' + pcopied' = n + 1
      BY <1>0, <2>4
    <3>2. \A k \in 0 .. Capacity - 1 :
             [epoch |-> epochAck', index |-> Advance(readIndex', k)] = FrameAt(k)
      BY <2>4 DEF FrameAt
    <3> HIDE DEF n, i
    <3>3. QED BY <2>4, <2>7, <3>1, <3>2 DEF StoredFrames, FrameAt
  <2>9. CopiedFrames'
    BY <2>4 DEF CopiedFrames, FrameAt
  <2>10. QED BY <2>8, <2>9
<1>3. ASSUME PublishWrite
      PROVE  FrameInv'
  <2>1. ppc = "write" /\ pcopied = writable /\ writable \in 0 .. Capacity
        /\ AvailableFrames + writable <= Capacity
    BY <1>3 DEF PublishWrite, IInv, TypeOK, ClaimInv, ClaimsAreDisjoint
  <2>2. AvailableFrames' = AvailableFrames + writable
    BY <1>0, <1>3, <2>1, DistanceGrows DEF PublishWrite, AvailableFrames
  <2>3. UNCHANGED <<readIndex, epochAck, samples, output>> /\ pcopied' = 0
    BY <1>3 DEF PublishWrite
  <2>4. AvailableFrames' + pcopied' = AvailableFrames + pcopied
    BY <1>0, <2>1, <2>2, <2>3
  <2>5. QED BY <2>3, <2>4 DEF StoredFrames, CopiedFrames, FrameAt
<1>4. ASSUME Flush
      PROVE  FrameInv'
  <2>1. readIndex' = writeIndex /\ writeIndex' = writeIndex
    BY <1>4 DEF Flush, IInv, HandshakeInv
  <2>2. AvailableFrames' = 0
    BY <1>0, <2>1, DistanceSame DEF AvailableFrames
  <2>3. pcopied' = 0 /\ output' = <<>>
    BY <1>4 DEF Flush, IInv, TypeOK, EpochInv, HandshakeInv, ClaimInv, Flushing,
                Refilling
  <2>4. QED BY <2>2, <2>3, <1>e
<1>5. ASSUME Acknowledge
      PROVE  FrameInv'
  <2>1. readIndex = writeIndex /\ UNCHANGED <<readIndex, writeIndex>>
    BY <1>5 DEF Acknowledge, IInv, HandshakeInv
  <2>2. AvailableFrames' = 0
    BY <1>0, <2>1, DistanceSame DEF AvailableFrames
  <2>3. pcopied' = 0 /\ output' = <<>>
    BY <1>5 DEF Acknowledge, IInv, TypeOK, EpochInv, HandshakeInv, ClaimInv,
                Flushing, Refilling
  <2>4. QED BY <2>2, <2>3, <1>e
<1>6. ASSUME CopyFrame
      PROVE  FrameInv'
  <2> DEFINE n == Len(output)
  <2>1. cpc = "copy" /\ n < consumed /\ consumed <= AvailableFrames
    BY <1>6 DEF CopyFrame, IInv, ClaimInv, ClaimsAreDisjoint
  <2>2. UNCHANGED <<writeIndex, readIndex, epochAck, samples, pcopied>>
        /\ output' = Append(output, samples[SlotOf(Advance(readIndex, n))])
    BY <1>6 DEF CopyFrame, NextToCopy
  <2>3. samples[SlotOf(Advance(readIndex, n))] = FrameAt(n)
    BY <1>0, <2>1 DEF StoredFrames
  <2>4. Len(output') = n + 1 /\ output'[n + 1] = FrameAt(n)
        /\ \A k \in 1 .. n : output'[k] = output[k]
    BY <1>0, <2>2, <2>3
  <2>5. CopiedFrames'
    <3> SUFFICES ASSUME NEW k \in 0 .. Quantum - 1, k < n + 1
                 PROVE  output'[k + 1] = FrameAt(k)
      BY <2>2, <2>4 DEF CopiedFrames, FrameAt
    <3>1. CASE k = n
      BY <3>1, <2>4
    <3>2. CASE k < n
      <4>1. output[k + 1] = FrameAt(k)
        BY <3>2 DEF CopiedFrames
      <4>2. k + 1 \in 1 .. n
        BY <3>2, <1>0
      <4>3. QED BY <4>1, <4>2, <2>4
    <3>3. QED BY <1>0, <3>1, <3>2
  <2>6. StoredFrames'
    BY <2>2 DEF StoredFrames, FrameAt, AvailableFrames
  <2>7. QED BY <2>5, <2>6
<1>7. ASSUME PublishRead
      PROVE  FrameInv'
  <2>1. consumed <= AvailableFrames /\ readIndex' = Advance(readIndex, consumed)
        /\ UNCHANGED <<writeIndex, epochAck, samples, pcopied>> /\ output' = <<>>
    BY <1>7 DEF PublishRead, IInv, ClaimInv, ClaimsAreDisjoint
  <2>2. AvailableFrames' = AvailableFrames - consumed
    BY <1>0, <2>1, DistanceShrinks DEF AvailableFrames
  <2>3. ASSUME NEW k \in 0 .. Capacity - 1,
               k < AvailableFrames - consumed + pcopied
        PROVE  samples[SlotOf(Advance(readIndex', k))]
                 = [epoch |-> epochAck, index |-> Advance(readIndex', k)]
    <3>1. consumed + k \in 0 .. Capacity - 1
          /\ consumed + k < AvailableFrames + pcopied
      BY <1>0, <2>3
    <3>2. Advance(readIndex', k) = Advance(readIndex, consumed + k)
      BY <1>0, <2>1, <3>1, AdvanceTwice
    <3>3. samples[SlotOf(Advance(readIndex, consumed + k))]
            = FrameAt(consumed + k)
      BY <3>1 DEF StoredFrames
    <3>4. QED BY <3>2, <3>3 DEF FrameAt
  <2>4. StoredFrames'
    BY <2>1, <2>2, <2>3 DEF StoredFrames, FrameAt
  <2>5. CopiedFrames'
    BY <2>1 DEF CopiedFrames
  <2>6. QED BY <2>4, <2>5
<1>8. CASE UNCHANGED vars
  BY <1>8, <1>u DEF vars
<1>9. QED
  BY <1>u, <1>1, <1>2, <1>3, <1>4, <1>5, <1>6, <1>7, <1>8
     DEF Next, Requests, RefillSteps, Consume, Install, SetMuted, Transition,
         RequestEpoch, BumpEpoch, Stop, Refill, ReadFill, Mix, MixNothing,
         ReadFinal, SetRunning, LoadEpoch, LoadWrite, LoadState, LoadAvailable

(* No quantum plays a frame of an earlier epoch, and every quantum plays   *)
(* frames in mixing order without a gap or a repeat.                       *)
THEOREM OnlyFreshFramesInOrder == Spec => [](NoStaleFrames /\ InMixingOrder)
<1>1. IInv /\ FrameInv => NoStaleFrames /\ InMixingOrder
  <2> SUFFICES ASSUME IInv, FrameInv PROVE NoStaleFrames /\ InMixingOrder
    OBVIOUS
  <2>1. /\ readIndex \in Index /\ output \in Seq(Frame)
        /\ Len(output) \in 0 .. Quantum
        /\ cpc = "copy" => cEpoch = epochAck /\ ~Flushing
    BY FillAssumption DEF IInv, TypeOK, HandshakeInv, Flushing
  <2>2. ASSUME NEW i \in 1 .. Len(output)
        PROVE  /\ output[i].epoch = epochAck
               /\ output[i].index = Advance(readIndex, i - 1)
    <3> DEFINE k == i - 1
    <3>1. k \in 0 .. Quantum - 1 /\ k < Len(output) /\ k + 1 = i
      BY <2>1, FillAssumption
    <3> HIDE DEF k
    <3>2. output[k + 1] = FrameAt(k)
      BY <3>1 DEF FrameInv, CopiedFrames
    <3>3. output[i] = [epoch |-> epochAck, index |-> Advance(readIndex, k)]
      BY <3>1, <3>2 DEF FrameAt
    <3>4. QED BY <3>3 DEF k
  <2>3. NoStaleFrames
    <3>1. \A i \in 1 .. Len(output) : output[i].epoch = epochAck
      BY <2>2
    <3>2. QED BY <2>1, <3>1 DEF NoStaleFrames
  <2>4. InMixingOrder
    <3> SUFFICES ASSUME NEW i \in 1 .. Len(output) - 1
                 PROVE  output[i + 1].index = Advance(output[i].index, 1)
      BY DEF InMixingOrder
    <3>0. i \in 1 .. Len(output) /\ i + 1 \in 1 .. Len(output) /\ (i + 1) - 1 = i
      BY <2>1
    <3>1. output[i].index = Advance(readIndex, i - 1)
      BY <2>2, <3>0
    <3>2. output[i + 1].index = Advance(readIndex, i)
      BY <2>2, <3>0
    <3>3. i - 1 \in 0 .. Capacity /\ 1 \in 0 .. Capacity /\ (i - 1) + 1 <= Capacity
      BY <2>1, CapacityAssumption, FillAssumption
    <3>4. Advance(Advance(readIndex, i - 1), 1) = Advance(readIndex, (i - 1) + 1)
      BY <2>1, <3>3, AdvanceTwice
    <3>5. (i - 1) + 1 = i
      BY <3>0
    <3>6. QED BY <3>1, <3>2, <3>4, <3>5
  <2>5. QED BY <2>3, <2>4
<1>2. QED
  BY <1>1, InitInv, StepInv, FrameInit, FrameStep, PTL DEF Spec

-----------------------------------------------------------------------------
(* Prefill.  Until a quantum plays, what is ready stays ready, and a flush *)
(* finds the state word changed before the epoch.                          *)
StartInv ==
  /\ epochAck # epoch \/ ppc = "bumpEpoch" => state # "RUNNING"
  /\ state = "RUNNING" \/ ppc = "setRunning" \/ Playing =>
       playedSinceFlush \/ AvailableFrames >= StartFrames

(* Nothing is ready at first, and nothing runs.                            *)
LEMMA StartInit == Init => StartInv
  BY DEF Init, StartInv, Playing

(* Every step keeps it.                                                    *)
LEMMA StartStep == IInv /\ StartInv /\ [Next]_vars => StartInv'
<1> SUFFICES ASSUME IInv, StartInv, [Next]_vars PROVE StartInv'
  OBVIOUS
<1>1. /\ writeIndex \in Index /\ readIndex \in Index /\ StartFrames \in Nat /\ Capacity \in Nat
      /\ AvailableFrames \in 0 .. Capacity
  BY FillAssumption, CapacityAssumption, DistanceType
     DEF IInv, TypeOK, ClaimInv, ClaimsAreDisjoint, AvailableFrames
<1>2. ASSUME UNCHANGED <<writeIndex, readIndex>> PROVE AvailableFrames' = AvailableFrames
  BY <1>2 DEF AvailableFrames
<1>3. CASE UNCHANGED vars
  BY <1>2, <1>3 DEF vars, header, producer, consumer, history, StartInv, Playing
<1>4. CASE Requests \/ BumpEpoch
  <2>1. CASE Stop \/ BumpEpoch
    BY <1>2, <2>1 DEF Stop, BumpEpoch, StartInv, Playing, header, consumer, history
  <2>2. CASE ~Stop /\ ~BumpEpoch
    <3>1. /\ state' \in {"MUTED", "PREFILL"} /\ ppc' = "bumpEpoch"
          /\ UNCHANGED <<writeIndex, readIndex, cpc, playedSinceFlush>>
      BY <1>4, <2>2 DEF Requests, Install, SetMuted, Transition, RequestEpoch, MuteState,
                        consumer, history
    <3>2. QED BY <1>2, <3>1 DEF StartInv, Playing
  <2>3. QED BY <2>1, <2>2
<1>5. CASE RefillSteps
  <2>1. /\ UNCHANGED <<epoch, epochAck, cpc, playedSinceFlush, readIndex>>
        /\ ppc' # "bumpEpoch" /\ epochAck = epoch
    BY <1>5 DEF RefillSteps, Refill, ReadFill, Mix, MixNothing, ReadFree, WriteFrame,
                PublishWrite, ReadFinal, SetRunning, header, consumer, history,
                EpochAcknowledged, IInv, HandshakeInv, Refilling
  <2>2. CASE PublishWrite
    <3>1. /\ writable \in 0 .. Capacity /\ AvailableFrames + writable <= Capacity
          /\ writeIndex' = Advance(writeIndex, writable) /\ state' = state
          /\ ppc' # "setRunning"
      BY <2>2 DEF PublishWrite, IInv, TypeOK, ClaimInv, ClaimsAreDisjoint
    <3>2. AvailableFrames' = AvailableFrames + writable
      BY <1>1, <2>1, <3>1, DistanceGrows DEF AvailableFrames
    <3>3. AvailableFrames' >= AvailableFrames
      BY <1>1, <3>1, <3>2
    <3>4. AvailableFrames >= StartFrames => AvailableFrames' >= StartFrames
      BY <1>1, <3>1, <3>2
    <3>5. QED BY <2>1, <3>1, <3>4 DEF StartInv, Playing
  <2>3. CASE ReadFinal \/ SetRunning
    BY <1>2, <2>1, <2>3 DEF ReadFinal, SetRunning, Prefilled, StartInv, Playing, header
  <2>4. CASE ~PublishWrite /\ ~ReadFinal /\ ~SetRunning
    <3>1. UNCHANGED <<writeIndex, state>> /\ ppc' # "setRunning"
      BY <1>5, <2>4 DEF RefillSteps, Refill, ReadFill, Mix, MixNothing, ReadFree, WriteFrame,
                        header
    <3>2. QED BY <1>2, <2>1, <3>1 DEF StartInv, Playing
  <2>5. QED BY <2>2, <2>3, <2>4
<1>6. CASE Flush \/ Acknowledge
  <2>1. /\ epochAck # epoch /\ ~Refilling /\ ~Playing /\ ~Playing'
        /\ UNCHANGED <<state, ppc>>
    BY <1>6 DEF Flush, Acknowledge, IInv, TypeOK, HandshakeInv, Flushing, Refilling, Playing,
                producer
  <2>2. QED BY <2>1 DEF StartInv, Refilling
<1>7. CASE PublishRead
  BY <1>7 DEF PublishRead, StartInv, producer
<1>8. CASE LoadEpoch \/ LoadWrite \/ LoadState \/ LoadAvailable \/ CopyFrame
  <2>1. /\ UNCHANGED <<writeIndex, readIndex, state, epoch, epochAck, ppc, playedSinceFlush>>
        /\ Playing' => Playing \/ state = "RUNNING"
    BY <1>8 DEF LoadEpoch, LoadWrite, LoadState, LoadAvailable, CopyFrame, Playing, header,
                producer, history
  <2>2. QED BY <1>2, <2>1 DEF StartInv
<1>9. QED BY <1>3, <1>4, <1>5, <1>6, <1>7, <1>8 DEF Next, Consume

(* The first quantum after a flush finds at least StartFrames frames (the  *)
(* prefill of refill, and the order of the two words that                  *)
(* requestAudioPcmEpoch writes), for every fill level.                     *)
THEOREM PrefillWorks == Spec => []FirstQuantumIsPrefilled
<1>1. StartInv => FirstQuantumIsPrefilled
  BY DEF StartInv, FirstQuantumIsPrefilled, Playing
<1>2. QED BY <1>1, InitInv, StepInv, StartInit, StartStep, PTL DEF Spec

-----------------------------------------------------------------------------
(* The refinement mapping: the queue that the ring stands for, and the     *)
(* quantum in flight.                                                      *)
Filled ==
  [i \in 1 .. AvailableFrames |-> samples[SlotOf(Advance(readIndex, i - 1))]]
InFlight == epochAck # epoch /\ cpc \in {"loadState", "loadAvailable", "copy"}
FifoSame == UNCHANGED <<Filled, epoch, epochAck, InFlight, played>>

(* Where a step starts from.                                               *)
LEMMA FilledIs ==
  ASSUME IInv
  PROVE  /\ AvailableFrames \in 0 .. Capacity /\ Capacity \in Nat \ {0}
         /\ HasLength(Filled, AvailableFrames) /\ Len(Filled) = AvailableFrames
         /\ writeIndex \in Index /\ readIndex \in Index
<1>1. writeIndex \in Index /\ readIndex \in Index /\ AvailableFrames <= Capacity
  BY DEF IInv, TypeOK, ClaimInv, ClaimsAreDisjoint
<1>2. AvailableFrames \in 0 .. Capacity /\ Capacity \in Nat \ {0}
  BY <1>1, DistanceType, CapacityAssumption DEF AvailableFrames
<1>3. HasLength(Filled, AvailableFrames)
  BY DEF Filled, HasLength
<1>4. Len(Filled) = AvailableFrames
  <2>1. PICK n \in Nat : n = AvailableFrames
    BY <1>2
  <2>2. PICK q : q = Filled
    OBVIOUS
  <2>3. q = [i \in 1 .. n |-> q[i]]
    BY <1>3, <2>1, <2>2 DEF HasLength
  <2>4. Len(q) = n
    BY <2>3
  <2>5. QED BY <2>1, <2>2, <2>4
<1>5. QED BY <1>1, <1>2, <1>3, <1>4

(* A frame that is being written is behind the queue.                      *)
LEMMA WritingIsQuiet ==
  ASSUME IInv, WriteFrame
  PROVE  FifoSame
<1> DEFINE i == Advance(writeIndex, pcopied)
<1>1. /\ ppc = "write" /\ pcopied < writable /\ pcopied \in 0 .. Capacity
      /\ writable \in 0 .. Capacity /\ AvailableFrames + writable <= Capacity
      /\ samples \in [Slot -> Frame]
  BY DEF WriteFrame, IInv, TypeOK, ClaimInv, ClaimsAreDisjoint
<1>2. /\ UNCHANGED <<writeIndex, readIndex, epoch, epochAck, cpc, played>>
      /\ samples' = [samples EXCEPT ![SlotOf(i)] = [epoch |-> epoch, index |-> i]]
  BY DEF WriteFrame, header, consumer, history
<1>3. i = Advance(readIndex, AvailableFrames + pcopied)
  BY <1>1, FilledIs, AdvanceFromRead DEF AvailableFrames
<1>4. ASSUME NEW k \in 1 .. AvailableFrames
      PROVE  samples'[SlotOf(Advance(readIndex, k - 1))] = samples[SlotOf(Advance(readIndex, k - 1))]
  <2>1. /\ k - 1 \in 0 .. Capacity /\ AvailableFrames + pcopied \in 0 .. Capacity
        /\ k - 1 < AvailableFrames + pcopied /\ AvailableFrames + pcopied < k - 1 + Capacity
    BY <1>1, FilledIs
  <2>2. SlotOf(Advance(readIndex, k - 1)) # SlotOf(i)
    BY <1>3, <2>1, FilledIs, SlotsDiffer
  <2>3. SlotOf(Advance(readIndex, k - 1)) \in Slot
    BY <2>1, FilledIs, AdvanceType, SlotType
  <2>4. QED BY <1>1, <1>2, <2>2, <2>3
<1>5. AvailableFrames' = AvailableFrames
  BY <1>2 DEF AvailableFrames
<1>6. Filled' = Filled
  BY <1>2, <1>4, <1>5 DEF Filled
<1>7. QED BY <1>2, <1>6 DEF FifoSame, InFlight

(* Publishing frames delivers them.                                        *)
LEMMA PublishingDelivers ==
  ASSUME IInv, IInv', FrameInv, PublishWrite
  PROVE  Fifo!Deliver \/ FifoSame
<1>1. /\ ppc = "write" /\ pcopied = writable /\ writable \in 0 .. Capacity
      /\ AvailableFrames + writable <= Capacity /\ epochAck = epoch
      /\ writeIndex' = Advance(writeIndex, writable)
      /\ UNCHANGED <<readIndex, epoch, epochAck, samples, cpc, played>>
  BY DEF PublishWrite, IInv, TypeOK, ClaimInv, ClaimsAreDisjoint, HandshakeInv, Refilling,
         consumer, history
<1>2. PICK n \in 0 .. Capacity, m \in 0 .. Capacity :
        n = AvailableFrames /\ m = writable /\ n + m <= Capacity /\ Capacity \in Nat
  BY <1>1, FilledIs
<1>3. AvailableFrames' = n + m
  BY <1>1, <1>2, FilledIs, DistanceGrows DEF AvailableFrames
<1>4. PICK q, t : q = Filled /\ t = Filled'
  OBVIOUS
<1>5. HasLength(q, n) /\ HasLength(t, n + m)
  BY <1>1, <1>2, <1>3, <1>4 DEF Filled, HasLength
<1>6. \A i \in 1 .. n + m : t[i] = samples[SlotOf(Advance(readIndex, i - 1))]
  BY <1>1, <1>3, <1>4 DEF Filled
<1>7. ASSUME NEW i \in 1 .. n PROVE t[i] = q[i]
  <2>1. i \in 1 .. n + m /\ i \in 1 .. AvailableFrames
    BY <1>2
  <2>2. q[i] = samples[SlotOf(Advance(readIndex, i - 1))]
    BY <1>4, <2>1 DEF Filled
  <2>3. QED BY <1>6, <2>1, <2>2
<1>8. /\ Len(q) = n /\ Len(t) = n + m /\ SubSeq(t, 1, n) = q /\ SubSeq(q, 1, n) = q
  <2>1. n \in Nat /\ m \in Nat /\ n + 0 = n
    BY <1>2
  <2>2. Len(q) = n /\ Len(t) = n + m /\ SubSeq(t, 1, n) = q
    BY <1>5, <1>7, <2>1, StartOfSequence
  <2>3. SubSeq(q, 1, n) = q
    BY <1>5, <2>1, StartOfSequence
  <2>4. QED BY <2>2, <2>3
<1>9. CASE m = 0
  <2>1. n + m = n
    BY <1>2, <1>9
  <2>2. t = [i \in 1 .. n |-> t[i]] /\ q = [i \in 1 .. n |-> q[i]]
    BY <1>5, <2>1 DEF HasLength
  <2>3. [i \in 1 .. n |-> t[i]] = [i \in 1 .. n |-> q[i]]
    BY <1>7
  <2>4. t = q
    BY <2>2, <2>3
  <2>5. QED BY <1>1, <1>4, <2>4 DEF FifoSame, InFlight
<1>10. CASE m # 0
  <2>1. Fifo!IsStrictPrefix(q, t)
    BY <1>2, <1>8, <1>10 DEF Fifo!IsStrictPrefix, Fifo!IsPrefix
  <2>2. ASSUME NEW i \in n + 1 .. n + m PROVE t[i].epoch = epoch
    <3>1. i - 1 \in 0 .. Capacity - 1 /\ i - 1 < AvailableFrames + pcopied /\ i \in 1 .. n + m
      BY <1>1, <1>2, <2>2
    <3>2. samples[SlotOf(Advance(readIndex, i - 1))] = FrameAt(i - 1)
      BY <3>1 DEF FrameInv, StoredFrames
    <3>3. QED BY <1>1, <1>6, <3>1, <3>2 DEF FrameAt
  <2>3. InFlight' = InFlight
    BY <1>1 DEF InFlight
  <2>4. QED
    BY <1>1, <1>2, <1>4, <1>8, <2>1, <2>2, <2>3 DEF Fifo!Deliver, Filled, InFlight
<1>11. QED BY <1>9, <1>10

(* A quantum takes the oldest frames.                                      *)
LEMMA QuantumPlays ==
  ASSUME IInv, IInv', FrameInv, PublishRead
  PROVE  Fifo!Play
<1>1. /\ cpc = "copy" /\ Len(output) = consumed /\ consumed \in 0 .. Quantum
      /\ consumed <= AvailableFrames /\ output \in Seq(Frame) /\ Quantum \in Nat
      /\ readIndex' = Advance(readIndex, consumed) /\ played' = output /\ cpc' = "idle"
      /\ UNCHANGED <<writeIndex, epoch, epochAck, samples>>
  BY FillAssumption DEF PublishRead, IInv, TypeOK, ClaimInv, ClaimsAreDisjoint
<1>2. PICK n \in Nat, d \in 0 .. Capacity :
        n = consumed /\ d = AvailableFrames /\ n \in 0 .. d /\ n \in 0 .. Capacity /\ d \in Nat
        /\ Capacity \in Nat /\ d - n \in Nat /\ n + (d - n) = d
  BY <1>1, FilledIs
<1>3. AvailableFrames' = d - n
  BY <1>1, <1>2, FilledIs, DistanceShrinks DEF AvailableFrames
<1>4. PICK q, t, o : q = Filled /\ t = Filled' /\ o = output
  OBVIOUS
<1>5. HasLength(q, d) /\ HasLength(t, d - n) /\ HasLength(o, n)
  <2>1. HasLength(q, d) /\ HasLength(t, d - n)
    BY <1>1, <1>2, <1>3, <1>4 DEF Filled, HasLength
  <2>2. HasLength(o, n)
    BY <1>1, <1>2, <1>4 DEF HasLength
  <2>3. QED BY <2>1, <2>2
<1>6. \A i \in 1 .. d : q[i] = samples[SlotOf(Advance(readIndex, i - 1))]
  BY <1>2, <1>4 DEF Filled
<1>7. ASSUME NEW i \in 1 .. n PROVE q[i] = o[i]
  <2>1. PICK k \in 0 .. Quantum - 1 : k = i - 1 /\ k + 1 = i /\ k < n /\ k \in 0 .. Capacity - 1
                                      /\ i \in 1 .. d
    BY <1>1, <1>2, <1>7
  <2>2. o[k + 1] = FrameAt(k)
    BY <1>1, <1>2, <1>4, <2>1 DEF FrameInv, CopiedFrames
  <2>3. k < AvailableFrames + pcopied
    BY <1>2, <2>1 DEF IInv, TypeOK
  <2>4. samples[SlotOf(Advance(readIndex, k))] = FrameAt(k)
    BY <2>1, <2>3 DEF FrameInv, StoredFrames
  <2>5. QED BY <1>6, <2>1, <2>2, <2>4
<1>8. ASSUME NEW i \in 1 .. d - n PROVE t[i] = q[i + n]
  <2>1. /\ i - 1 \in 0 .. Capacity /\ n + (i - 1) <= Capacity /\ i + n \in 1 .. d
        /\ n + (i - 1) = i + n - 1
    BY <1>2, <1>8
  <2>2. Advance(readIndex', i - 1) = Advance(readIndex, i + n - 1)
    BY <1>1, <1>2, <2>1, FilledIs, AdvanceTwice
  <2>3. t[i] = samples[SlotOf(Advance(readIndex', i - 1))]
    BY <1>1, <1>3, <1>4, <1>8 DEF Filled
  <2>4. QED BY <1>6, <2>1, <2>2, <2>3
<1>9. SubSeq(q, 1, n) = o
  BY <1>2, <1>5, <1>7, StartOfSequence
<1>10. Len(q) = d /\ SubSeq(q, n + 1, d) = t
  BY <1>2, <1>5, <1>8, RestOfSequence
<1>11. (epochAck = epoch \/ InFlight) /\ InFlight' = FALSE
  BY <1>1 DEF InFlight
<1>12. n <= Quantum /\ n \in 0 .. Len(q)
  BY <1>1, <1>2, <1>10
<1>13. /\ epochAck = epoch \/ InFlight
       /\ \E x \in 0 .. Len(Filled) :
            /\ x <= Quantum
            /\ played' = SubSeq(Filled, 1, x)
            /\ Filled' = SubSeq(Filled, x + 1, Len(Filled))
       /\ InFlight' = FALSE
       /\ UNCHANGED <<epoch, epochAck>>
  BY <1>1, <1>4, <1>9, <1>10, <1>11, <1>12
<1>14. QED BY <1>13 DEF Fifo!Play, Filled, InFlight

(* Every step of the two threads is one of the queue's, or none.           *)
LEMMA StepOfFifo ==
  ASSUME IInv, IInv', FrameInv, [Next]_vars
  PROVE  Fifo!Next \/ FifoSame
<1>1. ASSUME UNCHANGED <<writeIndex, readIndex, samples>> PROVE Filled' = Filled
  BY <1>1 DEF Filled, AvailableFrames
<1>2. ASSUME UNCHANGED <<writeIndex, readIndex, samples, epoch, epochAck, played>>,
             cpc' = cpc \/ epochAck = epoch \/ (Flushing' /\ cpc = "idle")
      PROVE  FifoSame
  <2>1. InFlight' = InFlight
    BY <1>2 DEF InFlight, Flushing
  <2>2. QED BY <1>1, <1>2, <2>1 DEF FifoSame
<1>3. CASE Requests \/ UNCHANGED vars
  <2>1. UNCHANGED <<writeIndex, readIndex, samples, epoch, epochAck, played, cpc>>
    BY <1>3 DEF Requests, Install, SetMuted, Transition, Stop, RequestEpoch, vars, header,
                consumer, history
  <2>2. QED BY <1>2, <2>1
<1>4. CASE BumpEpoch
  <2>1. /\ epoch' = epoch + 1 /\ epochAck <= epoch /\ epoch \in Nat /\ epochAck \in Nat
        /\ UNCHANGED <<writeIndex, readIndex, samples, epochAck, played, cpc>>
    BY <1>4 DEF BumpEpoch, IInv, EpochInv, TypeOK, consumer, history
  <2>2. InFlight' \in (IF epochAck = epoch THEN BOOLEAN ELSE {FALSE, InFlight})
    BY <2>1 DEF InFlight
  <2>3. QED BY <1>1, <2>1, <2>2 DEF Fifo!Next, Fifo!Request, Filled, InFlight
<1>5. CASE RefillSteps
  <2>1. CASE WriteFrame
    BY <2>1, WritingIsQuiet
  <2>2. CASE PublishWrite
    BY <2>2, PublishingDelivers DEF Fifo!Next
  <2>3. CASE ~WriteFrame /\ ~PublishWrite
    <3>1. UNCHANGED <<writeIndex, readIndex, samples, epoch, epochAck, played, cpc>>
      BY <1>5, <2>3 DEF RefillSteps, Refill, ReadFill, Mix, MixNothing, ReadFree, ReadFinal,
                        SetRunning, header, consumer, history
    <3>2. QED BY <1>2, <3>1
  <2>4. QED BY <2>1, <2>2, <2>3
<1>6. CASE LoadEpoch
  <2>1. /\ UNCHANGED <<writeIndex, readIndex, samples, epoch, epochAck, played>>
        /\ cpc = "idle" /\ (epochAck = epoch \/ cpc' = "loadWrite")
    BY <1>6 DEF LoadEpoch, header, history
  <2>2. QED BY <1>2, <2>1 DEF Flushing
<1>7. CASE LoadWrite
  <2>1. /\ UNCHANGED <<writeIndex, readIndex, samples, epoch, epochAck, played>>
        /\ InFlight' = InFlight
    BY <1>7 DEF LoadWrite, header, history, InFlight
  <2>2. QED BY <1>1, <2>1 DEF FifoSame
<1>8. CASE Flush
  <2>1. /\ readIndex' = writeIndex /\ writeIndex' = writeIndex
        /\ UNCHANGED <<epoch, epochAck, played>> /\ cpc = "flush" /\ cpc' = "acknowledge"
        /\ epochAck < cEpoch /\ cEpoch <= epoch
        /\ epochAck \in Int /\ cEpoch \in Int /\ epoch \in Int
    BY <1>8 DEF Flush, IInv, HandshakeInv, Flushing, TypeOK
  <2>2. AvailableFrames' = 0
    BY <2>1, FilledIs, DistanceSame DEF AvailableFrames
  <2>3. Filled' = <<>> /\ epochAck # epoch /\ ~InFlight /\ InFlight' = InFlight
    BY <2>1, <2>2 DEF Filled, InFlight
  <2>4. QED BY <2>1, <2>3 DEF Fifo!Next, Fifo!Discard, Filled, InFlight
<1>9. CASE Acknowledge
  <2>1. /\ readIndex = writeIndex /\ epochAck' = cEpoch /\ cpc = "acknowledge" /\ cpc' = "idle"
        /\ UNCHANGED <<writeIndex, readIndex, samples, epoch, played>>
        /\ epochAck < cEpoch /\ cEpoch <= epoch
        /\ epochAck \in Int /\ cEpoch \in Int /\ epoch \in Int
    BY <1>9 DEF Acknowledge, IInv, HandshakeInv, Flushing, TypeOK, history
  <2>2. AvailableFrames = 0
    BY <2>1, FilledIs, DistanceSame DEF AvailableFrames
  <2>3. Filled = <<>> /\ ~InFlight /\ InFlight' = InFlight /\ epochAck' \in epochAck + 1 .. epoch
    BY <2>1, <2>2 DEF Filled, InFlight
  <2>4. QED BY <1>1, <2>1, <2>3 DEF Fifo!Next, Fifo!Acknowledge, Filled, InFlight
<1>10. CASE LoadState
  <2>1. /\ UNCHANGED <<writeIndex, readIndex, samples, epoch, epochAck, played>>
        /\ cpc = "loadState" /\ cpc' \in {"loadAvailable", "idle"}
    BY <1>10 DEF LoadState, header, history
  <2>2. CASE InFlight' = InFlight
    BY <1>1, <2>1, <2>2 DEF FifoSame
  <2>3. CASE InFlight' # InFlight
    <3>1. InFlight /\ InFlight' = FALSE
      BY <2>1, <2>3 DEF InFlight
    <3>2. QED BY <1>1, <2>1, <3>1 DEF Fifo!Next, Fifo!StaySilent, Filled, InFlight
  <2>4. QED BY <2>2, <2>3
<1>11. CASE LoadAvailable \/ CopyFrame
  <2>1. /\ UNCHANGED <<writeIndex, readIndex, samples, epoch, epochAck, played>>
        /\ InFlight' = InFlight
    BY <1>11 DEF LoadAvailable, CopyFrame, header, history, InFlight
  <2>2. QED BY <1>1, <2>1 DEF FifoSame
<1>12. CASE PublishRead
  BY <1>12, QuantumPlays DEF Fifo!Next
<1>13. QED
  BY <1>3, <1>4, <1>5, <1>6, <1>7, <1>8, <1>9, <1>10, <1>11, <1>12 DEF Next, Consume

(* The ring and its two threads (audio-pcm-ring.js, audio-pcm-producer.js, *)
(* audio-worklet-processor.js) implement the queue of frames: one frame is *)
(* played once and in order, a request empties the queue before it is      *)
(* acknowledged, and at most one quantum that began before a request is    *)
(* still heard, for every capacity and range of the index words.           *)
THEOREM RingImplementsFifo == Spec => ImplementsFifo
<1>1. Init => Fifo!Init
  <2> SUFFICES ASSUME Init PROVE Fifo!Init
    OBVIOUS
  <2>1. AvailableFrames = 0 /\ epoch = 0 /\ epochAck = 0 /\ played = <<>>
    BY CapacityAssumption DEF Init, AvailableFrames, Distance
  <2>2. Filled = <<>> /\ InFlight = FALSE
    BY <2>1 DEF Filled, InFlight
  <2>3. QED BY <2>1, <2>2 DEF Fifo!Init, Filled, InFlight
<1>2. IInv /\ IInv' /\ FrameInv /\ [Next]_vars => Fifo!Next \/ FifoSame
  BY StepOfFifo
<1>3. QED
  BY <1>1, <1>2, InitInv, StepInv, FrameInit, FrameStep, PTL
     DEF Spec, ImplementsFifo, Fifo!Spec, Fifo!vars, FifoSame, Filled, InFlight
=============================================================================
