------------------------- MODULE CommandRingProofs --------------------------
(***************************************************************************)
(* Proofs about CommandRing, for every capacity, arena, window and range   *)
(* of the index words that satisfies the assumptions of that module: the   *)
(* indices of the video thread and of the worker never pass one another,   *)
(* no record is overwritten before it is replayed or dropped, a pass is    *)
(* encoded by one drain, and the ring implements the queue of whole passes *)
(* (ReplayQueue).  CommandRingArenaProofs is about the payloads.           *)
(***************************************************************************)
EXTENDS CommandRing, RingArithmetic, WellFoundedInduction

-----------------------------------------------------------------------------
(* Indices.  A distance is the plain difference, brought back into the     *)
(* range of the words if it is negative.                                   *)
LEMMA DistanceIs ==
  ASSUME NEW w \in Index, NEW r \in Index
  PROVE  /\ Distance(w, r) = IF w >= r THEN w - r ELSE w - r + IndexModulus
         /\ Distance(w, r) \in 0 .. IndexModulus - 1
  BY RingAssumption DEF Distance, Index

(* An index n records further on wraps at most once.                       *)
LEMMA AdvanceIs ==
  ASSUME NEW i \in Index, NEW n \in 0 .. IndexModulus - 1
  PROVE  /\ Advance(i, n) = IF i + n < IndexModulus THEN i + n ELSE i + n - IndexModulus
         /\ Advance(i, n) \in Index
  BY RingAssumption DEF Advance, Index

(* Where the record k places behind i stands, seen from i.                 *)
LEMMA DistanceOfAdvance ==
  ASSUME NEW i \in Index, NEW n \in 0 .. IndexModulus - 1
  PROVE  Distance(Advance(i, n), i) = n
  BY RingAssumption DEF Distance, Advance, Index

(* Going as far as an index is away leads to it.                           *)
LEMMA AdvanceByDistance ==
  ASSUME NEW w \in Index, NEW r \in Index
  PROVE  Advance(r, Distance(w, r)) = w
  BY RingAssumption DEF Distance, Advance, Index

(* Going on in two steps or in one.                                        *)
LEMMA AdvanceTwice ==
  ASSUME NEW i \in Index, NEW a \in 0 .. IndexModulus - 1,
         NEW b \in 0 .. IndexModulus - 1, a + b < IndexModulus
  PROVE  Advance(Advance(i, a), b) = Advance(i, a + b)
  BY RingAssumption DEF Advance, Index

(* Moving the far end on adds to a distance.                               *)
LEMMA DistanceGrows ==
  ASSUME NEW w \in Index, NEW r \in Index, NEW n \in 0 .. IndexModulus - 1,
         Distance(w, r) + n < IndexModulus
  PROVE  Distance(Advance(w, n), r) = Distance(w, r) + n
  BY RingAssumption DEF Distance, Advance, Index

(* Moving the near end on takes from it.                                   *)
LEMMA DistanceShrinks ==
  ASSUME NEW w \in Index, NEW r \in Index, NEW n \in 0 .. IndexModulus - 1,
         n <= Distance(w, r)
  PROVE  Distance(w, Advance(r, n)) = Distance(w, r) - n
  BY RingAssumption DEF Distance, Advance, Index

(* Of three indices in this order, the distances add up.                   *)
LEMMA DistancesAdd ==
  ASSUME NEW w \in Index, NEW n \in Index, NEW r \in Index,
         Distance(n, r) <= Distance(w, r)
  PROVE  Distance(w, r) = Distance(n, r) + Distance(w, n)
  BY RingAssumption DEF Distance, Index

(* Nothing lies between an index and itself, and something lies between    *)
(* two that differ.                                                        *)
LEMMA DistanceZero ==
  ASSUME NEW w \in Index, NEW r \in Index
  PROVE  Distance(w, r) = 0 <=> w = r
  BY RingAssumption DEF Distance, Index

(* Two indices at different distances, less than a capacity apart, have    *)
(* different slots, also where the index words wrap.                       *)
LEMMA SlotsDiffer ==
  ASSUME NEW i \in Index, NEW a \in 0 .. Capacity, NEW b \in 0 .. Capacity,
         a < b, b < a + Capacity
  PROVE  Advance(i, a) % Capacity # Advance(i, b) % Capacity
<1> USE RingAssumption DEF Index
<1>1. ASSUME NEW n \in 0 .. Capacity
      PROVE  Advance(i, n) % Capacity = (i + n) % Capacity
  <2> DEFINE x == i + n
  <2>1. /\ x \in Int /\ Capacity \in Nat \ {0}
        /\ IndexModulus \in Int /\ IndexModulus % Capacity = 0
    OBVIOUS
  <2>2. n \in 0 .. IndexModulus - 1
    OBVIOUS
  <2>3. Advance(i, n) = IF x < IndexModulus THEN x ELSE x - IndexModulus
    BY <2>2, AdvanceIs
  <2> HIDE DEF x
  <2>4. (x - IndexModulus) % Capacity = x % Capacity
    BY <2>1, ModShift
  <2>5. Advance(i, n) % Capacity = x % Capacity
    BY <2>3, <2>4
  <2>6. QED BY <2>5 DEF x
<1>2. (i + a) % Capacity # (i + b) % Capacity
  <2> DEFINE x == i + a
             y == i + b
  <2>1. x \in Int /\ y \in Int /\ x < y /\ y < x + Capacity /\ Capacity \in Nat \ {0}
    OBVIOUS
  <2> HIDE DEF x, y
  <2>2. x % Capacity # y % Capacity
    BY <2>1, ModDistinct
  <2>3. QED BY <2>2 DEF x, y
<1>3. QED BY <1>1, <1>2

(* An index has a slot of the ring.                                        *)
LEMMA SlotType ==
  ASSUME NEW i \in Index
  PROVE  i % Capacity \in 0 .. Capacity - 1
  BY RemainderIn, RingAssumption DEF Index

(* A set of natural numbers that is not empty has a least element, and Min *)
(* chooses it.                                                             *)
LEMMA MinIsLeast ==
  ASSUME NEW S \in SUBSET Nat, S # {}
  PROVE  Min(S) \in S /\ \A y \in S : Min(S) <= y
<1> DEFINE R == {ss \in Nat \X Nat : ss[1] < ss[2]}
<1>1. IsWellFoundedOn(R, Nat)
  BY NatLessThanWellFounded DEF OpToRel
<1> HIDE DEF R
<1>2. \E x \in S : \A y \in S : ~(<<y, x>> \in R)
  BY <1>1, WFMin
<1>3. ASSUME NEW x \in S, NEW y \in S, ~(<<y, x>> \in R)
      PROVE  x =< y
  BY <1>3 DEF R
<1>4. \E x \in S : \A y \in S : x =< y
  BY <1>2, <1>3
<1>5. QED BY <1>4 DEF Min

-----------------------------------------------------------------------------
(* The inductive invariant.  Everything is said of the records not yet     *)
(* replayed or dropped, counted from next on.                              *)
Waits == Distance(write, next)
NoEnd(n) == \A e \in 0 .. n - 1 : OpAt(next, e) # "end"

(* No pass that begins among the next n records is cut off by the n-th.    *)
Closed(n) ==
  \A b \in 0 .. n - 1 :
    OpAt(next, b) = "begin" => \E e \in b + 1 .. n - 1 : OpAt(next, e) = "end"

(* When the k-th record's turn comes, a pass is open.                      *)
Opened(k) == (passOpen /\ NoEnd(k)) \/ InsidePass(next, k)

Typed ==
  /\ setup \in [mode : Modes, producer : Producers]
  /\ write \in Index /\ read \in Index /\ next \in Index
  /\ seen \in Index /\ limit \in Index
  /\ DOMAIN slots = 0 .. Capacity - 1
  /\ failed \in BOOLEAN /\ passOpen \in BOOLEAN /\ fence \in BOOLEAN
  /\ cpc \in {"idle", "discard", "replay", "release", "scan", "stage", "publish"}
  /\ passRecords \in Nat

(* The worker's indices stand in this order between read and write.        *)
InReplay == cpc \in {"replay", "release"}
CursorsInOrder ==
  /\ Distance(write, read) <= Capacity
  /\ Distance(next, read) <= Distance(write, read)
  /\ cpc = "idle" => next = read
  /\ cpc # "idle" => Distance(seen, next) <= Waits
  /\ InReplay => Distance(limit, next) <= Distance(seen, next)
  /\ cpc = "release" => next # limit /\ OpAt(next, 0) = "upload"

(* A record that waits is still the one that was published there.          *)
WaitingAreKept == \A k \in 0 .. Waits - 1 : Slot(Advance(next, k)).at = Advance(next, k)

(* A batched producer's passes are published whole.                        *)
BatchesAreWhole ==
  Batched => Closed(Waits) /\ (cpc = "discard" => Closed(Distance(seen, next)))

(* What a drain may replay holds the END of every pass it begins, and of   *)
(* the one that is open.                                                   *)
LimitClosesPasses ==
  /\ passOpen => InReplay
  /\ Mode = "atomic" /\ InReplay => Closed(Distance(limit, next))
  /\ Mode # "legacy" /\ passOpen => ~NoEnd(Distance(limit, next))

(* An END finds its pass open, unless the fence is to drop that END.       *)
Dropped(k) == cpc = "discard" /\ fence /\ k < Distance(seen, next) /\ NoEnd(k)
EndsFindTheirPass ==
  FencedPassesAreBatched /\ Mode # "legacy" /\ ~failed =>
    /\ \A k \in 0 .. Waits - 1 :
         OpAt(next, k) = "end" => Opened(k) \/ Dropped(k)
    /\ ~Batched /\ passRecords > 0 => Opened(Waits)

(* Only a session with the load fence drops records.                       *)
FenceIsAllowed ==
  /\ fence => setup.producer \in Fenced
  /\ cpc = "discard" => setup.producer \in Fenced

RInv == Typed /\ CursorsInOrder /\ WaitingAreKept
PInv == RInv /\ BatchesAreWhole /\ LimitClosesPasses /\ EndsFindTheirPass /\ FenceIsAllowed

-----------------------------------------------------------------------------
(* What the three ways to touch the ring do to the records that wait.      *)

(* The distances of records that share the ring.                           *)
LEMMA OldAndNewApart ==
  ASSUME NEW c \in Nat, NEW d \in Nat, NEW e \in Nat, NEW w \in Nat, NEW n \in Nat,
         d = e + w, d + n <= c, NEW k \in 0 .. w - 1, NEW j \in 1 .. n
  PROVE  /\ e + k \in 0 .. c /\ d + (j - 1) \in 0 .. c
         /\ e + k < d + (j - 1) /\ d + (j - 1) < e + k + c
  OBVIOUS

(* The distances of two records published together.                        *)
LEMMA NewApart ==
  ASSUME NEW c \in Nat, NEW d \in Nat, NEW n \in Nat,
         d + n <= c, NEW j \in 0 .. n - 1, NEW i \in 1 .. n, i # j + 1
  PROVE  /\ d + j \in 0 .. c /\ d + (i - 1) \in 0 .. c
         /\ d + j < d + (i - 1) \/ d + (i - 1) < d + j
         /\ d + j < d + (i - 1) + c /\ d + (i - 1) < d + j + c
  OBVIOUS

(* What a publication does, counted from an index it does not move.        *)
Appended(from, W, records, n) ==
  /\ write' \in Index /\ Distance(write, read)' = Distance(write, read) + n
  /\ Distance(write, read)' <= Capacity
  /\ Distance(write', from) = W + n
  /\ \A k \in 0 .. W - 1 : Slot(Advance(from, k))' = Slot(Advance(from, k))
  /\ \A k \in W .. W + n - 1 :
       /\ Slot(Advance(from, k))' = records[k - W + 1]
       /\ Advance(from, k) = Advance(write, k - W)
  /\ DOMAIN slots' = 0 .. Capacity - 1

(* Publishing appends: no record that waits is overwritten.                *)
LEMMA PublishAppends ==
  ASSUME RInv, NEW from \in Index, Distance(from, read) <= Distance(write, read),
         NEW W, W = Distance(write, from), NEW records, NEW n \in 1 .. Capacity,
         Len(records) = n, Publish(records)
  PROVE  Appended(from, W, records, n)
<1> DEFINE d == Distance(write, read)
           e == Distance(from, read)
<1> USE DEF Index
<1>1. /\ write \in Index /\ read \in Index /\ from \in Index
      /\ DOMAIN slots = 0 .. Capacity - 1
      /\ e <= d
  BY DEF RInv, Typed, CursorsInOrder
<1>2. /\ d + n <= Capacity /\ write' = Advance(write, n) /\ read' = read
      /\ slots' = [s \in DOMAIN slots |->
                     IF \E k \in 1 .. n : s = Advance(write, k - 1) % Capacity
                     THEN records[CHOOSE k \in 1 .. n : s = Advance(write, k - 1) % Capacity]
                     ELSE slots[s]]
  BY DEF Publish, RingHasRoom
<1>3. /\ Capacity \in Nat /\ IndexModulus \in Nat /\ 2 * Capacity <= IndexModulus
      /\ Capacity > 0
  BY RingAssumption
<1>4. /\ d \in 0 .. IndexModulus - 1 /\ e \in 0 .. IndexModulus - 1
      /\ W \in 0 .. IndexModulus - 1 /\ d = e + W
  BY <1>1, DistanceIs, DistancesAdd
<1> HIDE DEF Index, d, e
<1>5. n \in 0 .. IndexModulus - 1 /\ d + n < IndexModulus
  BY <1>1, <1>2, <1>3, <1>4
<1>6. /\ write' \in Index /\ Distance(write', read) = d + n
      /\ Distance(write', from) = W + n
  <2>1. W + n < IndexModulus
    BY <1>3, <1>4, <1>5
  <2>2. write' \in Index
    BY <1>1, <1>2, <1>5, AdvanceIs
  <2>3. Distance(write', read) = d + n
    BY <1>1, <1>2, <1>5, DistanceGrows DEF d
  <2>4. Distance(write', from) = W + n
    BY <1>1, <1>2, <1>5, <2>1, DistanceGrows
  <2>5. QED BY <2>2, <2>3, <2>4
<1>7. \A k \in 0 .. W - 1 : Advance(from, k) = Advance(read, e + k)
  <2> SUFFICES ASSUME NEW k \in 0 .. W - 1
               PROVE  Advance(from, k) = Advance(read, e + k)
    OBVIOUS
  <2>1. k \in 0 .. IndexModulus - 1 /\ e + k < IndexModulus
    BY <1>1, <1>3, <1>4, DistanceIs
  <2>2. from = Advance(read, e)
    BY <1>1, AdvanceByDistance DEF e
  <2>3. QED BY <1>1, <1>4, <2>1, <2>2, AdvanceTwice
<1>8. \A j \in 0 .. n - 1 : /\ Advance(from, W + j) = Advance(write, j)
                            /\ Advance(write, j) = Advance(read, d + j)
                            /\ Advance(write, j) \in Index
  <2> SUFFICES ASSUME NEW j \in 0 .. n - 1
               PROVE  /\ Advance(from, W + j) = Advance(write, j)
                      /\ Advance(write, j) = Advance(read, d + j)
                      /\ Advance(write, j) \in Index
    OBVIOUS
  <2>1. /\ j \in 0 .. IndexModulus - 1 /\ d + j < IndexModulus
        /\ W + j < IndexModulus
    BY <1>3, <1>4, <1>5
  <2>2. write = Advance(read, d) /\ write = Advance(from, W)
    BY <1>1, AdvanceByDistance DEF d
  <2>3. Advance(Advance(from, W), j) = Advance(from, W + j)
    BY <1>1, <1>4, <2>1, AdvanceTwice
  <2>4. Advance(Advance(read, d), j) = Advance(read, d + j)
    BY <1>1, <1>4, <2>1, AdvanceTwice
  <2>5. QED BY <1>1, <2>1, <2>2, <2>3, <2>4, AdvanceIs
<1>9. d \in Nat /\ e \in Nat /\ W \in Nat /\ n \in Nat /\ Capacity \in Nat /\ d = e + W
  BY <1>3, <1>4
<1>10. \A k \in 0 .. W - 1 : Slot(Advance(from, k))' = Slot(Advance(from, k))
  <2> SUFFICES ASSUME NEW k \in 0 .. W - 1
               PROVE  Slot(Advance(from, k))' = Slot(Advance(from, k))
    OBVIOUS
  <2> DEFINE s == Advance(from, k) % Capacity
  <2>1. s \in DOMAIN slots
    <3>1. k \in 0 .. IndexModulus - 1
      BY <1>3, <1>4
    <3>2. Advance(from, k) \in Index
      BY <1>1, <3>1, AdvanceIs
    <3>3. QED BY <1>1, <3>2, SlotType
  <2>2. ASSUME NEW j \in 1 .. n PROVE s # Advance(write, j - 1) % Capacity
    <3>1. /\ e + k \in 0 .. Capacity /\ d + (j - 1) \in 0 .. Capacity
          /\ e + k < d + (j - 1) /\ d + (j - 1) < e + k + Capacity
      BY <1>2, <1>9, OldAndNewApart
    <3>2. Advance(read, e + k) % Capacity # Advance(read, d + (j - 1)) % Capacity
      BY <1>1, <3>1, SlotsDiffer
    <3>3. Advance(write, j - 1) = Advance(read, d + (j - 1))
      BY <1>8
    <3>4. QED BY <1>7, <3>2, <3>3
  <2> HIDE DEF s
  <2>3. slots'[s] = slots[s]
    BY <1>2, <2>1, <2>2
  <2>4. QED BY <2>3 DEF s, Slot, Advance
<1>11. \A k \in W .. W + n - 1 :
         /\ Slot(Advance(from, k))' = records[k - W + 1]
         /\ Advance(from, k) = Advance(write, k - W)
  <2> SUFFICES ASSUME NEW k \in W .. W + n - 1
               PROVE  /\ Slot(Advance(from, k))' = records[k - W + 1]
                      /\ Advance(from, k) = Advance(write, k - W)
    OBVIOUS
  <2> DEFINE j == k - W
  <2>0. j \in 0 .. n - 1 /\ k = W + j
    BY <1>4
  <2> HIDE DEF j
  <2> DEFINE s == Advance(write, j) % Capacity
  <2>1. s \in DOMAIN slots
    BY <1>1, <1>8, <2>0, SlotType
  <2> HIDE DEF s
  <2>2. ASSUME NEW i \in 1 .. n, i # j + 1 PROVE s # Advance(write, i - 1) % Capacity
    <3>1. /\ d + j \in 0 .. Capacity /\ d + (i - 1) \in 0 .. Capacity
          /\ d + j < d + (i - 1) \/ d + (i - 1) < d + j
          /\ d + j < d + (i - 1) + Capacity /\ d + (i - 1) < d + j + Capacity
      BY <1>2, <1>9, <2>0, <2>2, NewApart
    <3>2. Advance(read, d + j) % Capacity # Advance(read, d + (i - 1)) % Capacity
      BY <1>1, <3>1, SlotsDiffer
    <3>3. /\ Advance(write, j) = Advance(read, d + j)
          /\ Advance(write, i - 1) = Advance(read, d + (i - 1))
      BY <1>8, <2>0
    <3>4. QED BY <3>2, <3>3 DEF s
  <2>3. j + 1 \in 1 .. n /\ s = Advance(write, (j + 1) - 1) % Capacity
    BY <2>0 DEF s
  <2>4. (CHOOSE i \in 1 .. n : s = Advance(write, i - 1) % Capacity) = j + 1
    BY <2>2, <2>3
  <2>5. slots'[s] = records[j + 1]
    BY <1>2, <2>1, <2>3, <2>4
  <2>6. Advance(from, k) = Advance(write, j)
    BY <1>8, <2>0
  <2>7. slots'[Advance(from, k) % Capacity] = records[j + 1]
    BY <2>5, <2>6 DEF s
  <2>8. QED BY <2>6, <2>7 DEF Slot, Advance, j
<1>12. QED
  BY <1>1, <1>2, <1>6, <1>10, <1>11 DEF Appended, d

(* Handing back the records before next leaves those that wait.            *)
LEMMA HandBackKeeps ==
  ASSUME RInv, next' = next, PublishRead(next)
  PROVE  /\ read' = next
         /\ \A k \in 0 .. Waits - 1 : Slot(Advance(next, k))' = Slot(Advance(next, k))
         /\ DOMAIN slots' = 0 .. Capacity - 1
<1> DEFINE e == Distance(next, read)
<1>1. /\ write \in Index /\ read \in Index /\ next \in Index
      /\ DOMAIN slots = 0 .. Capacity - 1
      /\ e <= Distance(write, read) /\ Distance(write, read) <= Capacity
  BY DEF RInv, Typed, CursorsInOrder
<1>2. /\ read' = next
      /\ slots' = [s \in DOMAIN slots |->
                     IF \E k \in 0 .. e - 1 : s = Advance(read, k) % Capacity
                     THEN Forgotten ELSE slots[s]]
  BY DEF PublishRead
<1>3. /\ Capacity \in Nat /\ IndexModulus \in Nat /\ 2 * Capacity <= IndexModulus
      /\ Capacity > 0
  BY RingAssumption
<1>4. /\ e \in 0 .. IndexModulus - 1 /\ Waits \in 0 .. IndexModulus - 1
      /\ e + Waits <= Capacity
  <2>1. Distance(write, read) \in 0 .. IndexModulus - 1
    BY <1>1, DistanceIs
  <2>2. Distance(write, read) = e + Waits
    BY <1>1, DistancesAdd DEF Waits
  <2>3. e \in 0 .. IndexModulus - 1 /\ Waits \in 0 .. IndexModulus - 1
    BY <1>1, DistanceIs DEF Waits
  <2>4. QED BY <1>1, <2>1, <2>2, <2>3
<1>5. ASSUME NEW k \in 0 .. Waits - 1
      PROVE  Slot(Advance(next, k))' = Slot(Advance(next, k))
  <2> DEFINE s == Advance(next, k) % Capacity
  <2>1. k \in 0 .. IndexModulus - 1 /\ e + k < IndexModulus
    BY <1>3, <1>4
  <2>2. Advance(next, k) \in Index
    BY <1>1, <2>1, AdvanceIs
  <2>3. s \in DOMAIN slots
    BY <1>1, <2>2, SlotType
  <2>4. next = Advance(read, e)
    BY <1>1, AdvanceByDistance
  <2> HIDE DEF e
  <2>5. Advance(next, k) = Advance(read, e + k)
    BY <1>1, <1>4, <2>1, <2>4, AdvanceTwice
  <2> HIDE DEF s
  <2>6. ASSUME NEW j \in 0 .. e - 1 PROVE s # Advance(read, j) % Capacity
    <3>1. /\ j \in 0 .. Capacity /\ e + k \in 0 .. Capacity
          /\ j < e + k /\ e + k < j + Capacity
      BY <1>3, <1>4
    <3>2. Advance(read, j) % Capacity # Advance(read, e + k) % Capacity
      BY <1>1, <3>1, SlotsDiffer
    <3>3. QED BY <2>5, <3>2 DEF s
  <2>7. slots'[s] = slots[s]
    BY <1>2, <2>3, <2>6
  <2>8. QED BY <2>7 DEF s, Slot, Advance
<1>6. QED BY <1>1, <1>2, <1>5

(* Going on by one record: the k-th that waits was the one behind it.      *)
LEMMA StepShifts ==
  ASSUME RInv, Waits > 0, next' = Advance(next, 1),
         UNCHANGED <<write, read, slots>>
  PROVE  /\ next' \in Index /\ Waits' = Waits - 1
         /\ Distance(next, read)' <= Distance(write, read)
         /\ \A k \in 0 .. Waits - 2 : /\ Slot(Advance(next, k))' = Slot(Advance(next, k + 1))
                                      /\ Advance(next, k)' = Advance(next, k + 1)
         /\ \A w \in Index : w # next => /\ Distance(w, next) >= 1
                                         /\ Distance(w, next') = Distance(w, next) - 1
<1>1. /\ write \in Index /\ read \in Index /\ next \in Index
      /\ Distance(next, read) <= Distance(write, read)
  BY DEF RInv, Typed, CursorsInOrder
<1>2. IndexModulus \in Nat /\ IndexModulus > 1
  BY RingAssumption
<1>3. /\ Waits \in 0 .. IndexModulus - 1
      /\ Distance(next, read) \in 0 .. IndexModulus - 1
      /\ Distance(write, read) \in 0 .. IndexModulus - 1
      /\ Distance(write, read) = Distance(next, read) + Waits
  BY <1>1, DistanceIs, DistancesAdd DEF Waits
<1>4. 1 \in 0 .. IndexModulus - 1
  BY <1>2
<1>5. next' \in Index
  BY <1>1, <1>4, AdvanceIs
<1>6. ASSUME NEW w \in Index, w # next
      PROVE  Distance(w, next) >= 1 /\ Distance(w, next') = Distance(w, next) - 1
  <2>1. Distance(w, next) # 0 /\ Distance(w, next) \in 0 .. IndexModulus - 1
    BY <1>1, <1>6, DistanceIs, DistanceZero
  <2>2. Distance(w, next) >= 1
    BY <2>1
  <2>3. QED BY <1>1, <1>4, <2>2, DistanceShrinks
<1>7. Waits' = Waits - 1
  <2>1. write # next
    BY <1>1, DistanceZero DEF Waits
  <2>2. QED BY <1>1, <1>6, <2>1 DEF Waits
<1>8. Distance(next', read) = Distance(next, read) + 1
  <2>1. Distance(next, read) + 1 < IndexModulus
    BY <1>2, <1>3
  <2>2. QED BY <1>1, <1>4, <2>1, DistanceGrows
<1>9. ASSUME NEW k \in 0 .. Waits - 2
      PROVE  /\ Slot(Advance(next, k))' = Slot(Advance(next, k + 1))
             /\ Advance(next, k)' = Advance(next, k + 1)
  <2>1. k \in 0 .. IndexModulus - 1 /\ 1 + k < IndexModulus /\ 1 + k = k + 1
    BY <1>2, <1>3
  <2>2. Advance(next', k) = Advance(next, k + 1)
    BY <1>1, <1>4, <2>1, AdvanceTwice
  <2>3. Slot(Advance(next, k))' = slots'[Advance(next', k) % Capacity]
    BY DEF Slot, Advance
  <2>4. QED BY <2>2, <2>3 DEF Slot, Advance
<1>10. QED BY <1>3, <1>5, <1>6, <1>7, <1>8, <1>9

-----------------------------------------------------------------------------
(* The limit of a drain lies within what it has seen, and in atomic mode   *)
(* it cuts no pass in two.                                                 *)
LEMMA LimitIsSafe ==
  ASSUME Typed, NEW to \in Index, NEW backlog,
         Mode = "legacy" => backlog = Distance(to, next)
  PROVE  /\ ReplayLimit(next, to, backlog) \in Index
         /\ Distance(ReplayLimit(next, to, backlog), next) <= Distance(to, next)
         /\ Mode = "atomic" => Closed(Distance(ReplayLimit(next, to, backlog), next))
<1> DEFINE D == Distance(to, next)
<1>1. next \in Index /\ D \in 0 .. IndexModulus - 1 /\ IndexModulus \in Nat
  BY DistanceIs, RingAssumption DEF Typed
<1>2. ASSUME NEW n \in 0 .. D
      PROVE  Advance(next, n) \in Index /\ Distance(Advance(next, n), next) = n
  <2>1. n \in 0 .. IndexModulus - 1
    BY <1>1
  <2>2. QED BY <1>1, <2>1, AdvanceIs, DistanceOfAdvance
<1>3. CASE Mode = "atomic"
  <2> DEFINE stop == ScanStop(next, to)
             S == {k \in 0 .. D : \/ k = D
                                  \/ k >= Window /\ ~InsidePass(next, k)}
             T == {b \in 0 .. stop - 1 : /\ OpAt(next, b) = "begin"
                                         /\ \A e \in b + 1 .. stop - 1 : OpAt(next, e) # "end"}
  <2>1. stop \in 0 .. D
    <3>1. S \in SUBSET Nat /\ D \in S
      BY <1>1
    <3>2. Min(S) \in S
      BY <3>1, MinIsLeast
    <3>3. QED BY <3>2 DEF ScanStop
  <2>2. ReplayLimit(next, to, backlog) = AtomicLimit(next, to)
    BY <1>3 DEF ReplayLimit
  <2>3. CASE ~InsidePass(next, stop)
    <3>1. ReplayLimit(next, to, backlog) = Advance(next, stop)
      BY <2>2, <2>3 DEF AtomicLimit
    <3>2. Closed(stop)
      BY <2>3 DEF Closed, InsidePass
    <3>3. QED BY <1>1, <1>2, <2>1, <3>1, <3>2
  <2>4. CASE InsidePass(next, stop)
    <3> DEFINE p == PassBegin(next, stop)
    <3>1. ReplayLimit(next, to, backlog) = Advance(next, p)
      BY <2>2, <2>4 DEF AtomicLimit
    <3>2. p = Min(T)
      BY DEF PassBegin
    <3> HIDE DEF stop, p
    <3>3. T \in SUBSET Nat /\ T # {}
      BY <1>1, <2>1, <2>4 DEF InsidePass
    <3>4. p \in T /\ \A b \in T : p <= b
      BY <3>2, <3>3, MinIsLeast
    <3>5. p \in 0 .. D /\ p < stop
      BY <1>1, <2>1, <3>4
    <3>6. ASSUME NEW b \in 0 .. p - 1, OpAt(next, b) = "begin",
                 \A e \in b + 1 .. p - 1 : OpAt(next, e) # "end"
          PROVE  FALSE
      <4>1. ASSUME NEW e \in b + 1 .. stop - 1 PROVE OpAt(next, e) # "end"
        <5>1. OpAt(next, p) = "begin"
          BY <3>4
        <5>2. \A f \in p + 1 .. stop - 1 : OpAt(next, f) # "end"
          BY <3>4
        <5>3. e \in b + 1 .. p - 1 \/ e = p \/ e \in p + 1 .. stop - 1
          BY <1>1, <2>1, <3>5
        <5>4. QED BY <3>6, <5>1, <5>2, <5>3
      <4>2. b \in 0 .. stop - 1
        BY <1>1, <2>1, <3>5
      <4>3. b \in T
        BY <3>6, <4>1, <4>2
      <4>4. QED BY <1>1, <3>4, <3>5, <4>3
    <3>7. Closed(p)
      BY <3>6 DEF Closed
    <3>8. QED BY <1>1, <1>2, <3>1, <3>5, <3>7
  <2>5. QED BY <2>3, <2>4
<1>4. CASE Mode = "legacy"
  <2> DEFINE n == Lesser(D, Window)
  <2>1. n \in 0 .. D
    BY <1>1, RingAssumption DEF Lesser
  <2>2. ReplayLimit(next, to, backlog) = Advance(next, n)
    BY <1>4 DEF ReplayLimit
  <2> HIDE DEF n
  <2>3. QED BY <1>1, <1>2, <1>4, <2>1, <2>2
<1>5. CASE Mode = "budget"
  <2>1. ReplayLimit(next, to, backlog) = to
    BY <1>5 DEF ReplayLimit
  <2>2. QED BY <1>1, <1>5, <2>1
<1>6. QED BY <1>3, <1>4, <1>5, ChoiceAssumption DEF Typed, Mode

-----------------------------------------------------------------------------
(* What is said of the records that wait depends on nothing else.          *)
LEMMA SameWaiting ==
  ASSUME next' = next, NEW W \in Nat,
         \A k \in 0 .. W - 1 : Slot(Advance(next, k))' = Slot(Advance(next, k))
  PROVE  /\ \A k \in 0 .. W - 1 : OpAt(next, k)' = OpAt(next, k)
         /\ \A n \in 0 .. W : /\ NoEnd(n)' <=> NoEnd(n)
                              /\ Closed(n)' <=> Closed(n)
                              /\ InsidePass(next, n)' <=> InsidePass(next, n)
<1>1. \A k \in 0 .. W - 1 : OpAt(next, k)' = OpAt(next, k)
  BY DEF OpAt
<1>2. ASSUME NEW n \in 0 .. W PROVE \A k \in 0 .. n - 1 : OpAt(next, k)' = OpAt(next, k)
  BY <1>1
<1>3. ASSUME NEW n \in 0 .. W PROVE NoEnd(n)' <=> NoEnd(n)
  BY <1>2 DEF NoEnd
<1>4. ASSUME NEW n \in 0 .. W PROVE Closed(n)' <=> Closed(n)
  <2>1. \A b \in 0 .. n - 1 : OpAt(next, b)' = OpAt(next, b)
    BY <1>2
  <2>2. \A b \in 0 .. n - 1 : \A e \in b + 1 .. n - 1 : OpAt(next, e)' = OpAt(next, e)
    BY <1>2
  <2>3. QED BY <2>1, <2>2 DEF Closed
<1>5. ASSUME NEW n \in 0 .. W PROVE InsidePass(next, n)' <=> InsidePass(next, n)
  <2>1. \A b \in 0 .. n - 1 : OpAt(next, b)' = OpAt(next, b)
    BY <1>2
  <2>2. \A b \in 0 .. n - 1 : \A e \in b + 1 .. n - 1 : OpAt(next, e)' = OpAt(next, e)
    BY <1>2
  <2>3. QED BY <2>1, <2>2 DEF InsidePass
<1>6. QED BY <1>1, <1>3, <1>4, <1>5

(* The ranges of the distances that are talked about.                      *)
LEMMA Ranges ==
  ASSUME RInv
  PROVE  /\ Waits \in Nat /\ Waits <= Capacity /\ Waits < IndexModulus
         /\ Distance(seen, next) \in Nat /\ Distance(limit, next) \in Nat
         /\ cpc # "idle" => Distance(seen, next) \in 0 .. Waits
         /\ InReplay => Distance(limit, next) \in 0 .. Waits
<1>1. /\ write \in Index /\ read \in Index /\ next \in Index /\ seen \in Index /\ limit \in Index
      /\ Distance(write, read) <= Capacity /\ Distance(next, read) <= Distance(write, read)
  BY DEF RInv, Typed, CursorsInOrder
<1>2. IndexModulus \in Nat /\ Capacity \in Nat
  BY RingAssumption
<1>3. /\ Waits \in 0 .. IndexModulus - 1 /\ Distance(seen, next) \in 0 .. IndexModulus - 1
      /\ Distance(limit, next) \in 0 .. IndexModulus - 1
      /\ Distance(write, read) \in 0 .. IndexModulus - 1
      /\ Distance(next, read) \in 0 .. IndexModulus - 1
  BY <1>1, DistanceIs DEF Waits
<1>4. Distance(write, read) = Distance(next, read) + Waits
  BY <1>1, DistancesAdd DEF Waits
<1>5. Waits \in Nat /\ Waits <= Capacity /\ Waits < IndexModulus
  BY <1>1, <1>2, <1>3, <1>4
<1>6. cpc # "idle" => Distance(seen, next) \in 0 .. Waits
  BY <1>2, <1>3 DEF RInv, CursorsInOrder
<1>7. InReplay => Distance(limit, next) \in 0 .. Waits
  BY <1>2, <1>3, <1>6 DEF RInv, CursorsInOrder, InReplay
<1>8. QED BY <1>2, <1>3, <1>5, <1>6, <1>7

Staging == {"scan", "stage", "publish"}

(* A step that leaves the indices and the records alone.                   *)
LEMMA QuietStep ==
  ASSUME PInv,
         UNCHANGED <<setup, write, read, slots, next, seen, limit, passOpen>>,
         \/ cpc' = cpc
         \/ cpc = "replay" /\ cpc' = "release" /\ next # limit /\ OpAt(next, 0) = "upload"
         \/ cpc \in Staging /\ cpc' \in Staging,
         failed' \in BOOLEAN, failed => failed',
         passRecords' \in Nat,
         passRecords' = passRecords \/ passRecords' = 0 \/ Batched,
         fence' \in BOOLEAN, fence' = fence \/ (cpc = "idle" /\ setup.producer \in Fenced)
  PROVE  PInv'
<1>1. Typed' /\ CursorsInOrder' /\ WaitingAreKept'
  <2>1. Typed'
    BY DEF PInv, RInv, Typed, Staging
  <2>2. Waits' = Waits /\ \A k : OpAt(next, k)' = OpAt(next, k)
    BY DEF Waits, Distance, OpAt, Slot, Advance
  <2>3. \A k : (Slot(Advance(next, k))' = Slot(Advance(next, k))) /\ Advance(next, k)' = Advance(next, k)
    BY DEF Slot, Advance
  <2>4. CursorsInOrder'
    BY <2>2 DEF PInv, RInv, CursorsInOrder, InReplay, Distance, Staging
  <2>5. WaitingAreKept'
    BY <2>2, <2>3 DEF PInv, RInv, WaitingAreKept
  <2>6. QED BY <2>1, <2>4, <2>5
<1>2. /\ Waits' = Waits
      /\ Distance(seen, next)' = Distance(seen, next)
      /\ Distance(limit, next)' = Distance(limit, next)
      /\ \A k : OpAt(next, k)' = OpAt(next, k)
  BY DEF Waits, Distance, OpAt, Slot, Advance
<1>3. \A n : (NoEnd(n)' <=> NoEnd(n)) /\ (Closed(n)' <=> Closed(n)) /\ (Opened(n)' <=> Opened(n))
  BY <1>2 DEF NoEnd, Closed, Opened, InsidePass
<1>4. BatchesAreWhole'
  BY <1>2, <1>3 DEF PInv, BatchesAreWhole, Batched, Staging
<1>5. LimitClosesPasses'
  BY <1>2, <1>3 DEF PInv, LimitClosesPasses, InReplay, Mode, Staging
<1>6. EndsFindTheirPass'
  BY <1>2, <1>3 DEF PInv, EndsFindTheirPass, FencedPassesAreBatched, Dropped, Mode, Batched, Staging
<1>7. FenceIsAllowed'
  BY DEF PInv, FenceIsAllowed, Staging
<1>8. QED BY <1>1, <1>4, <1>5, <1>6, <1>7 DEF PInv, RInv

(* A publication keeps the invariant if the records it appends open and    *)
(* close passes as the video thread does.                                  *)
LEMMA PublishStep ==
  ASSUME PInv, NEW records, NEW n \in 1 .. Capacity, Len(records) = n, Publish(records),
         passRecords' \in Nat,
         \A j \in 1 .. n : records[j].at = Advance(write, j - 1),
         Batched => \A j \in 1 .. n : records[j].op = "begin" =>
                      \E i \in j + 1 .. n : records[i].op = "end",
         \A j \in 1 .. n : records[j].op = "end" =>
           \/ \E i \in 1 .. j - 1 : /\ records[i].op = "begin"
                                    /\ \A f \in i + 1 .. j - 1 : records[f].op # "end"
           \/ ~Batched /\ passRecords > 0 /\ j = 1,
         ~Batched /\ passRecords' > 0 =>
           /\ n = 1
           /\ records[1].op = "begin" \/ (passRecords > 0 /\ records[1].op # "end")
  PROVE  PInv'
<1>0. PICK W \in Nat : W = Waits
  BY Ranges DEF PInv
<1>1. /\ UNCHANGED <<setup, read, failed, fence, cpc, next, seen, limit, passOpen>>
      /\ RInv
  BY DEF Publish, ring, drain, PInv
<1>2. /\ write' \in Index /\ Distance(write, read)' = Distance(write, read) + n
      /\ Distance(write, read)' <= Capacity
      /\ Waits' = W + n
      /\ \A k \in 0 .. W - 1 : Slot(Advance(next, k))' = Slot(Advance(next, k))
      /\ \A k \in W .. W + n - 1 : /\ Slot(Advance(next, k))' = records[k - W + 1]
                                   /\ Advance(next, k) = Advance(write, k - W)
      /\ DOMAIN slots' = 0 .. Capacity - 1
  <2>1. PICK from \in Index : from = next
    BY <1>1 DEF RInv, Typed
  <2>2. W = Distance(write, from) /\ Distance(from, read) <= Distance(write, read)
    BY <1>0, <1>1, <2>1 DEF Waits, RInv, CursorsInOrder
  <2>3. Appended(from, W, records, n)
    BY <1>1, <2>2, PublishAppends
  <2>4. Waits' = Distance(write', from)
    BY <1>1, <2>1 DEF Waits, Distance
  <2>5. \A k : /\ Slot(Advance(from, k))' = Slot(Advance(next, k))'
               /\ Advance(from, k) = Advance(next, k)
    BY <1>1, <2>1 DEF Slot, Advance
  <2>6. QED BY <1>1, <2>1, <2>3, <2>4, <2>5 DEF Appended, Slot
<1>3. /\ W \in Nat /\ Distance(seen, next) \in Nat /\ Distance(limit, next) \in Nat
      /\ cpc # "idle" => Distance(seen, next) \in 0 .. W
      /\ InReplay => Distance(limit, next) \in 0 .. W
  BY <1>0, <1>1, Ranges
<1>4. /\ \A k \in 0 .. W - 1 : OpAt(next, k)' = OpAt(next, k)
      /\ \A m \in 0 .. W : /\ NoEnd(m)' <=> NoEnd(m)
                           /\ Closed(m)' <=> Closed(m)
                           /\ InsidePass(next, m)' <=> InsidePass(next, m)
  BY <1>1, <1>2, <1>3, SameWaiting
<1>5. /\ Distance(seen, next)' = Distance(seen, next)
      /\ Distance(limit, next)' = Distance(limit, next)
  BY <1>1 DEF Distance
<1>6. \A k \in W .. W + n - 1 : OpAt(next, k)' = records[k - W + 1].op
  BY <1>2 DEF OpAt
<1>7. \A m \in 0 .. W : Opened(m)' <=> Opened(m)
  BY <1>1, <1>4 DEF Opened
<1>8. Typed'
  BY <1>1, <1>2 DEF RInv, Typed
<1>9. CursorsInOrder'
  <2>1. Distance(next, read)' <= Distance(write, read)'
    <3>1. Distance(next, read)' = Distance(next, read)
      BY <1>1 DEF Distance
    <3>2. Distance(next, read) \in Int /\ Distance(write, read) \in Int
      BY <1>1, DistanceIs, RingAssumption DEF RInv, Typed
    <3>3. Distance(next, read) <= Distance(write, read) /\ n \in Nat
      BY <1>1 DEF RInv, CursorsInOrder
    <3>4. QED BY <1>2, <3>1, <3>2, <3>3
  <2>2. cpc = "release" => OpAt(next, 0)' = "upload"
    <3>1. ASSUME cpc = "release" PROVE OpAt(next, 0)' = "upload"
      <4>1. /\ Distance(limit, next) \in 0 .. W /\ limit # next /\ limit \in Index /\ next \in Index
            /\ OpAt(next, 0) = "upload"
        BY <1>1, <1>3, <3>1 DEF RInv, Typed, CursorsInOrder, InReplay
      <4>2. Distance(limit, next) # 0
        BY <4>1, DistanceZero
      <4>3. 0 \in 0 .. W - 1
        BY <1>3, <4>1, <4>2
      <4>4. QED BY <1>4, <4>1, <4>3
    <3>2. QED BY <3>1
  <2>3. cpc # "idle" => Distance(seen, next) <= W + n
    BY <1>3
  <2>4. QED BY <1>0, <1>1, <1>2, <1>5, <2>1, <2>2, <2>3 DEF RInv, CursorsInOrder, InReplay
<1>10. WaitingAreKept'
  <2> SUFFICES ASSUME NEW k \in 0 .. W + n - 1
               PROVE  Slot(Advance(next, k))'.at = Advance(next, k)'
    BY <1>2 DEF WaitingAreKept
  <2>1. Advance(next, k)' = Advance(next, k)
    BY <1>1 DEF Advance
  <2>2. CASE k \in 0 .. W - 1
    <3>1. Slot(Advance(next, k)).at = Advance(next, k)
      BY <1>0, <1>1, <2>2 DEF RInv, WaitingAreKept
    <3>2. Slot(Advance(next, k))' = Slot(Advance(next, k))
      BY <1>2, <2>2
    <3>3. QED BY <2>1, <3>1, <3>2
  <2>3. CASE k \in W .. W + n - 1
    <3>1. k - W + 1 \in 1 .. n /\ (k - W + 1) - 1 = k - W
      BY <1>3, <2>3
    <3>2. records[k - W + 1].at = Advance(write, (k - W + 1) - 1)
      BY <3>1
    <3>3. QED BY <1>2, <2>1, <2>3, <3>1, <3>2
  <2>4. QED BY <1>3, <2>2, <2>3
<1>11. BatchesAreWhole'
  <2> SUFFICES ASSUME Batched
               PROVE  Closed(W + n)' /\ (cpc = "discard" => Closed(Distance(seen, next))')
    BY <1>1, <1>2 DEF BatchesAreWhole, Batched
  <2>1. Closed(W) /\ (cpc = "discard" => Closed(Distance(seen, next)))
    BY <1>0 DEF PInv, BatchesAreWhole
  <2>2. ASSUME NEW b \in 0 .. W + n - 1, OpAt(next, b)' = "begin"
        PROVE  \E e \in b + 1 .. W + n - 1 : OpAt(next, e)' = "end"
    <3>1. CASE b \in 0 .. W - 1
      <4>1. PICK e \in b + 1 .. W - 1 : OpAt(next, e) = "end"
        BY <1>4, <2>1, <2>2, <3>1 DEF Closed
      <4>2. e \in 0 .. W - 1 /\ e \in b + 1 .. W + n - 1
        BY <1>3, <3>1
      <4>3. QED BY <1>4, <4>1, <4>2
    <3>2. CASE b \in W .. W + n - 1
      <4> DEFINE j == b - W + 1
      <4>1. j \in 1 .. n /\ records[j].op = "begin" /\ b = W + j - 1
        BY <1>3, <1>6, <2>2, <3>2
      <4> HIDE DEF j
      <4>2. PICK i \in j + 1 .. n : records[i].op = "end"
        BY <4>1
      <4>3. PICK e \in W .. W + n - 1 : e = W + i - 1
        BY <1>3, <4>1
      <4>4. e \in b + 1 .. W + n - 1 /\ e - W + 1 = i
        BY <1>3, <4>1, <4>3
      <4>5. OpAt(next, e)' = "end"
        BY <1>6, <4>2, <4>4
      <4>6. QED BY <4>4, <4>5
    <3>3. QED BY <1>3, <3>1, <3>2
  <2>3. Closed(W + n)'
    BY <2>2 DEF Closed
  <2>4. cpc = "discard" => Closed(Distance(seen, next))'
    <3>1. PICK m \in Nat : m = Distance(seen, next)
      BY <1>3
    <3>2. cpc = "discard" => m \in 0 .. W /\ Closed(m)
      BY <1>3, <2>1, <3>1
    <3>3. cpc = "discard" => Closed(m)'
      BY <1>4, <3>2
    <3>4. m = Distance(seen, next)'
      BY <1>5, <3>1
    <3>5. QED BY <3>3, <3>4 DEF Closed
  <2>5. QED BY <2>3, <2>4
<1>12. LimitClosesPasses'
  <2>1. PICK m \in Nat : m = Distance(limit, next)
    BY <1>3
  <2>2. InReplay => m \in 0 .. W
    BY <1>3, <2>1
  <2>3. InReplay => (Closed(m)' <=> Closed(m)) /\ (NoEnd(m)' <=> NoEnd(m))
    BY <1>4, <2>2
  <2>4. Distance(limit, next)' = m
    BY <1>5, <2>1
  <2>5. QED BY <1>1, <2>1, <2>3, <2>4 DEF PInv, LimitClosesPasses, InReplay, Mode
<1>13. EndsFindTheirPass'
  <2> SUFFICES ASSUME FencedPassesAreBatched, Mode # "legacy", ~failed
               PROVE  /\ \A k \in 0 .. W + n - 1 :
                           OpAt(next, k)' = "end" => Opened(k)' \/ Dropped(k)'
                      /\ ~Batched /\ passRecords' > 0 => Opened(W + n)'
    BY <1>1, <1>2 DEF EndsFindTheirPass, FencedPassesAreBatched, Mode, Batched
  <2>1. /\ \A k \in 0 .. W - 1 : OpAt(next, k) = "end" => Opened(k) \/ Dropped(k)
        /\ ~Batched /\ passRecords > 0 => Opened(W)
    BY <1>0 DEF PInv, EndsFindTheirPass
  <2>2. ASSUME NEW k \in 0 .. W - 1, OpAt(next, k)' = "end"
        PROVE  Opened(k)' \/ Dropped(k)'
    <3>1. OpAt(next, k) = "end" /\ k \in 0 .. W
      BY <1>4, <2>2
    <3>2. Opened(k) \/ Dropped(k)
      BY <2>1, <3>1
    <3>3. Dropped(k)' <=> Dropped(k)
      BY <1>1, <1>4, <1>5, <3>1 DEF Dropped
    <3>4. QED BY <1>7, <3>1, <3>2, <3>3
  <2>3. ASSUME NEW k \in W .. W + n - 1, OpAt(next, k)' = "end"
        PROVE  Opened(k)'
    <3>1. PICK j \in 1 .. n : j = k - W + 1
      BY <1>3
    <3>2. records[j].op = "end"
      BY <1>6, <2>3, <3>1
    <3>3. CASE \E i \in 1 .. j - 1 : /\ records[i].op = "begin"
                                     /\ \A f \in i + 1 .. j - 1 : records[f].op # "end"
      <4>1. PICK i \in 1 .. j - 1 : /\ records[i].op = "begin"
                                    /\ \A f \in i + 1 .. j - 1 : records[f].op # "end"
        BY <3>3
      <4>2. PICK b \in W .. W + n - 1 : b = W + i - 1
        <5>1. W + i - 1 \in W .. W + n - 1
          OBVIOUS
        <5>2. QED BY <5>1
      <4>3. b \in 0 .. k - 1 /\ b - W + 1 = i
        BY <1>3, <3>1, <4>1, <4>2
      <4>4. OpAt(next, b)' = "begin"
        BY <1>6, <4>1, <4>3
      <4>5. ASSUME NEW e \in b + 1 .. k - 1 PROVE OpAt(next, e)' # "end"
        <5>1. e \in W .. W + n - 1 /\ e - W + 1 \in i + 1 .. j - 1
          BY <1>3, <3>1, <4>1, <4>2, <4>3
        <5>2. QED BY <1>6, <4>1, <5>1
      <4>6. InsidePass(next, k)'
        BY <4>3, <4>4, <4>5 DEF InsidePass
      <4>7. QED BY <4>6 DEF Opened
    <3>4. CASE ~Batched /\ passRecords > 0 /\ j = 1
      <4>1. k = W
        BY <1>3, <3>1, <3>4
      <4>2. W \in 0 .. W /\ Opened(W)
        BY <1>3, <2>1, <3>4
      <4>3. QED BY <1>7, <4>1, <4>2
    <3>5. QED BY <3>2, <3>3, <3>4
  <2>4. ASSUME ~Batched, passRecords' > 0 PROVE Opened(W + n)'
    <3>1. n = 1 /\ OpAt(next, W)' = records[1].op
      BY <1>3, <1>6, <2>4
    <3>2. CASE records[1].op = "begin"
      <4>1. W \in 0 .. W + 1 - 1 /\ W + 1 .. W + 1 - 1 = {}
        BY <1>3
      <4>2. InsidePass(next, W + 1)'
        BY <3>1, <3>2, <4>1 DEF InsidePass
      <4>3. QED BY <3>1, <4>2 DEF Opened
    <3>3. CASE passRecords > 0 /\ records[1].op # "end"
      <4>1. W \in 0 .. W /\ Opened(W)
        BY <1>3, <2>1, <2>4, <3>3
      <4>2. Opened(W)'
        BY <1>7, <4>1
      <4>3. OpAt(next, W)' # "end"
        BY <3>1, <3>3
      <4>4. CASE (passOpen /\ NoEnd(W))'
        <5>1. \A e \in 0 .. W + 1 - 1 : e = W \/ e \in 0 .. W - 1
          BY <1>3
        <5>2. (passOpen /\ NoEnd(W + 1))'
          BY <4>3, <4>4, <5>1 DEF NoEnd
        <5>3. QED BY <3>1, <5>2 DEF Opened
      <4>5. CASE InsidePass(next, W)'
        <5>1. PICK b \in 0 .. W - 1 : /\ OpAt(next, b)' = "begin"
                                      /\ \A e \in b + 1 .. W - 1 : OpAt(next, e)' # "end"
          BY <4>5 DEF InsidePass
        <5>2. b \in 0 .. W + 1 - 1
          BY <1>3
        <5>3. \A e \in b + 1 .. W + 1 - 1 : e = W \/ e \in b + 1 .. W - 1
          BY <1>3
        <5>4. InsidePass(next, W + 1)'
          BY <4>3, <5>1, <5>2, <5>3 DEF InsidePass
        <5>5. QED BY <3>1, <5>4 DEF Opened
      <4>6. QED BY <4>2, <4>4, <4>5 DEF Opened
    <3>4. QED BY <2>4, <3>2, <3>3
  <2>5. \A k \in 0 .. W + n - 1 : k \in 0 .. W - 1 \/ k \in W .. W + n - 1
    BY <1>3
  <2>6. QED BY <2>2, <2>3, <2>4, <2>5
<1>14. FenceIsAllowed'
  BY <1>1 DEF PInv, FenceIsAllowed
<1>15. QED
  BY <1>8, <1>9, <1>10, <1>11, <1>12, <1>13, <1>14 DEF PInv, RInv

(* What is said of the records that wait, one record further on.           *)
LEMMA ShiftWaiting ==
  ASSUME RInv, NEW W \in Nat, W = Waits, W > 0, next' = Advance(next, 1),
         UNCHANGED <<write, read, slots>>
  PROVE  /\ \A k \in 0 .. W - 2 : OpAt(next, k)' = OpAt(next, k + 1)
         /\ \A m \in 1 .. W :
              /\ Closed(m) => Closed(m - 1)'
              /\ NoEnd(m) <=> OpAt(next, 0) # "end" /\ NoEnd(m - 1)'
              /\ InsidePass(next, m) =>
                   \/ InsidePass(next, m - 1)'
                   \/ OpAt(next, 0) = "begin" /\ NoEnd(m - 1)'
<1>1. \A k \in 0 .. W - 2 : OpAt(next, k)' = OpAt(next, k + 1)
  <2>1. \A k \in 0 .. W - 2 : Slot(Advance(next, k))' = Slot(Advance(next, k + 1))
    BY StepShifts
  <2>2. QED BY <2>1 DEF OpAt
<1>2. \A k \in 1 .. W - 1 : OpAt(next, k) = OpAt(next, k - 1)'
  <2> SUFFICES ASSUME NEW k \in 1 .. W - 1 PROVE OpAt(next, k) = OpAt(next, k - 1)'
    OBVIOUS
  <2>1. PICK j \in 0 .. W - 2 : j = k - 1 /\ k = j + 1
    OBVIOUS
  <2>2. OpAt(next, j)' = OpAt(next, j + 1)
    BY <1>1
  <2>3. QED BY <2>1, <2>2
<1>3. ASSUME NEW m \in 1 .. W, Closed(m) PROVE Closed(m - 1)'
  <2> SUFFICES ASSUME NEW b \in 0 .. m - 1 - 1, OpAt(next, b)' = "begin"
               PROVE  \E e \in b + 1 .. m - 1 - 1 : OpAt(next, e)' = "end"
    BY DEF Closed
  <2>1. b + 1 \in 0 .. m - 1 /\ OpAt(next, b + 1) = "begin"
    BY <1>1
  <2>2. PICK e \in b + 1 + 1 .. m - 1 : OpAt(next, e) = "end"
    BY <1>3, <2>1 DEF Closed
  <2>3. PICK f \in b + 1 .. m - 1 - 1 : f = e - 1
    OBVIOUS
  <2>4. f \in 0 .. W - 2 /\ f + 1 = e
    BY <2>3
  <2>5. OpAt(next, f)' = "end"
    BY <1>1, <2>2, <2>4
  <2>6. QED BY <2>5
<1>4. ASSUME NEW m \in 1 .. W
      PROVE  NoEnd(m) <=> OpAt(next, 0) # "end" /\ NoEnd(m - 1)'
  <2>1. ASSUME NoEnd(m) PROVE OpAt(next, 0) # "end" /\ NoEnd(m - 1)'
    <3>1. ASSUME NEW e \in 0 .. m - 1 - 1 PROVE OpAt(next, e)' # "end"
      <4>1. e \in 0 .. W - 2 /\ e + 1 \in 0 .. m - 1
        OBVIOUS
      <4>2. QED BY <1>1, <2>1, <4>1 DEF NoEnd
    <3>2. 0 \in 0 .. m - 1
      OBVIOUS
    <3>3. QED BY <2>1, <3>1, <3>2 DEF NoEnd
  <2>2. ASSUME OpAt(next, 0) # "end", NoEnd(m - 1)' PROVE NoEnd(m)
    <3>1. ASSUME NEW e \in 0 .. m - 1 PROVE OpAt(next, e) # "end"
      <4>1. CASE e = 0
        BY <2>2, <4>1
      <4>2. CASE e # 0
        <5>1. PICK f \in 0 .. m - 1 - 1 : f = e - 1
          BY <4>2
        <5>2. f \in 0 .. W - 2 /\ f + 1 = e
          BY <5>1
        <5>3. OpAt(next, f)' # "end"
          BY <2>2 DEF NoEnd
        <5>4. QED BY <1>1, <5>2, <5>3
      <4>3. QED BY <4>1, <4>2
    <3>2. QED BY <3>1 DEF NoEnd
  <2>3. QED BY <2>1, <2>2
<1>5. ASSUME NEW m \in 1 .. W, InsidePass(next, m)
      PROVE  \/ InsidePass(next, m - 1)'
             \/ OpAt(next, 0) = "begin" /\ NoEnd(m - 1)'
  <2>1. PICK b \in 0 .. m - 1 : /\ OpAt(next, b) = "begin"
                                /\ \A e \in b + 1 .. m - 1 : OpAt(next, e) # "end"
    BY <1>5 DEF InsidePass
  <2>2. ASSUME NEW e \in 0 .. m - 1 - 1, e >= b PROVE OpAt(next, e)' # "end"
    <3>1. e \in 0 .. W - 2 /\ e + 1 \in b + 1 .. m - 1
      BY <2>2
    <3>2. QED BY <1>1, <2>1, <3>1
  <2>3. CASE b = 0
    <3>1. \A e \in 0 .. m - 1 - 1 : e >= b
      BY <2>3
    <3>2. NoEnd(m - 1)'
      BY <2>2, <3>1 DEF NoEnd
    <3>3. QED BY <2>1, <2>3, <3>2
  <2>4. CASE b # 0
    <3>1. PICK c \in 0 .. m - 1 - 1 : c = b - 1
      BY <2>4
    <3>2. c \in 0 .. W - 2 /\ c + 1 = b
      BY <3>1
    <3>3. OpAt(next, c)' = "begin"
      BY <1>1, <2>1, <3>2
    <3>4. \A e \in c + 1 .. m - 1 - 1 : e \in 0 .. m - 1 - 1 /\ e >= b
      BY <3>2
    <3>5. \A e \in c + 1 .. m - 1 - 1 : OpAt(next, e)' # "end"
      BY <2>2, <3>4
    <3>6. InsidePass(next, m - 1)'
      BY <3>3, <3>5 DEF InsidePass
    <3>7. QED BY <3>6
  <2>5. QED BY <2>3, <2>4
<1>6. QED BY <1>1, <1>3, <1>4, <1>5

(* Any step to the next record keeps the indices in order.                 *)
LEMMA StepInOrder ==
  ASSUME RInv, cpc \in {"discard", "replay", "release"}, next # seen,
         InReplay => next # limit,
         next' = Advance(next, 1), cpc' \in {"discard", "replay"}, cpc = "discard" <=> cpc' = "discard",
         UNCHANGED <<setup, write, read, slots, seen, limit, failed, passRecords>>,
         passOpen' \in BOOLEAN, fence' \in BOOLEAN
  PROVE  /\ RInv'
         /\ Waits' = Waits - 1 /\ Waits \in Nat /\ Waits > 0
         /\ Distance(seen, next)' = Distance(seen, next) - 1
         /\ Distance(seen, next) \in 1 .. Waits
         /\ InReplay => /\ Distance(limit, next)' = Distance(limit, next) - 1
                        /\ Distance(limit, next) \in 1 .. Waits
<1>1. /\ write \in Index /\ read \in Index /\ next \in Index /\ seen \in Index /\ limit \in Index
      /\ cpc # "idle"
  BY DEF RInv, Typed
<1>2. /\ Waits \in Nat /\ Distance(seen, next) \in 0 .. Waits
      /\ InReplay => Distance(limit, next) \in 0 .. Waits
  BY <1>1, Ranges
<1>3. /\ Distance(seen, next) # 0
      /\ InReplay => Distance(limit, next) # 0
  BY <1>1, DistanceZero
<1>4. Waits > 0
  BY <1>2, <1>3
<1>5. /\ next' \in Index /\ Waits' = Waits - 1
      /\ Distance(next, read)' <= Distance(write, read)
      /\ \A k \in 0 .. Waits - 2 : /\ Slot(Advance(next, k))' = Slot(Advance(next, k + 1))
                                   /\ Advance(next, k)' = Advance(next, k + 1)
      /\ \A w \in Index : w # next => Distance(w, next') = Distance(w, next) - 1
  BY <1>4, StepShifts
<1>6. /\ Distance(seen, next)' = Distance(seen, next) - 1
      /\ InReplay => Distance(limit, next)' = Distance(limit, next) - 1
  <2>1. Distance(seen, next') = Distance(seen, next) - 1
    BY <1>1, <1>5
  <2>2. InReplay => Distance(limit, next') = Distance(limit, next) - 1
    BY <1>1, <1>5
  <2>3. QED BY <2>1, <2>2 DEF Distance
<1>7. Typed'
  BY <1>5 DEF RInv, Typed
<1>8. CursorsInOrder'
  <2>1. Distance(write, read)' = Distance(write, read)
    BY DEF Distance
  <2>2. InReplay' => InReplay
    BY DEF InReplay
  <2>3. InReplay => Distance(limit, next) <= Distance(seen, next)
    BY DEF RInv, CursorsInOrder
  <2>4. Distance(seen, next)' <= Waits'
    BY <1>2, <1>5, <1>6
  <2>5. InReplay' => Distance(limit, next)' <= Distance(seen, next)'
    BY <1>2, <1>6, <2>2, <2>3
  <2>6. QED BY <1>5, <2>1, <2>4, <2>5 DEF RInv, CursorsInOrder
<1>9. WaitingAreKept'
  <2>1. PICK W \in Nat : W = Waits
    BY <1>2
  <2> SUFFICES ASSUME NEW k \in 0 .. W - 2
               PROVE  Slot(Advance(next, k))'.at = Advance(next, k)'
    BY <1>5, <2>1 DEF WaitingAreKept
  <2>2. k + 1 \in 0 .. W - 1
    BY <2>1
  <2>3. Slot(Advance(next, k + 1)).at = Advance(next, k + 1)
    BY <2>1, <2>2 DEF RInv, WaitingAreKept
  <2>4. QED BY <1>5, <2>1, <2>3
<1>10. QED BY <1>2, <1>3, <1>4, <1>5, <1>6, <1>7, <1>8, <1>9 DEF RInv

(* An open pass stays open over every record but its END.                  *)
LEMMA OpenedShifts ==
  ASSUME PInv, NEW W \in Nat, W = Waits, W > 0, next' = Advance(next, 1),
         UNCHANGED <<write, read, slots>>,
         passOpen' = ((passOpen \/ OpAt(next, 0) = "begin") /\ OpAt(next, 0) # "end")
  PROVE  \A m \in 1 .. W : Opened(m) => Opened(m - 1)'
<1> SUFFICES ASSUME NEW m \in 1 .. W, Opened(m) PROVE Opened(m - 1)'
  OBVIOUS
<1>1. /\ NoEnd(m) <=> OpAt(next, 0) # "end" /\ NoEnd(m - 1)'
      /\ InsidePass(next, m) => \/ InsidePass(next, m - 1)'
                                \/ OpAt(next, 0) = "begin" /\ NoEnd(m - 1)'
  BY ShiftWaiting DEF PInv
<1>2. CASE passOpen /\ NoEnd(m)
  <2>1. passOpen' /\ NoEnd(m - 1)'
    BY <1>1, <1>2
  <2>2. QED BY <2>1 DEF Opened
<1>3. CASE InsidePass(next, m)
  <2>1. CASE InsidePass(next, m - 1)'
    BY <2>1 DEF Opened
  <2>2. CASE OpAt(next, 0) = "begin" /\ NoEnd(m - 1)'
    <3>1. passOpen'
      BY <2>2
    <3>2. QED BY <2>2, <3>1 DEF Opened
  <2>3. QED BY <1>1, <1>3, <2>1, <2>2
<1>4. QED BY <1>2, <1>3 DEF Opened

(* Replaying a record.                                                     *)
LEMMA ReplayStep ==
  ASSUME PInv, InReplay, next # limit, next' = Advance(next, 1), cpc' = "replay",
         UNCHANGED <<setup, write, read, slots, seen, limit, failed, fence, passRecords>>,
         passOpen' = ((passOpen \/ OpAt(next, 0) = "begin") /\ OpAt(next, 0) # "end"),
         Mode = "budget" /\ ~passOpen /\ OpAt(next, 0) = "begin" => PassIsPublished(next, limit)
  PROVE  PInv'
<1>1. PICK W \in Nat : W = Waits
  BY Ranges DEF PInv
<1>2. PICK L \in Nat : L = Distance(limit, next)
  BY Ranges DEF PInv
<1>3. RInv /\ Typed
  BY DEF PInv, RInv
<1>4. next # seen
  <2>1. /\ seen \in Index /\ next \in Index /\ limit \in Index
        /\ Distance(limit, next) <= Distance(seen, next)
    BY <1>3 DEF RInv, Typed, CursorsInOrder
  <2>2. Distance(limit, next) # 0 /\ Distance(limit, next) \in Nat /\ Distance(seen, next) \in Nat
    BY <1>3, <2>1, DistanceZero, Ranges
  <2>3. Distance(seen, next) # 0
    BY <2>1, <2>2
  <2>4. QED BY <2>1, <2>3, DistanceZero
<1>5. /\ cpc \in {"discard", "replay", "release"} /\ cpc # "discard"
      /\ passOpen' \in BOOLEAN /\ fence' \in BOOLEAN
  BY <1>3 DEF InReplay, Typed
<1>6. /\ RInv' /\ Waits' = W - 1 /\ W > 0
      /\ Distance(limit, next)' = L - 1 /\ L \in 1 .. W
  <2>1. /\ RInv' /\ Waits' = Waits - 1 /\ Waits \in Nat /\ Waits > 0
        /\ Distance(limit, next)' = Distance(limit, next) - 1
        /\ Distance(limit, next) \in 1 .. Waits
    BY <1>3, <1>4, <1>5, StepInOrder
  <2>2. QED BY <1>1, <1>2, <2>1
<1>7. /\ \A k \in 0 .. W - 2 : OpAt(next, k)' = OpAt(next, k + 1)
      /\ \A m \in 1 .. W :
           /\ Closed(m) => Closed(m - 1)'
           /\ NoEnd(m) <=> OpAt(next, 0) # "end" /\ NoEnd(m - 1)'
  BY <1>1, <1>3, <1>6, ShiftWaiting
<1>8. \A m \in 1 .. W : Opened(m) => Opened(m - 1)'
  BY <1>1, <1>6, OpenedShifts
<1>9. BatchesAreWhole'
  <2>1. Batched => Closed(W)
    BY <1>1 DEF PInv, BatchesAreWhole
  <2>2. Batched => Closed(W - 1)'
    BY <1>6, <1>7, <2>1
  <2>3. Batched => Closed(Waits)'
    BY <1>6, <2>2 DEF Closed
  <2>4. QED BY <2>3 DEF BatchesAreWhole, Batched
<1>10. LimitClosesPasses'
  <2>1. InReplay'
    BY DEF InReplay
  <2>2. Mode = "atomic" => Closed(L)
    BY <1>2 DEF PInv, LimitClosesPasses
  <2>3. Mode = "atomic" => Closed(L - 1)'
    BY <1>6, <1>7, <2>2
  <2>4. ASSUME Mode # "legacy", passOpen' PROVE ~NoEnd(L - 1)'
    <3>1. OpAt(next, 0) # "end"
      BY <2>4
    <3>2. ~NoEnd(L)
      <4>1. CASE passOpen
        BY <1>2, <2>4, <4>1 DEF PInv, LimitClosesPasses
      <4>2. CASE ~passOpen
        <5>1. OpAt(next, 0) = "begin"
          BY <2>4, <4>2
        <5>2. Mode = "atomic" \/ Mode = "budget"
          BY <1>3, <2>4, ChoiceAssumption DEF Typed, Mode
        <5>3. CASE Mode = "atomic"
          <6>1. 0 \in 0 .. L - 1
            BY <1>6
          <6>2. PICK e \in 0 + 1 .. L - 1 : OpAt(next, e) = "end"
            BY <2>2, <5>1, <5>3, <6>1 DEF Closed
          <6>3. QED BY <6>2 DEF NoEnd
        <5>4. CASE Mode = "budget"
          <6>1. PICK e \in 1 .. L - 1 : OpAt(next, e) = "end"
            BY <1>2, <4>2, <5>1, <5>4 DEF PassIsPublished
          <6>2. QED BY <6>1 DEF NoEnd
        <5>5. QED BY <5>2, <5>3, <5>4
      <4>3. QED BY <4>1, <4>2
    <3>3. QED BY <1>6, <1>7, <3>1, <3>2
  <2>5. /\ Closed(L - 1)' => Closed(Distance(limit, next))'
        /\ ~NoEnd(L - 1)' => ~NoEnd(Distance(limit, next))'
    BY <1>6 DEF Closed, NoEnd
  <2>6. QED BY <2>1, <2>3, <2>4, <2>5 DEF LimitClosesPasses, Mode
<1>11. EndsFindTheirPass'
  <2> SUFFICES ASSUME FencedPassesAreBatched, Mode # "legacy", ~failed
               PROVE  /\ \A k \in 0 .. W - 2 : OpAt(next, k)' = "end" => Opened(k)'
                      /\ ~Batched /\ passRecords > 0 => Opened(W - 1)'
    <3>1. Waits' - 1 = W - 2
      BY <1>6
    <3>2. (Opened(W - 1))' => Opened(Waits)'
      BY <1>6 DEF Opened, NoEnd, InsidePass
    <3>3. QED BY <3>1, <3>2 DEF EndsFindTheirPass, FencedPassesAreBatched, Mode, Batched
  <2>1. /\ \A k \in 0 .. W - 1 : OpAt(next, k) = "end" => Opened(k) \/ Dropped(k)
        /\ ~Batched /\ passRecords > 0 => Opened(W)
    BY <1>1 DEF PInv, EndsFindTheirPass
  <2>2. ASSUME NEW k \in 0 .. W - 2, OpAt(next, k)' = "end" PROVE Opened(k)'
    <3>1. PICK m \in 1 .. W - 1 : m = k + 1
      OBVIOUS
    <3>2. m \in 0 .. W - 1 /\ m \in 1 .. W /\ m - 1 = k
      BY <3>1
    <3>3. OpAt(next, m) = "end"
      BY <1>7, <2>2, <3>1
    <3>4. Opened(m)
      BY <1>5, <2>1, <3>2, <3>3 DEF Dropped
    <3>5. QED BY <1>8, <3>2, <3>4
  <2>3. ~Batched /\ passRecords > 0 => Opened(W - 1)'
    BY <1>6, <1>8, <2>1
  <2>4. QED BY <2>2, <2>3
<1>12. FenceIsAllowed'
  BY DEF PInv, FenceIsAllowed
<1>13. QED BY <1>6, <1>9, <1>10, <1>11, <1>12 DEF PInv

(* Dropping a record.                                                      *)
LEMMA DiscardStep ==
  ASSUME PInv, cpc = "discard", fence, next # seen,
         next' = Advance(next, 1), cpc' = "discard",
         UNCHANGED <<setup, write, read, slots, seen, limit, failed, passRecords, passOpen>>,
         fence' = (OpAt(next, 0) # "end")
  PROVE  PInv'
<1>1. PICK W \in Nat : W = Waits
  BY Ranges DEF PInv
<1>2. PICK D \in Nat : D = Distance(seen, next)
  BY Ranges DEF PInv
<1>3. RInv /\ Typed /\ ~InReplay /\ ~passOpen
  BY DEF PInv, RInv, InReplay, LimitClosesPasses
<1>4. FencedPassesAreBatched => Batched
  BY DEF PInv, FencedPassesAreBatched, FenceIsAllowed
<1>5. /\ RInv' /\ Waits' = W - 1 /\ W > 0
      /\ Distance(seen, next)' = D - 1 /\ D \in 1 .. W
  <2>1. passOpen' \in BOOLEAN /\ fence' \in BOOLEAN
    BY <1>3 DEF Typed
  <2>2. /\ RInv' /\ Waits' = Waits - 1 /\ Waits \in Nat /\ Waits > 0
        /\ Distance(seen, next)' = Distance(seen, next) - 1
        /\ Distance(seen, next) \in 1 .. Waits
    BY <1>3, <2>1, StepInOrder
  <2>3. QED BY <1>1, <1>2, <2>2
<1>6. /\ \A k \in 0 .. W - 2 : OpAt(next, k)' = OpAt(next, k + 1)
      /\ \A m \in 1 .. W :
           /\ Closed(m) => Closed(m - 1)'
           /\ NoEnd(m) <=> OpAt(next, 0) # "end" /\ NoEnd(m - 1)'
           /\ InsidePass(next, m) =>
                \/ InsidePass(next, m - 1)'
                \/ OpAt(next, 0) = "begin" /\ NoEnd(m - 1)'
  BY <1>1, <1>3, <1>5, ShiftWaiting
<1>7. Batched => Closed(W) /\ Closed(D)
  BY <1>1, <1>2 DEF PInv, BatchesAreWhole
<1>8. BatchesAreWhole'
  <2>1. Batched => Closed(W - 1)' /\ Closed(D - 1)'
    BY <1>5, <1>6, <1>7
  <2>2. Batched => Closed(Waits)' /\ Closed(Distance(seen, next))'
    BY <1>5, <2>1 DEF Closed
  <2>3. QED BY <2>2 DEF BatchesAreWhole, Batched
<1>9. LimitClosesPasses'
  BY <1>3 DEF LimitClosesPasses, InReplay
<1>10. EndsFindTheirPass'
  <2> SUFFICES ASSUME FencedPassesAreBatched, Mode # "legacy", ~failed
               PROVE  \A k \in 0 .. W - 2 : OpAt(next, k)' = "end" => Opened(k)' \/ Dropped(k)'
    BY <1>4, <1>5 DEF EndsFindTheirPass, FencedPassesAreBatched, Mode, Batched
  <2> SUFFICES ASSUME NEW k \in 0 .. W - 2, OpAt(next, k)' = "end"
               PROVE  Opened(k)' \/ Dropped(k)'
    OBVIOUS
  <2>1. PICK m \in 1 .. W - 1 : m = k + 1
    OBVIOUS
  <2>2. m \in 0 .. W - 1 /\ m \in 1 .. W /\ m - 1 = k
    BY <2>1
  <2>3. OpAt(next, m) = "end"
    BY <1>6, <2>1
  <2>4. Opened(m) \/ Dropped(m)
    BY <1>1, <2>2, <2>3 DEF PInv, EndsFindTheirPass
  <2>5. CASE Dropped(m)
    <3>1. m < D /\ NoEnd(m)
      BY <1>2, <2>5 DEF Dropped
    <3>2. OpAt(next, 0) # "end" /\ NoEnd(k)'
      BY <1>6, <2>2, <3>1
    <3>3. k < D - 1
      BY <1>5, <2>1, <3>1
    <3>4. Dropped(k)'
      BY <1>5, <3>2, <3>3 DEF Dropped
    <3>5. QED BY <3>4
  <2>6. CASE Opened(m)
    <3>1. InsidePass(next, m)
      BY <1>3, <2>6 DEF Opened
    <3>2. CASE InsidePass(next, k)'
      BY <3>2 DEF Opened
    <3>3. CASE OpAt(next, 0) = "begin" /\ NoEnd(k)'
      <4>1. 0 \in 0 .. D - 1
        BY <1>5
      <4>2. PICK e \in 0 + 1 .. D - 1 : OpAt(next, e) = "end"
        BY <1>4, <1>7, <3>3, <4>1 DEF Closed
      <4>3. PICK f \in 0 .. W - 2 : f + 1 = e
        BY <1>5
      <4>4. OpAt(next, f)' = "end"
        BY <1>6, <4>2, <4>3
      <4>5. f \notin 0 .. k - 1
        BY <3>3, <4>4 DEF NoEnd
      <4>6. k < D - 1
        BY <1>5, <4>2, <4>3, <4>5
      <4>7. Dropped(k)'
        BY <1>5, <3>3, <4>6 DEF Dropped
      <4>8. QED BY <4>7
    <3>4. QED BY <1>6, <2>2, <3>1, <3>2, <3>3
  <2>7. QED BY <2>4, <2>5, <2>6
<1>11. FenceIsAllowed'
  BY DEF PInv, FenceIsAllowed
<1>12. QED BY <1>5, <1>8, <1>9, <1>10, <1>11 DEF PInv

(* The end of the replay loop: no pass is open, unless a record failed or  *)
(* the mode cuts passes.                                                   *)
LEMMA CloseStep ==
  ASSUME PInv, InReplay, passOpen' = FALSE, cpc' \in {"scan", "publish"}, limit' \in Index,
         failed' \in BOOLEAN, failed => failed',
         UNCHANGED <<setup, write, read, slots, next, seen, fence, passRecords>>,
         Mode = "legacy" \/ failed' \/ ~passOpen
  PROVE  PInv'
<1>1. /\ Waits' = Waits
      /\ Distance(seen, next)' = Distance(seen, next)
      /\ Distance(next, read)' = Distance(next, read)
      /\ Distance(write, read)' = Distance(write, read)
      /\ \A k : OpAt(next, k)' = OpAt(next, k)
      /\ \A k : (Slot(Advance(next, k))' = Slot(Advance(next, k))) /\ Advance(next, k)' = Advance(next, k)
  BY DEF Waits, Distance, OpAt, Slot, Advance
<1>2. \A n : (NoEnd(n)' <=> NoEnd(n)) /\ (Closed(n)' <=> Closed(n))
             /\ (InsidePass(next, n)' <=> InsidePass(next, n))
  BY <1>1 DEF NoEnd, Closed, InsidePass
<1>3. RInv'
  <2>1. Typed'
    BY DEF PInv, RInv, Typed
  <2>2. CursorsInOrder'
    BY <1>1 DEF PInv, RInv, CursorsInOrder, InReplay
  <2>3. WaitingAreKept'
    BY <1>1 DEF PInv, RInv, WaitingAreKept
  <2>4. QED BY <2>1, <2>2, <2>3 DEF RInv
<1>4. BatchesAreWhole'
  BY <1>1, <1>2 DEF PInv, BatchesAreWhole, Batched
<1>5. LimitClosesPasses'
  BY DEF LimitClosesPasses, InReplay
<1>6. EndsFindTheirPass'
  <2> SUFFICES ASSUME FencedPassesAreBatched, Mode # "legacy", ~failed'
               PROVE  /\ \A k \in 0 .. Waits - 1 : OpAt(next, k) = "end" => InsidePass(next, k)
                      /\ ~Batched /\ passRecords > 0 => InsidePass(next, Waits)
    BY <1>1, <1>2 DEF EndsFindTheirPass, FencedPassesAreBatched, Mode, Batched, Opened
  <2>1. ~failed /\ ~passOpen
    BY DEF PInv, RInv, Typed
  <2>2. QED BY <2>1 DEF PInv, EndsFindTheirPass, Opened, Dropped, InReplay
<1>7. FenceIsAllowed'
  BY DEF PInv, FenceIsAllowed
<1>8. QED BY <1>3, <1>4, <1>5, <1>6, <1>7 DEF PInv

(* The worker goes idle, or starts to replay, with the records before next *)
(* handed back.                                                            *)
LEMMA RestStep ==
  ASSUME PInv, ~InReplay,
         next' = next, UNCHANGED <<setup, write, failed, fence, passRecords, passOpen>>,
         read' = next, DOMAIN slots' = 0 .. Capacity - 1,
         \A k \in 0 .. Waits - 1 : Slot(Advance(next, k))' = Slot(Advance(next, k)),
         seen' \in Index, limit' \in Index,
         cpc = "discard" => next = seen \/ ~fence,
         NEW backlog, Mode = "legacy" => backlog = Distance(seen', next),
         \/ cpc' = "idle"
         \/ cpc' = "replay" /\ limit' = ReplayLimit(next, seen', backlog)
            /\ Distance(seen', next) <= Waits
  PROVE  PInv'
<1>1. PICK W \in Nat : W = Waits
  BY Ranges DEF PInv
<1>2. /\ RInv /\ Typed /\ ~passOpen
      /\ write \in Index /\ read \in Index /\ next \in Index /\ seen \in Index
  BY DEF PInv, RInv, Typed, LimitClosesPasses
<1>3. Waits' = W
  BY <1>1 DEF Waits, Distance
<1>4. /\ \A k \in 0 .. W - 1 : OpAt(next, k)' = OpAt(next, k)
      /\ \A m \in 0 .. W : /\ NoEnd(m)' <=> NoEnd(m)
                           /\ Closed(m)' <=> Closed(m)
                           /\ InsidePass(next, m)' <=> InsidePass(next, m)
  BY <1>1, SameWaiting
<1>5. Typed'
  BY <1>2 DEF Typed
<1>6. /\ Distance(next, read)' = 0 /\ Distance(write, read)' = W /\ W <= Capacity
  <2>1. Distance(next, next) = 0
    BY <1>2, DistanceZero
  <2>2. W <= Capacity
    BY <1>1, <1>2, Ranges
  <2>3. QED BY <1>1, <2>1, <2>2 DEF Waits, Distance
<1>7. InReplay' => /\ Distance(limit', next) <= Distance(seen', next)
                   /\ Distance(seen', next) <= W
                   /\ Mode = "atomic" => Closed(Distance(limit', next))
  <2>1. ASSUME InReplay'
        PROVE  limit' = ReplayLimit(next, seen', backlog) /\ Distance(seen', next) <= W
    BY <1>1, <2>1 DEF InReplay
  <2>2. PICK to \in Index : to = seen'
    OBVIOUS
  <2>3. /\ Distance(ReplayLimit(next, to, backlog), next) <= Distance(to, next)
        /\ Mode = "atomic" => Closed(Distance(ReplayLimit(next, to, backlog), next))
    BY <1>2, <2>2, LimitIsSafe
  <2>4. QED BY <2>1, <2>2, <2>3
<1>8. InReplay' => Distance(limit', next) \in 0 .. W
  <2>1. Distance(limit', next) \in Nat /\ Distance(seen', next) \in Nat
    BY <1>2, DistanceIs, RingAssumption
  <2>2. QED BY <1>7, <2>1
<1>9. CursorsInOrder'
  <2>1. /\ Distance(seen, next)' = Distance(seen', next)
        /\ Distance(limit, next)' = Distance(limit', next)
    BY DEF Distance
  <2>2. cpc' # "idle" => InReplay'
    BY DEF InReplay
  <2>3. 0 <= W
    OBVIOUS
  <2>4. QED BY <1>3, <1>6, <1>7, <2>1, <2>2, <2>3 DEF CursorsInOrder, InReplay
<1>10. WaitingAreKept'
  <2>1. ASSUME NEW k \in 0 .. W - 1 PROVE Slot(Advance(next, k))'.at = Advance(next, k)'
    <3>1. Slot(Advance(next, k)).at = Advance(next, k)
      BY <1>1, <1>2 DEF RInv, WaitingAreKept
    <3>2. Advance(next, k)' = Advance(next, k)
      BY DEF Advance
    <3>3. QED BY <1>1, <3>1, <3>2
  <2>2. QED BY <1>3, <2>1 DEF WaitingAreKept
<1>11. BatchesAreWhole'
  <2>1. Batched => Closed(W)'
    BY <1>1, <1>4 DEF PInv, BatchesAreWhole
  <2>2. Batched => Closed(Waits)'
    BY <1>3, <2>1 DEF Closed
  <2>3. QED BY <2>2 DEF BatchesAreWhole, Batched
<1>12. LimitClosesPasses'
  <2>1. PICK m \in Int : m = Distance(limit', next)
    BY <1>2, DistanceIs, RingAssumption
  <2>2. InReplay' /\ Mode = "atomic" => Closed(m) /\ m \in 0 .. W
    BY <1>7, <1>8, <2>1
  <2>3. InReplay' /\ Mode = "atomic" => Closed(m)'
    BY <1>4, <2>2
  <2>4. m = Distance(limit, next)'
    BY <2>1 DEF Distance
  <2>5. QED BY <1>2, <2>3, <2>4 DEF LimitClosesPasses, Mode, Closed
<1>13. EndsFindTheirPass'
  <2> SUFFICES ASSUME FencedPassesAreBatched, Mode # "legacy", ~failed
               PROVE  /\ \A k \in 0 .. W - 1 : OpAt(next, k)' = "end" => InsidePass(next, k)'
                      /\ ~Batched /\ passRecords > 0 => InsidePass(next, W)'
    <3>1. InsidePass(next, W)' => InsidePass(next, Waits)'
      BY <1>3 DEF InsidePass
    <3>2. QED BY <1>3, <3>1 DEF EndsFindTheirPass, FencedPassesAreBatched, Mode, Batched, Opened
  <2>1. ASSUME NEW k PROVE k \in 0 .. W - 1 => ~Dropped(k)
    <3>1. next = seen => Distance(seen, next) = 0
      BY <1>2, DistanceZero
    <3>2. QED BY <3>1 DEF Dropped
  <2>2. /\ \A k \in 0 .. W - 1 : OpAt(next, k) = "end" => InsidePass(next, k)
        /\ ~Batched /\ passRecords > 0 => InsidePass(next, W)
    BY <1>1, <1>2, <2>1 DEF PInv, EndsFindTheirPass, Opened
  <2>3. \A k \in 0 .. W - 1 : k \in 0 .. W
    OBVIOUS
  <2>4. W \in 0 .. W
    OBVIOUS
  <2>5. QED BY <1>4, <2>2, <2>3, <2>4
<1>14. FenceIsAllowed'
  BY DEF PInv, FenceIsAllowed
<1>15. QED BY <1>5, <1>9, <1>10, <1>11, <1>12, <1>13, <1>14 DEF PInv, RInv

(* The publication of one record.                                          *)
LEMMA PublishOne ==
  ASSUME PInv, NEW r, Publish(<<r>>), passRecords' \in Nat, r.at = write,
         r.op = "begin" => ~Batched,
         r.op = "end" => ~Batched /\ passRecords > 0,
         ~Batched /\ passRecords' > 0 =>
           r.op = "begin" \/ (passRecords > 0 /\ r.op # "end")
  PROVE  PInv'
<1>1. PICK records : records = <<r>>
  OBVIOUS
<1>2. Len(records) = 1 /\ records[1] = r /\ Publish(records)
  BY <1>1
<1>3. 1 \in 1 .. Capacity /\ \A j \in 1 .. 1 : j = 1
  BY RingAssumption
<1>4. \A j \in 1 .. 1 : records[j].at = Advance(write, j - 1)
  <2>1. 0 \in 0 .. IndexModulus - 1 /\ IndexModulus \in Nat /\ write \in Index
    BY RingAssumption DEF PInv, RInv, Typed
  <2>2. Advance(write, 0) = write
    BY <2>1, AdvanceIs DEF Index
  <2>3. QED BY <1>2, <1>3, <2>2
<1>5. Batched => \A j \in 1 .. 1 : records[j].op = "begin" =>
                   \E i \in j + 1 .. 1 : records[i].op = "end"
  BY <1>2, <1>3
<1>6. \A j \in 1 .. 1 : records[j].op = "end" =>
        \/ \E i \in 1 .. j - 1 : /\ records[i].op = "begin"
                                 /\ \A f \in i + 1 .. j - 1 : records[f].op # "end"
        \/ ~Batched /\ passRecords > 0 /\ j = 1
  BY <1>2, <1>3
<1>7. ~Batched /\ passRecords' > 0 =>
        /\ 1 = 1
        /\ records[1].op = "begin" \/ (passRecords > 0 /\ records[1].op # "end")
  BY <1>2
<1>8. QED BY <1>2, <1>3, <1>4, <1>5, <1>6, <1>7, PublishStep

(* With the fence up a drain starts by dropping.                           *)
LEMMA StartDiscardStep ==
  ASSUME PInv, cpc = "idle", fence, cpc' = "discard", seen' = write,
         UNCHANGED <<setup, write, read, slots, next, limit, failed, fence, passRecords, passOpen>>
  PROVE  PInv'
<1>1. /\ Waits' = Waits /\ Waits \in Nat
      /\ Distance(seen, next)' = Waits
      /\ Distance(next, read)' = Distance(next, read)
      /\ Distance(write, read)' = Distance(write, read)
      /\ \A k : OpAt(next, k)' = OpAt(next, k)
      /\ \A k : (Slot(Advance(next, k))' = Slot(Advance(next, k))) /\ Advance(next, k)' = Advance(next, k)
  BY Ranges DEF PInv, Waits, Distance, OpAt, Slot, Advance
<1>2. \A n : (NoEnd(n)' <=> NoEnd(n)) /\ (Closed(n)' <=> Closed(n))
             /\ (InsidePass(next, n)' <=> InsidePass(next, n))
  BY <1>1 DEF NoEnd, Closed, InsidePass
<1>3. RInv'
  <2>1. Typed'
    BY DEF PInv, RInv, Typed
  <2>2. CursorsInOrder'
    BY <1>1 DEF PInv, RInv, CursorsInOrder, InReplay
  <2>3. WaitingAreKept'
    BY <1>1 DEF PInv, RInv, WaitingAreKept
  <2>4. QED BY <2>1, <2>2, <2>3 DEF RInv
<1>4. BatchesAreWhole'
  BY <1>1, <1>2 DEF PInv, BatchesAreWhole, Batched
<1>5. LimitClosesPasses'
  BY DEF PInv, LimitClosesPasses, InReplay
<1>6. EndsFindTheirPass'
  BY <1>1, <1>2 DEF PInv, EndsFindTheirPass, FencedPassesAreBatched, Dropped, Mode, Batched, Opened
<1>7. FenceIsAllowed'
  BY DEF PInv, FenceIsAllowed
<1>8. QED BY <1>3, <1>4, <1>5, <1>6, <1>7 DEF PInv

-----------------------------------------------------------------------------
(* The actions, one by one.                                                *)

(* The video thread.                                                       *)
LEMMA ProduceStep ==
  ASSUME PInv, Produce
  PROVE  PInv'
<1>1. Typed /\ CursorsInOrder
  BY DEF PInv, RInv
<1>2. Capacity \in Nat /\ MaxPass \in 2 .. Capacity
  BY RingAssumption, PassesFit
<1>3. write \in Index /\ Mark("command", 0).at = write
      /\ \A op : Mark(op, 0).at = write /\ Mark(op, 0).op = op
  <2>1. 0 \in 0 .. IndexModulus - 1 /\ IndexModulus \in Nat
    BY RingAssumption
  <2>2. Advance(write, 0) = write
    BY <1>1, <2>1, AdvanceIs DEF Typed, Index
  <2>3. QED BY <1>1, <2>2 DEF Typed, Mark
<1>5. CASE PushCommand
  <2>1. PICK r : r = Mark("command", 0)
    OBVIOUS
  <2>2. r.at = write /\ r.op = "command"
    BY <1>3, <2>1
  <2>3. Publish(<<r>>) /\ passRecords' = passRecords /\ (Batched \/ passRecords = 0)
    BY <1>5, <2>1 DEF PushCommand, producer
  <2>4. passRecords' \in Nat
    BY <1>1, <2>3 DEF Typed
  <2>5. QED BY <2>2, <2>3, <2>4, PublishOne
<1>6. CASE StagePassRecord
  BY <1>1, <1>2, <1>6, QuietStep DEF StagePassRecord, shared, ring, drain, Typed
<1>7. CASE AbortPass
  BY <1>1, <1>2, <1>7, QuietStep DEF AbortPass, shared, ring, drain, Typed
<1>8. CASE PushBatch
  <2> DEFINE n == passRecords + 1
             records == [k \in 1 .. n |-> Mark(PassOp(k - 1), k - 1)]
  <2>0. passRecords \in Nat /\ passRecords > 0 /\ Batched
    BY <1>1, <1>8 DEF Typed, PushBatch
  <2>1. Len(records) = n
    BY <2>0
  <2>2. passRecords \in Nat /\ passRecords > 0 /\ n \in 1 .. Capacity /\ Batched
    <3>1. Distance(write, read) + Len(records) <= Capacity
      BY <1>8 DEF PushBatch, Publish, RingHasRoom
    <3>2. Distance(write, read) \in Nat
      BY <1>1, DistanceIs, RingAssumption DEF Typed
    <3> HIDE DEF records
    <3>3. QED BY <1>2, <2>0, <2>1, <3>1, <3>2
  <2>3. Publish(records) /\ passRecords' = 0
    BY <1>8 DEF PushBatch
  <2>4. \A j \in 1 .. n : /\ records[j].at = Advance(write, j - 1)
                          /\ records[j].op = PassOp(j - 1)
    BY <2>2 DEF Mark
  <2> HIDE DEF records
  <2>5. \A j \in 1 .. n : /\ records[j].op = "begin" <=> j = 1
                          /\ records[j].op = "end" <=> j = n
    BY <2>2, <2>4 DEF PassOp
  <2>6. \A j \in 1 .. n : records[j].op = "begin" => \E i \in j + 1 .. n : records[i].op = "end"
    <3>1. n \in 1 + 1 .. n /\ n \in 1 .. n
      BY <2>2
    <3>2. QED BY <2>5, <3>1
  <2>7. \A j \in 1 .. n : records[j].op = "end" =>
          \E i \in 1 .. j - 1 : /\ records[i].op = "begin"
                                /\ \A f \in i + 1 .. j - 1 : records[f].op # "end"
    <3>1. 1 \in 1 .. n - 1 /\ 1 \in 1 .. n
      BY <2>2
    <3>2. \A f \in 1 + 1 .. n - 1 : f \in 1 .. n /\ f # n
      BY <2>2
    <3>3. QED BY <2>5, <3>1, <3>2
  <2>8. passRecords' \in Nat /\ ~(passRecords' > 0)
    BY <1>2, <2>3
  <2> HIDE DEF n
  <2>9. QED BY <2>1, <2>2, <2>3, <2>4, <2>6, <2>7, <2>8, PublishStep
<1>9. CASE PushPassRecord
  <2>1. PICK op \in {"begin", "command", "end"} :
          /\ op = "begin" <=> passRecords = 0
          /\ op = "command" => passRecords < MaxPass - 1 /\ op \in Records
          /\ Publish(<<Mark(op, 0)>>)
          /\ passRecords' = IF op = "end" THEN 0 ELSE passRecords + 1
    BY <1>9 DEF PushPassRecord
  <2>2. PICK r : r = Mark(op, 0)
    OBVIOUS
  <2>3. r.at = write /\ r.op = op /\ Publish(<<r>>)
    BY <1>3, <2>1, <2>2
  <2>4. ~Batched /\ passRecords \in Nat
    BY <1>1, <1>9 DEF PushPassRecord, Typed
  <2>5. passRecords' \in Nat
    BY <2>1, <2>4
  <2>6. /\ op = "end" => passRecords > 0
        /\ passRecords' > 0 => op = "begin" \/ (passRecords > 0 /\ op # "end")
    BY <2>1, <2>4
  <2>7. QED BY <2>3, <2>4, <2>5, <2>6, PublishOne
<1>10. CASE \E n \in Lengths : IssueUpload(n)
  BY <1>1, <1>10, QuietStep DEF IssueUpload, shared, ring, drain, Typed
<1>11. CASE ReserveUpload
  BY <1>1, <1>11, QuietStep DEF ReserveUpload, ring, drain, Typed
<1>12. CASE PushUpload
  <2>1. PICK r : r = [op |-> "upload", at |-> write, len |-> length,
                      off |-> (uploadWrite - length) % ArenaSize]
    OBVIOUS
  <2>2. r.op = "upload" /\ r.at = write
    BY <2>1
  <2>3. Publish(<<r>>)
    BY <1>12, <2>1 DEF PushUpload
  <2>4. passRecords' = IF ~Batched /\ passRecords > 0 THEN passRecords + 1 ELSE passRecords
    BY <1>12 DEF PushUpload
  <2>5. passRecords \in Nat /\ passRecords' \in Nat
    BY <1>1, <2>4 DEF Typed
  <2>6. ~Batched /\ passRecords' > 0 => passRecords > 0
    BY <2>4, <2>5
  <2>7. QED BY <2>2, <2>3, <2>5, <2>6, PublishOne
<1>13. CASE Refuse
  BY <1>1, <1>2, <1>13, QuietStep DEF Refuse, shared, ring, drain, Typed
<1>14. QED
  BY <1>5, <1>6, <1>7, <1>8, <1>9, <1>10, <1>11, <1>12, <1>13 DEF Produce

(* The record at next is the first that waits.                             *)
LEMMA FirstWaiting ==
  ASSUME RInv
  PROVE  OpAt(next, 0) = Slot(next).op
<1>1. 0 \in 0 .. IndexModulus - 1 /\ IndexModulus \in Nat /\ next \in Index
  BY RingAssumption DEF RInv, Typed
<1>2. Advance(next, 0) = next
  BY <1>1, AdvanceIs DEF Index
<1>3. QED BY <1>2 DEF OpAt

(* A replay loop that stops without a failure leaves no pass open, except  *)
(* in legacy mode.                                                         *)
LEMMA StopsBetweenPasses ==
  ASSUME PInv, cpc = "replay", Mode # "legacy",
         next = limit \/ MustStop \/ MayYield \/ (next # limit /\ Defers)
  PROVE  ~passOpen
<1>1. Typed /\ RInv /\ InReplay
  BY DEF PInv, RInv, InReplay
<1>2. CASE next = limit
  <2>1. Distance(limit, next) = 0
    BY <1>1, <1>2, DistanceZero DEF Typed
  <2>2. NoEnd(Distance(limit, next))
    BY <2>1 DEF NoEnd
  <2>3. QED BY <2>2 DEF PInv, LimitClosesPasses
<1>3. CASE MustStop \/ MayYield
  BY <1>3 DEF MustStop, MayYield
<1>4. CASE next # limit /\ Defers
  <2>1. Mode = "atomic" /\ OpAt(next, 0) = "begin" /\ Advance(next, 1) = limit
    BY <1>1, <1>4, FirstWaiting, ChoiceAssumption DEF Typed, Mode, Defers, TrailingBegin
  <2>2. Distance(limit, next) = 1
    <3>1. 1 \in 0 .. IndexModulus - 1 /\ next \in Index
      BY <1>1, RingAssumption DEF Typed
    <3>2. QED BY <2>1, <3>1, DistanceOfAdvance
  <2>3. Closed(Distance(limit, next))
    BY <1>1, <2>1 DEF PInv, LimitClosesPasses
  <2>4. 0 \in 0 .. 1 - 1 /\ 0 + 1 .. 1 - 1 = {}
    OBVIOUS
  <2>5. FALSE
    BY <2>1, <2>2, <2>3, <2>4 DEF Closed
  <2>6. QED BY <2>5
<1>5. QED BY <1>2, <1>3, <1>4

(* The worker replaying and staging.                                       *)
LEMMA ReplayKeeps ==
  ASSUME PInv, Replay
  PROVE  PInv'
<1>1. Typed /\ CursorsInOrder /\ RInv /\ OpAt(next, 0) = Slot(next).op
  BY FirstWaiting DEF PInv, RInv
<1>2. CASE StartDrain
  <2>1. /\ cpc = "idle" /\ seen' = write /\ next = read
        /\ UNCHANGED <<setup, write, read, slots, next, failed, fence, passRecords, passOpen>>
    BY <1>1, <1>2 DEF StartDrain, shared, producer, CursorsInOrder
  <2>2. CASE fence
    <3>1. cpc' = "discard" /\ limit' = limit
      BY <1>2, <2>2 DEF StartDrain
    <3>2. QED BY <2>1, <2>2, <3>1, StartDiscardStep
  <2>3. CASE ~fence
    <3>0. PICK backlog : backlog = Distance(seen', read)
      OBVIOUS
    <3>1. /\ cpc' = "replay" /\ limit' = ReplayLimit(next, seen', backlog)
          /\ backlog = Distance(seen', next)
      BY <1>2, <2>1, <2>3, <3>0 DEF StartDrain, BeginReplay
    <3>2. PICK to \in Index : to = seen'
      BY <1>1, <2>1 DEF Typed
    <3>3. limit' \in Index /\ seen' \in Index
      BY <1>1, <3>1, <3>2, LimitIsSafe
    <3>4. Distance(seen', next) <= Waits
      BY <1>1, <2>1, Ranges DEF Waits
    <3>5. /\ ~InReplay /\ DOMAIN slots' = 0 .. Capacity - 1 /\ read' = next
          /\ \A k \in 0 .. Waits - 1 : Slot(Advance(next, k))' = Slot(Advance(next, k))
      BY <1>1, <2>1 DEF InReplay, Typed, Slot, Advance
    <3>6. QED BY <2>1, <2>3, <3>1, <3>3, <3>4, <3>5, RestStep
  <2>4. QED BY <2>2, <2>3
<1>3. CASE ReplayRecord
  <2>1. /\ cpc = "replay" /\ next # limit /\ ~MustStop /\ next' = Advance(next, 1)
        /\ passOpen' = ((passOpen \/ OpAt(next, 0) = "begin") /\ OpAt(next, 0) # "end")
        /\ UNCHANGED <<setup, write, read, slots, seen, limit, failed, fence, passRecords, cpc>>
    BY <1>1, <1>3 DEF ReplayRecord, Replayable, shared, producer
  <2>2. Mode = "budget" /\ ~passOpen /\ OpAt(next, 0) = "begin" => PassIsPublished(next, limit)
    BY <1>1, <2>1 DEF MustStop
  <2>3. QED BY <2>1, <2>2, ReplayStep DEF InReplay
<1>4. CASE CopyUpload
  <2>1. /\ cpc = "replay" /\ cpc' = "release" /\ next # limit /\ OpAt(next, 0) = "upload"
        /\ UNCHANGED <<setup, write, read, slots, next, seen, limit, passOpen, failed,
                       passRecords, fence>>
    BY <1>1, <1>4 DEF CopyUpload, Replayable, shared, producer, ring
  <2>2. QED BY <1>1, <2>1, QuietStep DEF Typed
<1>5. CASE ReleaseUpload
  <2>1. /\ cpc = "release" /\ next # limit /\ OpAt(next, 0) = "upload"
        /\ next' = Advance(next, 1) /\ cpc' = "replay"
        /\ UNCHANGED <<setup, write, read, slots, seen, limit, failed, fence, passRecords, passOpen>>
    BY <1>1, <1>5 DEF ReleaseUpload, producer, ring, CursorsInOrder
  <2>2. passOpen' = ((passOpen \/ OpAt(next, 0) = "begin") /\ OpAt(next, 0) # "end")
    BY <1>1, <2>1 DEF Typed
  <2>3. QED BY <2>1, <2>2, ReplayStep DEF InReplay
<1>6. CASE StopReplay
  <2>1. /\ cpc = "replay" /\ failed' \in {failed, MayFail \/ failed}
        /\ next = limit \/ MustStop \/ MayYield \/ (next # limit /\ Defers)
        /\ CloseReplay
    BY <1>6 DEF StopReplay
  <2>2. /\ passOpen' = FALSE /\ cpc' \in {"scan", "publish"} /\ limit' \in {next, limit}
        /\ UNCHANGED <<setup, write, read, slots, next, seen, fence, passRecords>>
    BY <2>1 DEF CloseReplay, StartStaging, producer
  <2>3. failed' \in BOOLEAN /\ (failed => failed')
    BY <1>1, <2>1, ChoiceAssumption DEF Typed
  <2>4. Mode = "legacy" \/ ~passOpen
    BY <2>1, StopsBetweenPasses
  <2>5. QED BY <1>1, <2>1, <2>2, <2>3, <2>4, CloseStep DEF InReplay, Typed
<1>7. CASE StageCopy
  BY <1>1, <1>7, QuietStep DEF StageCopy, shared, producer, Typed, Staging
<1>8. CASE StageRelease
  BY <1>1, <1>8, QuietStep DEF StageRelease, producer, Typed, Staging
<1>9. CASE StopStaging
  BY <1>1, <1>9, QuietStep DEF StopStaging, shared, producer, Typed, Staging
<1>10. CASE EndDrain
  <2>1. /\ cpc = "publish" /\ cpc' = "idle" /\ PublishRead(next) /\ next' = next
        /\ seen' = 0 /\ limit' = 0
        /\ UNCHANGED <<setup, write, failed, fence, passRecords, passOpen>>
    BY <1>10 DEF EndDrain, producer
  <2>2. 0 \in Index
    BY RingAssumption DEF Index
  <2>3. /\ read' = next /\ DOMAIN slots' = 0 .. Capacity - 1
        /\ \A k \in 0 .. Waits - 1 : Slot(Advance(next, k))' = Slot(Advance(next, k))
    BY <1>1, <2>1, HandBackKeeps
  <2>4. ~InReplay /\ cpc # "discard"
    BY <2>1 DEF InReplay
  <2>5. QED BY <2>1, <2>2, <2>3, <2>4, RestStep
<1>11. QED
  BY <1>2, <1>3, <1>4, <1>5, <1>6, <1>7, <1>8, <1>9, <1>10 DEF Replay

(* The worker dropping records.                                            *)
LEMMA FenceKeeps ==
  ASSUME PInv, LegacyIsUnfenced, Fence
  PROVE  PInv'
<1>1. Typed /\ CursorsInOrder /\ RInv /\ OpAt(next, 0) = Slot(next).op
  BY FirstWaiting DEF PInv, RInv
<1>2. CASE LoadState
  <2>1. fence' \in BOOLEAN
    BY <1>2 DEF LoadState, OpenPass, HoldsReplay, InsidePass
  <2>2. /\ setup.producer \in Fenced /\ cpc = "idle" /\ failed' = failed /\ passRecords' = passRecords /\ cpc' = cpc
        /\ UNCHANGED <<setup, write, read, slots, next, seen, limit, passOpen>>
    BY <1>2 DEF LoadState, shared, producer, drain
  <2>3. QED BY <1>1, <2>1, <2>2, QuietStep DEF Typed
<1>3. CASE Discard
  <2>1. /\ cpc = "discard" /\ fence /\ next # seen /\ next' = Advance(next, 1) /\ cpc' = "discard"
        /\ UNCHANGED <<setup, write, read, slots, seen, limit, failed, passRecords, passOpen>>
        /\ fence' = (OpAt(next, 0) # "end")
    BY <1>1, <1>3 DEF Discard, producer, Typed
  <2>2. QED BY <2>1, DiscardStep
<1>4. CASE EndDiscard
  <2>1. /\ cpc = "discard" /\ (next = seen \/ ~fence) /\ PublishRead(next) /\ next' = next
        /\ UNCHANGED <<setup, write, failed, fence, passRecords, passOpen>>
    BY <1>4 DEF EndDiscard, producer
  <2>2. /\ read' = next /\ DOMAIN slots' = 0 .. Capacity - 1
        /\ \A k \in 0 .. Waits - 1 : Slot(Advance(next, k))' = Slot(Advance(next, k))
    BY <1>1, <2>1, HandBackKeeps
  <2>3. ~InReplay
    BY <2>1 DEF InReplay
  <2>4. CASE next = seen
    <3>1. cpc' = "idle" /\ seen' = 0 /\ limit' = limit
      BY <1>4, <2>4 DEF EndDiscard
    <3>2. seen' \in Index /\ limit' \in Index
      BY <1>1, <3>1, RingAssumption DEF Typed, Index
    <3>3. PICK backlog : backlog = Distance(seen', next)
      OBVIOUS
    <3>4. QED BY <2>1, <2>2, <2>3, <3>1, <3>2, <3>3, RestStep
  <2>5. CASE next # seen
    <3>0. PICK backlog : backlog = Distance(seen', read)
      OBVIOUS
    <3>1. cpc' = "replay" /\ seen' = seen /\ limit' = ReplayLimit(next, seen', backlog)
      BY <1>4, <2>5, <3>0 DEF EndDiscard, BeginReplay
    <3>2. PICK to \in Index : to = seen'
      BY <1>1, <3>1 DEF Typed
    <3>3. Mode # "legacy"
      BY <2>1 DEF LegacyIsUnfenced, PInv, FenceIsAllowed
    <3>4. limit' \in Index /\ seen' \in Index
      BY <1>1, <3>1, <3>2, <3>3, LimitIsSafe
    <3>5. Distance(seen', next) <= Waits
      BY <1>1, <2>1, <3>1 DEF CursorsInOrder
    <3>6. QED BY <2>1, <2>2, <2>3, <3>1, <3>3, <3>4, <3>5, RestStep
  <2>6. QED BY <2>4, <2>5
<1>5. QED BY <1>2, <1>3, <1>4 DEF Fence

(* The failures.                                                           *)
LEMMA FailureKeeps ==
  ASSUME PInv, Failure
  PROVE  PInv'
<1>1. Typed
  BY DEF PInv, RInv
<1>2. CASE FailRecord
  <2>1. /\ InReplay /\ failed' = TRUE /\ CloseReplay
    BY <1>2 DEF FailRecord, Replayable, InReplay
  <2>2. /\ passOpen' = FALSE /\ cpc' \in {"scan", "publish"} /\ limit' \in {next, limit}
        /\ UNCHANGED <<setup, write, read, slots, next, seen, fence, passRecords>>
    BY <2>1 DEF CloseReplay, StartStaging, producer
  <2>3. limit' \in Index
    BY <1>1, <2>2 DEF Typed
  <2>4. QED BY <2>1, <2>2, <2>3, CloseStep
<1>3. CASE DeviceLoss
  BY <1>1, <1>3, QuietStep DEF DeviceLoss, producer, drain, Typed
<1>4. QED BY <1>2, <1>3 DEF Failure

-----------------------------------------------------------------------------
(* A session keeps its mode and its producer.                              *)
LEMMA SetupStays ==
  ASSUME [Next]_vars
  PROVE  setup' = setup
<1>1. Produce => setup' = setup
  BY DEF Produce, PushCommand, StagePassRecord, AbortPass, PushBatch, PushPassRecord,
         IssueUpload, ReserveUpload, PushUpload, Refuse, Publish
<1>2. Replay => setup' = setup
  BY DEF Replay, StartDrain, ReplayRecord, CopyUpload, ReleaseUpload, StopReplay, CloseReplay,
         StageCopy, StageRelease, StopStaging, EndDrain, Replayable
<1>3. Fence => setup' = setup
  BY DEF Fence, LoadState, Discard, EndDiscard
<1>4. Failure => setup' = setup
  BY DEF Failure, FailRecord, DeviceLoss, CloseReplay
<1>5. QED BY <1>1, <1>2, <1>3, <1>4 DEF Next, vars

(* The invariant holds at first.                                           *)
LEMMA InitHolds == Init => PInv
<1> SUFFICES ASSUME Init PROVE PInv
  OBVIOUS
<1>1. /\ setup \in [mode : Modes, producer : Producers]
      /\ write = 0 /\ read = 0 /\ next = 0 /\ seen = 0 /\ limit = 0
      /\ DOMAIN slots = 0 .. Capacity - 1
      /\ failed = FALSE /\ passOpen = FALSE /\ fence = FALSE /\ cpc = "idle" /\ passRecords = 0
  BY DEF Init
<1>2. 0 \in Index /\ Capacity \in Nat
  BY RingAssumption DEF Index
<1>3. Waits = 0 /\ Distance(next, read) = 0 /\ Distance(write, read) = 0
  BY <1>1, <1>2, DistanceZero DEF Waits
<1>4. Typed
  BY <1>1, <1>2 DEF Typed
<1>5. CursorsInOrder
  BY <1>1, <1>2, <1>3 DEF CursorsInOrder, InReplay
<1>6. WaitingAreKept
  BY <1>3 DEF WaitingAreKept
<1>7. BatchesAreWhole
  BY <1>1, <1>3 DEF BatchesAreWhole, Closed
<1>8. LimitClosesPasses /\ FenceIsAllowed
  BY <1>1 DEF LimitClosesPasses, FenceIsAllowed, InReplay
<1>9. EndsFindTheirPass
  BY <1>1, <1>3 DEF EndsFindTheirPass
<1>10. QED BY <1>4, <1>5, <1>6, <1>7, <1>8, <1>9 DEF PInv, RInv

(* Every step keeps it.                                                    *)
LEMMA NextKeeps == LegacyIsUnfenced /\ PInv /\ [Next]_vars => (LegacyIsUnfenced /\ PInv)'
<1> SUFFICES ASSUME LegacyIsUnfenced, PInv, [Next]_vars PROVE LegacyIsUnfenced' /\ PInv'
  OBVIOUS
<1>0. LegacyIsUnfenced'
  <2>1. setup' = setup
    BY SetupStays
  <2>2. QED BY <2>1 DEF LegacyIsUnfenced, Mode
<1>1. CASE UNCHANGED vars
  <2>1. Typed
    BY DEF PInv, RInv
  <2>2. /\ UNCHANGED <<setup, write, read, slots, next, seen, limit, passOpen>>
        /\ cpc' = cpc /\ failed' = failed /\ passRecords' = passRecords /\ fence' = fence
    BY <1>1 DEF vars, shared, producer, ring, drain
  <2>3. QED BY <1>0, <2>1, <2>2, QuietStep DEF Typed
<1>2. CASE Next
  BY <1>0, <1>2, ProduceStep, ReplayKeeps, FenceKeeps, FailureKeeps DEF Next
<1>3. QED BY <1>0, <1>1, <1>2

(* The cursors never pass one another, and no record that waits is         *)
(* overwritten: Push and PushBatch wait for a free slot, and the worker    *)
(* moves the read index only over what it has replayed or dropped.  This   *)
(* holds where the 32-bit indices wrap, too, in every session that has not *)
(* both legacy mode and the load fence.                                    *)
THEOREM NoWaitingRecordIsOverwritten ==
  LegacyIsUnfenced /\ Spec => [](CursorsInOrder /\ WaitingAreKept)
<1>1. PInv => CursorsInOrder /\ WaitingAreKept
  BY DEF PInv, RInv
<1>2. QED BY <1>1, InitHolds, NextKeeps, PTL DEF Spec

(* A step of a drain closes no open pass and replays no END without one.   *)
LEMMA StepReplaysWhole ==
  ASSUME TakesWholePasses, PInv, Next, cpc = "replay", ~failed'
  PROVE  /\ cpc' \notin {"replay", "release"} => ~passOpen
         /\ next' # next /\ Slot(next).op = "end" => passOpen
<1>0. Mode # "legacy" /\ FencedPassesAreBatched
  BY DEF TakesWholePasses
<1>1. Typed /\ CursorsInOrder /\ RInv /\ InReplay /\ OpAt(next, 0) = Slot(next).op
  BY FirstWaiting DEF PInv, RInv, InReplay
<1>2. CASE Produce
  <2>1. UNCHANGED drain
    BY <1>2 DEF Produce, PushCommand, StagePassRecord, AbortPass, PushBatch, PushPassRecord,
                IssueUpload, ReserveUpload, PushUpload, Refuse, Publish
  <2>2. QED BY <2>1 DEF drain
<1>3. CASE ReplayRecord
  <2>1. cpc' = "replay" /\ next # limit /\ ~failed
    BY <1>3 DEF ReplayRecord, Replayable, shared
  <2>2. ASSUME Slot(next).op = "end" PROVE passOpen
    <3>1. /\ Distance(limit, next) \in 0 .. Waits /\ Waits \in Nat
          /\ Distance(limit, next) # 0
      BY <1>1, <2>1, Ranges, DistanceZero DEF Typed
    <3>2. 0 \in 0 .. Waits - 1
      BY <3>1
    <3>3. Opened(0) \/ Dropped(0)
      BY <1>0, <1>1, <2>1, <2>2, <3>2 DEF PInv, EndsFindTheirPass
    <3>4. QED BY <3>3 DEF Opened, Dropped, InsidePass
  <2>3. QED BY <2>1, <2>2
<1>4. CASE CopyUpload
  BY <1>4 DEF CopyUpload
<1>5. CASE StopReplay
  <2>1. ~passOpen
    BY <1>0, <1>5, StopsBetweenPasses DEF StopReplay
  <2>2. next' = next
    BY <1>5 DEF StopReplay, CloseReplay
  <2>3. QED BY <2>1, <2>2
<1>6. CASE FailRecord
  BY <1>6 DEF FailRecord
<1>7. ~StartDrain /\ ~ReleaseUpload /\ ~StageCopy /\ ~StageRelease /\ ~StopStaging /\ ~EndDrain
      /\ ~Fence /\ ~DeviceLoss
  BY DEF StartDrain, ReleaseUpload, StageCopy, StageRelease, StopStaging, EndDrain, Fence,
         LoadState, Discard, EndDiscard, DeviceLoss
<1>8. QED BY <1>2, <1>3, <1>4, <1>5, <1>6, <1>7 DEF Next, Replay, Failure

(* One drain encodes a pass from BEGIN to END, for every capacity and      *)
(* window (selectAtomicReplayLimit, findPublishedAtomicPassEnd and the     *)
(* load fence), outside legacy mode and if passes that a fence may drop    *)
(* are published whole.                                                    *)
THEOREM PassesStayWhole == Spec => PassesReplayWhole
<1> DEFINE Whole ==
      TakesWholePasses /\ cpc = "replay" /\ ~failed' =>
        /\ cpc' \notin {"replay", "release"} => ~passOpen
        /\ next' # next /\ Slot(next).op = "end" => passOpen
<1>1. PInv /\ [Next]_vars => [Whole]_vars
  BY StepReplaysWhole
<1>2. Mode = "legacy" /\ [Next]_vars => [Whole]_vars /\ (Mode = "legacy")'
  BY SetupStays DEF TakesWholePasses, Mode
<1>3. ~LegacyIsUnfenced => Mode = "legacy"
  BY DEF LegacyIsUnfenced
<1>4. QED BY <1>1, <1>2, <1>3, InitHolds, NextKeeps, PTL DEF Spec, PassesReplayWhole

-----------------------------------------------------------------------------
(* The queue of whole passes.  The invariant is strengthened by what the   *)
(* records are that a drain has passed and not yet handed back, counted    *)
(* from read on.                                                           *)
Done == Distance(next, read)
NoEndBefore(n) == \A e \in 0 .. n - 1 : OpAt(read, e) # "end"
ClosedBefore(n) ==
  \A b \in 0 .. n - 1 :
    OpAt(read, b) = "begin" => \E e \in b + 1 .. n - 1 : OpAt(read, e) = "end"
OpenedBefore(n) ==
  \A e \in 0 .. n - 1 : OpAt(read, e) = "end" => InsidePass(read, e)

(* A drain has something to do, and none begins after a failure.           *)
DrainIsDue ==
  /\ cpc # "idle" => Distance(seen, read) > 0
  /\ failed => MayFail
  /\ cpc \in {"discard", "replay", "release"} => ~failed

(* The fence drops nothing behind the first END.                           *)
DropsUpToEnd ==
  cpc = "discard" => IF fence THEN NoEndBefore(Done)
                              ELSE Done > 0 /\ NoEndBefore(Done - 1)

(* What a drain has replayed are whole passes and, perhaps, an open one.   *)
DrainPhases == {"replay", "release", "scan", "stage", "publish"}
Draining == cpc \in DrainPhases
ReplayedIsWhole ==
  FencedPassesAreBatched /\ Mode # "legacy" /\ ~failed /\ Draining =>
    /\ OpenedBefore(Done)
    /\ IF passOpen THEN InsidePass(read, Done) ELSE ClosedBefore(Done)

QInv == PInv /\ DrainIsDue /\ DropsUpToEnd /\ ReplayedIsWhole

(* A step that leaves the records passed, and the worker's place, alone.   *)
LEMMA PassedUntouched ==
  ASSUME QInv, UNCHANGED <<setup, read, next, seen>>,
         \A k \in 0 .. Done - 1 : OpAt(read, k)' = OpAt(read, k),
         passOpen' = passOpen \/ (passOpen' = FALSE /\ (Mode = "legacy" \/ failed')),
         \/ cpc' = cpc
         \/ cpc \in DrainPhases /\ cpc' \in DrainPhases /\ (InReplay' => InReplay),
         failed => failed', failed' => MayFail,
         failed' = failed \/ cpc' \notin {"discard", "replay", "release"},
         fence' = fence \/ cpc # "discard"
  PROVE  DrainIsDue' /\ DropsUpToEnd' /\ ReplayedIsWhole'
<1>1. PICK n \in Nat : n = Done
  BY DistanceIs, RingAssumption DEF QInv, PInv, RInv, Typed, Done
<1>2. Done' = n /\ Distance(seen, read)' = Distance(seen, read)
  BY <1>1 DEF Done, Distance
<1>3. ASSUME NEW m \in 0 .. n
      PROVE  /\ NoEndBefore(m)' <=> NoEndBefore(m)
             /\ ClosedBefore(m)' <=> ClosedBefore(m)
             /\ InsidePass(read, m)' <=> InsidePass(read, m)
  <2>1. \A k \in 0 .. m - 1 : OpAt(read, k)' = OpAt(read, k)
    BY <1>1
  <2>2. \A b \in 0 .. m - 1 : \A e \in b + 1 .. m - 1 : OpAt(read, e)' = OpAt(read, e)
    BY <2>1
  <2>3. NoEndBefore(m)' <=> NoEndBefore(m)
    BY <2>1 DEF NoEndBefore
  <2>4. ClosedBefore(m)' <=> ClosedBefore(m)
    BY <2>1, <2>2 DEF ClosedBefore
  <2>5. InsidePass(read, m)' <=> InsidePass(read, m)
    BY <2>1, <2>2 DEF InsidePass
  <2>6. QED BY <2>3, <2>4, <2>5
<1>4. OpenedBefore(n)' <=> OpenedBefore(n)
  <2>1. \A e \in 0 .. n - 1 : /\ OpAt(read, e)' = OpAt(read, e)
                              /\ InsidePass(read, e)' <=> InsidePass(read, e)
    BY <1>1, <1>3
  <2>2. QED BY <2>1 DEF OpenedBefore
<1>5. n \in 0 .. n /\ (n > 0 => n - 1 \in 0 .. n)
  OBVIOUS
<1>6. DrainIsDue'
  BY <1>2 DEF QInv, DrainIsDue, DrainPhases, InReplay
<1>7. DropsUpToEnd'
  <2>1. ASSUME cpc' = "discard"
        PROVE  IF fence' THEN NoEndBefore(n)' ELSE n > 0 /\ NoEndBefore(n - 1)'
    <3>1. cpc = "discard" /\ fence' = fence
      BY <2>1 DEF DrainPhases
    <3>2. IF fence THEN NoEndBefore(n) ELSE n > 0 /\ NoEndBefore(n - 1)
      BY <1>1, <3>1 DEF QInv, DropsUpToEnd
    <3>3. QED BY <1>3, <1>5, <3>1, <3>2
  <2>2. /\ NoEndBefore(n)' => NoEndBefore(Done)'
        /\ NoEndBefore(n - 1)' => NoEndBefore(Done - 1)'
    BY <1>2 DEF NoEndBefore
  <2>3. QED BY <1>2, <2>1, <2>2 DEF DropsUpToEnd
<1>8. ReplayedIsWhole'
  <2>1. ASSUME FencedPassesAreBatched, Mode # "legacy", ~failed', cpc' \in DrainPhases
        PROVE  /\ OpenedBefore(n)'
               /\ IF passOpen' THEN InsidePass(read, n)' ELSE ClosedBefore(n)'
    <3>1. ~failed /\ Draining /\ passOpen' = passOpen
      BY <2>1 DEF Draining
    <3>2. /\ OpenedBefore(n)
          /\ IF passOpen THEN InsidePass(read, n) ELSE ClosedBefore(n)
      BY <1>1, <2>1, <3>1 DEF QInv, ReplayedIsWhole
    <3>3. QED BY <1>3, <1>4, <1>5, <3>1, <3>2
  <2>2. /\ OpenedBefore(n)' => OpenedBefore(Done)'
        /\ InsidePass(read, n)' => InsidePass(read, Done)'
        /\ ClosedBefore(n)' => ClosedBefore(Done)'
    BY <1>2 DEF OpenedBefore, InsidePass, ClosedBefore
  <2>3. QED BY <2>1, <2>2 DEF ReplayedIsWhole, Draining, Mode, FencedPassesAreBatched, Batched
<1>9. QED BY <1>6, <1>7, <1>8

(* A step to the next record passes one more.                              *)
LEMMA OneMorePassed ==
  ASSUME QInv, cpc \in {"discard", "replay", "release"}, next # seen,
         next' = Advance(next, 1), UNCHANGED <<read, write, slots>>
  PROVE  /\ Done \in Nat /\ Done' = Done + 1
         /\ OpAt(read, Done) = OpAt(next, 0)
         /\ \A k : OpAt(read, k)' = OpAt(read, k)
<1>1. /\ RInv /\ read \in Index /\ next \in Index /\ seen \in Index /\ write \in Index
      /\ Distance(next, read) <= Distance(write, read)
  BY DEF QInv, PInv, RInv, Typed, CursorsInOrder
<1>2. IndexModulus \in Nat /\ IndexModulus > 1 /\ Done \in 0 .. IndexModulus - 1
      /\ Distance(write, read) \in 0 .. IndexModulus - 1
  BY <1>1, DistanceIs, RingAssumption DEF Done
<1>3. Distance(write, read) = Done + Waits /\ Waits \in Nat /\ Waits > 0
  <2>1. Distance(seen, next) # 0 /\ Distance(seen, next) \in 0 .. Waits /\ Waits \in Nat
    BY <1>1, Ranges, DistanceZero
  <2>2. Distance(write, read) = Done + Waits
    BY <1>1, DistancesAdd DEF Done, Waits
  <2>3. QED BY <2>1, <2>2
<1>4. Done' = Done + 1
  <2>1. 1 \in 0 .. IndexModulus - 1 /\ Done + 1 < IndexModulus
    BY <1>2, <1>3
  <2>2. Distance(Advance(next, 1), read) = Distance(next, read) + 1
    BY <1>1, <2>1, DistanceGrows DEF Done
  <2>3. QED BY <2>2 DEF Done, Distance
<1>5. OpAt(read, Done) = OpAt(next, 0)
  <2>1. Advance(read, Done) = next
    BY <1>1, AdvanceByDistance DEF Done
  <2>2. QED BY <1>1, <2>1, FirstWaiting DEF OpAt
<1>6. \A k : OpAt(read, k)' = OpAt(read, k)
  BY DEF OpAt, Slot, Advance
<1>7. QED BY <1>2, <1>4, <1>5, <1>6

(* Replaying a record.                                                     *)
LEMMA ReplayPasses ==
  ASSUME QInv, InReplay, next # seen, next' = Advance(next, 1), cpc' = "replay",
         UNCHANGED <<setup, read, write, slots, seen, failed>>,
         passOpen' = ((passOpen \/ OpAt(next, 0) = "begin") /\ OpAt(next, 0) # "end"),
         FencedPassesAreBatched /\ Mode # "legacy" /\ OpAt(next, 0) = "end" => passOpen
  PROVE  DrainIsDue' /\ DropsUpToEnd' /\ ReplayedIsWhole'
<1>1. PICK n \in Nat : n = Done
  BY DistanceIs, RingAssumption DEF QInv, PInv, RInv, Typed, Done
<1>2. /\ Done' = n + 1 /\ OpAt(read, n) = OpAt(next, 0)
      /\ \A k : OpAt(read, k)' = OpAt(read, k)
  BY <1>1, OneMorePassed DEF InReplay
<1>3. DrainIsDue'
  BY DEF QInv, DrainIsDue, InReplay, Distance
<1>4. DropsUpToEnd'
  BY DEF DropsUpToEnd
<1>5. ASSUME FencedPassesAreBatched, Mode # "legacy", ~failed
      PROVE  /\ OpenedBefore(n + 1)
             /\ IF passOpen' THEN InsidePass(read, n + 1) ELSE ClosedBefore(n + 1)
  <2>1. /\ OpenedBefore(n)
        /\ IF passOpen THEN InsidePass(read, n) ELSE ClosedBefore(n)
    BY <1>1, <1>5 DEF QInv, ReplayedIsWhole, Draining, DrainPhases, InReplay
  <2>2. \A e \in 0 .. n + 1 - 1 : e = n \/ e \in 0 .. n - 1
    OBVIOUS
  <2>3. OpAt(read, n) = "end" => passOpen
    BY <1>2, <1>5
  <2>4. OpenedBefore(n + 1)
    BY <2>1, <2>2, <2>3 DEF OpenedBefore
  <2>5. CASE OpAt(read, n) = "end"
    <3>1. ~passOpen'
      BY <1>2, <2>5
    <3>2. n \in 0 .. n + 1 - 1 /\ \A b \in 0 .. n - 1 : n \in b + 1 .. n + 1 - 1
      OBVIOUS
    <3>3. ClosedBefore(n + 1)
      BY <2>2, <2>5, <3>2 DEF ClosedBefore
    <3>4. QED BY <2>4, <3>1, <3>3
  <2>6. CASE OpAt(read, n) = "begin"
    <3>1. passOpen'
      BY <1>2, <2>6
    <3>2. n \in 0 .. n + 1 - 1 /\ n + 1 .. n + 1 - 1 = {}
      OBVIOUS
    <3>3. InsidePass(read, n + 1)
      BY <2>6, <3>2 DEF InsidePass
    <3>4. QED BY <2>4, <3>1, <3>3
  <2>7. CASE OpAt(read, n) # "end" /\ OpAt(read, n) # "begin"
    <3>1. passOpen' <=> passOpen
      BY <1>2, <2>7
    <3>2. CASE passOpen
      <4>1. PICK b \in 0 .. n - 1 : /\ OpAt(read, b) = "begin"
                                    /\ \A e \in b + 1 .. n - 1 : OpAt(read, e) # "end"
        BY <2>1, <3>2 DEF InsidePass
      <4>2. b \in 0 .. n + 1 - 1 /\ \A e \in b + 1 .. n + 1 - 1 : e = n \/ e \in b + 1 .. n - 1
        OBVIOUS
      <4>3. InsidePass(read, n + 1)
        BY <2>7, <4>1, <4>2 DEF InsidePass
      <4>4. QED BY <2>4, <3>1, <3>2, <4>3
    <3>3. CASE ~passOpen
      <4>1. \A b \in 0 .. n - 1 : \A e \in b + 1 .. n - 1 : e \in b + 1 .. n + 1 - 1
        OBVIOUS
      <4>2. ClosedBefore(n + 1)
        BY <2>1, <2>2, <2>7, <3>3, <4>1 DEF ClosedBefore
      <4>3. QED BY <2>4, <3>1, <3>3, <4>2
    <3>4. QED BY <3>2, <3>3
  <2>8. QED BY <2>5, <2>6, <2>7
<1>6. ReplayedIsWhole'
  <2>1. \A m : /\ OpenedBefore(m) => OpenedBefore(m)'
               /\ InsidePass(read, m) => InsidePass(read, m)'
               /\ ClosedBefore(m) => ClosedBefore(m)'
    BY <1>2 DEF OpenedBefore, InsidePass, ClosedBefore
  <2>2. /\ OpenedBefore(n + 1)' => OpenedBefore(Done)'
        /\ InsidePass(read, n + 1)' => InsidePass(read, Done)'
        /\ ClosedBefore(n + 1)' => ClosedBefore(Done)'
    BY <1>2 DEF OpenedBefore, InsidePass, ClosedBefore
  <2>3. QED BY <1>5, <2>1, <2>2 DEF ReplayedIsWhole, Mode, FencedPassesAreBatched, Batched
<1>7. QED BY <1>3, <1>4, <1>6

(* Dropping a record.                                                      *)
LEMMA DropPasses ==
  ASSUME QInv, cpc = "discard", fence, next # seen, next' = Advance(next, 1),
         cpc' = "discard", UNCHANGED <<setup, read, write, slots, seen, failed>>,
         fence' = (OpAt(next, 0) # "end")
  PROVE  DrainIsDue' /\ DropsUpToEnd' /\ ReplayedIsWhole'
<1>1. PICK n \in Nat : n = Done
  BY DistanceIs, RingAssumption DEF QInv, PInv, RInv, Typed, Done
<1>2. /\ Done' = n + 1 /\ OpAt(read, n) = OpAt(next, 0)
      /\ \A k : OpAt(read, k)' = OpAt(read, k)
  BY <1>1, OneMorePassed
<1>3. DrainIsDue'
  BY DEF QInv, DrainIsDue, Distance
<1>4. NoEndBefore(n)
  BY <1>1 DEF QInv, DropsUpToEnd
<1>5. /\ \A m \in 0 .. n + 1 - 1 : m = n \/ m \in 0 .. n - 1
      /\ n + 1 > 0 /\ (n + 1) - 1 = n
  OBVIOUS
<1>6. DropsUpToEnd'
  <2>1. CASE fence'
    <3>1. OpAt(read, n) # "end"
      BY <1>2, <2>1
    <3>2. \A m \in 0 .. n + 1 - 1 : OpAt(read, m) # "end"
      BY <1>4, <1>5, <3>1 DEF NoEndBefore
    <3>3. \A m \in 0 .. n + 1 - 1 : OpAt(read, m)' # "end"
      BY <1>2, <3>2
    <3>4. NoEndBefore(Done)'
      BY <1>2, <3>3 DEF NoEndBefore
    <3>5. QED BY <2>1, <3>4 DEF DropsUpToEnd
  <2>2. CASE ~fence'
    <3>1. \A m \in 0 .. n - 1 : OpAt(read, m)' # "end"
      BY <1>2, <1>4 DEF NoEndBefore
    <3>2. Done' > 0 /\ NoEndBefore(Done - 1)'
      BY <1>2, <1>5, <3>1 DEF NoEndBefore
    <3>3. QED BY <2>2, <3>2 DEF DropsUpToEnd
  <2>3. QED BY <2>1, <2>2
<1>7. ReplayedIsWhole'
  BY DEF ReplayedIsWhole, Draining, DrainPhases
<1>8. QED BY <1>3, <1>6, <1>7

(* The worker goes idle or starts a drain: nothing is passed.              *)
LEMMA NothingPassed ==
  ASSUME QInv, read' = next, next' = next, passOpen' = FALSE, next \in Index,
         failed' => MayFail, cpc' \in {"idle", "discard", "replay"},
         cpc' # "idle" => ~failed' /\ Distance(seen', next) > 0,
         cpc' = "discard" => fence'
  PROVE  DrainIsDue' /\ DropsUpToEnd' /\ ReplayedIsWhole'
<1>1. Done' = 0
  BY DistanceZero DEF Done, Distance
<1>2. DrainIsDue'
  BY DEF DrainIsDue, Distance
<1>3. DropsUpToEnd'
  BY <1>1 DEF DropsUpToEnd, NoEndBefore
<1>4. ReplayedIsWhole'
  BY <1>1 DEF ReplayedIsWhole, OpenedBefore, ClosedBefore
<1>5. QED BY <1>2, <1>3, <1>4

Kept(n) == \A k \in 0 .. n - 1 : Slot(Advance(read, k))' = Slot(Advance(read, k))
Grows ==
  /\ ~failed /\ Kept(Distance(write, read))
  /\ \E n \in 1 .. Capacity : Distance(write', read) = Distance(write, read) + n

(* A publication appends to what the ring holds, none of which is changed. *)
LEMMA PublishGrows ==
  ASSUME RInv, NEW records, Len(records) \in Nat \ {0}, Publish(records)
  PROVE  Grows /\ UNCHANGED <<setup, read, failed, ring, drain>>
<1>1. /\ read \in Index /\ write \in Index /\ Distance(read, read) = 0
      /\ Distance(write, read) \in Nat
  BY DistanceIs, DistanceZero DEF RInv, Typed
<1>2. Len(records) \in 1 .. Capacity
  BY <1>1, RingAssumption DEF Publish, RingHasRoom
<1>3. PICK n \in 1 .. Capacity : n = Len(records)
  BY <1>2
<1>4. PICK W : W = Distance(write, read)
  OBVIOUS
<1>5. Appended(read, W, records, n)
  BY <1>1, <1>3, <1>4, PublishAppends
<1>6. Kept(Distance(write, read)) /\ Distance(write', read) = Distance(write, read) + n
  BY <1>4, <1>5 DEF Appended, Kept
<1>7. QED BY <1>6 DEF Grows, Publish

(* What the video thread does, as the worker sees it.                      *)
LEMMA ProduceAppends ==
  ASSUME RInv, Produce
  PROVE  /\ UNCHANGED <<setup, read, failed, ring, drain>>
         /\ UNCHANGED <<write, slots>> \/ Grows
<1>1. \A r : Len(<<r>>) \in Nat \ {0}
  OBVIOUS
<1>2. CASE PushCommand
  BY <1>1, <1>2, PublishGrows DEF PushCommand
<1>3. CASE StagePassRecord \/ AbortPass \/ Refuse \/ \E n \in Lengths : IssueUpload(n)
  BY <1>3 DEF StagePassRecord, AbortPass, Refuse, IssueUpload, shared
<1>4. CASE PushBatch
  <2>1. PICK records : /\ records = [k \in 1 .. passRecords + 1 |-> Mark(PassOp(k - 1), k - 1)]
                       /\ Publish(records)
    BY <1>4 DEF PushBatch
  <2>2. Len(records) \in Nat \ {0}
    <3>1. passRecords \in Nat
      BY DEF RInv, Typed
    <3>2. passRecords + 1 \in Nat \ {0}
      BY <3>1
    <3>3. QED BY <2>1, <3>2
  <2>3. QED BY <2>1, <2>2, PublishGrows
<1>5. CASE PushPassRecord
  BY <1>1, <1>5, PublishGrows DEF PushPassRecord
<1>6. CASE ReserveUpload
  BY <1>6 DEF ReserveUpload
<1>7. CASE PushUpload
  BY <1>1, <1>7, PublishGrows DEF PushUpload
<1>8. QED BY <1>2, <1>3, <1>4, <1>5, <1>6, <1>7 DEF Produce

-----------------------------------------------------------------------------
(* Every step keeps the invariant.                                         *)
LEMMA ProducePasses ==
  ASSUME QInv, Produce
  PROVE  DrainIsDue' /\ DropsUpToEnd' /\ ReplayedIsWhole'
<1>1. RInv /\ Done <= Distance(write, read) /\ Done \in Nat /\ Distance(write, read) \in Nat
  BY DistanceIs, RingAssumption DEF QInv, PInv, RInv, Typed, CursorsInOrder, Done
<1>2. /\ UNCHANGED <<setup, read, failed, ring, drain>>
      /\ UNCHANGED <<write, slots>> \/ Grows
  BY <1>1, ProduceAppends
<1>3. \A k \in 0 .. Done - 1 : OpAt(read, k)' = OpAt(read, k)
  <2>1. CASE UNCHANGED <<write, slots>>
    BY <1>2, <2>1 DEF OpAt, Slot, Advance
  <2>2. CASE Grows
    BY <1>1, <2>2 DEF Grows, Kept, OpAt
  <2>3. QED BY <1>2, <2>1, <2>2
<1>4. failed => MayFail
  BY DEF QInv, DrainIsDue
<1>5. QED BY <1>2, <1>3, <1>4, PassedUntouched DEF drain, ring

(* The worker replaying and staging.                                       *)
LEMMA ReplayKeepsPassed ==
  ASSUME QInv, Replay
  PROVE  DrainIsDue' /\ DropsUpToEnd' /\ ReplayedIsWhole'
<1>1. /\ PInv /\ RInv /\ Typed /\ CursorsInOrder /\ OpAt(next, 0) = Slot(next).op
      /\ read \in Index /\ write \in Index /\ next \in Index /\ seen \in Index /\ limit \in Index
      /\ failed => MayFail
  BY FirstWaiting DEF QInv, PInv, RInv, Typed, DrainIsDue
<1>2. UNCHANGED <<read, slots>> => \A k \in 0 .. Done - 1 : OpAt(read, k)' = OpAt(read, k)
  BY DEF OpAt, Slot, Advance
<1>3. ~InReplay => passOpen = FALSE
  BY <1>1 DEF PInv, LimitClosesPasses, Typed
<1>4. InReplay /\ next # limit => next # seen
  BY <1>1, Ranges, DistanceZero DEF CursorsInOrder
<1>5. InReplay /\ FencedPassesAreBatched /\ Mode # "legacy" /\ next # limit /\ OpAt(next, 0) = "end"
        => passOpen
  <2> SUFFICES ASSUME InReplay, FencedPassesAreBatched, Mode # "legacy", next # limit,
                      OpAt(next, 0) = "end"
               PROVE  passOpen
    OBVIOUS
  <2>1. ~failed
    BY DEF QInv, DrainIsDue, InReplay
  <2>2. /\ Distance(limit, next) \in 0 .. Waits /\ Waits \in Nat
        /\ Distance(limit, next) # 0
    BY <1>1, Ranges, DistanceZero
  <2>3. 0 \in 0 .. Waits - 1
    BY <2>2
  <2>4. Opened(0) \/ Dropped(0)
    BY <1>1, <2>1, <2>3 DEF PInv, EndsFindTheirPass
  <2>5. QED BY <2>4 DEF Opened, Dropped, InsidePass, InReplay
<1>6. CASE StartDrain
  <2>1. /\ cpc = "idle" /\ ~failed /\ write # read /\ seen' = write /\ next = read
        /\ UNCHANGED <<read, next, passOpen, failed, fence>>
        /\ cpc' = (IF fence THEN "discard" ELSE "replay")
    BY <1>1, <1>6 DEF StartDrain, shared, CursorsInOrder, BeginReplay
  <2>2. Distance(seen', next) > 0 /\ passOpen' = FALSE
    BY <1>1, <1>3, <2>1, DistanceIs, DistanceZero DEF InReplay
  <2>3. QED BY <1>1, <2>1, <2>2, NothingPassed
<1>7. CASE ReplayRecord
  <2>1. /\ cpc = "replay" /\ next # limit /\ next' = Advance(next, 1) /\ cpc' = "replay"
        /\ passOpen' = ((passOpen \/ OpAt(next, 0) = "begin") /\ OpAt(next, 0) # "end")
        /\ UNCHANGED <<setup, read, write, slots, seen, failed>>
    BY <1>1, <1>7 DEF ReplayRecord, Replayable, shared
  <2>2. QED BY <1>4, <1>5, <2>1, ReplayPasses DEF InReplay
<1>8. CASE CopyUpload
  <2>1. /\ cpc = "replay" /\ cpc' = "release"
        /\ UNCHANGED <<setup, read, slots, next, seen, passOpen, failed, fence>>
    BY <1>8 DEF CopyUpload, Replayable, shared, ring
  <2>2. QED BY <1>1, <1>2, <2>1, PassedUntouched DEF DrainPhases, InReplay
<1>9. CASE ReleaseUpload
  <2>1. /\ cpc = "release" /\ next # limit /\ OpAt(next, 0) = "upload"
        /\ next' = Advance(next, 1) /\ cpc' = "replay"
        /\ UNCHANGED <<setup, write, read, slots, seen, failed, passOpen>>
    BY <1>1, <1>9 DEF ReleaseUpload, CursorsInOrder
  <2>2. passOpen' = ((passOpen \/ OpAt(next, 0) = "begin") /\ OpAt(next, 0) # "end")
    BY <1>1, <2>1 DEF Typed
  <2>3. QED BY <1>4, <1>5, <2>1, <2>2, ReplayPasses DEF InReplay
<1>10. CASE StopReplay
  <2>1. /\ cpc = "replay" /\ failed' \in {failed, MayFail \/ failed}
        /\ next = limit \/ MustStop \/ MayYield \/ (next # limit /\ Defers)
        /\ CloseReplay
    BY <1>10 DEF StopReplay
  <2>2. /\ passOpen' = FALSE /\ cpc' \in {"scan", "publish"}
        /\ UNCHANGED <<setup, read, slots, next, seen, fence>>
    BY <2>1 DEF CloseReplay, StartStaging
  <2>3. (failed => failed') /\ (failed' => MayFail)
    BY <1>1, <2>1, ChoiceAssumption DEF Typed
  <2>4. Mode = "legacy" \/ ~passOpen
    BY <1>1, <2>1, StopsBetweenPasses
  <2>5. passOpen' = passOpen \/ (passOpen' = FALSE /\ (Mode = "legacy" \/ failed'))
    BY <1>1, <2>2, <2>4 DEF Typed
  <2>6. QED BY <1>2, <2>1, <2>2, <2>3, <2>5, PassedUntouched DEF DrainPhases, InReplay
<1>11. CASE StageCopy
  <2>1. /\ cpc = "scan" /\ cpc' = "stage"
        /\ UNCHANGED <<setup, read, slots, next, seen, passOpen, failed, fence>>
    BY <1>11 DEF StageCopy, shared
  <2>2. QED BY <1>1, <1>2, <2>1, PassedUntouched DEF DrainPhases, InReplay
<1>12. CASE StageRelease
  <2>1. /\ cpc = "stage" /\ cpc' = "scan"
        /\ UNCHANGED <<setup, read, slots, next, seen, passOpen, failed, fence>>
    BY <1>12 DEF StageRelease
  <2>2. QED BY <1>1, <1>2, <2>1, PassedUntouched DEF DrainPhases, InReplay
<1>13. CASE StopStaging
  <2>1. /\ cpc = "scan" /\ cpc' = "publish"
        /\ UNCHANGED <<setup, read, slots, next, seen, passOpen, failed, fence>>
    BY <1>13 DEF StopStaging, shared
  <2>2. QED BY <1>1, <1>2, <2>1, PassedUntouched DEF DrainPhases, InReplay
<1>14. CASE EndDrain
  <2>1. /\ cpc = "publish" /\ cpc' = "idle" /\ read' = next /\ next' = next
        /\ UNCHANGED <<failed, passOpen>>
    BY <1>14 DEF EndDrain, PublishRead
  <2>2. passOpen' = FALSE
    BY <1>3, <2>1 DEF InReplay
  <2>3. QED BY <1>1, <2>1, <2>2, NothingPassed
<1>15. QED
  BY <1>6, <1>7, <1>8, <1>9, <1>10, <1>11, <1>12, <1>13, <1>14 DEF Replay

(* The worker dropping records, and the failures.                          *)
LEMMA FenceKeepsPassed ==
  ASSUME QInv, Fence \/ Failure
  PROVE  DrainIsDue' /\ DropsUpToEnd' /\ ReplayedIsWhole'
<1>1. /\ PInv /\ RInv /\ Typed /\ CursorsInOrder /\ OpAt(next, 0) = Slot(next).op
      /\ next \in Index /\ seen \in Index
      /\ failed => MayFail
  BY FirstWaiting DEF QInv, PInv, RInv, Typed, DrainIsDue
<1>2. UNCHANGED <<read, slots>> => \A k \in 0 .. Done - 1 : OpAt(read, k)' = OpAt(read, k)
  BY DEF OpAt, Slot, Advance
<1>3. CASE LoadState
  <2>1. /\ cpc = "idle" /\ cpc' = "idle"
        /\ UNCHANGED <<setup, read, slots, next, seen, passOpen, failed>>
    BY <1>3 DEF LoadState, shared, drain
  <2>2. QED BY <1>1, <1>2, <2>1, PassedUntouched
<1>4. CASE Discard
  <2>1. /\ cpc = "discard" /\ fence /\ next # seen /\ next' = Advance(next, 1) /\ cpc' = "discard"
        /\ UNCHANGED <<setup, write, read, slots, seen, failed>>
        /\ fence' = (OpAt(next, 0) # "end")
    BY <1>1, <1>4 DEF Discard, Typed
  <2>2. QED BY <2>1, DropPasses
<1>5. CASE EndDiscard
  <2>1. /\ cpc = "discard" /\ read' = next /\ next' = next
        /\ UNCHANGED <<failed, passOpen>>
        /\ \/ cpc' = "idle"
           \/ cpc' = "replay" /\ next # seen /\ seen' = seen
    BY <1>5 DEF EndDiscard, PublishRead, BeginReplay
  <2>2. passOpen' = FALSE /\ ~failed
    BY <1>1, <2>1 DEF PInv, LimitClosesPasses, InReplay, Typed, QInv, DrainIsDue
  <2>3. next # seen => Distance(seen, next) > 0
    BY <1>1, DistanceIs, DistanceZero
  <2>4. QED BY <1>1, <2>1, <2>2, <2>3, NothingPassed
<1>6. CASE FailRecord
  <2>1. /\ cpc = "replay" /\ failed' = TRUE /\ MayFail /\ CloseReplay
    BY <1>6 DEF FailRecord, Replayable
  <2>2. /\ passOpen' = FALSE /\ cpc' \in {"scan", "publish"}
        /\ UNCHANGED <<setup, read, slots, next, seen, fence>>
    BY <2>1 DEF CloseReplay, StartStaging
  <2>3. QED BY <1>2, <2>1, <2>2, PassedUntouched DEF DrainPhases, InReplay
<1>7. CASE DeviceLoss
  <2>1. /\ cpc = "idle" /\ cpc' = "idle" /\ failed' = TRUE /\ MayFail
        /\ UNCHANGED <<setup, read, slots, next, seen, passOpen, fence>>
    BY <1>7 DEF DeviceLoss, drain
  <2>2. QED BY <1>2, <2>1, PassedUntouched
<1>8. QED BY <1>3, <1>4, <1>5, <1>6, <1>7 DEF Fence, Failure

(* The invariant holds at first, and every step keeps it.                  *)
LEMMA QInvIsInvariant ==
  /\ Init => QInv
  /\ LegacyIsUnfenced /\ QInv /\ [Next]_vars => (LegacyIsUnfenced /\ QInv)'
<1>1. Init => QInv
  <2> SUFFICES ASSUME Init PROVE QInv
    OBVIOUS
  <2>1. PInv /\ cpc = "idle" /\ failed = FALSE
    BY InitHolds DEF Init
  <2>2. QED BY <2>1 DEF QInv, DrainIsDue, DropsUpToEnd, ReplayedIsWhole, Draining, DrainPhases
<1>2. ASSUME LegacyIsUnfenced, QInv, [Next]_vars PROVE LegacyIsUnfenced' /\ QInv'
  <2>1. PInv' /\ LegacyIsUnfenced'
    BY <1>2, NextKeeps DEF QInv
  <2>2. CASE UNCHANGED vars
    <3>1. /\ UNCHANGED <<setup, read, slots, next, seen, passOpen, cpc, failed, fence>>
      BY <2>2 DEF vars, shared, ring, drain
    <3>2. \A k \in 0 .. Done - 1 : OpAt(read, k)' = OpAt(read, k)
      BY <3>1 DEF OpAt, Slot, Advance
    <3>3. failed => MayFail
      BY <1>2 DEF QInv, DrainIsDue
    <3>4. DrainIsDue' /\ DropsUpToEnd' /\ ReplayedIsWhole'
      BY <1>2, <3>1, <3>2, <3>3, PassedUntouched
    <3>5. QED BY <2>1, <3>4 DEF QInv
  <2>3. CASE Next
    BY <1>2, <2>1, <2>3, ProducePasses, ReplayKeepsPassed, FenceKeepsPassed DEF Next, QInv
  <2>4. QED BY <1>2, <2>2, <2>3
<1>3. QED BY <1>1, <1>2

-----------------------------------------------------------------------------
(* The refinement mapping: the queue that the ring stands for.             *)
Contents ==
  [k \in 1 .. Distance(write, read) |->
     LET r == Slot(Advance(read, k - 1)) IN [op |-> r.op, at |-> r.at]]

(* Its entries are the records of the ring, in order.                      *)
LEMMA ContentsAre ==
  ASSUME QInv
  PROVE  /\ Distance(write, read) \in Nat /\ Len(Contents) = Distance(write, read)
         /\ \A k \in 1 .. Distance(write, read) : Contents[k].op = OpAt(read, k - 1)
         /\ HasLength(Contents, Distance(write, read))
<1>1. Distance(write, read) \in Nat
  BY DistanceIs, RingAssumption DEF QInv, PInv, RInv, Typed
<1>2. HasLength(Contents, Distance(write, read))
  BY DEF Contents, HasLength
<1>3. \A k \in 1 .. Distance(write, read) : Contents[k].op = OpAt(read, k - 1)
  BY DEF Contents, OpAt
<1>4. Len(Contents) = Distance(write, read)
  <2>1. PICK n \in Nat : n = Distance(write, read)
    BY <1>1
  <2>2. PICK q : q = Contents
    OBVIOUS
  <2>3. HasLength(q, n)
    BY <1>2, <2>1, <2>2
  <2>4. Len(q) = n
    BY <2>3 DEF HasLength
  <2>5. QED BY <2>1, <2>2, <2>4
<1>5. QED BY <1>1, <1>2, <1>3, <1>4

(* A publication makes it longer.                                          *)
LEMMA ContentsGrow ==
  ASSUME QInv, QInv', Grows, read' = read
  PROVE  Len(Contents') > Len(Contents) /\ SubSeq(Contents', 1, Len(Contents)) = Contents
<1>1. PICK d \in Nat : d = Distance(write, read)
  BY ContentsAre
<1>2. PICK m \in 1 .. Capacity : Distance(write, read)' = d + m
  BY <1>1 DEF Grows, Distance
<1>3. m \in Nat /\ m > 0
  BY RingAssumption
<1>4. \A k \in 1 .. d : Contents'[k] = Contents[k]
  <2> SUFFICES ASSUME NEW k \in 1 .. d PROVE Contents'[k] = Contents[k]
    OBVIOUS
  <2>1. k \in 1 .. d + m /\ k - 1 \in 0 .. d - 1
    BY <1>3
  <2>2. Slot(Advance(read, k - 1))' = Slot(Advance(read, k - 1))
    BY <1>1, <2>1 DEF Grows, Kept
  <2>3. QED BY <1>1, <1>2, <2>1, <2>2 DEF Contents
<1>5. HasLength(Contents, d) /\ HasLength(Contents', d + m)
  BY <1>1, <1>2 DEF Contents, HasLength
<1>6. Len(Contents) = d /\ Len(Contents') = d + m /\ SubSeq(Contents', 1, d) = Contents
  <2>1. PICK q, t : q = Contents /\ t = Contents'
    OBVIOUS
  <2>2. /\ HasLength(q, d) /\ HasLength(t, d + m)
        /\ \A k \in 1 .. d : t[k] = q[k]
    BY <1>4, <1>5, <2>1
  <2>3. Len(q) = d /\ Len(t) = d + m /\ SubSeq(t, 1, d) = q
    BY <1>3, <2>2, StartOfSequence
  <2>4. QED BY <2>1, <2>3
<1>7. QED BY <1>3, <1>6

(* Handing records back takes as many away from its front.                 *)
LEMMA ContentsShrink ==
  ASSUME QInv, QInv', PublishRead(next), next' = next, write' = write
  PROVE  /\ Done \in 0 .. Len(Contents)
         /\ Contents' = SubSeq(Contents, Done + 1, Len(Contents))
<1>1. /\ read \in Index /\ write \in Index /\ next \in Index /\ RInv
      /\ Done <= Distance(write, read)
  BY DEF QInv, PInv, RInv, Typed, CursorsInOrder, Done
<1>2. PICK d \in Nat : d = Distance(write, read)
  BY ContentsAre
<1>3. PICK n \in 0 .. d : n = Done
  BY <1>1, <1>2, DistanceIs, RingAssumption DEF Done
<1>4. Waits = d - n /\ d < IndexModulus /\ IndexModulus \in Nat /\ d - n \in Nat
  BY <1>1, <1>2, <1>3, DistanceIs, DistancesAdd, RingAssumption DEF Done, Waits
<1>5. /\ read' = next
      /\ \A k \in 0 .. Waits - 1 : Slot(Advance(next, k))' = Slot(Advance(next, k))
  BY <1>1, HandBackKeeps
<1>6. Distance(write, read)' = d - n
  BY <1>4, <1>5 DEF Waits, Distance
<1>7. \A k \in 0 .. d - n - 1 : Slot(Advance(read, k))' = Slot(Advance(read, n + k))
  <2> SUFFICES ASSUME NEW k \in 0 .. d - n - 1
               PROVE  Slot(Advance(read, k))' = Slot(Advance(read, n + k))
    OBVIOUS
  <2>1. /\ k \in 0 .. IndexModulus - 1 /\ n \in 0 .. IndexModulus - 1
        /\ n + k < IndexModulus
    BY <1>4
  <2>2. Advance(next, k) = Advance(read, n + k)
    <3>1. next = Advance(read, n)
      BY <1>1, <1>3, AdvanceByDistance DEF Done
    <3>2. QED BY <1>1, <2>1, <3>1, AdvanceTwice
  <2>3. Slot(Advance(next, k))' = Slot(Advance(next, k))
    BY <1>4, <1>5
  <2>4. Slot(Advance(read, k))' = Slot(Advance(next, k))'
    BY <1>5 DEF Slot, Advance
  <2>5. QED BY <2>2, <2>3, <2>4
<1>8. \A k \in 1 .. d - n : Contents'[k] = Contents[k + n]
  <2> SUFFICES ASSUME NEW k \in 1 .. d - n PROVE Contents'[k] = Contents[k + n]
    OBVIOUS
  <2>1. /\ k + n \in 1 .. d /\ k - 1 \in 0 .. d - n - 1
        /\ n + (k - 1) = (k + n) - 1
    BY <1>4
  <2>2. Slot(Advance(read, k - 1))' = Slot(Advance(read, (k + n) - 1))
    BY <1>7, <2>1
  <2>3. QED BY <1>2, <1>6, <2>1, <2>2 DEF Contents
<1>9. HasLength(Contents, d) /\ HasLength(Contents', d - n)
  BY <1>2, <1>6 DEF Contents, HasLength
<1>10. Len(Contents) = d /\ SubSeq(Contents, n + 1, d) = Contents'
  <2>1. PICK q, t : q = Contents /\ t = Contents'
    OBVIOUS
  <2>2. /\ HasLength(q, d) /\ HasLength(t, d - n)
        /\ \A k \in 1 .. d - n : t[k] = q[k + n]
    BY <1>8, <1>9, <2>1
  <2>3. Len(q) = d /\ SubSeq(q, n + 1, d) = t
    BY <2>2, RestOfSequence
  <2>4. QED BY <2>1, <2>3
<1>11. QED BY <1>3, <1>10

(* The marks among the first entries of the queue.                         *)
LEMMA MarksOfContents ==
  ASSUME QInv, NEW n \in 0 .. Distance(write, read)
  PROVE  /\ Queue!Ends(n) = {e \in 1 .. n : OpAt(read, e - 1) = "end"}
         /\ Queue!Begins(n) = {b \in 1 .. n : OpAt(read, b - 1) = "begin"}
<1>1. Distance(write, read) \in Nat
  BY ContentsAre
<1>2. \A k \in 1 .. n : Contents[k].op = OpAt(read, k - 1)
  BY <1>1, ContentsAre
<1>3. /\ Queue!Ends(n) = {e \in 1 .. n : Contents[e].op = "end"}
      /\ Queue!Begins(n) = {b \in 1 .. n : Contents[b].op = "begin"}
  BY DEF Queue!Ends, Queue!Begins, Contents
<1>4. QED BY <1>2, <1>3

(* What a drain that has not failed hands back are whole passes.           *)
LEMMA DrainHandsBackPasses ==
  ASSUME TakesWholePasses, QInv, cpc = "publish", ~failed
  PROVE  Queue!WholePasses(Done)
<1>1. /\ Mode # "legacy" /\ FencedPassesAreBatched /\ passOpen = FALSE
      /\ Done \in 0 .. Distance(write, read) /\ Distance(write, read) \in Nat
  BY DistanceIs, RingAssumption
  DEF QInv, PInv, RInv, Typed, CursorsInOrder, LimitClosesPasses, InReplay, TakesWholePasses,
      Done
<1>2. PICK n \in Nat : n = Done
  BY <1>1
<1>3. OpenedBefore(n) /\ ClosedBefore(n)
  BY <1>1, <1>2 DEF QInv, ReplayedIsWhole, Draining, DrainPhases
<1>4. /\ Queue!Ends(n) = {e \in 1 .. n : OpAt(read, e - 1) = "end"}
      /\ Queue!Begins(n) = {b \in 1 .. n : OpAt(read, b - 1) = "begin"}
  BY <1>1, <1>2, MarksOfContents
<1>5. ASSUME NEW b \in Queue!Begins(n)
      PROVE  \E e \in Queue!Ends(n) : b < e
  <2>1. b \in 1 .. n /\ b - 1 \in 0 .. n - 1 /\ OpAt(read, b - 1) = "begin"
    BY <1>4
  <2>2. PICK e \in (b - 1) + 1 .. n - 1 : OpAt(read, e) = "end"
    BY <1>3, <2>1 DEF ClosedBefore
  <2>3. e + 1 \in 1 .. n /\ b < e + 1 /\ (e + 1) - 1 = e
    BY <2>1
  <2>4. QED BY <1>4, <2>2, <2>3
<1>6. ASSUME NEW e \in Queue!Ends(n)
      PROVE  \E b \in Queue!Begins(n) : b < e /\ \A f \in Queue!Ends(n) : ~(b < f /\ f < e)
  <2>1. e \in 1 .. n /\ e - 1 \in 0 .. n - 1 /\ OpAt(read, e - 1) = "end"
    BY <1>4
  <2>2. PICK b \in 0 .. (e - 1) - 1 :
          OpAt(read, b) = "begin" /\ \A f \in b + 1 .. (e - 1) - 1 : OpAt(read, f) # "end"
    BY <1>3, <2>1 DEF OpenedBefore, InsidePass
  <2>3. b + 1 \in 1 .. n /\ b + 1 < e /\ (b + 1) - 1 = b
    BY <2>1
  <2>4. ASSUME NEW f \in Queue!Ends(n) PROVE ~(b + 1 < f /\ f < e)
    <3>1. f \in 1 .. n /\ OpAt(read, f - 1) = "end"
      BY <1>4
    <3>2. b + 1 < f /\ f < e => f - 1 \in b + 1 .. (e - 1) - 1
      BY <2>1, <3>1
    <3>3. QED BY <2>2, <3>1, <3>2
  <2>5. b + 1 \in Queue!Begins(n)
    BY <1>4, <2>2, <2>3
  <2>6. QED BY <2>3, <2>4, <2>5
<1>7. Queue!WholePasses(n)
  BY <1>5, <1>6 DEF Queue!WholePasses
<1>8. QED BY <1>2, <1>7 DEF Queue!WholePasses, Queue!Ends, Queue!Begins

(* What a fence drops holds no END but the last record.                    *)
LEMMA FenceDropsUpToEnd ==
  ASSUME QInv, cpc = "discard", next = seen \/ ~fence
  PROVE  Done \in 1 .. Distance(write, read) /\ Queue!Ends(Done - 1) = {}
<1>1. /\ Done \in 0 .. Distance(write, read) /\ Distance(write, read) \in Nat
  BY DistanceIs, RingAssumption DEF QInv, PInv, RInv, Typed, CursorsInOrder, Done
<1>2. Done > 0
  BY DEF QInv, DrainIsDue, DropsUpToEnd, Done
<1>3. PICK n \in Nat : n + 1 = Done
  BY <1>1, <1>2
<1>4. NoEndBefore(n)
  <2>1. fence => NoEndBefore(n + 1)
    BY <1>3 DEF QInv, DropsUpToEnd
  <2>2. ~fence => NoEndBefore((n + 1) - 1)
    BY <1>3 DEF QInv, DropsUpToEnd
  <2>3. (n + 1) - 1 = n /\ \A e \in 0 .. n - 1 : e \in 0 .. (n + 1) - 1
    OBVIOUS
  <2>4. QED BY <2>1, <2>2, <2>3 DEF NoEndBefore
<1>5. n \in 0 .. Distance(write, read) /\ \A e \in 1 .. n : e - 1 \in 0 .. n - 1
  BY <1>1, <1>3
<1>6. Queue!Ends(n) = {}
  BY <1>4, <1>5, MarksOfContents DEF NoEndBefore
<1>7. Done - 1 = n
  BY <1>3
<1>8. Queue!Ends(Done - 1) = {}
  BY <1>6, <1>7
<1>9. Done \in 1 .. Distance(write, read)
  BY <1>1, <1>2
<1>10. QED BY <1>8, <1>9

-----------------------------------------------------------------------------
(* Every step of the ring is a step of the queue, or leaves it as it is.   *)
QueueSame ==
  /\ Contents' = Contents
  /\ (cpc = "discard")' = (cpc = "discard")
  /\ (failed /\ cpc = "idle")' = (failed /\ cpc = "idle")

(* The video thread publishes, or does nothing the queue would show.       *)
LEMMA ProduceIsPublish ==
  ASSUME QInv, QInv', Produce
  PROVE  Queue!Publish \/ QueueSame
<1>1. RInv
  BY DEF QInv, PInv
<1>2. /\ UNCHANGED <<setup, read, failed, ring, drain>>
      /\ UNCHANGED <<write, slots>> \/ Grows
  BY <1>1, ProduceAppends
<1>3. cpc' = cpc /\ failed' = failed
  BY <1>2 DEF drain
<1>4. CASE UNCHANGED <<write, slots>>
  <2>1. Contents' = Contents
    BY <1>2, <1>4 DEF Contents, Slot, Distance, Advance
  <2>2. QED BY <1>3, <2>1 DEF QueueSame
<1>5. CASE Grows
  <2>1. Len(Contents') > Len(Contents) /\ SubSeq(Contents', 1, Len(Contents)) = Contents
    BY <1>2, <1>5, ContentsGrow
  <2>2. ~failed
    BY <1>5 DEF Grows
  <2>3. QED BY <1>3, <2>1, <2>2 DEF Queue!Publish, Contents
<1>6. QED BY <1>2, <1>4, <1>5

(* Taking nothing away leaves the queue.                                   *)
LEMMA NothingTaken ==
  ASSUME QInv
  PROVE  SubSeq(Contents, 0 + 1, Len(Contents)) = Contents
<1>1. PICK n \in Nat : n = Len(Contents)
  BY ContentsAre
<1>2. HasLength(Contents, n) /\ 0 \in 0 .. n /\ n - 0 = n /\ \A i \in 1 .. n : i + 0 = i
  BY <1>1, ContentsAre
<1>3. SubSeq(Contents, 0 + 1, n) = Contents
  BY <1>2, RestOfSequence
<1>4. QED BY <1>1, <1>3

(* A drain's end replays the passes it went through, or stops the queue.   *)
LEMMA EndDrainIsReplay ==
  ASSUME QInv, QInv', EndDrain
  PROVE  Queue!Replay \/ Queue!Stop \/ QueueSame
<1>1. /\ cpc = "publish" /\ cpc' = "idle" /\ failed' = failed
      /\ PublishRead(next) /\ next' = next /\ write' = write
  BY DEF EndDrain
<1>2. /\ Done \in 0 .. Len(Contents) /\ Len(Contents) \in Nat
      /\ Contents' = SubSeq(Contents, Done + 1, Len(Contents))
  BY <1>1, ContentsShrink, ContentsAre
<1>3. CASE failed
  <2>1. MayFail
    BY <1>3 DEF QInv, DrainIsDue
  <2>2. QED BY <1>1, <1>2, <1>3, <2>1 DEF Queue!Stop, Queue!Rest, Contents
<1>4. CASE ~failed /\ Done = 0
  <2>1. Contents' = Contents
    BY <1>2, <1>4, NothingTaken
  <2>2. QED BY <1>1, <1>4, <2>1 DEF QueueSame
<1>5. CASE ~failed /\ Done # 0
  <2>1. TakesWholePasses => Queue!WholePasses(Done)
    BY <1>1, <1>5, DrainHandsBackPasses
  <2>2. Done \in 1 .. Len(Contents)
    BY <1>2, <1>5
  <2>3. QED BY <1>1, <1>2, <1>5, <2>1, <2>2 DEF Queue!Replay, Queue!Rest, Contents
<1>6. QED BY <1>3, <1>4, <1>5

(* A fence that has gone through drops what it went through.               *)
LEMMA EndDiscardIsDrop ==
  ASSUME QInv, QInv', EndDiscard
  PROVE  Queue!Drop
<1>1. /\ cpc = "discard" /\ cpc' # "discard" /\ failed' = failed
      /\ PublishRead(next) /\ next' = next /\ write' = write /\ (next = seen \/ ~fence)
  BY DEF EndDiscard, BeginReplay
<1>2. ~failed
  BY <1>1 DEF QInv, DrainIsDue
<1>3. /\ Len(Contents) = Distance(write, read)
      /\ Contents' = SubSeq(Contents, Done + 1, Len(Contents))
  BY <1>1, ContentsShrink, ContentsAre
<1>4. Done \in 1 .. Len(Contents) /\ Queue!Ends(Done - 1) = {}
  BY <1>1, <1>3, FenceDropsUpToEnd
<1>5. QED BY <1>1, <1>2, <1>3, <1>4 DEF Queue!Drop, Queue!Rest, Contents

(* The steps of a drain in between are not seen.                           *)
LEMMA QuietStepIsSame ==
  ASSUME UNCHANGED <<write, read, slots>>,
         (cpc = "discard")' = (cpc = "discard"),
         (failed /\ cpc = "idle")' = (failed /\ cpc = "idle")
  PROVE  QueueSame
<1>1. Contents' = Contents
  BY DEF Contents, Slot, Distance, Advance
<1>2. QED BY <1>1 DEF QueueSame

QueueMoves == Queue!Replay \/ Queue!StartDropping \/ Queue!Drop \/ Queue!Stop

(* What the worker does, on the queue.                                     *)
LEMMA WorkerOnQueue ==
  ASSUME QInv, QInv', Replay \/ Fence \/ Failure
  PROVE  QueueMoves \/ QueueSame
<1>1. CASE StartDrain
  <2>1. /\ cpc = "idle" /\ ~failed /\ ~failed' /\ UNCHANGED <<write, read, slots>>
        /\ cpc' = (IF fence THEN "discard" ELSE "replay")
    BY <1>1 DEF StartDrain, shared, BeginReplay
  <2>2. CASE fence
    <3>1. Fenced # {} /\ cpc' = "discard"
      BY <2>1, <2>2 DEF QInv, PInv, FenceIsAllowed
    <3>2. Contents' = Contents
      BY <2>1 DEF Contents, Slot, Distance, Advance
    <3>3. Queue!StartDropping
      BY <2>1, <3>1, <3>2 DEF Queue!StartDropping, Contents
    <3>4. QED BY <3>3 DEF QueueMoves
  <2>3. CASE ~fence
    BY <2>1, <2>3, QuietStepIsSame
  <2>4. QED BY <2>2, <2>3
<1>2. CASE ReplayRecord \/ CopyUpload \/ ReleaseUpload
  <2>1. /\ cpc \in {"replay", "release"} /\ cpc' \in {"replay", "release"}
        /\ UNCHANGED <<write, read, slots>>
    BY <1>2 DEF ReplayRecord, CopyUpload, ReleaseUpload, Replayable, shared
  <2>2. QED BY <2>1, QuietStepIsSame
<1>3. CASE StopReplay \/ FailRecord
  <2>1. cpc = "replay" /\ CloseReplay
    BY <1>3 DEF StopReplay, FailRecord, Replayable
  <2>2. cpc' \in {"scan", "publish"} /\ UNCHANGED <<write, read, slots>>
    BY <2>1 DEF CloseReplay, StartStaging
  <2>3. QED BY <2>1, <2>2, QuietStepIsSame
<1>4. CASE StageCopy \/ StageRelease \/ StopStaging
  <2>1. /\ cpc \in {"scan", "stage"} /\ cpc' \in {"scan", "stage", "publish"}
        /\ UNCHANGED <<write, read, slots>>
    BY <1>4 DEF StageCopy, StageRelease, StopStaging, shared
  <2>2. QED BY <2>1, QuietStepIsSame
<1>5. CASE EndDrain
  BY <1>5, EndDrainIsReplay DEF QueueMoves
<1>6. CASE LoadState
  <2>1. cpc = "idle" /\ cpc' = "idle" /\ failed' = failed /\ UNCHANGED <<write, read, slots>>
    BY <1>6 DEF LoadState, shared, drain
  <2>2. QED BY <2>1, QuietStepIsSame
<1>7. CASE Discard
  <2>1. /\ cpc = "discard" /\ cpc' = "discard" /\ UNCHANGED <<write, read, slots>>
    BY <1>7 DEF Discard
  <2>2. QED BY <2>1, QuietStepIsSame
<1>8. CASE EndDiscard
  BY <1>8, EndDiscardIsDrop DEF QueueMoves
<1>9. CASE DeviceLoss
  <2>1. /\ MayFail /\ cpc = "idle" /\ cpc' = "idle" /\ ~failed /\ failed'
        /\ UNCHANGED <<write, read, slots>>
    BY <1>9 DEF DeviceLoss, drain
  <2>2. Contents' = Contents
    BY <2>1 DEF Contents, Slot, Distance, Advance
  <2>3. Contents' = SubSeq(Contents, 0 + 1, Len(Contents)) /\ 0 \in 0 .. Len(Contents)
    BY <2>2, NothingTaken, ContentsAre
  <2>4. Queue!Stop
    BY <2>1, <2>3 DEF Queue!Stop, Queue!Rest, Contents
  <2>5. QED BY <2>4 DEF QueueMoves
<1>10. QED
  BY <1>1, <1>2, <1>3, <1>4, <1>5, <1>6, <1>7, <1>8, <1>9 DEF Replay, Fence, Failure

(* The command ring implements the queue of passes: records leave it once  *)
(* each and in order, a fence drops nothing behind an END, and a drain     *)
(* takes whole passes only (drainWebGpuCmdRing), for every capacity and    *)
(* window.  The sessions that do not promise the last are those of legacy  *)
(* mode and of a fence over passes published record by record; those that  *)
(* have both legacy mode and the fence promise nothing.                    *)
THEOREM RingImplementsQueue == LegacyIsUnfenced /\ Spec => ImplementsReplayQueue
<1>1. Init => Queue!Init
  <2> SUFFICES ASSUME Init PROVE Queue!Init
    OBVIOUS
  <2>1. Distance(write, read) = 0 /\ cpc = "idle" /\ failed = FALSE
    BY DistanceZero, RingAssumption DEF Init, Index
  <2>2. QED BY <2>1 DEF Queue!Init, TakesWholePasses, FencedPassesAreBatched, Batched
<1>2. QInv /\ QInv' /\ [Next]_vars =>
        [Queue!Next]_<<Contents, TakesWholePasses, cpc = "discard", failed /\ cpc = "idle">>
  <2>0. [Next]_vars => TakesWholePasses' = TakesWholePasses
    BY SetupStays DEF TakesWholePasses, FencedPassesAreBatched, Mode, Batched
  <2> SUFFICES ASSUME QInv, QInv', [Next]_vars
               PROVE  Queue!Publish \/ QueueMoves \/ QueueSame
    BY <2>0 DEF QueueSame, QueueMoves, Queue!Next
  <2>1. CASE UNCHANGED vars
    BY <2>1, QuietStepIsSame DEF vars, shared, drain
  <2>2. CASE Produce
    BY <2>2, ProduceIsPublish
  <2>3. CASE Replay \/ Fence \/ Failure
    BY <2>3, WorkerOnQueue
  <2>4. QED BY <2>1, <2>2, <2>3 DEF Next
<1>3. QED
  BY <1>1, <1>2, QInvIsInvariant, PTL DEF Spec, ImplementsReplayQueue, Queue!Spec, Contents
=============================================================================
