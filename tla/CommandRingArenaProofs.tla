----------------------- MODULE CommandRingArenaProofs -----------------------
(***************************************************************************)
(* The upload arena of the command ring: every upload keeps its bytes      *)
(* until it is replayed, and an empty ring holds none, for every size of   *)
(* the arena and every range of the position words.                        *)
(*                                                                         *)
(* The uploads that wait are staged up to the staging cursor; the payloads *)
(* of the others lie in the arena one behind the other, from the watermark *)
(* uploadRead to the end of what is published, and the padding before a    *)
(* payload at the arena's start is skipped with it.                        *)
(*                                                                         *)
(* After them come the types of every variable of the ring, which need a   *)
(* bound on what is staged, and that the count of it is exact.             *)
(***************************************************************************)
EXTENDS CommandRingProofs, FiniteSetTheorems

-----------------------------------------------------------------------------
(* Arena positions.  They are 32-bit words as the indices are, and a       *)
(* position's place in the arena is its remainder.                         *)
LEMMA AheadIs ==
  ASSUME NEW p \in Position, NEW r \in Position
  PROVE  /\ Ahead(p, r) = IF p >= r THEN p - r ELSE p - r + ByteModulus
         /\ Ahead(p, r) \in 0 .. ByteModulus - 1
  BY RingAssumption DEF Ahead, Position

(* A position n bytes further on wraps at most once.                       *)
LEMMA PositionIs ==
  ASSUME NEW p \in Position, NEW n \in 0 .. ByteModulus - 1
  PROVE  /\ (p + n) % ByteModulus =
              IF p + n < ByteModulus THEN p + n ELSE p + n - ByteModulus
         /\ (p + n) % ByteModulus \in Position
  BY RingAssumption DEF Position

(* How far ahead a position is after either end moves on.                  *)
LEMMA AheadMoves ==
  ASSUME NEW p \in Position, NEW r \in Position, NEW n \in 0 .. ByteModulus - 1
  PROVE  /\ Ahead(p, r) + n < ByteModulus =>
              Ahead((p + n) % ByteModulus, r) = Ahead(p, r) + n
         /\ n <= Ahead(p, r) => Ahead(p, (r + n) % ByteModulus) = Ahead(p, r) - n
         /\ Ahead((r + n) % ByteModulus, r) = n
  BY RingAssumption DEF Ahead, Position

(* The same before the sum is brought back into range.                     *)
LEMMA AheadOfSum ==
  ASSUME NEW p \in Position, NEW r \in Position, NEW n \in 0 .. ByteModulus - 1,
         Ahead(p, r) + n < ByteModulus
  PROVE  Ahead(p + n, r) = Ahead(p, r) + n
  BY RingAssumption DEF Ahead, Position

(* Nothing lies between a position and itself only.                        *)
LEMMA AheadZero ==
  ASSUME NEW p \in Position, NEW r \in Position
  PROVE  Ahead(p, r) = 0 <=> p = r
  BY RingAssumption DEF Ahead, Position

(* A remainder may be taken before adding or after.                        *)
LEMMA RemainderFirst ==
  ASSUME NEW x \in Int, NEW y \in Int, NEW c \in Nat \ {0}
  PROVE  ((x % c) + y) % c = (x + y) % c
<1> DEFINE q == x \div c
           r == x % c
           m == c * q
<1>1. x = m + r /\ m \in Int /\ r \in Int
  BY DivMod
<1>2. m % c = 0
  <2> DEFINE t == m % c
  <2>1. m = c * (m \div c) + t /\ m \div c \in Int /\ t \in 0 .. c - 1
    BY <1>1, DivMod
  <2>2. c * (q - (m \div c)) = m - c * (m \div c)
    BY <2>1, DivMod
  <2> HIDE DEF t, m
  <2>3. q - (m \div c) \in Int /\ q \in Int
    BY <2>1, DivMod
  <2>4. c * (q - (m \div c)) = t
    BY <2>1, <2>2
  <2>5. q - (m \div c) = 0
    BY <2>1, <2>3, <2>4, OnlyZeroMultiple
  <2>6. QED BY <2>4, <2>5 DEF t
<1> HIDE DEF q, r, m
<1>3. ((x + y) - m) % c = (x + y) % c
  <2>1. x + y \in Int
    OBVIOUS
  <2>2. QED BY <1>1, <1>2, <2>1, ModShift
<1>4. (x + y) - m = r + y
  BY <1>1
<1>5. QED BY <1>3, <1>4 DEF r

(* A place does not change where positions wrap.                           *)
LEMMA PlaceWraps ==
  ASSUME NEW x \in Int
  PROVE  (x - ByteModulus) % ArenaSize = x % ArenaSize
<1>1. ArenaSize \in Nat \ {0} /\ ByteModulus \in Int /\ ByteModulus % ArenaSize = 0
  BY RingAssumption
<1>2. QED BY <1>1, ModShift

(* Where a position's place is, seen from the watermark.                   *)
LEMMA PlaceAhead ==
  ASSUME NEW p \in Position, NEW r \in Position, Ahead(p, r) < ArenaSize
  PROVE  ((p % ArenaSize) - r) % ArenaSize = Ahead(p, r)
<1> DEFINE a == Ahead(p, r)
<1>1. /\ p \in Int /\ r \in Int /\ -r \in Int /\ ArenaSize \in Nat \ {0}
      /\ ByteModulus \in Int /\ ByteModulus % ArenaSize = 0
  BY RingAssumption DEF Position
<1>2. a \in 0 .. ArenaSize - 1 /\ (a = p - r \/ a - ByteModulus = p - r)
  BY <1>1, AheadIs
<1> HIDE DEF a
<1>3. ((p % ArenaSize) + (-r)) % ArenaSize = (p + (-r)) % ArenaSize
  BY <1>1, RemainderFirst
<1>4. (a - ByteModulus) % ArenaSize = a % ArenaSize
  <2>1. a \in Int
    BY <1>1, <1>2
  <2>2. QED BY <1>1, <2>1, ModShift
<1>5. a % ArenaSize = a
  BY <1>1, <1>2
<1>6. p % ArenaSize \in Int
  BY <1>1, RemainderIn
<1>7. (p % ArenaSize) + (-r) = (p % ArenaSize) - r /\ p + (-r) = p - r
  BY <1>1, <1>6
<1>8. (p - r) % ArenaSize = a
  BY <1>2, <1>4, <1>5
<1>9. QED BY <1>3, <1>7, <1>8 DEF a

(* The same after the watermark moves on by x bytes.                       *)
LEMMA PlaceAfterRelease ==
  ASSUME NEW o \in Nat, NEW r \in Position, NEW x \in 0 .. ArenaSize,
         x <= (o - r) % ArenaSize
  PROVE  (o - ((r + x) % ByteModulus)) % ArenaSize = ((o - r) % ArenaSize) - x
<1> DEFINE s == (o - r) % ArenaSize
           t == (r + x) % ByteModulus
<1>1. /\ r \in Int /\ x \in Int /\ -x \in Int /\ ArenaSize \in Nat \ {0}
      /\ ByteModulus \in Int /\ ByteModulus % ArenaSize = 0
      /\ x \in 0 .. ByteModulus - 1 /\ o - r \in Int
  BY RingAssumption DEF Position
<1>2. s \in 0 .. ArenaSize - 1
  BY <1>1, RemainderIn
<1>4. t \in Int /\ t = IF r + x < ByteModulus THEN r + x ELSE r + x - ByteModulus
  <2>1. t \in Position /\ t = IF r + x < ByteModulus THEN r + x ELSE r + x - ByteModulus
    BY <1>1, PositionIs
  <2>2. QED BY <2>1 DEF Position
<1> HIDE DEF t
<1>3. t = r + x \/ t + ByteModulus = r + x
  BY <1>1, <1>4
<1>5. (s + (-x)) % ArenaSize = ((o - r) + (-x)) % ArenaSize
  BY <1>1, RemainderFirst
<1> HIDE DEF s
<1>6. s + (-x) = s - x /\ s - x \in 0 .. ArenaSize - 1
  BY <1>1, <1>2 DEF s
<1>7. (s - x) % ArenaSize = s - x
  BY <1>1, <1>6
<1>8. o - t = (o - r) + (-x) \/ (o - t) - ByteModulus = (o - r) + (-x)
  BY <1>1, <1>3, <1>4
<1>9. ((o - t) - ByteModulus) % ArenaSize = (o - t) % ArenaSize
  <2>1. o - t \in Int
    BY <1>4
  <2>2. QED BY <1>1, <2>1, ModShift
<1>10. (o - t) % ArenaSize = s - x
  BY <1>5, <1>6, <1>7, <1>8, <1>9
<1>11. QED BY <1>10 DEF s, t

(* How far a byte of the arena is from the watermark, and where the bytes  *)
(* of a payload are, if it does not reach around to the watermark.         *)
PlaceOf(b) == (b - uploadRead) % ArenaSize
LEMMA PayloadPlaces ==
  ASSUME uploadRead \in Position, NEW off \in Nat, NEW n \in Nat,
         PlaceOf(off) + n <= ArenaSize, NEW b \in off .. off + n - 1
  PROVE  PlaceOf(b) = PlaceOf(off) + (b - off)
<1> DEFINE s == PlaceOf(off)
<1>1. uploadRead \in Int /\ ArenaSize \in Nat \ {0} /\ off - uploadRead \in Int /\ b - off \in Int
  BY RingAssumption DEF Position
<1>2. s \in 0 .. ArenaSize - 1
  BY <1>1, RemainderIn DEF PlaceOf
<1>3. (s + (b - off)) % ArenaSize = ((off - uploadRead) + (b - off)) % ArenaSize
  BY <1>1, RemainderFirst DEF PlaceOf
<1>4. (off - uploadRead) + (b - off) = b - uploadRead
  BY <1>1
<1> HIDE DEF s
<1>5. s + (b - off) \in 0 .. ArenaSize - 1
  BY <1>1, <1>2 DEF s
<1>6. (s + (b - off)) % ArenaSize = s + (b - off)
  BY <1>1, <1>5
<1>7. QED BY <1>3, <1>4, <1>6 DEF s, PlaceOf

(* The place of the byte k bytes past the watermark.                       *)
LEMMA PlaceOfByte ==
  ASSUME uploadRead \in Position, NEW k \in 0 .. ArenaSize - 1
  PROVE  PlaceOf((uploadRead + k) % ArenaSize) = k
<1>1. /\ uploadRead \in Int /\ -uploadRead \in Int /\ ArenaSize \in Nat \ {0}
      /\ uploadRead + k \in Int
  BY RingAssumption DEF Position
<1>2. (((uploadRead + k) % ArenaSize) + (-uploadRead)) % ArenaSize
        = ((uploadRead + k) + (-uploadRead)) % ArenaSize
  BY <1>1, RemainderFirst
<1>3. (uploadRead + k) % ArenaSize \in Int
  BY <1>1, RemainderIn
<1>4. (uploadRead + k) + (-uploadRead) = k /\ k % ArenaSize = k
  BY <1>1
<1> DEFINE t == (uploadRead + k) % ArenaSize
<1> HIDE DEF t
<1>5. t + (-uploadRead) = t - uploadRead
  BY <1>1, <1>3 DEF t
<1>6. QED BY <1>2, <1>4, <1>5 DEF PlaceOf, t

(* What ReserveUpload reserves: the padding keeps a payload in one piece.  *)
LEMMA ReservedPlace ==
  ASSUME NEW u \in Position, u = uploadWrite, NEW n \in Lengths
  PROVE  /\ Padding(n) \in 0 .. n - 1
         /\ ((u + Padding(n)) % ArenaSize) + n <= ArenaSize
         /\ (u + Padding(n)) % ArenaSize \in 0 .. ArenaSize - 1
<1> DEFINE o == u % ArenaSize
           pad == Padding(n)
<1>1. u \in Nat /\ ArenaSize \in Nat \ {0} /\ n \in Nat \ {0} /\ n <= ArenaSize
  BY RingAssumption, UploadsFit DEF Position
<1>2. o \in 0 .. ArenaSize - 1
  <2>1. u \in Int /\ ArenaSize \in Nat \ {0}
    BY <1>1
  <2>2. QED BY <2>1, RemainderIn
<1>3. pad = IF o + n > ArenaSize THEN ArenaSize - o ELSE 0
  BY DEF Padding
<1> HIDE DEF o, pad
<1>4. pad \in 0 .. n - 1
  BY <1>1, <1>2, <1>3
<1>5. (o + pad) % ArenaSize = (u + pad) % ArenaSize
  <2>1. u \in Int /\ pad \in Int /\ ArenaSize \in Nat \ {0}
    BY <1>1, <1>4
  <2>2. ((u % ArenaSize) + pad) % ArenaSize = (u + pad) % ArenaSize
    BY <2>1, RemainderFirst
  <2>3. QED BY <2>2 DEF o
<1>6. CASE o + n > ArenaSize
  <2>1. o + pad = ArenaSize
    BY <1>1, <1>2, <1>3, <1>6
  <2>2. (o + pad) % ArenaSize = 0
    BY <1>1, <2>1
  <2>3. (u + pad) % ArenaSize = 0 /\ n <= ArenaSize
    BY <1>1, <1>5, <2>2
  <2>4. QED BY <1>1, <1>4, <2>3 DEF pad
<1>7. CASE ~(o + n > ArenaSize)
  <2>1. o + pad = o /\ o % ArenaSize = o
    BY <1>1, <1>2, <1>3, <1>7
  <2>2. (u + pad) % ArenaSize = o
    BY <1>5, <2>1
  <2>3. QED BY <1>1, <1>2, <1>4, <1>7, <2>2 DEF pad
<1>8. QED BY <1>6, <1>7
-----------------------------------------------------------------------------
(* The inductive invariant.  Uploads that wait are staged up to the        *)
(* cursor; the bytes of the others lie in the arena one behind the other.  *)
IsUpload(i) == Waiting(i) /\ Slot(i).op = "upload"
Unread(i) == IsUpload(i) /\ ~IsStaged(i)
PayloadPlace(i) == PlaceOf(Slot(i).off)

(* Where the payloads of published uploads end, and how far ahead that is. *)
Filled == IF ppc = "push" THEN uploadBefore ELSE uploadWrite
Used == Ahead(Filled, uploadRead)

(* A failed consumer that is done with its drain begins no other.          *)
Live == ~(failed /\ cpc = "idle")

ArenaTyped ==
  /\ uploadRead \in Position /\ uploadWrite \in Position /\ uploadBefore \in Position
  /\ DOMAIN arena = 0 .. ArenaSize - 1
  /\ DOMAIN staged = Index
  /\ ppc \in {"reserve", "push"} => length \in Lengths
FieldsFit ==
  \A i \in Index : IsUpload(i) =>
    /\ Slot(i).off \in Nat /\ Slot(i).len \in Lengths
    /\ Slot(i).off + Slot(i).len <= ArenaSize

(* The uploads before the cursor are staged, and no other.                 *)
BehindCursor(i) == IsUpload(i) /\ cursor # None /\ Distance(i, read) < Distance(cursor, read)
CursorAhead == cursor # None /\ stagedStart = next /\ Distance(next, read) <= Distance(cursor, read)
CursorPlaced ==
  /\ \A i \in Index : IsStaged(i) <=> BehindCursor(i)
  /\ stagedStart = None <=> cursor = None
  /\ cursor # None =>
       /\ cursor \in Index
       /\ Distance(cursor, read) <= Distance(IF cpc = "idle" THEN write ELSE seen, read)
  /\ cpc \in {"idle", "replay", "release"} => stagedStart \in {None, read}
  /\ cpc \in {"scan", "stage"} => CursorAhead
  /\ cpc = "publish" /\ ~failed /\ next # seen => CursorAhead
  /\ cpc = "stage" => IsUpload(cursor) /\ Distance(cursor, read) < Distance(seen, read)
  /\ cpc = "release" => ~IsStaged(next)

(* The payloads not yet copied lie in order between the watermark and the  *)
(* end, and the last reaches the end.                                      *)
Chained ==
  /\ Ahead(uploadWrite, uploadRead) <= ArenaSize
  /\ \A i \in Index : Unread(i) => PayloadPlace(i) + Slot(i).len <= Used
  /\ \A i, j \in Index :
       Unread(i) /\ Unread(j) /\ Distance(i, next) < Distance(j, next) =>
         PayloadPlace(i) + Slot(i).len <= PayloadPlace(j)
  /\ \/ Filled = uploadRead /\ \A i \in Index : ~Unread(i)
     \/ \E i \in Index : Unread(i) /\ PayloadPlace(i) + Slot(i).len = Used

(* A payload that waits for its record lies behind them.                   *)
ReservedAt == (uploadWrite - length) % ArenaSize
Reserved ==
  ppc = "push" =>
    /\ ReservedAt + length <= ArenaSize
    /\ Used <= PlaceOf(ReservedAt)
    /\ PlaceOf(ReservedAt) + length = Ahead(uploadWrite, uploadRead)
    /\ \A b \in ReservedAt .. ReservedAt + length - 1 : arena[b] = write

(* Every byte is where it should be.                                       *)
ArenaHolds ==
  \A i \in Index : Unread(i) =>
    \A b \in Slot(i).off .. Slot(i).off + Slot(i).len - 1 : arena[b] = i
StagedHold ==
  /\ \A i \in Index : IsStaged(i) => staged[i].bytes = Own(i)
  /\ cpc = "release" => copied = Own(next)
  /\ cpc = "stage" => copied = Own(cursor)

(* After a failure only this is left: a ring that is empty has no bytes.   *)
Drained == write = read => Filled = uploadRead

Placed == CursorPlaced /\ Chained /\ Reserved /\ ArenaHolds /\ StagedHold
AInv == ArenaTyped /\ FieldsFit /\ (Live => Placed) /\ (~Live => Drained)

(* Builds that replay in order: no legacy mode, whose deferred BEGIN keeps *)
(* a cursor that the drain has passed, and no load fence.                  *)
ReplaysInOrder == Fenced = {} /\ "legacy" \notin Modes

(* There legacy mode never meets the fence.                                *)
LEMMA NeverBoth == ReplaysInOrder => LegacyIsUnfenced
BY DEF ReplaysInOrder, LegacyIsUnfenced

-----------------------------------------------------------------------------
(* Where a waiting record is.                                              *)
LEMMA WaitingPlace ==
  ASSUME RInv, NEW i \in Index
  PROVE  /\ Distance(i, next) \in Nat /\ Waits \in Nat
         /\ i = Advance(next, Distance(i, next))
         /\ Waiting(i) <=> Distance(i, next) \in 0 .. Waits - 1
         /\ Waiting(i) => /\ Distance(i, read) = Distance(next, read) + Distance(i, next)
                          /\ Distance(i, read) < Distance(write, read)
<1>1. /\ write \in Index /\ read \in Index /\ next \in Index
      /\ Distance(write, read) <= Capacity /\ Distance(next, read) <= Distance(write, read)
  BY DEF RInv, Typed, CursorsInOrder
<1>2. IndexModulus \in Nat /\ Capacity \in Nat /\ Capacity < IndexModulus
  BY RingAssumption
<1>3. /\ Waits \in 0 .. IndexModulus - 1 /\ Distance(i, next) \in 0 .. IndexModulus - 1
      /\ Distance(next, read) \in 0 .. IndexModulus - 1
      /\ Distance(write, read) \in 0 .. IndexModulus - 1
      /\ Distance(write, read) = Distance(next, read) + Waits
  BY <1>1, DistanceIs, DistancesAdd DEF Waits
<1>4. i = Advance(next, Distance(i, next))
  BY <1>1, AdvanceByDistance
<1>5. Waiting(i) <=> Distance(i, next) \in 0 .. Waits - 1
  BY <1>3 DEF Waiting, Waits
<1>6. ASSUME Waiting(i)
      PROVE  /\ Distance(i, read) = Distance(next, read) + Distance(i, next)
             /\ Distance(i, read) < Distance(write, read)
  <2>1. Distance(i, next) < Waits
    BY <1>6 DEF Waiting, Waits
  <2>2. Distance(next, read) + Distance(i, next) < IndexModulus
    BY <1>1, <1>2, <1>3, <2>1
  <2>3. Distance(Advance(next, Distance(i, next)), read) = Distance(next, read) + Distance(i, next)
    BY <1>1, <1>3, <2>2, DistanceGrows
  <2>4. QED BY <1>3, <1>4, <2>1, <2>3
<1>7. QED BY <1>3, <1>4, <1>5, <1>6

(* A publication leaves the waiting records and adds its own behind them.  *)
LEMMA PublishAdds ==
  ASSUME RInv, next' = next, NEW records, NEW n \in 1 .. Capacity, Len(records) = n,
         Publish(records), NEW i \in Index
  PROVE  /\ Waiting(i) => Waiting(i)' /\ Slot(i)' = Slot(i)
         /\ Waiting(i)' /\ ~Waiting(i) =>
              /\ \E k \in 1 .. n : i = Advance(write, k - 1) /\ Slot(i)' = records[k]
              /\ Distance(i, read) >= Distance(write, read)
         /\ Distance(write, read)' >= Distance(write, read)
<1>1. /\ write \in Index /\ read \in Index /\ next \in Index
      /\ Distance(next, read) <= Distance(write, read)
  BY DEF RInv, Typed, CursorsInOrder
<1>2. Appended(next, Waits, records, n)
  BY <1>1, PublishAppends DEF Waits
<1>0. PICK d \in Nat : d = Distance(i, next)
  BY WaitingPlace
<1>3. d \in Nat /\ Waits \in Nat /\ i = Advance(next, d) /\ (Waiting(i) <=> d \in 0 .. Waits - 1)
  BY <1>0, WaitingPlace
<1>4. Waiting(i)' <=> d < Waits + n
  BY <1>0, <1>2 DEF Waiting, Appended
<1>5. ASSUME Waiting(i) PROVE Waiting(i)' /\ Slot(i)' = Slot(i)
  <2>1. Slot(Advance(next, d))' = Slot(Advance(next, d))
    BY <1>2, <1>3, <1>5 DEF Appended
  <2>2. slots'[Advance(next, d) % Capacity] = slots[Advance(next, d) % Capacity]
    <3>1. Slot(Advance(next, d))' = slots'[Advance(next', d) % Capacity]
      BY DEF Slot, Advance
    <3>2. QED BY <2>1, <3>1 DEF Slot
  <2>3. QED BY <1>3, <1>4, <1>5, <2>2 DEF Slot
<1>6. ASSUME Waiting(i)', ~Waiting(i)
      PROVE  \E k \in 1 .. n : i = Advance(write, k - 1) /\ Slot(i)' = records[k]
  <2>1. d \in Waits .. Waits + n - 1
    BY <1>3, <1>4, <1>6
  <2>2. /\ Slot(Advance(next, d))' = records[d - Waits + 1]
        /\ Advance(next, d) = Advance(write, d - Waits)
    BY <1>2, <2>1 DEF Appended
  <2>3. Slot(i)' = records[d - Waits + 1]
    <3>1. Slot(Advance(next, d))' = slots'[Advance(next', d) % Capacity]
      BY DEF Slot, Advance
    <3>2. QED BY <1>3, <2>2, <3>1 DEF Slot
  <2>4. d - Waits + 1 \in 1 .. n /\ (d - Waits + 1) - 1 = d - Waits
    BY <1>3, <2>1
  <2>5. QED BY <1>3, <2>2, <2>3, <2>4
<1>7. /\ Distance(write, read)' = Distance(write, read) + n /\ Distance(write, read)' <= Capacity
      /\ Distance(write, read) = Distance(next, read) + Waits
      /\ Distance(next, read) \in 0 .. IndexModulus - 1 /\ d \in 0 .. IndexModulus - 1
      /\ Capacity \in Nat /\ Capacity < IndexModulus /\ IndexModulus \in Nat
  BY <1>0, <1>1, <1>2, DistanceIs, DistancesAdd, RingAssumption DEF Appended, Waits
<1>8. ASSUME Waiting(i)', ~Waiting(i) PROVE Distance(i, read) >= Distance(write, read)
  <2>1. d >= Waits /\ d < Waits + n
    BY <1>3, <1>4, <1>8
  <2>2. Distance(next, read) + d < IndexModulus
    BY <1>3, <1>7, <2>1
  <2>3. Distance(Advance(next, d), read) = Distance(next, read) + d
    BY <1>1, <1>7, <2>2, DistanceGrows
  <2>4. QED BY <1>3, <1>7, <2>1, <2>3
<1>9. QED BY <1>3, <1>5, <1>6, <1>7, <1>8

(* Handing back records leaves those that wait.                            *)
LEMMA HandBackLeaves ==
  ASSUME RInv, next' = next, write' = write, PublishRead(next), NEW i \in Index, Waiting(i)
  PROVE  Slot(i)' = Slot(i)
<1>0. PICK d \in Nat : d = Distance(i, next)
  BY WaitingPlace
<1>1. d \in 0 .. Waits - 1 /\ i = Advance(next, d)
  BY <1>0, WaitingPlace
<1>2. Slot(Advance(next, d))' = Slot(Advance(next, d))
  BY <1>1, HandBackKeeps
<1>3. Slot(Advance(next, d))' = slots'[Advance(next', d) % Capacity]
  BY DEF Slot, Advance
<1>4. QED BY <1>1, <1>2, <1>3 DEF Slot

(* Going on by one record: the others wait on, in the same order.          *)
LEMMA StepLeaves ==
  ASSUME RInv, Waiting(next), next' = Advance(next, 1), UNCHANGED <<write, read, slots>>
  PROVE  /\ \A i \in Index : /\ Waiting(i)' <=> Waiting(i) /\ i # next
                             /\ Slot(i)' = Slot(i)
         /\ \A i, j \in Index :
              /\ Waiting(i) /\ Waiting(j) /\ i # next /\ j # next
              /\ Distance(i, next)' < Distance(j, next)'
              => Distance(i, next) < Distance(j, next)
<1>1. write \in Index /\ read \in Index /\ next \in Index
  BY DEF RInv, Typed
<1>2. Distance(next, next) = 0
  BY <1>1, DistanceZero
<1>3. Waits > 0 /\ Waits \in Nat /\ Waits < IndexModulus /\ IndexModulus \in Nat
  BY <1>1, <1>2, Ranges, RingAssumption DEF Waiting, Waits
<1>4. /\ Waits' = Waits - 1
      /\ \A w \in Index : w # next => /\ Distance(w, next) >= 1
                                      /\ Distance(w, next') = Distance(w, next) - 1
  BY <1>3, StepShifts
<1>5. Distance(next, next') >= Waits - 1
  <2>1. next' \in Index /\ 1 \in 0 .. IndexModulus - 1
    BY <1>1, <1>3, StepShifts, RingAssumption
  <2>2. Distance(next', next) = 1
    BY <1>1, <2>1, DistanceOfAdvance
  <2>3. next \in 0 .. IndexModulus - 1 /\ next' \in 0 .. IndexModulus - 1
    BY <1>1, <2>1 DEF Index
  <2>4. Distance(next, next') = IndexModulus - 1
    BY <1>1, <1>3, <2>1, <2>2, <2>3, DistanceIs
  <2>5. QED BY <1>3, <2>4
<1>6. ASSUME NEW i \in Index
      PROVE  /\ Waiting(i)' <=> Waiting(i) /\ i # next
             /\ Slot(i)' = Slot(i)
  <2>1. Waiting(i)' <=> Distance(i, next') < Waits - 1
    BY <1>4 DEF Waiting, Waits
  <2>2. CASE i = next
    BY <1>3, <1>5, <2>1, <2>2, DistanceIs, StepShifts DEF Slot
  <2>3. CASE i # next
    <3>1. Distance(i, next') = Distance(i, next) - 1 /\ Distance(i, next) \in Nat
      BY <1>4, <2>3, WaitingPlace
    <3>2. QED BY <1>3, <2>1, <2>3, <3>1 DEF Slot, Waiting, Waits
  <2>4. QED BY <2>2, <2>3
<1>7. ASSUME NEW i \in Index, NEW j \in Index, Waiting(i), Waiting(j), i # next, j # next,
             Distance(i, next)' < Distance(j, next)'
      PROVE  Distance(i, next) < Distance(j, next)
  <2>1. Distance(i, next') < Distance(j, next')
    BY <1>7 DEF Distance
  <2>2. Distance(i, next') = Distance(i, next) - 1 /\ Distance(i, next) \in Nat
        /\ Distance(i, next) < Waits /\ Distance(j, next) \in Nat
    BY <1>4, <1>7, WaitingPlace DEF Waiting, Waits
  <2>3. Distance(j, next') = Distance(j, next) - 1
    BY <1>4, <1>7
  <2>4. QED BY <2>1, <2>2, <2>3
<1>8. QED BY <1>6, <1>7

-----------------------------------------------------------------------------
(* Steps that copy no payload out of the arena and put none into it.       *)
SameUnread ==
  /\ \A i \in Index : /\ IsUpload(i)' => IsUpload(i)
                      /\ Unread(i)' <=> Unread(i)
                      /\ IsUpload(i)' => Slot(i)' = Slot(i)
  /\ \A i, j \in Index :
       Unread(i) /\ Unread(j) /\ Distance(i, next)' < Distance(j, next)' =>
         Distance(i, next) < Distance(j, next)

(* They leave every payload where it is.                                  *)
LEMMA SameUnreadKeeps ==
  ASSUME SameUnread, uploadRead' = uploadRead, Filled' = Filled,
         Ahead(uploadWrite, uploadRead)' <= ArenaSize
  PROVE  /\ FieldsFit => FieldsFit'
         /\ Chained => Chained'
         /\ arena' = arena /\ ArenaHolds => ArenaHolds'
<1>1. ASSUME NEW i \in Index, Unread(i)
      PROVE  Slot(i)' = Slot(i) /\ PayloadPlace(i)' = PayloadPlace(i)
  BY <1>1 DEF SameUnread, Unread, PayloadPlace, PlaceOf
<1>2. Used' = Used
  BY DEF Used, Ahead
<1>3. FieldsFit => FieldsFit'
  BY DEF FieldsFit, SameUnread
<1>4. ASSUME Chained PROVE Chained'
  <2>1. \A i \in Index : Unread(i)' => (PayloadPlace(i) + Slot(i).len <= Used)'
    BY <1>1, <1>2, <1>4 DEF Chained, SameUnread
  <2>2. \A i, j \in Index :
          Unread(i)' /\ Unread(j)' /\ Distance(i, next)' < Distance(j, next)' =>
            (PayloadPlace(i) + Slot(i).len <= PayloadPlace(j))'
    BY <1>1, <1>4 DEF Chained, SameUnread
  <2>3. \/ Filled' = uploadRead' /\ \A i \in Index : ~Unread(i)'
        \/ \E i \in Index : Unread(i)' /\ (PayloadPlace(i) + Slot(i).len = Used)'
    <3>1. CASE Filled = uploadRead /\ \A i \in Index : ~Unread(i)
      BY <3>1 DEF SameUnread
    <3>2. CASE \E i \in Index : Unread(i) /\ PayloadPlace(i) + Slot(i).len = Used
      BY <1>1, <1>2, <3>2 DEF SameUnread
    <3>3. QED BY <1>4, <3>1, <3>2 DEF Chained
  <2>4. QED BY <2>1, <2>2, <2>3 DEF Chained
<1>5. ASSUME arena' = arena, ArenaHolds PROVE ArenaHolds'
  BY <1>1, <1>5 DEF ArenaHolds, SameUnread
<1>6. QED BY <1>3, <1>4, <1>5

(* A reservation stays as it is.                                           *)
LEMMA SameReserved ==
  ASSUME Reserved, UNCHANGED <<write, uploadRead, uploadWrite, uploadBefore, ppc, length>>,
         ppc = "push" => arena' = arena
  PROVE  Reserved'
<1>1. ReservedAt' = ReservedAt /\ Used' = Used /\ PlaceOf(ReservedAt)' = PlaceOf(ReservedAt)
      /\ Ahead(uploadWrite, uploadRead)' = Ahead(uploadWrite, uploadRead)
  BY DEF ReservedAt, Used, Filled, Ahead, PlaceOf
<1>2. QED BY <1>1 DEF Reserved

(* Where everything is that the invariant speaks of.                       *)
LEMMA PlacesTyped ==
  ASSUME ArenaTyped, FieldsFit, Chained, Reserved
  PROVE  /\ Filled \in Position /\ Used \in Nat /\ Ahead(uploadWrite, uploadRead) \in Nat
         /\ Used <= Ahead(uploadWrite, uploadRead) /\ Used <= ArenaSize
         /\ \A i \in Index : Unread(i) =>
              /\ Slot(i).off \in Nat /\ Slot(i).len \in Nat \ {0}
              /\ PayloadPlace(i) \in Nat /\ PayloadPlace(i) < ArenaSize
              /\ PayloadPlace(i) + Slot(i).len <= ArenaSize
         /\ ppc = "push" => /\ ReservedAt \in Nat /\ length \in Nat \ {0}
                            /\ PlaceOf(ReservedAt) \in Nat
                            /\ PlaceOf(ReservedAt) + length <= ArenaSize
<1>1. ArenaSize \in Nat \ {0} /\ ByteModulus \in Nat
  BY RingAssumption
<1>2. Filled \in Position
  BY DEF ArenaTyped, Filled
<1>3. Used \in Nat /\ Ahead(uploadWrite, uploadRead) \in Nat
  BY <1>1, <1>2, AheadIs DEF ArenaTyped, Used
<1>4. ASSUME NEW o \in Nat PROVE PlaceOf(o) \in Nat /\ PlaceOf(o) < ArenaSize
  <2>1. o - uploadRead \in Int
    BY DEF ArenaTyped, Position
  <2>2. PlaceOf(o) \in 0 .. ArenaSize - 1
    BY <1>1, <2>1, RemainderIn DEF PlaceOf
  <2>3. QED BY <1>1, <2>2
<1>5. ASSUME ppc = "push"
      PROVE  /\ ReservedAt \in Nat /\ length \in Nat \ {0} /\ PlaceOf(ReservedAt) \in Nat
             /\ PlaceOf(ReservedAt) + length <= ArenaSize
             /\ Used <= Ahead(uploadWrite, uploadRead)
  <2>1. length \in Nat \ {0} /\ uploadWrite - length \in Int
    BY <1>5, UploadsFit DEF ArenaTyped, Position
  <2>2. ReservedAt \in 0 .. ArenaSize - 1
    BY <1>1, <2>1, RemainderIn DEF ReservedAt
  <2>3. ReservedAt \in Nat
    BY <1>1, <2>2
  <2>4. PlaceOf(ReservedAt) \in Nat
    BY <1>4, <2>3
  <2>5. Used <= PlaceOf(ReservedAt) /\ PlaceOf(ReservedAt) + length = Ahead(uploadWrite, uploadRead)
    BY <1>5 DEF Reserved
  <2>6. Ahead(uploadWrite, uploadRead) <= ArenaSize
    BY DEF Chained
  <2>7. QED BY <1>1, <1>3, <2>1, <2>3, <2>4, <2>5, <2>6
<1>6. Used <= Ahead(uploadWrite, uploadRead)
  <2>1. CASE ppc = "push"
    BY <1>5, <2>1
  <2>2. CASE ppc # "push"
    BY <1>3, <2>2 DEF Used, Filled
  <2>3. QED BY <2>1, <2>2
<1>7. Used <= ArenaSize
  BY <1>1, <1>3, <1>6 DEF Chained
<1>8. ASSUME NEW i \in Index, Unread(i)
      PROVE  /\ Slot(i).off \in Nat /\ Slot(i).len \in Nat \ {0}
             /\ PayloadPlace(i) \in Nat /\ PayloadPlace(i) < ArenaSize
             /\ PayloadPlace(i) + Slot(i).len <= ArenaSize
  <2>1. Slot(i).off \in Nat /\ Slot(i).len \in Lengths
    BY <1>8 DEF FieldsFit, Unread
  <2>2. Slot(i).len \in Nat \ {0}
    BY <2>1, UploadsFit
  <2>3. PayloadPlace(i) \in Nat /\ PayloadPlace(i) < ArenaSize
    BY <1>4, <2>1 DEF PayloadPlace
  <2>4. PayloadPlace(i) + Slot(i).len <= Used
    BY <1>8 DEF Chained
  <2>5. QED BY <1>1, <1>3, <1>7, <2>1, <2>2, <2>3, <2>4
<1>9. QED BY <1>2, <1>3, <1>5, <1>6, <1>7, <1>8

(* Releasing the first payload that is not copied leaves the others.       *)
LEMMA ReleaseKeeps ==
  ASSUME ArenaTyped, FieldsFit, Chained, Reserved, ArenaHolds,
         NEW f \in Index, Unread(f), Release(Slot(f)),
         \A j \in Index : Unread(j) /\ j # f => Distance(f, next) < Distance(j, next),
         UNCHANGED <<write, uploadWrite, uploadBefore, ppc, length>>,
         \A i \in Index : /\ IsUpload(i)' => IsUpload(i)
                          /\ Unread(i)' <=> Unread(i) /\ i # f
                          /\ IsUpload(i)' => Slot(i)' = Slot(i),
         \A i, j \in Index :
           /\ Unread(i) /\ Unread(j) /\ i # f /\ j # f
           /\ Distance(i, next)' < Distance(j, next)'
           => Distance(i, next) < Distance(j, next)
  PROVE  /\ uploadRead' \in Position /\ DOMAIN arena' = 0 .. ArenaSize - 1
         /\ FieldsFit' /\ Chained' /\ Reserved' /\ ArenaHolds'
<1> DEFINE x == PayloadPlace(f) + Slot(f).len
<1>1. /\ uploadRead \in Position /\ uploadWrite \in Position /\ Filled \in Position
      /\ Used \in Nat /\ Ahead(uploadWrite, uploadRead) \in Nat
      /\ Used <= Ahead(uploadWrite, uploadRead) /\ Used <= ArenaSize
      /\ ArenaSize \in Nat /\ ByteModulus \in Nat /\ 2 * ArenaSize <= ByteModulus /\ ArenaSize > 0
  BY PlacesTyped, RingAssumption DEF ArenaTyped
<1>2. \A i \in Index : Unread(i) =>
        /\ Slot(i).off \in Nat /\ Slot(i).len \in Nat \ {0}
        /\ PayloadPlace(i) \in Nat /\ PayloadPlace(i) < ArenaSize
        /\ PayloadPlace(i) + Slot(i).len <= Used
  BY PlacesTyped DEF Chained
<1>3. x \in Nat /\ x > 0 /\ x <= Used /\ x \in 0 .. ArenaSize /\ x \in 0 .. ByteModulus - 1
  <2>1. PayloadPlace(f) \in Nat /\ Slot(f).len \in Nat \ {0} /\ x <= Used
    BY <1>2
  <2>2. QED BY <1>1, <2>1
<1>4. uploadRead' = (uploadRead + x) % ByteModulus /\ uploadRead' = NextUploadRead(Slot(f))
  <2>1. uploadRead + PayloadPlace(f) + Slot(f).len = uploadRead + x
    <3>1. uploadRead \in Int /\ PayloadPlace(f) \in Int /\ Slot(f).len \in Int
      BY <1>1, <1>2 DEF Position
    <3>2. QED BY <3>1
  <2>2. NextUploadRead(Slot(f)) = (uploadRead + PayloadPlace(f) + Slot(f).len) % ByteModulus
    BY DEF NextUploadRead, PayloadPlace, PlaceOf
  <2>3. QED BY <2>1, <2>2 DEF Release
<1> HIDE DEF x
<1>5. /\ uploadRead' \in Position /\ Ahead(NextUploadRead(Slot(f)), uploadRead) = x
      /\ Used' = Used - x
      /\ Ahead(uploadWrite, uploadRead)' = Ahead(uploadWrite, uploadRead) - x
  <2>1. uploadRead' \in Position
    BY <1>1, <1>3, <1>4, PositionIs
  <2>2. Ahead(NextUploadRead(Slot(f)), uploadRead) = x
    BY <1>1, <1>3, <1>4, AheadMoves
  <2>3. x <= Ahead(Filled, uploadRead) /\ x <= Ahead(uploadWrite, uploadRead)
    BY <1>1, <1>3 DEF Used
  <2>4. Ahead(Filled, (uploadRead + x) % ByteModulus) = Ahead(Filled, uploadRead) - x
    BY <1>1, <1>3, <2>3, AheadMoves
  <2>5. Ahead(uploadWrite, (uploadRead + x) % ByteModulus) = Ahead(uploadWrite, uploadRead) - x
    BY <1>1, <1>3, <2>3, AheadMoves
  <2>6. Filled' = Filled
    BY DEF Filled
  <2>7. Used' = Ahead(Filled, uploadRead')
    BY <2>6 DEF Used, Ahead
  <2>8. Ahead(uploadWrite, uploadRead)' = Ahead(uploadWrite, uploadRead')
    BY DEF Ahead
  <2>9. QED BY <1>4, <2>1, <2>2, <2>4, <2>5, <2>7, <2>8 DEF Used
<1>6. /\ DOMAIN arena' = 0 .. ArenaSize - 1
      /\ \A b \in 0 .. ArenaSize - 1 : x <= PlaceOf(b) => arena'[b] = arena[b]
  <2>1. /\ DOMAIN arena = 0 .. ArenaSize - 1
        /\ arena' = [b \in DOMAIN arena |->
                       IF \E k \in 0 .. x - 1 : b = (uploadRead + k) % ArenaSize
                       THEN Free ELSE arena[b]]
    BY <1>5 DEF Release, ArenaTyped
  <2>2. ASSUME NEW b \in 0 .. ArenaSize - 1, x <= PlaceOf(b), NEW k \in 0 .. x - 1,
               b = (uploadRead + k) % ArenaSize
        PROVE  FALSE
    <3>1. k \in 0 .. ArenaSize - 1
      BY <1>1, <1>3
    <3>2. PlaceOf(b) = k
      BY <1>1, <2>2, <3>1, PlaceOfByte
    <3>3. QED BY <1>3, <2>2, <3>2
  <2>3. QED BY <2>1, <2>2
<1>7. ASSUME NEW o \in Nat, NEW m \in Nat, x <= PlaceOf(o), PlaceOf(o) + m <= ArenaSize,
             o + m <= ArenaSize, NEW b \in o .. o + m - 1
      PROVE  arena'[b] = arena[b]
  <2>1. PlaceOf(b) = PlaceOf(o) + (b - o)
    BY <1>1, <1>7, PayloadPlaces
  <2>2. PlaceOf(o) \in Int /\ b - o \in Nat /\ b \in 0 .. ArenaSize - 1
    <3>1. o - uploadRead \in Int /\ ArenaSize \in Nat \ {0}
      BY <1>1 DEF Position
    <3>2. PlaceOf(o) \in Int
      BY <3>1, RemainderIn DEF PlaceOf
    <3>3. QED BY <1>1, <1>7, <3>2
  <2>3. x <= PlaceOf(b)
    BY <1>3, <1>7, <2>1, <2>2
  <2>4. QED BY <1>6, <2>2, <2>3
<1>8. ASSUME NEW i \in Index, Unread(i), i # f
      PROVE  /\ x <= PayloadPlace(i) /\ PayloadPlace(i)' = PayloadPlace(i) - x
             /\ Slot(i)' = Slot(i)
  <2>1. x <= PayloadPlace(i)
    BY <1>8 DEF Chained, x
  <2>2. Slot(i)' = Slot(i)
    BY <1>8 DEF Unread
  <2>3. (Slot(i).off - ((uploadRead + x) % ByteModulus)) % ArenaSize
          = ((Slot(i).off - uploadRead) % ArenaSize) - x
    <3>1. Slot(i).off \in Nat
      BY <1>2, <1>8
    <3>2. x <= (Slot(i).off - uploadRead) % ArenaSize
      BY <2>1 DEF PayloadPlace, PlaceOf
    <3>3. QED BY <1>1, <1>3, <3>1, <3>2, PlaceAfterRelease
  <2>4. QED BY <1>4, <2>1, <2>2, <2>3 DEF PayloadPlace, PlaceOf
<1>9. FieldsFit'
  BY DEF FieldsFit
<1>10. Chained'
  <2>1. Ahead(uploadWrite, uploadRead)' <= ArenaSize
    <3>1. Ahead(uploadWrite, uploadRead) <= ArenaSize
      BY DEF Chained
    <3>2. QED BY <1>1, <1>3, <1>5, <3>1
  <2>2. ASSUME NEW i \in Index, Unread(i)' PROVE (PayloadPlace(i) + Slot(i).len <= Used)'
    <3>1. Unread(i) /\ i # f
      BY <2>2
    <3>2. PayloadPlace(i) + Slot(i).len <= Used /\ PayloadPlace(i) \in Nat /\ Slot(i).len \in Nat
      BY <1>2, <3>1
    <3>3. (PayloadPlace(i) - x) + Slot(i).len <= Used - x
      BY <1>1, <1>3, <3>2
    <3>4. QED BY <1>5, <1>8, <3>1, <3>3
  <2>3. ASSUME NEW i \in Index, NEW j \in Index, Unread(i)', Unread(j)',
               Distance(i, next)' < Distance(j, next)'
        PROVE  (PayloadPlace(i) + Slot(i).len <= PayloadPlace(j))'
    <3>1. Unread(i) /\ i # f /\ Unread(j) /\ j # f
      BY <2>3
    <3>2. PayloadPlace(i) + Slot(i).len <= PayloadPlace(j)
      BY <2>3, <3>1 DEF Chained
    <3>3. PayloadPlace(i) \in Nat /\ Slot(i).len \in Nat /\ PayloadPlace(j) \in Nat
      BY <1>2, <3>1
    <3>4. (PayloadPlace(i) - x) + Slot(i).len <= PayloadPlace(j) - x
      BY <1>3, <3>2, <3>3
    <3>5. QED BY <1>8, <3>1, <3>4
  <2>4. \/ Filled' = uploadRead' /\ \A i \in Index : ~Unread(i)'
        \/ \E i \in Index : Unread(i)' /\ (PayloadPlace(i) + Slot(i).len = Used)'
    <3>1. PICK l \in Index : Unread(l) /\ PayloadPlace(l) + Slot(l).len = Used
      BY DEF Chained
    <3>2. CASE l = f
      <4>1. ASSUME NEW i \in Index, Unread(i)' PROVE FALSE
        <5>1. Unread(i) /\ i # f
          BY <4>1
        <5>2. x <= PayloadPlace(i) /\ PayloadPlace(i) + Slot(i).len <= Used
              /\ PayloadPlace(i) \in Nat /\ Slot(i).len \in Nat \ {0}
          BY <1>2, <1>8, <5>1
        <5>3. x = Used
          BY <3>1, <3>2 DEF x
        <5>4. QED BY <1>1, <5>2, <5>3
      <4>2. Used' = 0
        <5>1. x = Used
          BY <3>1, <3>2 DEF x
        <5>2. QED BY <1>1, <1>5, <5>1
      <4>3. Filled' = Filled /\ Ahead(Filled, uploadRead') = 0
        BY <4>2 DEF Used, Filled, Ahead
      <4>4. Filled = uploadRead'
        BY <1>1, <1>5, <4>3, AheadZero
      <4>5. QED BY <4>1, <4>3, <4>4
    <3>3. CASE l # f
      <4>1. Unread(l)' /\ Slot(l)' = Slot(l) /\ PayloadPlace(l)' = PayloadPlace(l) - x
        BY <1>8, <3>1, <3>3
      <4>2. PayloadPlace(l) \in Nat /\ Slot(l).len \in Nat
        BY <1>2, <3>1
      <4>3. (PayloadPlace(l) - x) + Slot(l).len = Used - x
        BY <1>1, <1>3, <3>1, <4>2
      <4>4. (PayloadPlace(l) + Slot(l).len = Used)'
        BY <1>5, <4>1, <4>3
      <4>5. QED BY <4>1, <4>4
    <3>4. QED BY <3>2, <3>3
  <2>5. QED BY <2>1, <2>2, <2>3, <2>4 DEF Chained
<1>11. Reserved'
  <2> SUFFICES ASSUME ppc = "push" PROVE
        /\ (ReservedAt + length <= ArenaSize)'
        /\ (Used <= PlaceOf(ReservedAt))'
        /\ (PlaceOf(ReservedAt) + length = Ahead(uploadWrite, uploadRead))'
        /\ (\A b \in ReservedAt .. ReservedAt + length - 1 : arena[b] = write)'
    BY DEF Reserved
  <2>1. /\ ReservedAt + length <= ArenaSize /\ Used <= PlaceOf(ReservedAt)
        /\ PlaceOf(ReservedAt) + length = Ahead(uploadWrite, uploadRead)
        /\ \A b \in ReservedAt .. ReservedAt + length - 1 : arena[b] = write
    BY DEF Reserved
  <2>2. /\ ReservedAt \in Nat /\ length \in Nat /\ PlaceOf(ReservedAt) \in Nat
        /\ PlaceOf(ReservedAt) + length <= ArenaSize
    BY PlacesTyped
  <2>3. x <= PlaceOf(ReservedAt)
    BY <1>1, <1>3, <2>1, <2>2
  <2>4. ReservedAt' = ReservedAt /\ length' = length
    BY DEF ReservedAt
  <2>5. PlaceOf(ReservedAt)' = PlaceOf(ReservedAt) - x
    <3>1. (ReservedAt - ((uploadRead + x) % ByteModulus)) % ArenaSize
            = ((ReservedAt - uploadRead) % ArenaSize) - x
      BY <1>1, <1>3, <2>2, <2>3, PlaceAfterRelease DEF PlaceOf
    <3>2. PlaceOf(ReservedAt)' = (ReservedAt - uploadRead') % ArenaSize
      BY <2>4 DEF PlaceOf
    <3>3. QED BY <1>4, <3>1, <3>2 DEF PlaceOf
  <2>6. \A b \in ReservedAt .. ReservedAt + length - 1 : arena'[b] = write
    BY <1>7, <2>1, <2>2, <2>3
  <2>7. Used - x <= PlaceOf(ReservedAt) - x
        /\ (PlaceOf(ReservedAt) - x) + length = Ahead(uploadWrite, uploadRead) - x
    BY <1>1, <1>3, <2>1, <2>2
  <2>8. QED BY <1>5, <2>1, <2>4, <2>5, <2>6, <2>7
<1>12. ArenaHolds'
  <2>1. ASSUME NEW i \in Index, Unread(i)', NEW b \in (Slot(i).off .. Slot(i).off + Slot(i).len - 1)'
        PROVE  arena'[b] = i
    <3>1. Unread(i) /\ i # f
      BY <2>1
    <3>2. b \in Slot(i).off .. Slot(i).off + Slot(i).len - 1
      BY <1>8, <2>1, <3>1
    <3>3. arena[b] = i
      BY <3>1, <3>2 DEF ArenaHolds
    <3>4. /\ Slot(i).off \in Nat /\ Slot(i).len \in Nat
          /\ Slot(i).off + Slot(i).len <= ArenaSize
          /\ PlaceOf(Slot(i).off) + Slot(i).len <= ArenaSize
      BY <1>2, <3>1, PlacesTyped DEF FieldsFit, Unread, PayloadPlace
    <3>5. x <= PlaceOf(Slot(i).off)
      BY <1>8, <3>1 DEF PayloadPlace
    <3>6. QED BY <1>7, <3>2, <3>3, <3>4, <3>5
  <2>2. QED BY <2>1 DEF ArenaHolds
<1>13. QED BY <1>5, <1>6, <1>9, <1>10, <1>11, <1>12

(* Reserving bytes for a payload overwrites none that waits.               *)
LEMMA ReserveKeeps ==
  ASSUME ArenaTyped, FieldsFit, Chained, Reserved, ArenaHolds, ReserveUpload
  PROVE  ArenaTyped' /\ FieldsFit' /\ Chained' /\ Reserved' /\ ArenaHolds'
<1> DEFINE a == Ahead(uploadWrite, uploadRead)
           pad == Padding(length)
           off == (uploadWrite + pad) % ArenaSize
<1>1. /\ ppc = "reserve" /\ ppc' = "push" /\ UploadFits(length)
      /\ uploadBefore' = uploadWrite
      /\ uploadWrite' = (uploadWrite + pad + length) % ByteModulus
      /\ arena' = [b \in DOMAIN arena |-> IF b \in off .. off + length - 1 THEN write ELSE arena[b]]
      /\ UNCHANGED <<write, read, uploadRead, slots, length, staged, next>>
  BY DEF ReserveUpload, ring, drain
<1>2. /\ uploadRead \in Position /\ uploadWrite \in Position /\ Filled = uploadWrite
      /\ length \in Lengths /\ length \in Nat \ {0} /\ length <= ArenaSize /\ ArenaSize + 2 * length <= ByteModulus
      /\ DOMAIN arena = 0 .. ArenaSize - 1 /\ DOMAIN staged = Index
      /\ ArenaSize \in Nat \ {0} /\ ByteModulus \in Nat /\ 2 * ArenaSize <= ByteModulus
      /\ ByteModulus % ArenaSize = 0
  BY <1>1, UploadsFit, RingAssumption DEF ArenaTyped, Filled
<1>3. a \in Nat /\ a <= ArenaSize /\ Used = a
  BY <1>2, PlacesTyped DEF Chained, Used
<1>4. pad \in 0 .. length - 1 /\ off + length <= ArenaSize /\ off \in 0 .. ArenaSize - 1
  BY <1>2, ReservedPlace
<1> HIDE DEF a, pad, off
<1>5. /\ pad \in 0 .. ByteModulus - 1 /\ pad + length \in 0 .. ByteModulus - 1
      /\ a + (pad + length) < ByteModulus /\ a + pad < ByteModulus
  BY <1>2, <1>3, <1>4
<1>6. uploadWrite + pad + length = uploadWrite + (pad + length)
  BY <1>2, <1>4 DEF Position
<1>7. a + pad + length <= ArenaSize
  <2>1. Ahead(uploadWrite + (pad + length), uploadRead) = a + (pad + length)
    BY <1>2, <1>5, AheadOfSum DEF a
  <2>2. Ahead(uploadWrite + (pad + length), uploadRead) <= ArenaSize
    BY <1>1, <1>6 DEF UploadFits, pad
  <2>3. QED BY <1>2, <1>3, <1>4, <2>1, <2>2
<1>8. uploadWrite' \in Position /\ Ahead(uploadWrite, uploadRead)' = a + pad + length
  <2>1. uploadWrite' = (uploadWrite + (pad + length)) % ByteModulus
    BY <1>1, <1>6
  <2>2. uploadWrite' \in Position
    BY <1>2, <1>5, <2>1, PositionIs
  <2>3. Ahead(uploadWrite', uploadRead) = a + (pad + length)
    BY <1>2, <1>5, <2>1, AheadMoves DEF a
  <2>4. QED BY <1>1, <1>2, <1>3, <1>4, <2>2, <2>3 DEF Ahead
<1>9. PlaceOf(off) = a + pad
  <2> DEFINE p == (uploadWrite + pad) % ByteModulus
  <2>1. p \in Position /\ p = IF uploadWrite + pad < ByteModulus THEN uploadWrite + pad
                               ELSE uploadWrite + pad - ByteModulus
    BY <1>2, <1>5, PositionIs
  <2>2. Ahead(p, uploadRead) = a + pad
    BY <1>2, <1>5, AheadMoves DEF a
  <2> HIDE DEF p
  <2>3. uploadWrite + pad \in Int
    BY <1>2, <1>4 DEF Position
  <2>4. p % ArenaSize = off
    <3>1. PICK x \in Int : x = uploadWrite + pad
      BY <2>3
    <3>2. (x - ByteModulus) % ArenaSize = x % ArenaSize
      BY PlaceWraps
    <3>3. p = x \/ p = x - ByteModulus
      BY <1>2, <1>4, <2>1, <3>1 DEF Position
    <3>4. QED BY <3>1, <3>2, <3>3 DEF off
  <2>5. a + pad < ArenaSize
    BY <1>2, <1>3, <1>4, <1>7
  <2>6. QED BY <1>2, <2>1, <2>2, <2>4, <2>5, PlaceAhead DEF PlaceOf
<1>10. ReservedAt' = off
  <2>1. uploadWrite' = IF uploadWrite + (pad + length) < ByteModulus
                       THEN uploadWrite + (pad + length)
                       ELSE uploadWrite + (pad + length) - ByteModulus
    <3>1. PICK m \in 0 .. ByteModulus - 1 : m = pad + length
      BY <1>5
    <3>2. (uploadWrite + m) % ByteModulus =
            IF uploadWrite + m < ByteModulus THEN uploadWrite + m ELSE uploadWrite + m - ByteModulus
      BY <1>2, PositionIs
    <3>3. QED BY <1>1, <1>6, <3>1, <3>2
  <2>2. uploadWrite + pad \in Int /\ ByteModulus \in Int /\ length \in Int /\ uploadWrite \in Int
        /\ pad \in Int
    BY <1>2, <1>4 DEF Position
  <2>3. uploadWrite' - length = uploadWrite + pad
        \/ uploadWrite' - length = (uploadWrite + pad) - ByteModulus
    BY <2>1, <2>2
  <2>4. ((uploadWrite + pad) - ByteModulus) % ArenaSize = off
    BY <2>2, PlaceWraps DEF off
  <2>5. (uploadWrite' - length) % ArenaSize = off
    BY <2>3, <2>4 DEF off
  <2>6. QED BY <1>1, <2>5 DEF ReservedAt
<1>11. Filled' = Filled /\ Used' = a
  BY <1>1, <1>2, <1>3 DEF Filled, Used, Ahead
<1>12. ArenaTyped'
  BY <1>1, <1>2, <1>8 DEF ArenaTyped
<1>13. SameUnread
  BY <1>1 DEF SameUnread, Unread, IsUpload, IsStaged, Waiting, Distance, Slot
<1>14. FieldsFit' /\ Chained'
  <2>1. Ahead(uploadWrite, uploadRead)' <= ArenaSize
    BY <1>7, <1>8
  <2>2. QED BY <1>1, <1>11, <1>13, <2>1, SameUnreadKeeps
<1>15. Reserved'
  <2>1. PlaceOf(ReservedAt)' = a + pad
    BY <1>1, <1>9, <1>10 DEF PlaceOf
  <2>2. ASSUME NEW b \in off .. off + length - 1 PROVE arena'[b] = write'
    <3>1. b \in 0 .. ArenaSize - 1
      BY <1>2, <1>4
    <3>2. QED BY <1>1, <1>2, <3>1
  <2>3. a <= a + pad
    BY <1>3, <1>4
  <2>4. QED BY <1>1, <1>4, <1>8, <1>10, <1>11, <2>1, <2>2, <2>3 DEF Reserved
<1>16. ArenaHolds'
  <2>1. ASSUME NEW i \in Index, Unread(i)', NEW b \in (Slot(i).off .. Slot(i).off + Slot(i).len - 1)'
        PROVE  arena'[b] = i
    <3>1. Unread(i) /\ Slot(i)' = Slot(i)
      BY <2>1, <1>13 DEF SameUnread, Unread
    <3>2. b \in Slot(i).off .. Slot(i).off + Slot(i).len - 1 /\ arena[b] = i
      BY <2>1, <3>1 DEF ArenaHolds
    <3>3. /\ Slot(i).off \in Nat /\ Slot(i).len \in Nat /\ PayloadPlace(i) \in Nat
          /\ PayloadPlace(i) + Slot(i).len <= ArenaSize
          /\ PayloadPlace(i) + Slot(i).len <= a /\ Slot(i).off + Slot(i).len <= ArenaSize
      BY <1>3, <3>1, PlacesTyped DEF Chained, FieldsFit, Unread
    <3>4. PlaceOf(b) = PayloadPlace(i) + (b - Slot(i).off)
      BY <1>2, <3>2, <3>3, PayloadPlaces DEF PayloadPlace
    <3>5. PlaceOf(b) < a /\ b \in 0 .. ArenaSize - 1
      BY <1>2, <1>3, <3>2, <3>3, <3>4
    <3>6. ~(b \in off .. off + length - 1)
      <4> SUFFICES ASSUME b \in off .. off + length - 1 PROVE FALSE
        OBVIOUS
      <4>1. PlaceOf(off) + length <= ArenaSize
        BY <1>2, <1>3, <1>4, <1>7, <1>9
      <4>2. PlaceOf(b) = PlaceOf(off) + (b - off)
        BY <1>2, <1>4, <4>1, PayloadPlaces
      <4>3. QED BY <1>3, <1>4, <1>9, <3>5, <4>2
    <3>7. QED BY <1>1, <1>2, <3>2, <3>5, <3>6
  <2>2. QED BY <2>1 DEF ArenaHolds
<1>17. QED BY <1>12, <1>14, <1>15, <1>16

(* Publishing the record of a payload puts it behind the others.           *)
LEMMA PushUploadKeeps ==
  ASSUME RInv, ArenaTyped, FieldsFit, Chained, Reserved, ArenaHolds, PushUpload,
         \A i \in Index : IsStaged(i) => Waiting(i)
  PROVE  /\ ArenaTyped' /\ FieldsFit' /\ Chained' /\ Reserved' /\ ArenaHolds'
         /\ \A i \in Index : Waiting(i) => Waiting(i)' /\ Slot(i)' = Slot(i)
         /\ \A i \in Index : ~Waiting(i) /\ Waiting(i)' => i = write
<1> DEFINE rec == [op |-> "upload", at |-> write, len |-> length, off |-> ReservedAt]
<1>1. /\ ppc = "push" /\ Publish(<<rec>>) /\ ppc' = "idle"
      /\ UNCHANGED <<uploadWrite, uploadRead, arena, staged, next>> /\ uploadBefore' = 0
  BY DEF PushUpload, Publish, ring, drain, ReservedAt
<1>2. /\ rec.op = "upload" /\ rec.len = length /\ rec.off = ReservedAt
      /\ Len(<<rec>>) = 1 /\ <<rec>>[1] = rec
  OBVIOUS
<1>3. 1 \in 1 .. Capacity /\ IndexModulus > 1 /\ IndexModulus \in Nat
  BY RingAssumption
<1> HIDE DEF rec
<1>4. write \in Index /\ next \in Index /\ Distance(next, read) <= Distance(write, read)
  BY DEF RInv, Typed, CursorsInOrder
<1>5. Advance(write, 1 - 1) = write
  <2>1. 0 \in 0 .. IndexModulus - 1 /\ write \in 0 .. IndexModulus - 1
    BY <1>3, <1>4 DEF Index
  <2>2. Advance(write, 0) = write
    BY <1>3, <1>4, <2>1, AdvanceIs
  <2>3. QED BY <2>2
<1>6. ASSUME NEW i \in Index
      PROVE  /\ Waiting(i) => Waiting(i)' /\ Slot(i)' = Slot(i)
             /\ ~Waiting(i) /\ Waiting(i)' => i = write /\ Slot(i)' = rec
  <2>1. /\ Waiting(i) => Waiting(i)' /\ Slot(i)' = Slot(i)
        /\ Waiting(i)' /\ ~Waiting(i) =>
             \E k \in 1 .. 1 : i = Advance(write, k - 1) /\ Slot(i)' = <<rec>>[k]
    BY <1>1, <1>2, <1>3, PublishAdds
  <2>2. QED BY <1>2, <1>5, <2>1
<1>7. PICK w \in Index : w = write
  BY <1>4
<1>8. Waiting(w)' /\ ~Waiting(w) /\ Distance(w, next) = Waits
  <2>1. Appended(next, Waits, <<rec>>, 1)
    BY <1>1, <1>2, <1>3, <1>4, PublishAppends DEF Waits
  <2>2. Distance(write', next) = Waits + 1 /\ Waits \in Nat
    BY <2>1, Ranges DEF Appended
  <2>3. QED BY <1>1, <1>7, <2>2 DEF Waiting, Waits
<1>9. Slot(w)' = rec
  BY <1>6, <1>8
<1>10. /\ \A i \in Index : Unread(i) => IsUpload(i) /\ Waiting(i) /\ i # w
       /\ \A i \in Index : Unread(i)' <=> Unread(i) \/ i = w
       /\ \A i \in Index : IsUpload(i)' <=> IsUpload(i) \/ i = w
       /\ \A i \in Index : IsUpload(i) => Slot(i)' = Slot(i) /\ i # w
  <2>1. ASSUME NEW i \in Index
        PROVE  /\ Unread(i) => IsUpload(i) /\ Waiting(i) /\ i # w
               /\ Unread(i)' <=> Unread(i) \/ i = w
               /\ IsUpload(i)' <=> IsUpload(i) \/ i = w
               /\ IsUpload(i) => Slot(i)' = Slot(i) /\ i # w
    <3>1. IsStaged(i)' <=> IsStaged(i)
      BY <1>1 DEF IsStaged
    <3>2. CASE i = w
      BY <1>2, <1>8, <1>9, <3>1, <3>2 DEF Unread, IsUpload
    <3>3. CASE i # w
      BY <1>6, <1>7, <3>1, <3>3, <1>8 DEF Unread, IsUpload
    <3>4. QED BY <3>2, <3>3
  <2>2. QED BY <2>1
<1>11. /\ Used \in Nat /\ uploadWrite \in Position /\ Ahead(uploadWrite, uploadRead) <= ArenaSize
       /\ Used <= PlaceOf(ReservedAt) /\ ReservedAt \in Nat /\ ReservedAt + length <= ArenaSize
       /\ PlaceOf(ReservedAt) + length = Ahead(uploadWrite, uploadRead)
       /\ PlaceOf(ReservedAt) \in Nat /\ length \in Lengths /\ length \in Nat
       /\ \A b \in ReservedAt .. ReservedAt + length - 1 : arena[b] = w
  BY <1>1, <1>7, PlacesTyped DEF ArenaTyped, Chained, Reserved
<1>12. Used' = Ahead(uploadWrite, uploadRead) /\ Filled' = uploadWrite
  BY <1>1 DEF Used, Filled, Ahead
<1>13. /\ \A i \in Index : Unread(i) => PayloadPlace(i)' = PayloadPlace(i) /\ Slot(i)' = Slot(i)
       /\ PayloadPlace(w)' = PlaceOf(ReservedAt)
  BY <1>1, <1>2, <1>9, <1>10 DEF PayloadPlace, PlaceOf
<1>14. ArenaTyped'
  <2>1. 0 \in Position
    BY RingAssumption DEF Position
  <2>2. QED BY <1>1, <2>1 DEF ArenaTyped
<1>15. FieldsFit'
  <2>1. ASSUME NEW i \in Index, IsUpload(i)'
        PROVE  /\ Slot(i)'.off \in Nat /\ Slot(i)'.len \in Lengths
               /\ Slot(i)'.off + Slot(i)'.len <= ArenaSize
    <3>1. CASE i = w
      BY <1>2, <1>9, <1>11, <3>1
    <3>2. CASE i # w
      BY <1>10, <2>1, <3>2 DEF FieldsFit
    <3>3. QED BY <3>1, <3>2
  <2>2. QED BY <2>1 DEF FieldsFit
<1>16. Chained'
  <2>1. Ahead(uploadWrite, uploadRead)' <= ArenaSize
    BY <1>1, <1>11 DEF Ahead
  <2>2. ASSUME NEW i \in Index, Unread(i)' PROVE (PayloadPlace(i) + Slot(i).len <= Used)'
    <3>1. CASE i = w
      BY <1>2, <1>9, <1>11, <1>12, <1>13, <3>1
    <3>2. CASE i # w
      <4>1. Unread(i) /\ PayloadPlace(i) + Slot(i).len <= Used
        BY <1>10, <2>2, <3>2 DEF Chained
      <4>2. PayloadPlace(i) \in Nat /\ Slot(i).len \in Nat
        BY <4>1, PlacesTyped
      <4>3. Used <= Ahead(uploadWrite, uploadRead)
        BY <1>11
      <4>4. PayloadPlace(i) + Slot(i).len <= Ahead(uploadWrite, uploadRead)
        BY <1>11, <4>1, <4>2, <4>3
      <4>5. QED BY <1>12, <1>13, <4>1, <4>4
    <3>3. QED BY <3>1, <3>2
  <2>3. ASSUME NEW i \in Index, NEW j \in Index, Unread(i)', Unread(j)',
               Distance(i, next)' < Distance(j, next)'
        PROVE  (PayloadPlace(i) + Slot(i).len <= PayloadPlace(j))'
    <3>1. Distance(i, next) < Distance(j, next)
      BY <1>1, <2>3 DEF Distance
    <3>2. i # w
      <4> SUFFICES ASSUME i = w PROVE FALSE
        OBVIOUS
      <4>1. CASE j = w
        BY <1>8, <3>1, <4>1, Ranges
      <4>2. CASE j # w
        <5>1. Waiting(j)
          BY <1>10, <2>3, <4>2
        <5>2. Distance(j, next) < Waits /\ Distance(j, next) \in Nat /\ Waits \in Nat
          BY <5>1, WaitingPlace DEF Waiting, Waits
        <5>3. QED BY <1>8, <3>1, <5>2
      <4>3. QED BY <4>1, <4>2
    <3>3. Unread(i) /\ PayloadPlace(i) + Slot(i).len <= Used
      BY <1>10, <2>3, <3>2 DEF Chained
    <3>4. PayloadPlace(i) \in Nat /\ Slot(i).len \in Nat
      BY <3>3, PlacesTyped
    <3>5. CASE j = w
      <4>1. PayloadPlace(i) + Slot(i).len <= PlaceOf(ReservedAt)
        BY <1>11, <3>3, <3>4
      <4>2. QED BY <1>13, <3>3, <3>5, <4>1
    <3>6. CASE j # w
      <4>1. Unread(j)
        BY <1>10, <2>3, <3>6
      <4>2. PayloadPlace(i) + Slot(i).len <= PayloadPlace(j)
        BY <3>1, <3>3, <4>1 DEF Chained
      <4>3. QED BY <1>13, <3>3, <4>1, <4>2
    <3>7. QED BY <3>5, <3>6
  <2>4. Unread(w)' /\ (PayloadPlace(w) + Slot(w).len = Used)'
    BY <1>2, <1>9, <1>10, <1>11, <1>12, <1>13
  <2>5. QED BY <2>1, <2>2, <2>3, <2>4 DEF Chained
<1>17. Reserved'
  BY <1>1 DEF Reserved
<1>18. ArenaHolds'
  <2>1. ASSUME NEW i \in Index, Unread(i)', NEW b \in (Slot(i).off .. Slot(i).off + Slot(i).len - 1)'
        PROVE  arena'[b] = i
    <3>1. CASE i = w
      BY <1>1, <1>2, <1>9, <1>11, <2>1, <3>1
    <3>2. CASE i # w
      BY <1>1, <1>10, <1>13, <2>1, <3>2 DEF ArenaHolds
    <3>3. QED BY <3>1, <3>2
  <2>2. QED BY <2>1 DEF ArenaHolds
<1>19. QED BY <1>6, <1>14, <1>15, <1>16, <1>17, <1>18

-----------------------------------------------------------------------------
(* The staging cursor.                                                     *)

(* Counted from read, waiting records lie between next and write, and what *)
(* a drain has seen ends between them.                                     *)
LEMMA FromRead ==
  ASSUME RInv
  PROVE  /\ \A i \in Index : /\ Distance(i, read) \in 0 .. IndexModulus - 1
                             /\ i = Advance(read, Distance(i, read))
                             /\ Waiting(i) <=> /\ Distance(next, read) <= Distance(i, read)
                                               /\ Distance(i, read) < Distance(write, read)
                             /\ Distance(next, read) <= Distance(i, read) =>
                                  Distance(i, next) = Distance(i, read) - Distance(next, read)
         /\ cpc # "idle" => /\ Distance(next, read) <= Distance(seen, read)
                            /\ Distance(seen, read) <= Distance(write, read)
         /\ Distance(write, read) <= Capacity
<1>1. /\ write \in Index /\ read \in Index /\ next \in Index /\ seen \in Index
      /\ Distance(write, read) <= Capacity /\ Distance(next, read) <= Distance(write, read)
  BY DEF RInv, Typed, CursorsInOrder
<1>2. IndexModulus \in Nat /\ Capacity \in Nat /\ Capacity < IndexModulus
  BY RingAssumption
<1>3. /\ \A i \in Index : Distance(i, read) \in 0 .. IndexModulus - 1
                          /\ Distance(i, next) \in 0 .. IndexModulus - 1
      /\ Distance(write, read) = Distance(next, read) + Waits
      /\ Waits \in Nat
  BY <1>1, DistanceIs, DistancesAdd DEF Waits
<1>4. ASSUME NEW i \in Index, Distance(next, read) <= Distance(i, read)
      PROVE  Distance(i, next) = Distance(i, read) - Distance(next, read)
  <2>1. Distance(i, read) = Distance(next, read) + Distance(i, next)
    BY <1>1, <1>4, DistancesAdd
  <2>2. QED BY <1>1, <1>3, <2>1
<1>5. ASSUME NEW i \in Index
      PROVE  Waiting(i) <=> /\ Distance(next, read) <= Distance(i, read)
                            /\ Distance(i, read) < Distance(write, read)
  <2>1. ASSUME Waiting(i)
        PROVE  /\ Distance(next, read) <= Distance(i, read)
               /\ Distance(i, read) < Distance(write, read)
    <3>1. /\ Distance(i, next) \in Nat
          /\ Distance(i, read) = Distance(next, read) + Distance(i, next)
          /\ Distance(i, read) < Distance(write, read)
      BY <2>1, WaitingPlace
    <3>2. QED BY <1>1, <1>3, <3>1
  <2>2. ASSUME Distance(next, read) <= Distance(i, read),
               Distance(i, read) < Distance(write, read)
        PROVE  Waiting(i)
    <3>1. Distance(i, next) = Distance(i, read) - Distance(next, read)
      BY <1>4, <2>2
    <3>2. Distance(i, next) < Waits
      BY <1>1, <1>3, <2>2, <3>1
    <3>3. QED BY <3>2 DEF Waiting, Waits
  <2>3. QED BY <2>1, <2>2
<1>6. ASSUME cpc # "idle"
      PROVE  /\ Distance(next, read) <= Distance(seen, read)
             /\ Distance(seen, read) <= Distance(write, read)
  <2>1. Distance(seen, next) \in 0 .. Waits
    BY <1>6, Ranges
  <2>2. Distance(next, read) + Distance(seen, next) < IndexModulus
    BY <1>1, <1>2, <1>3, <2>1
  <2>3. seen = Advance(next, Distance(seen, next))
    BY <1>1, AdvanceByDistance
  <2>4. Distance(Advance(next, Distance(seen, next)), read)
          = Distance(next, read) + Distance(seen, next)
    BY <1>1, <1>3, <2>2, DistanceGrows
  <2>5. QED BY <1>1, <1>3, <2>1, <2>3, <2>4
<1>7. \A i \in Index : i = Advance(read, Distance(i, read))
  BY <1>1, AdvanceByDistance
<1>8. QED BY <1>1, <1>3, <1>4, <1>5, <1>6, <1>7

(* The next upload to stage is the first that waits at the cursor or after *)
(* it, if the drain has seen one.                                          *)
LEMMA NextUploadIs ==
  ASSUME RInv, cpc # "idle", cursor \in Index,
         Distance(next, read) <= Distance(cursor, read),
         Distance(cursor, read) <= Distance(seen, read)
  PROVE  /\ NextUpload \in Index
         /\ Distance(cursor, read) <= Distance(NextUpload, read)
         /\ Distance(NextUpload, read) <= Distance(seen, read)
         /\ NextUpload # seen => /\ IsUpload(NextUpload)
                                 /\ Distance(NextUpload, read) < Distance(seen, read)
         /\ \A i \in Index : IsUpload(i) /\ Distance(i, read) < Distance(NextUpload, read) =>
              Distance(i, read) < Distance(cursor, read)
<1> DEFINE D == Distance(seen, cursor)
           S == {k \in 0 .. D : k = D \/ OpAt(cursor, k) = "upload"}
           m == Min(S)
           c == Distance(cursor, read)
<1>1. /\ write \in Index /\ read \in Index /\ next \in Index /\ seen \in Index
      /\ IndexModulus \in Nat
  BY RingAssumption DEF RInv, Typed
<1>2. /\ D \in 0 .. IndexModulus - 1 /\ c \in 0 .. IndexModulus - 1
      /\ Distance(seen, read) = c + D /\ Distance(seen, read) \in 0 .. IndexModulus - 1
  BY <1>1, DistanceIs, DistancesAdd
<1>3. NextUpload = Advance(cursor, m)
  BY DEF NextUpload
<1>4. m \in 0 .. D /\ (m = D \/ OpAt(cursor, m) = "upload") /\ \A k \in S : m <= k
  <2>1. S \in SUBSET Nat /\ S # {}
    BY <1>2
  <2>2. m \in S /\ \A k \in S : m <= k
    BY <2>1, MinIsLeast
  <2>3. QED BY <2>2
<1> HIDE DEF m
<1>5. /\ Advance(cursor, m) \in Index /\ Distance(Advance(cursor, m), read) = c + m
  <2>1. m \in 0 .. IndexModulus - 1 /\ c + m < IndexModulus
    BY <1>1, <1>2, <1>4
  <2>2. QED BY <1>1, <2>1, AdvanceIs, DistanceGrows
<1>6. ASSUME NextUpload # seen
      PROVE  IsUpload(NextUpload) /\ Distance(NextUpload, read) < Distance(seen, read)
  <2>1. m # D
    BY <1>1, <1>3, <1>6, AdvanceByDistance
  <2>2. m < D /\ OpAt(cursor, m) = "upload"
    BY <1>2, <1>4, <2>1
  <2>3. Distance(NextUpload, read) < Distance(seen, read) /\ Distance(NextUpload, read) = c + m
    BY <1>2, <1>3, <1>4, <1>5, <2>2
  <2>4. Waiting(NextUpload)
    <3>1. NextUpload \in Index
      BY <1>3, <1>5
    <3>2. /\ Distance(next, read) \in 0 .. IndexModulus - 1
          /\ Distance(write, read) \in 0 .. IndexModulus - 1
          /\ Distance(seen, read) <= Distance(write, read)
      BY <1>1, FromRead
    <3>3. Distance(next, read) <= c + m /\ c + m < Distance(write, read)
      BY <1>1, <1>2, <1>4, <2>3, <3>2
    <3>4. QED BY <2>3, <3>1, <3>3, FromRead
  <2>5. Slot(NextUpload).op = "upload"
    BY <1>3, <2>2 DEF OpAt
  <2>6. QED BY <2>3, <2>4, <2>5 DEF IsUpload
<1>7. ASSUME NEW i \in Index, IsUpload(i), Distance(i, read) < Distance(NextUpload, read)
      PROVE  Distance(i, read) < Distance(cursor, read)
  <2> SUFFICES ASSUME ~(Distance(i, read) < c) PROVE FALSE
    OBVIOUS
  <2> DEFINE k == Distance(i, cursor)
  <2>1. Distance(i, read) \in 0 .. IndexModulus - 1 /\ Distance(i, read) = c + k
        /\ k \in 0 .. IndexModulus - 1
    BY <1>1, <1>2, DistanceIs, DistancesAdd
  <2>2. i = Advance(cursor, k)
    BY AdvanceByDistance
  <2>3. k < m
    BY <1>2, <1>3, <1>4, <1>5, <1>7, <2>1
  <2>4. OpAt(cursor, k) = "upload"
    BY <1>7, <2>2 DEF OpAt, IsUpload
  <2> HIDE DEF k
  <2>5. k \in S
    BY <1>2, <1>4, <2>1, <2>3, <2>4
  <2>6. QED BY <1>2, <1>4, <2>1, <2>3, <2>5
<1>8. QED BY <1>2, <1>3, <1>4, <1>5, <1>6, <1>7

(* In atomic mode no BEGIN is the last record a drain may replay.          *)
LEMMA AtomicNeverDefers ==
  ASSUME PInv, cpc = "replay", Mode = "atomic", next # limit
  PROVE  ~Defers
<1> SUFFICES ASSUME Defers PROVE FALSE
  OBVIOUS
<1>1. Typed /\ RInv /\ InReplay
  BY DEF PInv, RInv, InReplay
<1>2. OpAt(next, 0) = "begin" /\ Advance(next, 1) = limit
  BY <1>1, FirstWaiting DEF Defers, TrailingBegin
<1>3. Distance(limit, next) = 1
  <2>1. 1 \in 0 .. IndexModulus - 1 /\ next \in Index
    BY <1>1, RingAssumption DEF Typed
  <2>2. QED BY <1>2, <2>1, DistanceOfAdvance
<1>4. Closed(1)
  BY <1>1, <1>3 DEF PInv, LimitClosesPasses
<1>5. 0 \in 0 .. 1 - 1 /\ 0 + 1 .. 1 - 1 = {}
  OBVIOUS
<1>6. QED BY <1>2, <1>4, <1>5 DEF Closed

(* Without legacy mode, a drain that ends its loop without a failure has   *)
(* replayed all it may.                                                    *)
LEMMA StopsAtLimit ==
  ASSUME PInv, ReplaysInOrder, cpc = "replay", CloseReplay,
         next = limit \/ MustStop \/ MayYield \/ (next # limit /\ Defers)
  PROVE  next = limit'
<1>1. Mode \in {"atomic", "budget"}
  BY ChoiceAssumption DEF PInv, RInv, Typed, Mode, ReplaysInOrder
<1>2. CASE Mode = "budget"
  BY <1>2 DEF CloseReplay
<1>3. CASE Mode = "atomic"
  <2>1. ~MustStop /\ ~MayYield
    BY <1>3 DEF MustStop, MayYield
  <2>2. next = limit
    BY <1>3, <2>1, AtomicNeverDefers
  <2>3. QED BY <1>3, <2>2 DEF CloseReplay
<1>4. QED BY <1>1, <1>2, <1>3

(* Staging goes on where it stopped, or begins at the suffix: what is      *)
(* staged are the uploads up to the cursor.                                *)
LEMMA StagingStarts ==
  ASSUME RInv, CursorPlaced, cpc = "replay", StartStaging(next),
         UNCHANGED <<write, read, slots, seen, next, staged>>
  PROVE  CursorPlaced' /\ cpc' = "scan"
<1> DEFINE e == Distance(next, read)
           s == Distance(seen, read)
           c == Distance(cursor, read)
<1>1. /\ write \in Index /\ read \in Index /\ next \in Index /\ seen \in Index
      /\ next # None /\ IndexModulus \in Nat /\ 2 * Capacity <= IndexModulus
      /\ Capacity \in Nat /\ Capacity > 0
  BY RingAssumption, NoneIsNoIndex DEF RInv, Typed, Index
<1>2. /\ e \in 0 .. IndexModulus - 1 /\ s \in 0 .. IndexModulus - 1
      /\ e <= s /\ s <= Distance(write, read) /\ s <= Capacity
      /\ Distance(seen, next) = s - e
  <2>1. e \in 0 .. IndexModulus - 1 /\ s \in 0 .. IndexModulus - 1 /\ e <= s
        /\ s <= Distance(write, read) /\ Distance(write, read) <= Capacity
        /\ Distance(write, read) \in 0 .. IndexModulus - 1
    BY <1>1, FromRead
  <2>2. Distance(seen, next) = s - e
    BY <1>1, <2>1, FromRead
  <2>3. QED BY <1>1, <2>1, <2>2
<1>3. \A i \in Index : /\ IsStaged(i)' <=> IsStaged(i)
                       /\ IsUpload(i)' <=> IsUpload(i)
                       /\ IsUpload(i) => e <= Distance(i, read) /\ Distance(i, read) \in Nat
  <2>1. \A i \in Index : (IsStaged(i)' <=> IsStaged(i)) /\ (IsUpload(i)' <=> IsUpload(i))
    BY DEF IsStaged, IsUpload, Waiting, Slot, Distance
  <2>2. \A i \in Index : IsUpload(i) => e <= Distance(i, read) /\ Distance(i, read) \in Nat
    BY <1>1, FromRead DEF IsUpload
  <2>3. QED BY <2>1, <2>2
<1>4. cursor # None => cursor \in Index /\ c \in 0 .. IndexModulus - 1 /\ c <= s
  BY <1>1, FromRead DEF CursorPlaced
<1>5. ASSUME cpc' = "scan", stagedStart' = next, cursor' \in Index,
             Distance(cursor', read) <= s, e <= Distance(cursor', read),
             \A i \in Index : IsUpload(i) =>
               (IsStaged(i) <=> Distance(i, read) < Distance(cursor', read))
      PROVE  CursorPlaced'
  <2>1. cursor' # None /\ stagedStart' # None
    BY <1>1, <1>5, NoneIsNoIndex DEF Index
  <2>2. CursorAhead'
    BY <1>5, <2>1 DEF CursorAhead, Distance
  <2>3. \A i \in Index : IsStaged(i)' <=> BehindCursor(i)'
    <3> SUFFICES ASSUME NEW i \in Index PROVE IsStaged(i)' <=> BehindCursor(i)'
      OBVIOUS
    <3>1. IsStaged(i) => IsUpload(i)
      BY DEF CursorPlaced, BehindCursor
    <3>2. BehindCursor(i)' <=> IsUpload(i) /\ Distance(i, read) < Distance(cursor', read)
      BY <1>3, <2>1 DEF BehindCursor, Distance
    <3>3. QED BY <1>3, <1>5, <3>1, <3>2
  <2>4. (Distance(cursor, read) <= Distance(IF cpc = "idle" THEN write ELSE seen, read))'
    BY <1>5 DEF Distance
  <2>5. QED BY <1>5, <2>1, <2>2, <2>3, <2>4 DEF CursorPlaced
<1>6. CASE stagedStart = next
  <2>1. cpc' = "scan" /\ cursor' = (IF cursor = None THEN next ELSE cursor) /\ stagedStart' = next
    BY <1>6 DEF StartStaging
  <2>2. cursor # None /\ next = read
    BY <1>1, <1>6 DEF CursorPlaced
  <2>3. cursor' = cursor /\ e = 0
    BY <1>1, <2>1, <2>2, DistanceZero
  <2>4. \A i \in Index : IsUpload(i) => (IsStaged(i) <=> Distance(i, read) < Distance(cursor', read))
    BY <2>2, <2>3 DEF CursorPlaced, BehindCursor
  <2>5. QED BY <1>4, <1>5, <2>1, <2>2, <2>3, <2>4
<1>7. CASE stagedStart # next
  <2>1. StageOrderOk(next)
    <3> SUFFICES ASSUME NEW i \in Index, IsStaged(i)
                 PROVE  Distance(i, next) < Distance(seen, next)
      BY DEF StageOrderOk
    <3>1. IsUpload(i) /\ cursor # None /\ Distance(i, read) < c
      BY DEF CursorPlaced, BehindCursor
    <3>2. e <= Distance(i, read) /\ Distance(i, read) \in Nat
      BY <1>3, <3>1
    <3>3. Distance(i, next) = Distance(i, read) - e
      BY <3>2, FromRead
    <3>4. QED BY <1>2, <1>4, <3>1, <3>2, <3>3
  <2>2. cpc' = "scan" /\ stagedStart' = next /\ cursor' = RebasedCursor(next)
    BY <1>7, <2>1 DEF StartStaging
  <2>3. CASE cursor # None /\ e <= c
    <3>1. Distance(cursor, next) = c - e
      BY <1>4, <2>3, FromRead
    <3>2. Distance(cursor, next) <= Distance(seen, next)
      BY <1>2, <1>4, <2>3, <3>1
    <3>3. cursor' = cursor
      BY <2>2, <2>3, <3>2 DEF RebasedCursor
    <3>4. \A i \in Index : IsUpload(i) => (IsStaged(i) <=> Distance(i, read) < Distance(cursor', read))
      BY <2>3, <3>3 DEF CursorPlaced, BehindCursor
    <3>5. QED BY <1>4, <1>5, <2>2, <2>3, <3>3, <3>4
  <2>4. CASE ~(cursor # None /\ e <= c)
    <3>1. cursor' = next
      <4>1. CASE cursor = None
        BY <2>2, <4>1 DEF RebasedCursor
      <4>2. CASE cursor # None
        <5>1. cursor \in Index /\ c \in 0 .. IndexModulus - 1 /\ c < e
          BY <1>2, <1>4, <2>4, <4>2
        <5>2. e = c + Distance(next, cursor)
          BY <1>1, <1>2, <5>1, DistancesAdd
        <5>3. /\ Distance(cursor, next) = IF cursor >= next THEN cursor - next
                                                            ELSE cursor - next + IndexModulus
              /\ Distance(next, cursor) = IF next >= cursor THEN next - cursor
                                                            ELSE next - cursor + IndexModulus
              /\ cursor \in Int /\ next \in Int
          BY <1>1, <5>1, DistanceIs DEF Index
        <5>4. Distance(cursor, next) = IndexModulus - (e - c)
          BY <1>1, <1>2, <5>1, <5>2, <5>3
        <5>5. ~(Distance(cursor, next) <= Distance(seen, next))
          BY <1>1, <1>2, <5>1, <5>4
        <5>6. QED BY <2>2, <5>5 DEF RebasedCursor
      <4>3. QED BY <4>1, <4>2
    <3>2. \A i \in Index : IsUpload(i) => (IsStaged(i) <=> Distance(i, read) < Distance(cursor', read))
      <4> SUFFICES ASSUME NEW i \in Index, IsUpload(i)
                   PROVE  ~IsStaged(i) /\ ~(Distance(i, read) < Distance(cursor', read))
        OBVIOUS
      <4>1. e <= Distance(i, read) /\ Distance(i, read) \in Nat
        BY <1>3
      <4>2. ~BehindCursor(i)
        <5>1. CASE cursor = None
          BY <5>1 DEF BehindCursor
        <5>2. CASE cursor # None
          <6>1. c < e /\ c \in Nat
            BY <1>2, <1>4, <2>4, <5>2
          <6>2. QED BY <1>2, <4>1, <6>1 DEF BehindCursor
        <5>3. QED BY <5>1, <5>2
      <4>3. QED BY <1>2, <3>1, <4>1, <4>2 DEF CursorPlaced
    <3>3. cursor' \in Index /\ Distance(cursor', read) <= s /\ e <= Distance(cursor', read)
      BY <1>1, <1>2, <3>1
    <3>4. QED BY <1>5, <2>2, <3>2, <3>3
  <2>5. QED BY <2>3, <2>4
<1>8. QED BY <1>6, <1>7

-----------------------------------------------------------------------------
(* The steps of a drain.                                                   *)
Stored == ArenaTyped /\ FieldsFit /\ Chained /\ Reserved /\ ArenaHolds

(* The record a drain is about to replay waits.                            *)
LEMMA FirstToReplay ==
  ASSUME PInv, InReplay, next # limit
  PROVE  next \in Index /\ Waiting(next) /\ Distance(next, next) = 0
<1>1. Typed /\ RInv
  BY DEF PInv, RInv
<1>2. Distance(limit, next) # 0 /\ Distance(limit, next) \in 0 .. Waits /\ Waits \in Nat
  BY <1>1, Ranges, DistanceZero DEF Typed
<1>3. Distance(next, next) = 0
  BY <1>1, DistanceZero DEF Typed
<1>4. Distance(next, next) < Waits
  BY <1>2, <1>3
<1>5. QED BY <1>1, <1>3, <1>4 DEF Typed, Waiting, Waits

(* A step that moves no payload and leaves the worker's place.             *)
LEMMA StoredKept ==
  ASSUME Stored, UNCHANGED <<write, uploadRead, slots, arena, staged, next, producer>>
  PROVE  Stored' /\ Filled' = Filled
         /\ \A i \in Index : /\ IsUpload(i)' <=> IsUpload(i)
                             /\ IsStaged(i)' <=> IsStaged(i)
                             /\ Slot(i)' = Slot(i)
<1>1. \A i \in Index : /\ IsUpload(i)' <=> IsUpload(i)
                       /\ IsStaged(i)' <=> IsStaged(i)
                       /\ Slot(i)' = Slot(i)
  BY DEF IsUpload, IsStaged, Waiting, Distance, Slot
<1>2. SameUnread
  BY <1>1 DEF SameUnread, Unread, Distance
<1>3. Filled' = Filled /\ Ahead(uploadWrite, uploadRead)' <= ArenaSize
  BY DEF producer, Filled, Ahead, Stored, Chained
<1>4. FieldsFit' /\ Chained' /\ ArenaHolds'
  BY <1>2, <1>3, SameUnreadKeeps DEF Stored
<1>5. Reserved'
  BY SameReserved DEF producer, Stored
<1>6. ArenaTyped'
  BY DEF ArenaTyped, producer, Stored
<1>7. QED BY <1>1, <1>3, <1>4, <1>5, <1>6 DEF Stored

(* The bytes of a payload that is not copied yet are its own.              *)
LEMMA BytesAreOwn ==
  ASSUME Stored, NEW i \in Index, Unread(i)
  PROVE  Bytes(Slot(i)) = Own(i)
<1>1. Slot(i).off \in Nat /\ Slot(i).len \in Nat \ {0}
  BY PlacesTyped DEF Stored
<1>2. Slot(i).off \in Slot(i).off .. Slot(i).off + Slot(i).len - 1
  BY <1>1
<1>3. \A b \in Slot(i).off .. Slot(i).off + Slot(i).len - 1 : arena[b] = i
  BY DEF Stored, ArenaHolds
<1>4. QED BY <1>2, <1>3 DEF Bytes, Own

(* A drain that looks at the ring.                                         *)
LEMMA StartDrainPlaces ==
  ASSUME QInv, ReplaysInOrder, Stored, CursorPlaced, StagedHold, StartDrain
  PROVE  Stored' /\ CursorPlaced' /\ StagedHold'
<1>1. /\ cpc = "idle" /\ seen' = write /\ cpc' = "replay"
      /\ UNCHANGED <<write, read, uploadRead, slots, arena, producer, staged, next, cursor,
                     stagedStart, failed>>
  <2>1. ~fence
    BY DEF QInv, PInv, FenceIsAllowed, ReplaysInOrder
  <2>2. QED BY <2>1 DEF StartDrain, BeginReplay, shared
<1>2. Stored' /\ \A i \in Index : (IsUpload(i)' <=> IsUpload(i)) /\ (IsStaged(i)' <=> IsStaged(i))
  BY <1>1, StoredKept
<1>3. CursorPlaced'
  BY <1>1, <1>2 DEF CursorPlaced, BehindCursor, Distance
<1>4. StagedHold'
  BY <1>1, <1>2 DEF StagedHold
<1>5. QED BY <1>2, <1>3, <1>4

(* A payload that is looked at, and not yet handed back.                   *)
LEMMA CopyUploadPlaces ==
  ASSUME QInv, Stored, CursorPlaced, StagedHold, CopyUpload
  PROVE  Stored' /\ CursorPlaced' /\ StagedHold'
<1>1. /\ cpc = "replay" /\ cpc' = "release" /\ next # limit
      /\ Slot(next).op = "upload" /\ ~IsStaged(next) /\ copied' = Bytes(Slot(next))
      /\ UNCHANGED <<write, read, uploadRead, slots, arena, producer, staged, next, cursor,
                     stagedStart, failed, seen>>
  BY DEF CopyUpload, Replayable, shared, ring
<1>2. Stored' /\ \A i \in Index : (IsUpload(i)' <=> IsUpload(i)) /\ (IsStaged(i)' <=> IsStaged(i))
  BY <1>1, StoredKept
<1>3. next \in Index /\ Waiting(next)
  BY <1>1, FirstToReplay DEF QInv, InReplay
<1>4. copied' = Own(next)
  BY <1>1, <1>3, BytesAreOwn DEF Unread, IsUpload
<1>5. CursorPlaced'
  <2>1. ~IsStaged(next)'
    BY <1>1 DEF IsStaged
  <2>2. QED BY <1>1, <1>2, <2>1 DEF CursorPlaced, BehindCursor, Distance
<1>6. StagedHold'
  BY <1>1, <1>2, <1>4 DEF StagedHold
<1>7. QED BY <1>2, <1>5, <1>6

(* Going on by one record, staged or not: what is staged are still the     *)
(* uploads before the cursor.                                              *)
LEMMA CursorStays ==
  ASSUME RInv, CursorPlaced, StagedHold, InReplay, cpc' = "replay",
         Waiting(next), next \in Index, next' = Advance(next, 1),
         UNCHANGED <<write, read, slots, seen, cursor, stagedStart>>,
         \A i \in Index : /\ IsStaged(i)' <=> IsStaged(i) /\ i # next
                          /\ IsStaged(i)' => staged'[i] = staged[i]
  PROVE  /\ CursorPlaced' /\ StagedHold'
         /\ \A i \in Index : /\ IsUpload(i)' <=> IsUpload(i) /\ i # next
                             /\ Slot(i)' = Slot(i)
<1>1. \A i \in Index : /\ IsUpload(i)' <=> IsUpload(i) /\ i # next
                       /\ Slot(i)' = Slot(i)
  BY StepLeaves DEF IsUpload
<1>2. \A i \in Index : BehindCursor(i)' <=> BehindCursor(i) /\ i # next
  BY <1>1 DEF BehindCursor, Distance
<1>3. CursorPlaced'
  BY <1>2 DEF CursorPlaced, Distance, InReplay
<1>4. StagedHold'
  BY DEF StagedHold
<1>5. QED BY <1>1, <1>3, <1>4

(* A record is replayed that needs no bytes of the arena.                  *)
LEMMA ReplayRecordPlaces ==
  ASSUME QInv, Stored, CursorPlaced, StagedHold, ReplayRecord
  PROVE  Stored' /\ CursorPlaced' /\ StagedHold'
<1>1. /\ cpc = "replay" /\ cpc' = "replay" /\ InReplay /\ next # limit /\ next' = Advance(next, 1)
      /\ Slot(next).op # "upload" \/ IsStaged(next)
      /\ IF IsStaged(next) THEN staged' = [staged EXCEPT ![next] = NotStaged]
                           ELSE staged' = staged
      /\ UNCHANGED <<write, read, slots, seen, cursor, stagedStart, uploadRead, arena, producer>>
  BY DEF ReplayRecord, Replayable, Unstage, shared, InReplay
<1>2. RInv /\ next \in Index /\ Waiting(next)
  BY <1>1, FirstToReplay DEF QInv, PInv
<1>3. /\ DOMAIN staged = Index /\ DOMAIN staged' = Index
      /\ \A i \in Index : /\ IsStaged(i)' <=> IsStaged(i) /\ i # next
                          /\ IsStaged(i)' => staged'[i] = staged[i]
  <2>1. DOMAIN staged = Index
    BY DEF Stored, ArenaTyped
  <2>2. CASE IsStaged(next)
    BY <1>1, <1>2, <2>1, <2>2 DEF IsStaged
  <2>3. CASE ~IsStaged(next)
    BY <1>1, <1>2, <2>1, <2>3 DEF IsStaged
  <2>4. QED BY <2>2, <2>3
<1>4. /\ CursorPlaced' /\ StagedHold'
      /\ \A i \in Index : /\ IsUpload(i)' <=> IsUpload(i) /\ i # next
                          /\ Slot(i)' = Slot(i)
  BY <1>1, <1>2, <1>3, CursorStays
<1>5. SameUnread
  <2>1. ~Unread(next)
    BY <1>1 DEF Unread, IsUpload
  <2>2. \A i \in Index : Unread(i)' <=> Unread(i)
    BY <1>3, <1>4, <2>1 DEF Unread
  <2>3. \A i, j \in Index :
          Unread(i) /\ Unread(j) /\ Distance(i, next)' < Distance(j, next)' =>
            Distance(i, next) < Distance(j, next)
    BY <1>1, <1>2, <2>1, StepLeaves DEF Unread, IsUpload
  <2>4. QED BY <1>4, <2>2, <2>3 DEF SameUnread
<1>6. Stored'
  <2>1. Filled' = Filled /\ Ahead(uploadWrite, uploadRead)' <= ArenaSize
    BY <1>1 DEF producer, Filled, Ahead, Stored, Chained
  <2>2. FieldsFit' /\ Chained' /\ ArenaHolds'
    BY <1>1, <1>5, <2>1, SameUnreadKeeps DEF Stored
  <2>3. Reserved'
    BY <1>1, SameReserved DEF producer, Stored
  <2>4. ArenaTyped'
    BY <1>1, <1>3 DEF ArenaTyped, producer, Stored
  <2>5. QED BY <2>2, <2>3, <2>4 DEF Stored
<1>7. QED BY <1>4, <1>6

(* The copied payload is handed back: it was the first in the arena.       *)
LEMMA ReleaseUploadPlaces ==
  ASSUME QInv, Stored, CursorPlaced, StagedHold, ReleaseUpload
  PROVE  Stored' /\ CursorPlaced' /\ StagedHold'
<1>1. /\ cpc = "release" /\ cpc' = "replay" /\ InReplay /\ next' = Advance(next, 1)
      /\ Release(Slot(next))
      /\ UNCHANGED <<write, read, slots, seen, cursor, stagedStart, staged, producer>>
  BY DEF ReleaseUpload, ring, InReplay
<1>2. RInv /\ next # limit /\ OpAt(next, 0) = "upload"
  BY <1>1 DEF QInv, PInv, RInv, CursorsInOrder
<1>3. next \in Index /\ Waiting(next) /\ Distance(next, next) = 0
  BY <1>1, <1>2, FirstToReplay DEF QInv
<1>4. Unread(next)
  BY <1>1, <1>2, <1>3, FirstWaiting DEF Unread, IsUpload, CursorPlaced
<1>5. \A i \in Index : /\ IsStaged(i)' <=> IsStaged(i) /\ i # next
                       /\ IsStaged(i)' => staged'[i] = staged[i]
  BY <1>1, <1>4 DEF IsStaged, Unread
<1>6. /\ CursorPlaced' /\ StagedHold'
      /\ \A i \in Index : /\ IsUpload(i)' <=> IsUpload(i) /\ i # next
                          /\ Slot(i)' = Slot(i)
  BY <1>1, <1>2, <1>3, <1>5, CursorStays
<1>7. /\ uploadRead' \in Position /\ DOMAIN arena' = 0 .. ArenaSize - 1
      /\ FieldsFit' /\ Chained' /\ Reserved' /\ ArenaHolds'
  <2>1. PICK f \in Index : f = next
    BY <1>3
  <2>2. \A j \in Index : Unread(j) /\ j # f => Distance(f, next) < Distance(j, next)
    <3> SUFFICES ASSUME NEW j \in Index, j # next PROVE 0 < Distance(j, next)
      BY <1>3, <2>1
    <3>1. Distance(j, next) # 0 /\ Distance(j, next) \in Nat
      BY <1>2, <1>3, DistanceZero, WaitingPlace
    <3>2. QED BY <3>1
  <2>3. \A i \in Index : /\ IsUpload(i)' => IsUpload(i)
                         /\ Unread(i)' <=> Unread(i) /\ i # f
                         /\ IsUpload(i)' => Slot(i)' = Slot(i)
    BY <1>5, <1>6, <2>1 DEF Unread
  <2>4. \A i, j \in Index :
          /\ Unread(i) /\ Unread(j) /\ i # f /\ j # f
          /\ Distance(i, next)' < Distance(j, next)'
          => Distance(i, next) < Distance(j, next)
    BY <1>1, <1>2, <1>3, <2>1, StepLeaves DEF Unread, IsUpload
  <2>5. Unread(f) /\ Release(Slot(f))
    BY <1>1, <1>4, <2>1
  <2>6. UNCHANGED <<write, uploadWrite, uploadBefore, ppc, length>>
    BY <1>1 DEF producer
  <2>7. QED BY <2>2, <2>3, <2>4, <2>5, <2>6, ReleaseKeeps DEF Stored
<1>8. Stored'
  BY <1>1, <1>7 DEF Stored, ArenaTyped, producer
<1>9. QED BY <1>6, <1>8

(* The end of the loop.                                                    *)
LEMMA CloseReplayPlaces ==
  ASSUME QInv, Stored, CursorPlaced, StagedHold, cpc = "replay", CloseReplay,
         failed' \/ next = limit'
  PROVE  Stored' /\ CursorPlaced' /\ StagedHold' /\ cpc' # "idle"
<1>1. RInv /\ UNCHANGED <<write, read, uploadRead, slots, arena, producer, staged, next, seen>>
  BY DEF CloseReplay, QInv, PInv
<1>2. Stored' /\ \A i \in Index : (IsUpload(i)' <=> IsUpload(i)) /\ (IsStaged(i)' <=> IsStaged(i))
  BY <1>1, StoredKept
<1>3. CASE next = limit' /\ limit' # seen
  <2>1. StartStaging(next)
    BY <1>3 DEF CloseReplay
  <2>2. CursorPlaced' /\ cpc' = "scan"
    BY <1>1, <2>1, StagingStarts
  <2>3. StagedHold'
    BY <1>1, <1>2, <2>2 DEF StagedHold
  <2>4. QED BY <1>2, <2>2, <2>3
<1>4. CASE ~(next = limit' /\ limit' # seen)
  <2>1. cpc' = "publish" /\ UNCHANGED <<stagedStart, cursor>>
    BY <1>4 DEF CloseReplay
  <2>2. failed' \/ next = seen
    BY <1>4
  <2>3. CursorPlaced'
    BY <1>1, <1>2, <2>1, <2>2 DEF CursorPlaced, BehindCursor, Distance
  <2>4. StagedHold'
    BY <1>1, <1>2, <2>1 DEF StagedHold
  <2>5. QED BY <1>2, <2>1, <2>3, <2>4
<1>5. QED BY <1>3, <1>4

(* Looking for the next upload to stage: the cursor passes none.           *)
LEMMA CursorPassesNone ==
  ASSUME RInv, CursorPlaced, cpc = "scan", cpc' # "idle", cursor' = NextUpload,
         UNCHANGED <<write, read, slots, seen, next, staged, stagedStart>>,
         cpc' = "publish" \/ (cpc' = "stage" /\ NextUpload # seen)
  PROVE  /\ CursorPlaced'
         /\ NextUpload # seen => Unread(NextUpload) /\ NextUpload \in Index
<1>1. CursorAhead /\ cursor \in Index /\ Distance(cursor, read) <= Distance(seen, read)
  BY DEF CursorPlaced, CursorAhead
<1>2. /\ NextUpload \in Index
      /\ Distance(cursor, read) <= Distance(NextUpload, read)
      /\ Distance(NextUpload, read) <= Distance(seen, read)
      /\ NextUpload # seen => /\ IsUpload(NextUpload)
                              /\ Distance(NextUpload, read) < Distance(seen, read)
      /\ \A i \in Index : IsUpload(i) /\ Distance(i, read) < Distance(NextUpload, read) =>
           Distance(i, read) < Distance(cursor, read)
  BY <1>1, NextUploadIs DEF CursorAhead
<1>3. PICK n \in Index : n = NextUpload
  BY <1>2
<1>4. /\ Distance(cursor, read) \in Nat /\ Distance(n, read) \in Nat
      /\ Distance(next, read) \in Nat /\ n # None
      /\ \A i \in Index : Distance(i, read) \in Nat
  <2>1. next \in Index /\ \A i \in Index : Distance(i, read) \in Nat
    BY FromRead DEF RInv, Typed
  <2>2. QED BY <1>1, <1>3, <2>1, NoneIsNoIndex DEF Index
<1>5. \A i \in Index : /\ IsUpload(i)' <=> IsUpload(i)
                       /\ IsStaged(i)' <=> IsStaged(i)
                       /\ BehindCursor(i)' <=> BehindCursor(i)
  <2> SUFFICES ASSUME NEW i \in Index
               PROVE  /\ IsUpload(i)' <=> IsUpload(i)
                      /\ IsStaged(i)' <=> IsStaged(i)
                      /\ BehindCursor(i)' <=> BehindCursor(i)
    OBVIOUS
  <2>1. (IsUpload(i)' <=> IsUpload(i)) /\ (IsStaged(i)' <=> IsStaged(i))
    BY DEF IsUpload, IsStaged, Waiting, Distance, Slot
  <2>2. BehindCursor(i)' <=> IsUpload(i) /\ Distance(i, read) < Distance(n, read)
    BY <1>3, <1>4, <2>1 DEF BehindCursor, Distance
  <2>3. BehindCursor(i) <=> IsUpload(i) /\ Distance(i, read) < Distance(cursor, read)
    BY <1>1 DEF BehindCursor, CursorAhead
  <2>4. Distance(i, read) < Distance(cursor, read) => Distance(i, read) < Distance(n, read)
    BY <1>2, <1>3, <1>4
  <2>5. QED BY <1>2, <1>3, <2>1, <2>2, <2>3, <2>4
<1>6. CursorAhead'
  <2>1. Distance(next, read) <= Distance(n, read)
    BY <1>1, <1>2, <1>3, <1>4 DEF CursorAhead
  <2>2. QED BY <1>1, <1>3, <1>4, <2>1 DEF CursorAhead, Distance
<1>7. CursorPlaced'
  <2>1. (cursor # None =>
           /\ cursor \in Index
           /\ Distance(cursor, read) <= Distance(IF cpc = "idle" THEN write ELSE seen, read))'
    BY <1>2 DEF Distance
  <2>2. (stagedStart = None <=> cursor = None)'
    BY <1>1, <1>3, <1>4 DEF CursorPlaced, CursorAhead
  <2>3. cpc' = "stage" => IsUpload(n)' /\ (Distance(cursor, read) < Distance(seen, read))'
    BY <1>2, <1>3, <1>5 DEF Distance
  <2>4. cpc' = "stage" => IsUpload(cursor)'
    <3>1. IsUpload(cursor)' <=> IsUpload(n)'
      BY <1>3 DEF IsUpload, Waiting, Slot
    <3>2. QED BY <2>3, <3>1
  <2>5. QED BY <1>5, <1>6, <2>1, <2>2, <2>3, <2>4 DEF CursorPlaced
<1>8. ASSUME NextUpload # seen PROVE Unread(n)
  <2>1. IsUpload(n) /\ ~(Distance(n, read) < Distance(cursor, read))
    BY <1>2, <1>3, <1>4, <1>8
  <2>2. ~IsStaged(n)
    BY <2>1 DEF CursorPlaced, BehindCursor
  <2>3. QED BY <2>1, <2>2 DEF Unread
<1>9. QED BY <1>3, <1>7, <1>8

(* A payload of the suffix is looked at, or staging stops.                 *)
LEMMA ScanPlaces ==
  ASSUME QInv, Stored, CursorPlaced, StagedHold, StageCopy \/ StopStaging
  PROVE  Stored' /\ CursorPlaced' /\ StagedHold' /\ cpc' # "idle"
<1>1. /\ RInv /\ cpc = "scan" /\ cpc' # "idle" /\ cursor' = NextUpload
      /\ UNCHANGED <<write, read, uploadRead, slots, arena, seen, next, staged, stagedStart, producer>>
      /\ \/ cpc' = "publish"
         \/ cpc' = "stage" /\ NextUpload # seen /\ copied' = Bytes(Slot(NextUpload))
  BY DEF StageCopy, StopStaging, shared, QInv, PInv
<1>2. Stored' /\ \A i \in Index : (IsUpload(i)' <=> IsUpload(i)) /\ (IsStaged(i)' <=> IsStaged(i))
  BY <1>1, StoredKept
<1>3. /\ CursorPlaced'
      /\ NextUpload # seen => Unread(NextUpload) /\ NextUpload \in Index
  BY <1>1, CursorPassesNone
<1>4. cpc' = "stage" => copied' = Own(cursor)'
  BY <1>1, <1>3, BytesAreOwn DEF Own
<1>5. StagedHold'
  BY <1>1, <1>2, <1>4 DEF StagedHold
<1>6. QED BY <1>1, <1>2, <1>3, <1>5

(* The payload is staged and its bytes are handed back.                    *)
LEMMA StageReleasePlaces ==
  ASSUME QInv, Stored, CursorPlaced, StagedHold, StageRelease
  PROVE  Stored' /\ CursorPlaced' /\ StagedHold' /\ cpc' # "idle"
<1> DEFINE c == Distance(cursor, read)
<1>1. /\ RInv /\ cpc = "stage" /\ cpc' = "scan" /\ cursor' = Advance(cursor, 1)
      /\ Release(Slot(cursor))
      /\ staged' = [staged EXCEPT ![cursor] = [bytes |-> copied, len |-> Slot(cursor).len]]
      /\ UNCHANGED <<write, read, slots, seen, next, stagedStart, producer>>
  BY DEF StageRelease, QInv, PInv
<1>2. /\ CursorAhead /\ cursor \in Index /\ IsUpload(cursor)
      /\ c < Distance(seen, read) /\ copied = Own(cursor)
  BY <1>1 DEF CursorPlaced, StagedHold, CursorAhead
<1>3. PICK f \in Index : f = cursor
  BY <1>2
<1>4. Unread(f)
  <2>1. c \in Nat
    BY <1>1, <1>2, FromRead
  <2>2. ~BehindCursor(cursor)
    BY <2>1 DEF BehindCursor
  <2>3. QED BY <1>2, <1>3, <2>2 DEF Unread, CursorPlaced
<1>5. /\ DOMAIN staged' = Index
      /\ \A i \in Index : i # f => staged'[i] = staged[i] /\ (IsStaged(i)' <=> IsStaged(i))
      /\ IsStaged(f)' /\ staged'[f].bytes = Own(f)
  <2>1. DOMAIN staged = Index /\ Slot(f).len \in Nat \ {0}
    BY <1>4, PlacesTyped DEF Stored, ArenaTyped
  <2>2. staged'[f] = [bytes |-> copied, len |-> Slot(f).len] /\ DOMAIN staged' = Index
    BY <1>1, <1>3, <2>1
  <2>3. staged'[f].len # NotStaged.len
    BY <2>1, <2>2 DEF NotStaged
  <2>4. IsStaged(f)'
    BY <2>3 DEF IsStaged
  <2>5. \A i \in Index : i # f => staged'[i] = staged[i]
    BY <1>1, <1>3, <2>1
  <2>6. QED BY <1>2, <1>3, <2>2, <2>4, <2>5 DEF IsStaged
<1>6. \A i \in Index : (IsUpload(i)' <=> IsUpload(i)) /\ Slot(i)' = Slot(i)
  BY <1>1 DEF IsUpload, Waiting, Distance, Slot
<1>7. /\ c \in Nat /\ Distance(next, read) \in Nat /\ Distance(seen, read) \in Nat
      /\ cursor' \in Index /\ Distance(cursor', read) = c + 1 /\ cursor' # None
  <2>1. /\ read \in Index /\ next \in Index /\ seen \in Index /\ IndexModulus \in Nat
        /\ 1 \in 0 .. IndexModulus - 1
    BY RingAssumption DEF QInv, PInv, RInv, Typed
  <2>2. /\ c \in 0 .. IndexModulus - 1 /\ Distance(next, read) \in 0 .. IndexModulus - 1
        /\ Distance(seen, read) \in 0 .. IndexModulus - 1
    BY <1>1, <1>2, <2>1, FromRead
  <2>3. c + 1 < IndexModulus
    BY <1>2, <2>1, <2>2
  <2>4. cursor' \in Index /\ Distance(cursor', read) = c + 1
    BY <1>1, <1>2, <2>1, <2>3, AdvanceIs, DistanceGrows
  <2>5. QED BY <2>2, <2>4, NoneIsNoIndex DEF Index
<1>8. \A i \in Index : Distance(i, read) = c => i = f
  <2>1. \A i \in Index : i = Advance(read, Distance(i, read))
    BY <1>1, FromRead
  <2>2. QED BY <1>3, <2>1
<1>9. CursorPlaced'
  <2>1. \A i \in Index : IsStaged(i)' <=> BehindCursor(i)'
    <3> SUFFICES ASSUME NEW i \in Index PROVE IsStaged(i)' <=> BehindCursor(i)'
      OBVIOUS
    <3>1. BehindCursor(i)' <=> IsUpload(i) /\ Distance(i, read) < c + 1
      BY <1>1, <1>6, <1>7 DEF BehindCursor, Distance
    <3>2. Distance(i, read) \in Nat
      BY <1>1, FromRead
    <3>3. CASE i = f
      BY <1>2, <1>3, <1>5, <1>7, <3>1, <3>3
    <3>4. CASE i # f
      <4>1. Distance(i, read) # c
        BY <1>8, <3>4
      <4>2. Distance(i, read) < c + 1 <=> Distance(i, read) < c
        BY <1>7, <3>2, <4>1
      <4>3. QED BY <1>2, <1>5, <3>1, <3>4, <4>2 DEF CursorPlaced, BehindCursor, CursorAhead
    <3>5. QED BY <3>3, <3>4
  <2>2. CursorAhead'
    <3>1. Distance(next, read) <= c + 1
      BY <1>2, <1>7 DEF CursorAhead
    <3>2. QED BY <1>1, <1>2, <1>7, <3>1 DEF CursorAhead, Distance
  <2>3. Distance(cursor', read) <= Distance(seen, read)
    BY <1>2, <1>7
  <2>4. QED BY <1>1, <1>7, <2>1, <2>2, <2>3 DEF CursorPlaced, CursorAhead, Distance
<1>10. StagedHold'
  BY <1>1, <1>5 DEF StagedHold
<1>11. /\ uploadRead' \in Position /\ DOMAIN arena' = 0 .. ArenaSize - 1
       /\ FieldsFit' /\ Chained' /\ Reserved' /\ ArenaHolds'
  <2>1. ASSUME NEW j \in Index, Unread(j), j # f PROVE Distance(f, next) < Distance(j, next)
    <3>1. IsUpload(j) /\ IsUpload(f) /\ ~BehindCursor(j)
      BY <1>4, <2>1 DEF Unread, CursorPlaced
    <3>2. /\ Distance(j, read) = Distance(next, read) + Distance(j, next)
          /\ Distance(f, read) = Distance(next, read) + Distance(f, next)
          /\ Distance(j, next) \in Nat /\ Distance(f, next) \in Nat
      BY <1>1, <3>1, WaitingPlace DEF IsUpload
    <3>3. ~(Distance(j, read) < c) /\ Distance(j, read) # c
      BY <1>2, <1>8, <2>1, <3>1 DEF BehindCursor, CursorAhead
    <3>4. QED BY <1>3, <1>7, <3>2, <3>3
  <2>2. \A i \in Index : /\ IsUpload(i)' => IsUpload(i)
                         /\ Unread(i)' <=> Unread(i) /\ i # f
                         /\ IsUpload(i)' => Slot(i)' = Slot(i)
    BY <1>5, <1>6 DEF Unread
  <2>3. \A i, j \in Index :
          /\ Unread(i) /\ Unread(j) /\ i # f /\ j # f
          /\ Distance(i, next)' < Distance(j, next)'
          => Distance(i, next) < Distance(j, next)
    BY <1>1 DEF Distance
  <2>4. Release(Slot(f)) /\ UNCHANGED <<write, uploadWrite, uploadBefore, ppc, length>>
    BY <1>1, <1>3 DEF producer
  <2>5. QED BY <1>4, <2>1, <2>2, <2>3, <2>4, ReleaseKeeps DEF Stored
<1>12. Stored'
  BY <1>1, <1>5, <1>11 DEF Stored, ArenaTyped, producer
<1>13. QED BY <1>1, <1>9, <1>10, <1>12

(* A ring with no upload in it has no bytes in the arena.                  *)
LEMMA EmptyIsDrained ==
  ASSUME RInv, Chained, write = next
  PROVE  Filled = uploadRead
<1>1. Waits = 0
  BY DistanceZero DEF Waits, RInv, Typed
<1>2. ASSUME NEW i \in Index PROVE ~Unread(i)
  BY <1>1, WaitingPlace DEF Unread, IsUpload, Waiting, Waits
<1>3. QED BY <1>2 DEF Chained

(* The end of a drain: the records passed are handed back.                 *)
LEMMA EndDrainPlaces ==
  ASSUME QInv, Stored, CursorPlaced, StagedHold, EndDrain
  PROVE  /\ Stored'
         /\ ~failed => CursorPlaced' /\ StagedHold' /\ ~failed'
         /\ failed => Drained' /\ failed' /\ cpc' = "idle"
<1> DEFINE e == Distance(next, read)
           c == Distance(cursor, read)
<1>1. /\ RInv /\ cpc = "publish" /\ cpc' = "idle" /\ PublishRead(next) /\ read' = next
      /\ IF next = seen THEN ForgetHeldSuffix ELSE UNCHANGED <<stagedStart, cursor>>
      /\ UNCHANGED <<write, uploadRead, arena, staged, next, failed, producer>>
  BY DEF EndDrain, PublishRead, QInv, PInv
<1>2. /\ write \in Index /\ read \in Index /\ next \in Index /\ seen \in Index
      /\ next # None
  BY <1>1, NoneIsNoIndex DEF RInv, Typed, Index
<1>3. \A i \in Index : /\ IsUpload(i)' => IsUpload(i)
                       /\ IsUpload(i) => IsUpload(i)' /\ Slot(i)' = Slot(i)
                       /\ IsStaged(i)' <=> IsStaged(i)
  <2> SUFFICES ASSUME NEW i \in Index
               PROVE  /\ IsUpload(i)' <=> IsUpload(i)
                      /\ IsUpload(i) => Slot(i)' = Slot(i)
                      /\ IsStaged(i)' <=> IsStaged(i)
    OBVIOUS
  <2>1. (IsStaged(i)' <=> IsStaged(i)) /\ (Waiting(i)' <=> Waiting(i))
    BY <1>1 DEF IsStaged, Waiting, Distance
  <2>2. Waiting(i) => Slot(i)' = Slot(i)
    BY <1>1, HandBackLeaves
  <2>3. QED BY <2>1, <2>2 DEF IsUpload
<1>4. Stored'
  <2>1. SameUnread
    BY <1>1, <1>3 DEF SameUnread, Unread, Distance
  <2>2. Filled' = Filled /\ Ahead(uploadWrite, uploadRead)' <= ArenaSize
    BY <1>1 DEF producer, Filled, Ahead, Stored, Chained
  <2>3. FieldsFit' /\ Chained' /\ ArenaHolds'
    BY <1>1, <2>1, <2>2, SameUnreadKeeps DEF Stored
  <2>4. Reserved'
    BY <1>1, SameReserved DEF producer, Stored
  <2>5. ArenaTyped'
    BY <1>1 DEF ArenaTyped, producer, Stored
  <2>6. QED BY <2>3, <2>4, <2>5 DEF Stored
<1>5. ASSUME failed PROVE Drained'
  <2>1. write' = read' => Filled = uploadRead
    BY <1>1, EmptyIsDrained DEF Stored
  <2>2. QED BY <1>1, <2>1 DEF Drained, Filled, producer
<1>6. ASSUME ~failed PROVE CursorPlaced'
  <2>1. /\ e \in Nat /\ Distance(seen, read) \in Nat /\ e <= Distance(seen, read)
        /\ Distance(seen, read) <= Distance(write, read)
        /\ Distance(write, read) \in Nat
        /\ \A i \in Index : Distance(i, read) \in Nat
        /\ \A i \in Index : IsUpload(i) => e <= Distance(i, read)
        /\ \A i \in Index : e <= Distance(i, read) => Distance(i, next) = Distance(i, read) - e
    BY <1>1, <1>2, FromRead DEF IsUpload
  <2>2. CASE next = seen
    <3>1. cursor' = None /\ stagedStart' = None
      BY <1>1, <2>2 DEF ForgetHeldSuffix
    <3>2. ASSUME NEW i \in Index, BehindCursor(i) PROVE FALSE
      <4>1. /\ e <= Distance(i, read) /\ Distance(i, read) < c /\ cursor \in Index
            /\ c <= Distance(seen, read)
        BY <1>1, <2>1, <3>2 DEF BehindCursor, CursorPlaced
      <4>2. c \in Nat
        BY <2>1, <4>1
      <4>3. QED BY <2>1, <2>2, <4>1, <4>2
    <3>3. \A i \in Index : ~IsStaged(i)' /\ ~BehindCursor(i)'
      BY <1>3, <3>1, <3>2 DEF CursorPlaced, BehindCursor
    <3>4. QED BY <1>1, <3>1, <3>3 DEF CursorPlaced
  <2>3. CASE next # seen
    <3>1. /\ CursorAhead /\ cursor' = cursor /\ stagedStart' = stagedStart
          /\ cursor \in Index /\ c <= Distance(seen, read)
      BY <1>1, <1>6, <2>3 DEF CursorPlaced, CursorAhead
    <3>2. Distance(cursor, next) = c - e /\ Distance(write, next) = Distance(write, read) - e
          /\ c \in Nat /\ e <= c
      <4>1. e <= c
        BY <3>1 DEF CursorAhead
      <4>2. e <= Distance(write, read)
        BY <2>1
      <4>3. QED BY <1>2, <2>1, <3>1, <4>1, <4>2
    <3>3. Distance(cursor, next) <= Distance(write, next)
      BY <2>1, <3>1, <3>2
    <3>4. \A i \in Index : BehindCursor(i)' <=> BehindCursor(i)
      <4> SUFFICES ASSUME NEW i \in Index PROVE BehindCursor(i)' <=> BehindCursor(i)
        OBVIOUS
      <4>1. BehindCursor(i)' <=> IsUpload(i) /\ Distance(i, next) < Distance(cursor, next)
        BY <1>1, <1>3, <3>1 DEF BehindCursor, CursorAhead, Distance
      <4>2. IsUpload(i) => /\ e <= Distance(i, read) /\ Distance(i, read) \in Nat
                           /\ Distance(i, next) = Distance(i, read) - e
        BY <2>1
      <4>3. IsUpload(i) => (Distance(i, next) < Distance(cursor, next) <=> Distance(i, read) < c)
        BY <2>1, <3>2, <4>2
      <4>4. QED BY <3>1, <4>1, <4>3 DEF BehindCursor, CursorAhead
    <3>5. \A i \in Index : IsStaged(i)' <=> BehindCursor(i)'
      BY <1>3, <3>4 DEF CursorPlaced
    <3>6. (cursor # None =>
             /\ cursor \in Index
             /\ Distance(cursor, read) <= Distance(IF cpc = "idle" THEN write ELSE seen, read))'
      BY <1>1, <3>1, <3>3 DEF Distance
    <3>7. stagedStart' = read' /\ (stagedStart' = None <=> cursor' = None)
      BY <1>1, <3>1 DEF CursorAhead, CursorPlaced
    <3>8. QED BY <1>1, <3>5, <3>6, <3>7 DEF CursorPlaced
  <2>4. QED BY <2>2, <2>3
<1>7. StagedHold'
  BY <1>1, <1>3 DEF StagedHold
<1>8. QED BY <1>1, <1>4, <1>5, <1>6, <1>7

-----------------------------------------------------------------------------
(* The steps of the video thread.                                          *)

(* A publication stages nothing and moves no cursor.                       *)
LEMMA PublishPlaces ==
  ASSUME RInv, CursorPlaced, StagedHold, NEW records, NEW n \in 1 .. Capacity, Len(records) = n,
         Publish(records)
  PROVE  CursorPlaced' /\ StagedHold'
<1>1. /\ ~failed /\ UNCHANGED <<read, failed, cursor, staged, stagedStart, cpc, next, seen, copied>>
  BY DEF Publish, ring, drain
<1>2. \A i \in Index :
        /\ Waiting(i) => Waiting(i)' /\ Slot(i)' = Slot(i)
        /\ Waiting(i)' /\ ~Waiting(i) => Distance(i, read) >= Distance(write, read)
  BY <1>1, PublishAdds
<1>3. /\ Distance(write, read)' >= Distance(write, read)
      /\ \A i \in Index : Distance(i, read) \in Nat
      /\ Distance(write, read) \in Nat /\ Distance(write, read)' \in Nat
      /\ cpc # "idle" => Distance(seen, read) <= Distance(write, read)
      /\ Distance(seen, read) \in Nat
  <2>1. 0 \in Index /\ write \in Index /\ seen \in Index /\ read \in Index
    BY RingAssumption DEF RInv, Typed, Index
  <2>2. Distance(write, read)' >= Distance(write, read)
    BY <1>1, <2>1, PublishAdds
  <2>3. Distance(write, read)' \in Nat
    BY <1>1, <2>1, PublishAppends, FromRead DEF Appended, RInv, CursorsInOrder
  <2>4. QED BY <2>1, <2>2, <2>3, FromRead
<1>4. cursor # None => Distance(cursor, read) <= Distance(write, read) /\ Distance(cursor, read) \in Nat
  BY <1>3 DEF CursorPlaced
<1>5. \A i \in Index : BehindCursor(i)' <=> BehindCursor(i)
  <2> SUFFICES ASSUME NEW i \in Index PROVE BehindCursor(i)' <=> BehindCursor(i)
    OBVIOUS
  <2>1. BehindCursor(i)' <=> IsUpload(i)' /\ cursor # None /\ Distance(i, read) < Distance(cursor, read)
    BY <1>1 DEF BehindCursor, Distance
  <2>2. CASE Waiting(i)
    BY <1>2, <2>1, <2>2 DEF BehindCursor, IsUpload
  <2>3. CASE ~Waiting(i)
    BY <1>2, <1>3, <1>4, <2>1, <2>3 DEF BehindCursor, IsUpload
  <2>4. QED BY <2>2, <2>3
<1>6. \A i \in Index : IsStaged(i)' <=> IsStaged(i)
  BY <1>1 DEF IsStaged
<1>7. CursorPlaced'
  <2>1. (cursor # None =>
           /\ cursor \in Index
           /\ Distance(cursor, read) <= Distance(IF cpc = "idle" THEN write ELSE seen, read))'
    <3>1. cursor # None => /\ cursor \in Index
                           /\ cpc = "idle" => Distance(cursor, read) <= Distance(write, read)'
                           /\ cpc # "idle" => Distance(cursor, read) <= Distance(seen, read)
      BY <1>3, <1>4 DEF CursorPlaced
    <3>2. QED BY <1>1, <3>1 DEF Distance
  <2>2. CursorAhead' <=> CursorAhead
    BY <1>1 DEF CursorAhead, Distance
  <2>3. cpc = "stage" => cursor \in Index /\ IsUpload(cursor)
    BY DEF CursorPlaced, CursorAhead
  <2>4. (cpc = "stage" => IsUpload(cursor) /\ Distance(cursor, read) < Distance(seen, read))'
    <3>1. cpc = "stage" => Waiting(cursor)' /\ Slot(cursor)' = Slot(cursor)
      <4>1. ASSUME NEW x \in Index, x = cursor, Waiting(x)
            PROVE  Waiting(cursor)' /\ Slot(cursor)' = Slot(cursor)
        <5>1. Waiting(x)' /\ Slot(x)' = Slot(x) /\ x = cursor'
          BY <1>1, <1>2, <4>1
        <5>2. QED BY <4>1, <5>1 DEF Waiting, Slot
      <4>2. QED BY <2>3, <4>1 DEF IsUpload
    <3>2. QED BY <1>1, <2>3, <3>1 DEF CursorPlaced, IsUpload, Distance
  <2>5. (cpc = "release" => ~IsStaged(next))'
    BY <1>1 DEF CursorPlaced, IsStaged
  <2>6. \A i \in Index : IsStaged(i)' <=> BehindCursor(i)'
    BY <1>5, <1>6 DEF CursorPlaced
  <2>7. QED BY <1>1, <2>1, <2>2, <2>4, <2>5, <2>6 DEF CursorPlaced
<1>8. StagedHold'
  BY <1>1, <1>6 DEF StagedHold
<1>9. QED BY <1>7, <1>8

(* Records other than uploads bring no payload.                            *)
LEMMA PublishMarks ==
  ASSUME RInv, Stored, CursorPlaced, StagedHold, NEW records, NEW n \in 1 .. Capacity,
         Len(records) = n, Publish(records), \A k \in 1 .. n : records[k].op # "upload",
         UNCHANGED <<uploadWrite, uploadBefore, ppc, length>>, ppc = "idle"
  PROVE  Stored' /\ CursorPlaced' /\ StagedHold'
<1>1. CursorPlaced' /\ StagedHold'
  BY PublishPlaces
<1>2. UNCHANGED <<uploadRead, arena, staged, next, read>>
  BY DEF Publish, ring, drain
<1>3. \A i \in Index :
        /\ Waiting(i) => Waiting(i)' /\ Slot(i)' = Slot(i)
        /\ Waiting(i)' /\ ~Waiting(i) => \E k \in 1 .. n : Slot(i)' = records[k]
  BY <1>2, PublishAdds
<1>4. \A i \in Index : /\ IsUpload(i)' <=> IsUpload(i)
                       /\ IsUpload(i) => Slot(i)' = Slot(i)
                       /\ IsStaged(i)' <=> IsStaged(i)
  BY <1>2, <1>3 DEF IsUpload, IsStaged
<1>5. SameUnread
  BY <1>2, <1>4 DEF SameUnread, Unread, Distance
<1>6. Filled' = Filled /\ Ahead(uploadWrite, uploadRead)' <= ArenaSize
  BY <1>2 DEF Filled, Ahead, Stored, Chained
<1>7. FieldsFit' /\ Chained' /\ ArenaHolds'
  BY <1>2, <1>5, <1>6, SameUnreadKeeps DEF Stored
<1>8. Reserved' /\ ArenaTyped'
  BY <1>2 DEF Reserved, ArenaTyped, Stored
<1>9. QED BY <1>1, <1>7, <1>8 DEF Stored

(* Steps of the video thread that publish nothing and fill no bytes.        *)
LEMMA QuietProducePlaces ==
  ASSUME UNCHANGED <<write, read, uploadRead, failed, slots, arena, ring, drain>>,
         Filled' = Filled, ppc' # "push", ppc' = "reserve" => length' \in Lengths,
         uploadWrite' \in Position, uploadBefore' \in Position, ArenaTyped, FieldsFit
  PROVE  /\ ArenaTyped' /\ FieldsFit'
         /\ Drained => Drained'
         /\ Stored /\ CursorPlaced /\ StagedHold => Stored' /\ CursorPlaced' /\ StagedHold'
<1>1. UNCHANGED <<cpc, cursor, staged, stagedStart, next, seen, copied>>
  BY DEF ring, drain
<1>2. \A i \in Index : /\ IsUpload(i)' <=> IsUpload(i)
                       /\ IsStaged(i)' <=> IsStaged(i)
                       /\ Slot(i)' = Slot(i)
  BY <1>1 DEF IsUpload, IsStaged, Waiting, Distance, Slot
<1>3. ArenaTyped' /\ FieldsFit'
  BY <1>1, <1>2 DEF ArenaTyped, FieldsFit
<1>4. Drained => Drained'
  BY DEF Drained
<1>5. ASSUME Stored, CursorPlaced, StagedHold PROVE Stored' /\ CursorPlaced' /\ StagedHold'
  <2>1. SameUnread
    BY <1>1, <1>2 DEF SameUnread, Unread, Distance
  <2>2. Ahead(uploadWrite, uploadRead)' <= ArenaSize
    <3>1. uploadWrite' = Filled /\ Used <= ArenaSize
      BY <1>5, PlacesTyped DEF Stored, Filled
    <3>2. QED BY <3>1 DEF Used, Ahead
  <2>3. Chained' /\ ArenaHolds'
    BY <1>5, <2>1, <2>2, SameUnreadKeeps DEF Stored
  <2>4. Reserved'
    BY DEF Reserved
  <2>5. CursorPlaced'
    <3>1. (CursorAhead' <=> CursorAhead) /\ \A i \in Index : BehindCursor(i)' <=> BehindCursor(i)
      BY <1>1, <1>2 DEF CursorAhead, BehindCursor, Distance
    <3>2. IsUpload(cursor)' <=> IsUpload(cursor)
      BY <1>1 DEF IsUpload, Waiting, Distance, Slot
    <3>3. IsStaged(next)' <=> IsStaged(next)
      BY <1>1 DEF IsStaged
    <3>4. QED BY <1>1, <1>2, <1>5, <3>1, <3>2, <3>3 DEF CursorPlaced, Distance
  <2>6. StagedHold'
    BY <1>1, <1>2, <1>5 DEF StagedHold
  <2>7. QED BY <1>3, <2>3, <2>4, <2>5, <2>6 DEF Stored
<1>6. QED BY <1>3, <1>4, <1>5

(* What the video thread does while the consumer lives.                    *)
LEMMA ProducePlaces ==
  ASSUME QInv, Stored, CursorPlaced, StagedHold, Produce, ~failed
  PROVE  Stored' /\ CursorPlaced' /\ StagedHold' /\ ~failed'
<1>1. RInv /\ Typed /\ Capacity \in Nat /\ MaxPass \in 2 .. Capacity /\ 1 \in 1 .. Capacity
  BY RingAssumption, PassesFit DEF QInv, PInv, RInv
<1>2. UNCHANGED <<failed, read, ring, drain>>
  BY DEF Produce, PushCommand, StagePassRecord, AbortPass, PushBatch, PushPassRecord,
         IssueUpload, ReserveUpload, PushUpload, Refuse, Publish, shared
<1>3. ASSUME NEW r, r.op # "upload", Publish(<<r>>), ppc = "idle",
             UNCHANGED <<uploadWrite, uploadBefore, ppc, length>>
      PROVE  Stored' /\ CursorPlaced' /\ StagedHold'
  <2>1. Len(<<r>>) = 1 /\ \A k \in 1 .. 1 : <<r>>[k] = r
    OBVIOUS
  <2>2. QED BY <1>1, <1>3, <2>1, PublishMarks
<1>4. ASSUME UNCHANGED <<write, uploadRead, slots, arena, uploadWrite, uploadBefore>>,
             ppc # "push", ppc' # "push", ppc' = "reserve" => length' \in Lengths
      PROVE  Stored' /\ CursorPlaced' /\ StagedHold'
  <2>1. Filled' = Filled /\ uploadWrite' \in Position /\ uploadBefore' \in Position
        /\ ArenaTyped /\ FieldsFit
    BY <1>4 DEF Filled, Stored, ArenaTyped
  <2>2. QED BY <1>2, <1>4, <2>1, QuietProducePlaces
<1>5. CASE PushCommand
  <2>1. PICK r : r = Mark("command", 0)
    OBVIOUS
  <2>2. r.op # "upload"
    BY <2>1 DEF Mark
  <2>3. QED BY <1>2, <1>3, <1>5, <2>1, <2>2 DEF PushCommand, producer
<1>6. CASE StagePassRecord
  BY <1>2, <1>4, <1>6 DEF StagePassRecord, shared
<1>7. CASE AbortPass
  BY <1>2, <1>4, <1>7 DEF AbortPass, shared
<1>8. CASE PushBatch
  <2> DEFINE rs == [k \in 1 .. passRecords + 1 |-> Mark(PassOp(k - 1), k - 1)]
  <2>1. Publish(rs) /\ ppc = "idle" /\ UNCHANGED <<uploadWrite, uploadBefore, ppc, length>>
    BY <1>8 DEF PushBatch
  <2>2. passRecords \in Nat /\ passRecords > 0
    BY <1>1, <1>8 DEF PushBatch, Typed
  <2>3. Len(rs) = passRecords + 1
    BY <2>2
  <2>4. passRecords + 1 \in 1 .. Capacity
    <3>1. Distance(write, read) + Len(rs) <= Capacity
      BY <2>1 DEF Publish, RingHasRoom
    <3>2. Distance(write, read) \in Nat
      BY <1>1, FromRead DEF Typed
    <3>3. QED BY <1>1, <2>2, <2>3, <3>1, <3>2
  <2>5. \A k \in 1 .. passRecords + 1 : rs[k].op # "upload"
    BY DEF Mark, PassOp
  <2> HIDE DEF rs
  <2>6. QED BY <1>1, <1>2, <2>1, <2>3, <2>4, <2>5, PublishMarks
<1>9. CASE PushPassRecord
  <2>1. PICK op \in {"begin", "command", "end"} : Publish(<<Mark(op, 0)>>)
    BY <1>9 DEF PushPassRecord
  <2>2. PICK r : r = Mark(op, 0)
    OBVIOUS
  <2>3. r.op # "upload"
    BY <2>2 DEF Mark
  <2>4. QED BY <1>2, <1>3, <1>9, <2>1, <2>2, <2>3 DEF PushPassRecord
<1>10. CASE \E m \in Lengths : IssueUpload(m)
  BY <1>2, <1>4, <1>10 DEF IssueUpload, shared
<1>11. CASE ReserveUpload
  <2>1. Stored'
    BY <1>11, ReserveKeeps DEF Stored
  <2>2. UNCHANGED <<write, read, slots, failed, cursor, staged, stagedStart, next, seen, cpc, copied>>
    BY <1>11 DEF ReserveUpload, ring, drain
  <2>3. CursorPlaced' /\ StagedHold'
    <3>1. \A i \in Index : (IsStaged(i)' <=> IsStaged(i)) /\ (BehindCursor(i)' <=> BehindCursor(i))
      BY <2>2 DEF IsStaged, BehindCursor, IsUpload, Waiting, Distance, Slot
    <3>2. (CursorAhead' <=> CursorAhead) /\ (IsUpload(cursor)' <=> IsUpload(cursor))
          /\ (IsStaged(next)' <=> IsStaged(next))
      BY <2>2 DEF CursorAhead, IsStaged, IsUpload, Waiting, Distance, Slot
    <3>3. CursorPlaced'
      BY <2>2, <3>1, <3>2 DEF CursorPlaced, Distance
    <3>4. StagedHold'
      BY <2>2, <3>1 DEF StagedHold
    <3>5. QED BY <3>3, <3>4
  <2>4. QED BY <1>2, <2>1, <2>3
<1>12. CASE PushUpload
  <2>1. PICK r : Publish(<<r>>)
    BY <1>12 DEF PushUpload
  <2>2. Len(<<r>>) = 1
    OBVIOUS
  <2>3. CursorPlaced' /\ StagedHold'
    BY <1>1, <2>1, <2>2, PublishPlaces
  <2>4. \A i \in Index : IsStaged(i) => Waiting(i)
    BY DEF CursorPlaced, BehindCursor, IsUpload
  <2>5. Stored'
    BY <1>1, <1>12, <2>4, PushUploadKeeps DEF Stored
  <2>6. QED BY <1>2, <2>3, <2>5
<1>13. CASE Refuse
  BY <1>13 DEF Refuse
<1>14. QED
  BY <1>2, <1>5, <1>6, <1>7, <1>8, <1>9, <1>10, <1>11, <1>12, <1>13 DEF Produce

(* After a failure it publishes nothing and takes its last payload back.   *)
LEMMA FailedProducePlaces ==
  ASSUME AInv, Produce, failed
  PROVE  AInv'
<1>1. StagePassRecord \/ AbortPass \/ (\E m \in Lengths : IssueUpload(m)) \/ Refuse
  BY DEF Produce, PushCommand, PushBatch, PushPassRecord, ReserveUpload, PushUpload, Publish
<1>2. UNCHANGED <<write, read, uploadRead, failed, slots, arena, ring, drain>>
  BY <1>1 DEF StagePassRecord, AbortPass, IssueUpload, Refuse, shared
<1>3. ArenaTyped /\ FieldsFit
  BY DEF AInv
<1>4. /\ Filled' = Filled /\ ppc' # "push" /\ (ppc' = "reserve" => length' \in Lengths)
      /\ uploadWrite' \in Position /\ uploadBefore' \in Position
  <2>1. CASE StagePassRecord \/ AbortPass \/ \E m \in Lengths : IssueUpload(m)
    BY <1>3, <2>1 DEF StagePassRecord, AbortPass, IssueUpload, Filled, ArenaTyped
  <2>2. CASE Refuse
    <3>1. uploadWrite' = Filled /\ ppc' = "refused" /\ uploadBefore' = 0
      BY <2>2 DEF Refuse, Filled
    <3>2. 0 \in Position
      BY RingAssumption DEF Position
    <3>3. QED BY <1>3, <3>1, <3>2 DEF ArenaTyped, Filled
  <2>3. QED BY <1>1, <2>1, <2>2
<1>5. /\ ArenaTyped' /\ FieldsFit'
      /\ Drained => Drained'
      /\ Stored /\ CursorPlaced /\ StagedHold => Stored' /\ CursorPlaced' /\ StagedHold'
  BY <1>2, <1>3, <1>4, QuietProducePlaces
<1>6. Live' <=> Live
  BY <1>2 DEF Live, drain
<1>7. QED BY <1>3, <1>5, <1>6 DEF AInv, Placed, Stored

(* Losing the device between two drains.                                   *)
LEMMA DeviceLossPlaces ==
  ASSUME QInv, AInv, DeviceLoss
  PROVE  AInv'
<1>1. /\ cpc = "idle" /\ ~failed /\ failed' /\ cpc' = "idle"
      /\ UNCHANGED <<write, read, uploadRead, slots, arena, producer, next>>
      /\ staged' = [i \in Index |-> NotStaged]
  BY DEF DeviceLoss, drain
<1>2. ArenaTyped'
  BY <1>1 DEF AInv, ArenaTyped, producer
<1>3. \A i \in Index : (IsUpload(i)' <=> IsUpload(i)) /\ Slot(i)' = Slot(i)
  BY <1>1 DEF IsUpload, Waiting, Distance, Slot
<1>4. FieldsFit'
  BY <1>3 DEF AInv, FieldsFit
<1>5. Drained
  <2>1. RInv /\ next = read /\ Chained
    BY <1>1 DEF QInv, PInv, RInv, CursorsInOrder, AInv, Live, Placed
  <2>2. QED BY <2>1, EmptyIsDrained DEF Drained
<1>6. Drained'
  BY <1>1, <1>5 DEF Drained, Filled, producer
<1>7. QED BY <1>1, <1>2, <1>4, <1>6 DEF AInv, Live

-----------------------------------------------------------------------------
(* What the worker does of a drain.                                        *)
LEMMA DrainPlaces ==
  ASSUME QInv, AInv, ReplaysInOrder, Replay \/ FailRecord
  PROVE  AInv'
<1>1. Live /\ (cpc = "idle" => ~failed)
  BY DEF Live, Replay, FailRecord, StartDrain, ReplayRecord, CopyUpload, ReleaseUpload,
         StopReplay, StageCopy, StageRelease, StopStaging, EndDrain, Replayable
<1>2. Stored /\ CursorPlaced /\ StagedHold /\ PInv
  BY <1>1 DEF AInv, Placed, Stored, QInv
<1>3. ASSUME Stored', CursorPlaced', StagedHold', (cpc' # "idle" \/ ~failed')
      PROVE  AInv'
  BY <1>3 DEF AInv, Placed, Stored, Live
<1>4. CASE StartDrain
  <2>1. ~failed'
    BY <1>4 DEF StartDrain, shared
  <2>2. QED BY <1>2, <1>3, <1>4, <2>1, StartDrainPlaces
<1>5. CASE ReplayRecord
  <2>1. cpc' # "idle"
    BY <1>5 DEF ReplayRecord, Replayable
  <2>2. QED BY <1>2, <1>3, <1>5, <2>1, ReplayRecordPlaces
<1>6. CASE CopyUpload
  <2>1. cpc' # "idle"
    BY <1>6 DEF CopyUpload
  <2>2. QED BY <1>2, <1>3, <1>6, <2>1, CopyUploadPlaces
<1>7. CASE ReleaseUpload
  <2>1. cpc' # "idle"
    BY <1>7 DEF ReleaseUpload
  <2>2. QED BY <1>2, <1>3, <1>7, <2>1, ReleaseUploadPlaces
<1>8. CASE StopReplay
  <2>1. cpc = "replay" /\ CloseReplay /\ (next = limit \/ MustStop \/ MayYield \/ (next # limit /\ Defers))
    BY <1>8 DEF StopReplay
  <2>2. next = limit'
    BY <1>2, <2>1, StopsAtLimit
  <2>3. QED BY <1>2, <1>3, <2>1, <2>2, CloseReplayPlaces
<1>9. CASE FailRecord
  <2>1. cpc = "replay" /\ CloseReplay /\ failed'
    BY <1>9 DEF FailRecord, Replayable
  <2>2. QED BY <1>2, <1>3, <2>1, CloseReplayPlaces
<1>10. CASE StageCopy \/ StopStaging
  BY <1>2, <1>3, <1>10, ScanPlaces
<1>11. CASE StageRelease
  BY <1>2, <1>3, <1>11, StageReleasePlaces
<1>12. CASE EndDrain
  <2>1. CASE failed
    BY <1>2, <1>12, <2>1, EndDrainPlaces DEF AInv, Stored, Live
  <2>2. CASE ~failed
    BY <1>2, <1>3, <1>12, <2>2, EndDrainPlaces
  <2>3. QED BY <2>1, <2>2
<1>13. QED
  BY <1>4, <1>5, <1>6, <1>7, <1>8, <1>9, <1>10, <1>11, <1>12 DEF Replay

(* The invariant holds at first, and every step keeps it.                  *)
LEMMA AInvIsInvariant ==
  ASSUME ReplaysInOrder
  PROVE  /\ Init => AInv
         /\ QInv /\ AInv /\ [Next]_vars => AInv'
<1>1. Init => AInv
  <2> SUFFICES ASSUME Init PROVE AInv
    OBVIOUS
  <2>1. /\ ArenaSize \in Nat \ {0} /\ ByteModulus \in Nat \ {0} /\ IndexModulus \in Nat \ {0}
        /\ 0 \in Position /\ 0 \in Index
    BY RingAssumption DEF Position, Index
  <2>2. /\ write = 0 /\ read = 0 /\ next = 0 /\ uploadRead = 0 /\ uploadWrite = 0
        /\ uploadBefore = 0 /\ ppc = "idle" /\ cpc = "idle" /\ cursor = None /\ stagedStart = None
        /\ staged = [i \in Index |-> NotStaged] /\ DOMAIN arena = 0 .. ArenaSize - 1
    BY DEF Init
  <2>3. ASSUME NEW i \in Index PROVE ~IsUpload(i) /\ ~IsStaged(i)
    <3>1. Distance(write, next) = 0 /\ Distance(i, next) \in Nat
      BY <2>1, <2>2, DistanceZero, DistanceIs
    <3>2. ~Waiting(i)
      BY <3>1 DEF Waiting
    <3>3. QED BY <2>2, <3>2 DEF IsUpload, IsStaged
  <2>4. ArenaTyped /\ FieldsFit
    BY <2>1, <2>2, <2>3 DEF ArenaTyped, FieldsFit
  <2>5. CursorPlaced /\ StagedHold
    BY <2>2, <2>3 DEF CursorPlaced, BehindCursor, StagedHold
  <2>6. Chained
    <3>1. Ahead(uploadWrite, uploadRead) <= ArenaSize
      BY <2>1, <2>2, AheadZero
    <3>2. QED BY <2>2, <2>3, <3>1 DEF Chained, Filled, Unread
  <2>7. Reserved /\ ArenaHolds /\ Drained
    BY <2>2, <2>3 DEF Reserved, ArenaHolds, Unread, Drained, Filled
  <2>8. QED BY <2>4, <2>5, <2>6, <2>7 DEF AInv, Placed
<1>2. ASSUME QInv, AInv, [Next]_vars PROVE AInv'
  <2>1. CASE UNCHANGED vars
    BY <1>2, <2>1 DEF vars, shared, producer, ring, drain, AInv, Live, Placed, ArenaTyped,
       FieldsFit, CursorPlaced, BehindCursor, CursorAhead, Chained, Reserved, ReservedAt,
       ArenaHolds, StagedHold, Drained, IsUpload, Unread, PayloadPlace, PlaceOf, Filled, Used,
       Waiting, IsStaged, Slot, Distance, Ahead
  <2>2. CASE Produce
    <3>1. CASE failed
      BY <1>2, <2>2, <3>1, FailedProducePlaces
    <3>2. CASE ~failed
      <4>1. Stored /\ CursorPlaced /\ StagedHold
        BY <1>2, <3>2 DEF AInv, Live, Placed, Stored
      <4>2. QED BY <1>2, <2>2, <3>2, <4>1, ProducePlaces DEF AInv, Live, Placed, Stored
    <3>3. QED BY <3>1, <3>2
  <2>3. CASE Replay \/ FailRecord
    BY <1>2, <2>3, DrainPlaces
  <2>4. CASE DeviceLoss
    BY <1>2, <2>4, DeviceLossPlaces
  <2>5. ~Fence
    BY <1>2 DEF Fence, LoadState, Discard, EndDiscard, QInv, PInv, FenceIsAllowed, ReplaysInOrder
  <2>6. QED BY <1>2, <2>1, <2>2, <2>3, <2>4, <2>5 DEF Next, Failure
<1>3. QED BY <1>1, <1>2

(* Until it is replayed, an upload keeps its bytes, in the arena, on their *)
(* way or staged (stageHeldWgpuUploads, nextWgpuUploadRead, AllocUpload),  *)
(* for every size of the arena and of the byte positions.  The load fence  *)
(* is left out, which breaks it, and so is legacy mode.                    *)
THEOREM UploadsStayIntact ==
  ASSUME ReplaysInOrder
  PROVE  Spec => []QueuedUploadsIntact
<1>1. AInv => QueuedUploadsIntact
  <2> SUFFICES ASSUME AInv, ~failed PROVE QueuedUploadsIntact
    BY DEF QueuedUploadsIntact
  <2>1. Stored /\ StagedHold
    BY DEF AInv, Live, Placed, Stored
  <2>2. ASSUME NEW i \in Index, Waiting(i), Slot(i).op = "upload", ~IsStaged(i)
        PROVE  Bytes(Slot(i)) = Own(i)
    BY <2>1, <2>2, BytesAreOwn DEF Unread, IsUpload
  <2>3. QED BY <2>1, <2>2 DEF QueuedUploadsIntact, StagedHold
<1>2. QED BY <1>1, NeverBoth, QInvIsInvariant, AInvIsInvariant, PTL DEF Spec

(* When every record has been handed back, so has every byte of the arena, *)
(* a failure or not: the watermark skips exactly the padding that the      *)
(* video thread laid out.                                                  *)
THEOREM EmptyRingHasEmptyArena ==
  ASSUME ReplaysInOrder
  PROVE  Spec => []ArenaDrainsEmpty
<1>1. QInv /\ AInv => ArenaDrainsEmpty
  <2> SUFFICES ASSUME QInv, AInv, cpc = "idle", write = read, ppc # "push"
               PROVE  uploadRead = uploadWrite
    BY DEF ArenaDrainsEmpty
  <2>1. RInv /\ next = read
    BY DEF QInv, PInv, RInv, CursorsInOrder
  <2>2. CASE Live
    BY <2>1, <2>2, EmptyIsDrained DEF AInv, Placed, Filled
  <2>3. CASE ~Live
    BY <2>3 DEF AInv, Drained, Filled
  <2>4. QED BY <2>2, <2>3
<1>2. QED BY <1>1, NeverBoth, QInvIsInvariant, AInvIsInvariant, PTL DEF Spec

-----------------------------------------------------------------------------
(* Types.  A slot that is not forgotten is one of those between read and   *)
(* write, and its payload lies in the arena in one piece.                  *)
SlotsTyped ==
  /\ slots \in [0 .. Capacity - 1 -> Record \cup {Forgotten}]
  /\ \A s \in 0 .. Capacity - 1 : slots[s].off + slots[s].len <= ArenaSize
SlotsUsed ==
  \A s \in 0 .. Capacity - 1 : slots[s] # Forgotten =>
    \E k \in 0 .. Distance(write, read) - 1 : s = Advance(read, k) % Capacity

(* The video thread's words, and the place of a payload that waits for its *)
(* record.  A pass has room for what is being recorded.                    *)
ProducerTyped ==
  /\ uploadWrite \in Position /\ uploadBefore \in Position
  /\ ppc \in {"idle", "reserve", "push", "refused"}
  /\ length \in Lengths \cup {0} /\ passRecords \in 0 .. MaxPass - 1
  /\ ppc \in {"reserve", "push"} =>
       length \in Lengths /\ (Batched \/ passRecords < MaxPass - 1)
  /\ ppc = "push" => ((uploadWrite - length) % ArenaSize) + length <= ArenaSize
BytesTyped ==
  /\ uploadRead \in Position
  /\ arena \in [0 .. ArenaSize - 1 -> Index \cup {Free}]

(* The worker's words; the cursor stands somewhere while uploads are       *)
(* staged.                                                                 *)
WorkerTyped ==
  /\ held \in Index \cup {None} /\ stagedStart \in Index \cup {None}
  /\ cursor \in Index \cup {None} /\ deferrals \in 0 .. DeferLimit + 1
  /\ first \in Index /\ copied \in SUBSET (Index \cup {Free})
  /\ cpc \in {"scan", "stage"} => cursor \in Index

(* What is staged is never more than is counted, and there is room for     *)
(* what is about to be staged.                                             *)
StagedTyped ==
  staged \in [Index -> [bytes : SUBSET (Index \cup {Free}), len : Lengths \cup {0}]]
StagedCounted ==
  /\ stagedBytes \in Nat /\ Cardinality(StagedPayload) <= stagedBytes
  /\ stagedBytes <= StageLimit
  /\ cpc = "stage" =>
       /\ Slot(cursor).op = "upload"
       /\ stagedBytes + Slot(cursor).len <= StageLimit

TInv ==
  /\ SlotsTyped /\ SlotsUsed /\ ProducerTyped /\ BytesTyped
  /\ WorkerTyped /\ StagedTyped /\ StagedCounted

(* What a slot holds.                                                      *)
LEMMA SlotTyped ==
  ASSUME SlotsTyped, NEW i \in Index
  PROVE  /\ Slot(i) \in Record \cup {Forgotten}
         /\ Slot(i).off \in Nat /\ Slot(i).len \in Lengths \cup {0}
         /\ Slot(i).len \in 0 .. ArenaSize /\ Slot(i).off + Slot(i).len <= ArenaSize
<1>1. i % Capacity \in 0 .. Capacity - 1
  BY SlotType
<1>2. PICK r : r = Slot(i)
  OBVIOUS
<1>3. r \in Record \cup {Forgotten} /\ r.off + r.len <= ArenaSize
  BY <1>1, <1>2 DEF SlotsTyped, Slot
<1>4. \A n \in Lengths : n \in Nat
  BY UploadsFit
<1>5. ArenaSize \in Nat
  BY RingAssumption
<1>6. r.off \in Nat /\ r.len \in Lengths \cup {0}
  BY <1>3, <1>5 DEF Record, Forgotten
<1>7. QED BY <1>2, <1>3, <1>4, <1>5, <1>6

(* The bytes of a payload.                                                 *)
LEMMA BytesOfSlot ==
  ASSUME SlotsTyped, BytesTyped, NEW i \in Index
  PROVE  Bytes(Slot(i)) \in SUBSET (Index \cup {Free})
<1>1. PICK r : r = Slot(i)
  OBVIOUS
<1>2. r.off \in Nat /\ r.len \in Nat /\ r.off + r.len <= ArenaSize /\ ArenaSize \in Nat
  BY <1>1, SlotTyped, RingAssumption
<1>3. \A b \in r.off .. r.off + r.len - 1 : arena[b] \in Index \cup {Free}
  BY <1>2 DEF BytesTyped
<1>4. QED BY <1>1, <1>3 DEF Bytes

(* A publication fills slots that were free, whatever the cursor points    *)
(* at.                                                                     *)
LEMMA PublishSlots ==
  ASSUME RInv, SlotsTyped, SlotsUsed, NEW records, NEW n \in 1 .. Capacity, Len(records) = n,
         \A j \in 1 .. n : records[j] \in Record /\ records[j].off + records[j].len <= ArenaSize,
         Publish(records)
  PROVE  /\ SlotsTyped' /\ SlotsUsed'
         /\ \A i \in Index : Slot(i) # Forgotten => Slot(i)' = Slot(i)
<1> DEFINE d == Distance(write, read)
           IsNew(s, k) == s = Advance(write, k - 1) % Capacity
<1>1. /\ write \in Index /\ read \in Index /\ read' = read /\ n \in Nat /\ Capacity \in Nat
      /\ 2 * Capacity <= IndexModulus /\ IndexModulus \in Nat
      /\ DOMAIN slots = 0 .. Capacity - 1
      /\ slots' = [s \in DOMAIN slots |->
                     IF \E k \in 1 .. n : IsNew(s, k)
                     THEN records[CHOOSE k \in 1 .. n : IsNew(s, k)] ELSE slots[s]]
  BY RingAssumption DEF RInv, Typed, Publish
<1>2. d \in Nat /\ d + n <= Capacity /\ Distance(write, read)' = d + n
  <2>1. Distance(read, read) <= Distance(write, read)
    BY <1>1, DistanceZero, DistanceIs
  <2>2. Appended(read, d, records, n)
    BY <1>1, <2>1, PublishAppends
  <2>3. d \in Nat
    BY <1>1, DistanceIs
  <2>4. QED BY <1>1, <2>2, <2>3 DEF Appended
<1>3. \A k \in 1 .. n : Advance(write, k - 1) = Advance(read, d + (k - 1))
  <2> SUFFICES ASSUME NEW k \in 1 .. n
               PROVE  Advance(write, k - 1) = Advance(read, d + (k - 1))
    OBVIOUS
  <2>1. write = Advance(read, d)
    BY <1>1, AdvanceByDistance
  <2> HIDE DEF d
  <2>2. /\ d \in 0 .. IndexModulus - 1 /\ k - 1 \in 0 .. IndexModulus - 1
        /\ d + (k - 1) < IndexModulus
    BY <1>1, <1>2
  <2>3. QED BY <1>1, <2>1, <2>2, AdvanceTwice
<1> HIDE DEF d
<1>4. ASSUME NEW s \in 0 .. Capacity - 1, NEW k \in 1 .. n, IsNew(s, k)
      PROVE  /\ slots'[s] \in Record /\ slots'[s].off + slots'[s].len <= ArenaSize
             /\ \E m \in 0 .. (d + n) - 1 : s = Advance(read, m) % Capacity
  <2>1. PICK c \in 1 .. n : slots'[s] = records[c]
    BY <1>1, <1>4
  <2>2. d + (k - 1) \in 0 .. (d + n) - 1
    BY <1>1, <1>2
  <2>3. QED BY <1>3, <1>4, <2>1, <2>2
<1>5. ASSUME NEW s \in 0 .. Capacity - 1, \A k \in 1 .. n : ~IsNew(s, k)
      PROVE  slots'[s] = slots[s]
  BY <1>1, <1>5
<1> HIDE DEF IsNew
<1>6. SlotsTyped'
  <2>1. slots' = [s \in 0 .. Capacity - 1 |-> slots'[s]]
    BY <1>1
  <2>2. ASSUME NEW s \in 0 .. Capacity - 1
        PROVE  /\ slots'[s] \in Record \cup {Forgotten}
               /\ slots'[s].off + slots'[s].len <= ArenaSize
    BY <1>4, <1>5 DEF SlotsTyped
  <2>3. QED BY <2>1, <2>2 DEF SlotsTyped
<1>7. SlotsUsed'
  <2>1. ASSUME NEW s \in 0 .. Capacity - 1, slots'[s] # Forgotten
        PROVE  \E m \in 0 .. (d + n) - 1 : s = Advance(read, m) % Capacity
    <3>1. CASE \E k \in 1 .. n : IsNew(s, k)
      BY <1>4, <3>1
    <3>2. CASE \A k \in 1 .. n : ~IsNew(s, k)
      <4>1. PICK m \in 0 .. d - 1 : s = Advance(read, m) % Capacity
        BY <1>5, <2>1, <3>2 DEF SlotsUsed, d
      <4>2. m \in 0 .. (d + n) - 1
        BY <1>1, <1>2
      <4>3. QED BY <4>1, <4>2
    <3>3. QED BY <3>1, <3>2
  <2>2. QED BY <1>1, <1>2, <2>1 DEF SlotsUsed, Advance
<1>8. ASSUME NEW i \in Index, Slot(i) # Forgotten PROVE Slot(i)' = Slot(i)
  <2> DEFINE s == i % Capacity
  <2>1. s \in 0 .. Capacity - 1 /\ slots[s] # Forgotten
    BY <1>8, SlotType DEF Slot
  <2>2. PICK m \in 0 .. d - 1 : s = Advance(read, m) % Capacity
    BY <2>1 DEF SlotsUsed, d
  <2> HIDE DEF s
  <2>3. ASSUME NEW k \in 1 .. n PROVE ~IsNew(s, k)
    <3>1. /\ m \in 0 .. Capacity /\ d + (k - 1) \in 0 .. Capacity
          /\ m < d + (k - 1) /\ d + (k - 1) < m + Capacity
      BY <1>1, <1>2
    <3>2. Advance(read, m) % Capacity # Advance(read, d + (k - 1)) % Capacity
      BY <1>1, <3>1, SlotsDiffer
    <3>3. QED BY <1>3, <2>2, <3>2 DEF IsNew
  <2>4. slots'[s] = slots[s]
    BY <1>5, <2>1, <2>3
  <2>5. QED BY <2>4 DEF s, Slot
<1>9. QED BY <1>6, <1>7, <1>8

(* Handing records back forgets their slots only.                          *)
LEMMA HandBackSlots ==
  ASSUME RInv, SlotsTyped, SlotsUsed, PublishRead(next), UNCHANGED <<write, next>>
  PROVE  SlotsTyped' /\ SlotsUsed'
<1> DEFINE d == Distance(write, read)
           e == Distance(next, read)
           IsOld(s) == \E k \in 0 .. e - 1 : s = Advance(read, k) % Capacity
<1>1. /\ write \in Index /\ read \in Index /\ next \in Index /\ read' = next
      /\ IndexModulus \in Nat /\ Capacity \in Nat /\ 2 * Capacity <= IndexModulus
      /\ DOMAIN slots = 0 .. Capacity - 1 /\ d <= Capacity /\ e <= d
      /\ slots' = [s \in DOMAIN slots |-> IF IsOld(s) THEN Forgotten ELSE slots[s]]
  BY RingAssumption DEF RInv, Typed, CursorsInOrder, PublishRead
<1>2. d \in Nat /\ e \in Nat /\ d = e + Distance(write, next) /\ Distance(write, next) \in Nat
  BY <1>1, DistanceIs, DistancesAdd
<1>3. next = Advance(read, e)
  BY <1>1, AdvanceByDistance
<1>4. Distance(write, read)' = Distance(write, next)
  BY <1>1 DEF Distance
<1>5. \A s \in 0 .. Capacity - 1 : slots'[s] = Forgotten \/ (slots'[s] = slots[s] /\ ~IsOld(s))
  BY <1>1
<1>6. SlotsTyped'
  <2>1. slots' = [s \in 0 .. Capacity - 1 |-> slots'[s]]
    BY <1>1
  <2>2. Forgotten.off = 0 /\ Forgotten.len = 0 /\ 0 + 0 <= ArenaSize
    BY RingAssumption DEF Forgotten
  <2> HIDE DEF IsOld
  <2>3. ASSUME NEW s \in 0 .. Capacity - 1
        PROVE  /\ slots'[s] \in Record \cup {Forgotten}
               /\ slots'[s].off + slots'[s].len <= ArenaSize
    BY <1>5, <2>2 DEF SlotsTyped
  <2>4. QED BY <2>1, <2>3 DEF SlotsTyped
<1>7. SlotsUsed'
  <2>1. ASSUME NEW s \in 0 .. Capacity - 1, slots'[s] # Forgotten
        PROVE  \E k \in 0 .. Distance(write, next) - 1 : s = Advance(next, k) % Capacity
    <3>1. slots[s] # Forgotten /\ ~IsOld(s)
      BY <1>5, <2>1
    <3>2. PICK k \in 0 .. d - 1 : s = Advance(read, k) % Capacity
      BY <3>1 DEF SlotsUsed
    <3> HIDE DEF d, e
    <3>3. k >= e
      BY <1>2, <3>1, <3>2
    <3>4. k - e \in 0 .. Distance(write, next) - 1 /\ k - e \in 0 .. IndexModulus - 1
          /\ e \in 0 .. IndexModulus - 1 /\ e + (k - e) = k /\ k < IndexModulus
      BY <1>1, <1>2, <3>3
    <3>5. Advance(next, k - e) = Advance(read, k)
      BY <1>1, <1>3, <3>4, AdvanceTwice
    <3>6. QED BY <3>2, <3>4, <3>5
  <2>2. QED BY <1>1, <1>4, <2>1 DEF SlotsUsed, Advance
<1>8. QED BY <1>6, <1>7

(* The bytes that are staged, one record at a time.                        *)
LEMMA StagedIsFinite ==
  ASSUME NEW f
  PROVE  IsFiniteSet({b \in Index \X (1 .. ArenaSize) : b[2] <= f[b[1]].len})
<1>1. IsFiniteSet(Index) /\ IsFiniteSet(1 .. ArenaSize)
  BY FS_Interval, RingAssumption DEF Index
<1>2. IsFiniteSet(Index \X (1 .. ArenaSize))
  BY <1>1, FS_Product
<1>3. QED BY <1>2, FS_Subset

(* The bytes of one record.                                                *)
LEMMA BytesOfOne ==
  ASSUME NEW i \in Index, NEW n \in 0 .. ArenaSize
  PROVE  IsFiniteSet({i} \X (1 .. n)) /\ Cardinality({i} \X (1 .. n)) = n
<1>1. n \in Nat /\ n \in Int /\ 1 \in Int
  BY RingAssumption
<1>2. IsFiniteSet(1 .. n) /\ Cardinality(1 .. n) = IF 1 > n THEN 0 ELSE n - 1 + 1
  BY ONLY <1>1, FS_Interval
<1>3. IsFiniteSet({i}) /\ Cardinality({i}) = 1
  BY FS_Singleton
<1>4. Cardinality(1 .. n) = n
  BY <1>1, <1>2
<1>5. IsFiniteSet({i} \X (1 .. n)) /\ Cardinality({i} \X (1 .. n)) = 1 * n
  BY <1>2, <1>3, <1>4, FS_Product
<1>6. QED BY <1>1, <1>5

(* A record is staged, or its bytes are handed over.                       *)
LEMMA StagedMoves ==
  ASSUME StagedTyped, NEW i \in Index, NEW e, e.len \in 0 .. ArenaSize,
         staged' = [staged EXCEPT ![i] = e]
  PROVE  /\ staged[i].len \in 0 .. ArenaSize
         /\ Cardinality(StagedPayload)' \in Nat /\ Cardinality(StagedPayload) \in Nat
         /\ Cardinality(StagedPayload)' = Cardinality(StagedPayload) - staged[i].len + e.len
         /\ staged[i].len <= Cardinality(StagedPayload)
<1> DEFINE Rest == {b \in StagedPayload : b[1] # i}
           Row(n) == {i} \X (1 .. n)
<1>1. ArenaSize \in Nat /\ staged[i].len \in 0 .. ArenaSize
  <2>1. staged[i] \in [bytes : SUBSET (Index \cup {Free}), len : Lengths \cup {0}]
    BY DEF StagedTyped
  <2>2. staged[i].len \in Lengths \cup {0}
    BY <2>1
  <2>3. QED BY <2>2, RingAssumption, UploadsFit
<1>2. /\ staged'[i] = e
      /\ \A j \in Index : j # i => staged'[j] = staged[j]
  BY DEF StagedTyped
<1>3. StagedPayload = Rest \cup Row(staged[i].len)
  BY <1>1 DEF StagedPayload
<1>4. StagedPayload' = Rest \cup Row(e.len)
  <2>1. ASSUME NEW b \in Index \X (1 .. ArenaSize), b[1] # i
        PROVE  b \in StagedPayload' <=> b \in StagedPayload
    BY <1>2, <2>1 DEF StagedPayload
  <2>2. ASSUME NEW b \in Index \X (1 .. ArenaSize), b[1] = i
        PROVE  b \in StagedPayload' <=> b \in Row(e.len)
    BY <1>1, <1>2, <2>2 DEF StagedPayload
  <2>3. Row(e.len) \subseteq Index \X (1 .. ArenaSize)
    BY <1>1
  <2>4. StagedPayload' \subseteq Index \X (1 .. ArenaSize)
    BY DEF StagedPayload
  <2>5. Rest \subseteq Index \X (1 .. ArenaSize)
    BY DEF StagedPayload
  <2> HIDE DEF Row
  <2>6. ASSUME NEW b \in Row(e.len) PROVE b[1] = i
    BY <2>6 DEF Row
  <2>7. QED BY <2>1, <2>2, <2>3, <2>4, <2>5, <2>6
<1>5. IsFiniteSet(Rest)
  <2>1. IsFiniteSet(StagedPayload)
    BY StagedIsFinite DEF StagedPayload
  <2>2. QED BY <2>1, FS_Subset
<1>6. ASSUME NEW n \in 0 .. ArenaSize
      PROVE  /\ Cardinality(Rest \cup Row(n)) = Cardinality(Rest) + n
             /\ Cardinality(Rest) \in Nat
  <2>1. Rest \cap Row(n) = {}
    OBVIOUS
  <2>2. IsFiniteSet(Row(n)) /\ Cardinality(Row(n)) = n
    BY BytesOfOne
  <2> HIDE DEF Rest, Row
  <2>3. Cardinality(Rest \cap Row(n)) = 0
    BY <2>1, FS_EmptySet
  <2>4. Cardinality(Rest) \in Nat
    BY <1>5, FS_CardinalityType
  <2>5. Cardinality(Rest \cup Row(n)) =
          Cardinality(Rest) + Cardinality(Row(n)) - Cardinality(Rest \cap Row(n))
    BY <1>5, <2>2, FS_Union
  <2>6. QED BY <2>2, <2>3, <2>4, <2>5
<1> HIDE DEF Rest, Row
<1>7. QED BY <1>1, <1>3, <1>4, <1>6

(* A reservation leaves the payload in one piece right before uploadWrite. *)
LEMMA ReservedFits ==
  ASSUME uploadWrite \in Position, NEW n \in Lengths, n = length,
         uploadWrite' = (uploadWrite + Padding(n) + n) % ByteModulus
  PROVE  uploadWrite' \in Position /\ ((uploadWrite' - n) % ArenaSize) + n <= ArenaSize
<1> DEFINE pad == Padding(n)
           off == (uploadWrite + pad) % ArenaSize
<1>1. /\ uploadWrite \in Nat /\ n \in Nat \ {0} /\ n <= ArenaSize
      /\ ArenaSize \in Nat \ {0} /\ ByteModulus \in Nat /\ 2 * ArenaSize <= ByteModulus
  BY UploadsFit, RingAssumption DEF Position
<1>2. pad \in 0 .. n - 1 /\ off + n <= ArenaSize
  BY ReservedPlace
<1> HIDE DEF pad
<1>3. uploadWrite + pad + n = uploadWrite + (pad + n) /\ pad + n \in 0 .. ByteModulus - 1
  BY <1>1, <1>2
<1>4. PICK m \in 0 .. ByteModulus - 1 : m = pad + n
  BY <1>3
<1>5. /\ (uploadWrite + m) % ByteModulus =
           IF uploadWrite + m < ByteModulus THEN uploadWrite + m ELSE uploadWrite + m - ByteModulus
      /\ (uploadWrite + m) % ByteModulus \in Position
  BY PositionIs
<1>6. uploadWrite' = (uploadWrite + m) % ByteModulus
  BY <1>3, <1>4 DEF pad
<1>7. uploadWrite' - n = uploadWrite + pad \/ uploadWrite' - n = (uploadWrite + pad) - ByteModulus
  BY <1>1, <1>2, <1>4, <1>5, <1>6
<1>8. (uploadWrite' - n) % ArenaSize = off
  <2>1. PICK x \in Int : x = uploadWrite' - n
    BY <1>1, <1>5, <1>6 DEF Position
  <2>2. PICK y \in Int : y = uploadWrite + pad
    BY <1>1, <1>2
  <2>3. x = y \/ x = y - ByteModulus
    BY <1>7, <2>1, <2>2
  <2>4. (y - ByteModulus) % ArenaSize = y % ArenaSize
    BY PlaceWraps
  <2>5. x % ArenaSize = y % ArenaSize
    BY <2>3, <2>4
  <2>6. QED BY <2>1, <2>2, <2>5
<1>9. QED BY <1>2, <1>5, <1>6, <1>8

(* The video thread's steps leave what the worker keeps.                   *)
LEMMA WorkerUntouched ==
  ASSUME WorkerTyped, StagedTyped, StagedCounted, UNCHANGED <<ring, drain>>,
         \A i \in Index : Slot(i) # Forgotten => Slot(i)' = Slot(i)
  PROVE  WorkerTyped' /\ StagedTyped' /\ StagedCounted'
<1>1. /\ UNCHANGED <<held, staged, stagedBytes, stagedStart, cursor, deferrals>>
      /\ UNCHANGED <<cpc, first, copied>>
  BY DEF ring, drain
<1>2. StagedPayload' = StagedPayload
  BY <1>1 DEF StagedPayload
<1>3. ASSUME cpc = "stage" PROVE Slot(cursor)' = Slot(cursor)
  <2>1. cursor \in Index /\ Slot(cursor).op = "upload"
    BY <1>3 DEF WorkerTyped, StagedCounted
  <2>2. Slot(cursor) # Forgotten
    BY <2>1 DEF Forgotten
  <2>3. Slot(cursor)' = Slot(cursor)
    <3>1. PICK c \in Index : c = cursor
      BY <2>1
    <3>2. Slot(c)' = Slot(c)
      BY <2>2, <3>1
    <3>3. cursor' = c
      BY <1>1, <3>1
    <3>4. QED BY <3>1, <3>2, <3>3 DEF Slot
  <2>4. QED BY <2>3
<1>4. WorkerTyped' /\ StagedTyped'
  BY <1>1 DEF WorkerTyped, StagedTyped
<1>5. StagedCounted'
  BY <1>1, <1>2, <1>3 DEF StagedCounted
<1>6. QED BY <1>4, <1>5

(* A published record has its type.                                        *)
LEMMA MarkTyped ==
  ASSUME write \in Index, NEW k \in 0 .. Capacity - 1, NEW op \in Op
  PROVE  Mark(op, k) \in Record /\ Mark(op, k).off + Mark(op, k).len <= ArenaSize
<1>1. Advance(write, k) \in Index
  BY AdvanceIs, RingAssumption DEF Index
<1>2. 0 \in 0 .. ArenaSize - 1 /\ 0 + 0 <= ArenaSize
  BY RingAssumption
<1>3. QED BY <1>1, <1>2 DEF Mark, Record

(* One record is published.                                                *)
LEMMA OneTyped ==
  ASSUME RInv, SlotsTyped, SlotsUsed, NEW r \in Record, r.off + r.len <= ArenaSize, Publish(<<r>>)
  PROVE  /\ SlotsTyped' /\ SlotsUsed'
         /\ \A i \in Index : Slot(i) # Forgotten => Slot(i)' = Slot(i)
<1>1. PICK records : records = <<r>>
  OBVIOUS
<1>2. Len(records) = 1 /\ \A j \in 1 .. 1 : records[j] = r
  BY <1>1
<1>3. 1 \in 1 .. Capacity
  BY RingAssumption
<1>4. Publish(records)
  BY <1>1
<1>5. QED BY <1>2, <1>3, <1>4, PublishSlots

(* The producer's steps keep the types.                                    *)
LEMMA ProduceTypes ==
  ASSUME PInv, TInv, Produce
  PROVE  TInv'
<1>1. /\ RInv /\ SlotsTyped /\ SlotsUsed /\ ProducerTyped /\ BytesTyped
      /\ WorkerTyped /\ StagedTyped /\ StagedCounted /\ write \in Index
  BY DEF PInv, RInv, Typed, TInv
<1>2. MaxPass \in Nat /\ 2 <= MaxPass /\ MaxPass <= Capacity /\ Capacity \in Nat
      /\ \A n \in Lengths : n \in Nat \ {0} /\ n <= ArenaSize
  BY PassesFit, RingAssumption, UploadsFit
<1>3. ASSUME UNCHANGED <<write, read, slots, ring, drain>>
      PROVE  SlotsTyped' /\ SlotsUsed' /\ WorkerTyped' /\ StagedTyped' /\ StagedCounted'
  <2>1. \A i \in Index : Slot(i)' = Slot(i)
    BY <1>3 DEF Slot
  <2>2. SlotsTyped' /\ SlotsUsed'
    BY <1>1, <1>3 DEF SlotsTyped, SlotsUsed, Distance
  <2>3. QED BY <1>1, <1>3, <2>1, <2>2, WorkerUntouched
<1>4. ASSUME SlotsTyped', SlotsUsed', ProducerTyped', BytesTyped', UNCHANGED <<ring, drain>>,
             \A i \in Index : Slot(i) # Forgotten => Slot(i)' = Slot(i)
      PROVE  TInv'
  BY <1>1, <1>4, WorkerUntouched DEF TInv
<1>5. CASE PushCommand
  <2>1. Mark("command", 0) \in Record
        /\ Mark("command", 0).off + Mark("command", 0).len <= ArenaSize
    BY <1>1, <1>2, MarkTyped DEF Op
  <2>2. /\ SlotsTyped' /\ SlotsUsed'
        /\ \A i \in Index : Slot(i) # Forgotten => Slot(i)' = Slot(i)
    BY <1>1, <1>5, <2>1, OneTyped DEF PushCommand
  <2>3. ProducerTyped'
    BY <1>1, <1>5 DEF PushCommand, Publish, producer, ProducerTyped, Batched
  <2>4. BytesTyped' /\ UNCHANGED <<ring, drain>>
    BY <1>1, <1>5 DEF PushCommand, Publish, BytesTyped
  <2>5. QED BY <1>4, <2>2, <2>3, <2>4
<1>6. CASE StagePassRecord
  <2>1. ProducerTyped' /\ BytesTyped'
    BY <1>1, <1>2, <1>6 DEF StagePassRecord, shared, ProducerTyped, BytesTyped, Batched
  <2>2. UNCHANGED <<write, read, slots, ring, drain>>
    BY <1>6 DEF StagePassRecord, shared
  <2>3. QED BY <1>3, <2>1, <2>2 DEF TInv
<1>7. CASE AbortPass
  <2>1. ProducerTyped' /\ BytesTyped'
    BY <1>1, <1>2, <1>7 DEF AbortPass, shared, ProducerTyped, BytesTyped, Batched
  <2>2. UNCHANGED <<write, read, slots, ring, drain>>
    BY <1>7 DEF AbortPass, shared
  <2>3. QED BY <1>3, <2>1, <2>2 DEF TInv
<1>8. CASE PushBatch
  <2> DEFINE n == passRecords + 1
  <2>1. n \in 1 .. Capacity /\ n \in Nat /\ \A k \in 1 .. n : k - 1 \in 0 .. Capacity - 1
    BY <1>1, <1>2 DEF ProducerTyped
  <2>2. PICK records : records = [k \in 1 .. n |-> Mark(PassOp(k - 1), k - 1)]
    OBVIOUS
  <2>3. Publish(records) /\ Batched /\ passRecords' = 0
        /\ UNCHANGED <<uploadWrite, uploadBefore, ppc, length>>
    BY <1>8, <2>2 DEF PushBatch
  <2> HIDE DEF n
  <2>4. Len(records) = n /\ \A k \in 1 .. n : records[k] = Mark(PassOp(k - 1), k - 1)
    BY <2>1, <2>2
  <2>5. \A k \in 1 .. n : records[k] \in Record /\ records[k].off + records[k].len <= ArenaSize
    <3> SUFFICES ASSUME NEW k \in 1 .. n
                 PROVE  records[k] \in Record /\ records[k].off + records[k].len <= ArenaSize
      OBVIOUS
    <3>1. PassOp(k - 1) \in Op
      BY DEF PassOp, Op
    <3>2. QED BY <1>1, <2>1, <2>4, <3>1, MarkTyped
  <2>6. /\ SlotsTyped' /\ SlotsUsed'
        /\ \A i \in Index : Slot(i) # Forgotten => Slot(i)' = Slot(i)
    BY <1>1, <2>1, <2>3, <2>4, <2>5, PublishSlots
  <2>7. ProducerTyped'
    BY <1>1, <1>2, <2>3 DEF Publish, ProducerTyped, Batched
  <2>8. BytesTyped' /\ UNCHANGED <<ring, drain>>
    BY <1>1, <2>3 DEF Publish, BytesTyped
  <2>9. QED BY <1>4, <2>6, <2>7, <2>8
<1>9. CASE PushPassRecord
  <2>1. PICK op \in {"begin", "command", "end"} :
          /\ op = "begin" <=> passRecords = 0
          /\ op = "command" => passRecords < MaxPass - 1
          /\ Publish(<<Mark(op, 0)>>)
          /\ passRecords' = IF op = "end" THEN 0 ELSE passRecords + 1
    BY <1>9 DEF PushPassRecord
  <2>2. ppc = "idle" /\ UNCHANGED <<uploadWrite, uploadBefore, ppc, length>>
    BY <1>9 DEF PushPassRecord
  <2>3. Mark(op, 0) \in Record /\ Mark(op, 0).off + Mark(op, 0).len <= ArenaSize
    BY <1>1, <1>2, MarkTyped DEF Op
  <2>4. /\ SlotsTyped' /\ SlotsUsed'
        /\ \A i \in Index : Slot(i) # Forgotten => Slot(i)' = Slot(i)
    BY <1>1, <2>1, <2>3, OneTyped
  <2>5. passRecords' \in 0 .. MaxPass - 1
    BY <1>1, <1>2, <2>1 DEF ProducerTyped
  <2>6. ProducerTyped'
    BY <1>1, <2>2, <2>5 DEF ProducerTyped
  <2>7. BytesTyped' /\ UNCHANGED <<ring, drain>>
    BY <1>1, <2>1 DEF Publish, BytesTyped
  <2>8. QED BY <1>4, <2>4, <2>6, <2>7
<1>10. ASSUME NEW n \in Lengths, IssueUpload(n) PROVE TInv'
  <2>1. /\ ppc' = "reserve" /\ length' = n /\ (Batched \/ passRecords < MaxPass - 1)
        /\ UNCHANGED <<setup, shared, ring, drain, uploadWrite, uploadBefore, passRecords>>
    BY <1>10 DEF IssueUpload
  <2>2. ProducerTyped' /\ BytesTyped'
    BY <1>1, <2>1 DEF shared, ProducerTyped, BytesTyped, Batched
  <2>3. UNCHANGED <<write, read, slots, ring, drain>>
    BY <2>1 DEF shared
  <2>4. QED BY <1>3, <2>2, <2>3 DEF TInv
<1>11. CASE ReserveUpload
  <2>1. /\ ppc = "reserve" /\ ppc' = "push" /\ uploadBefore' = uploadWrite
        /\ uploadWrite' = (uploadWrite + Padding(length) + length) % ByteModulus
        /\ UNCHANGED <<setup, write, read, uploadRead, failed, slots, ring, drain, length, passRecords>>
        /\ \E off : arena' = [b \in DOMAIN arena |->
                                IF b \in off .. off + length - 1 THEN write ELSE arena[b]]
    BY <1>11 DEF ReserveUpload
  <2>2. length \in Lengths /\ uploadWrite \in Position
    BY <1>1, <2>1 DEF ProducerTyped
  <2>3. uploadWrite' \in Position /\ ((uploadWrite' - length) % ArenaSize) + length <= ArenaSize
    BY <2>1, <2>2, ReservedFits
  <2>4. ProducerTyped'
    BY <1>1, <2>1, <2>2, <2>3 DEF ProducerTyped, Batched
  <2>5. BytesTyped'
    BY <1>1, <2>1 DEF BytesTyped
  <2>6. QED BY <1>3, <2>1, <2>4, <2>5 DEF TInv
<1>12. CASE PushUpload
  <2> DEFINE off == (uploadWrite - length) % ArenaSize
  <2>1. PICK r : r = [op |-> "upload", at |-> write, len |-> length, off |-> off]
    OBVIOUS
  <2>2. /\ ppc = "push" /\ Publish(<<r>>) /\ UNCHANGED uploadWrite
        /\ passRecords' = IF ~Batched /\ passRecords > 0 THEN passRecords + 1 ELSE passRecords
        /\ ppc' = "idle" /\ length' = 0 /\ uploadBefore' = 0
    BY <1>12, <2>1 DEF PushUpload
  <2>3. length \in Lengths /\ off + length <= ArenaSize
    BY <1>1, <2>2 DEF ProducerTyped
  <2>4. off \in 0 .. ArenaSize - 1
    <3>1. uploadWrite - length \in Int /\ ArenaSize \in Nat \ {0}
      BY <1>1, <1>2, <2>3, RingAssumption DEF ProducerTyped, Position
    <3>2. QED BY <3>1, RemainderIn
  <2> HIDE DEF off
  <2>5. r \in Record /\ r.off + r.len <= ArenaSize
    BY <1>1, <2>1, <2>3, <2>4 DEF Record, Op
  <2>6. /\ SlotsTyped' /\ SlotsUsed'
        /\ \A i \in Index : Slot(i) # Forgotten => Slot(i)' = Slot(i)
    BY <1>1, <2>2, <2>5, OneTyped
  <2>7. passRecords' \in 0 .. MaxPass - 1 /\ 0 \in Position
    <3>1. ByteModulus \in Nat \ {0}
      BY RingAssumption
    <3>2. QED BY <1>1, <1>2, <2>2, <3>1 DEF ProducerTyped, Position
  <2>8. ProducerTyped'
    BY <1>1, <2>2, <2>7 DEF ProducerTyped
  <2>9. BytesTyped' /\ UNCHANGED <<ring, drain>>
    BY <1>1, <2>2 DEF Publish, BytesTyped
  <2>10. QED BY <1>4, <2>6, <2>8, <2>9
<1>13. CASE Refuse
  <2>1. 0 \in Position /\ 0 \in 0 .. MaxPass - 1
    BY <1>2, RingAssumption DEF Position
  <2>2. ProducerTyped'
    BY <1>1, <1>13, <2>1 DEF Refuse, ProducerTyped
  <2>3. BytesTyped' /\ UNCHANGED <<write, read, slots, ring, drain>>
    BY <1>1, <1>13 DEF Refuse, shared, BytesTyped
  <2>4. QED BY <1>3, <2>2, <2>3 DEF TInv
<1>14. QED BY <1>5, <1>6, <1>7, <1>8, <1>9, <1>10, <1>11, <1>12, <1>13 DEF Produce

(* The worker's steps.  What a step does to the bytes, to what is staged,  *)
(* and to the rest is shown apart.                                         *)
LEMMA ReleaseTypes ==
  ASSUME BytesTyped, SlotsTyped, NEW i \in Index, Release(Slot(i))
  PROVE  BytesTyped'
<1>1. PICK r : r = Slot(i)
  OBVIOUS
<1>2. r.off \in Nat /\ r.len \in Nat /\ ArenaSize \in Nat \ {0} /\ ByteModulus \in Nat \ {0}
      /\ uploadRead \in Nat
  BY <1>1, SlotTyped, RingAssumption DEF BytesTyped, Position
<1>3. uploadRead' = (uploadRead + ((r.off - uploadRead) % ArenaSize) + r.len) % ByteModulus
  BY <1>1 DEF Release, NextUploadRead
<1>4. (r.off - uploadRead) % ArenaSize \in 0 .. ArenaSize - 1
  <2>1. r.off - uploadRead \in Int
    BY <1>2
  <2>2. QED BY <1>2, <2>1, RemainderIn
<1>5. uploadRead' \in Position
  <2>1. uploadRead + ((r.off - uploadRead) % ArenaSize) + r.len \in Int
    BY <1>2, <1>4
  <2>2. uploadRead' \in 0 .. ByteModulus - 1
    BY <1>2, <1>3, <2>1, RemainderIn
  <2>3. QED BY <2>2 DEF Position
<1>6. \E back : arena' = [b \in DOMAIN arena |-> IF b \in back THEN Free ELSE arena[b]]
  <2> DEFINE back == {b \in DOMAIN arena :
                        \E k \in 0 .. Ahead(NextUploadRead(Slot(i)), uploadRead) - 1 :
                          b = (uploadRead + k) % ArenaSize}
  <2>1. arena' = [b \in DOMAIN arena |-> IF b \in back THEN Free ELSE arena[b]]
    BY DEF Release
  <2>2. QED BY <2>1
<1>7. QED BY <1>5, <1>6 DEF BytesTyped

(* A staged payload is taken.                                              *)
LEMMA UnstageTypes ==
  ASSUME StagedTyped, StagedCounted, NEW i \in Index, Unstage(i), cpc' # "stage"
  PROVE  StagedTyped' /\ StagedCounted'
<1>1. /\ staged' = [staged EXCEPT ![i] = NotStaged]
      /\ stagedBytes' = stagedBytes - staged[i].len
      /\ NotStaged.len = 0 /\ 0 \in 0 .. ArenaSize
      /\ NotStaged \in [bytes : SUBSET (Index \cup {Free}), len : Lengths \cup {0}]
  BY RingAssumption DEF Unstage, NotStaged
<1>2. /\ staged[i].len \in 0 .. ArenaSize
      /\ Cardinality(StagedPayload)' = Cardinality(StagedPayload) - staged[i].len + 0
      /\ Cardinality(StagedPayload)' \in Nat /\ Cardinality(StagedPayload) \in Nat
  BY <1>1, StagedMoves
<1>3. StagedTyped'
  BY <1>1 DEF StagedTyped
<1>4. stagedBytes \in Nat /\ stagedBytes <= ArenaSize /\ Cardinality(StagedPayload) <= stagedBytes
      /\ ArenaSize \in Nat
  BY RingAssumption DEF StagedCounted, StageLimit
<1>5. stagedBytes' \in Nat /\ Cardinality(StagedPayload)' <= stagedBytes' /\ stagedBytes' <= ArenaSize
  BY <1>1, <1>2, <1>4
<1>6. QED BY <1>3, <1>5 DEF StagedCounted, StageLimit

(* Nothing is staged or taken.                                             *)
LEMMA StagedSame ==
  ASSUME StagedTyped, StagedCounted, UNCHANGED <<staged, stagedBytes>>, cpc' # "stage"
  PROVE  StagedTyped' /\ StagedCounted'
<1>1. StagedPayload' = StagedPayload
  BY DEF StagedPayload
<1>2. QED BY <1>1 DEF StagedTyped, StagedCounted, StageLimit

(* The producer and the slots stay.                                        *)
LEMMA RestSame ==
  ASSUME ProducerTyped, SlotsTyped, SlotsUsed, UNCHANGED <<setup, producer, write, read, slots>>
  PROVE  ProducerTyped' /\ SlotsTyped' /\ SlotsUsed'
<1>1. ProducerTyped'
  BY DEF producer, ProducerTyped, Batched
<1>2. SlotsTyped' /\ SlotsUsed'
  BY DEF SlotsTyped, SlotsUsed, Distance
<1>3. QED BY <1>1, <1>2

(* The record the worker stops at.                                         *)
LEMMA NextUploadTyped ==
  ASSUME cursor \in Index, seen \in Index
  PROVE  NextUpload \in Index /\ (NextUpload # seen => Slot(NextUpload).op = "upload")
<1> DEFINE D == Distance(seen, cursor)
           S == {k \in 0 .. D : k = D \/ OpAt(cursor, k) = "upload"}
           m == Min(S)
<1>1. D \in 0 .. IndexModulus - 1 /\ IndexModulus \in Nat
  BY DistanceIs, RingAssumption
<1>2. NextUpload = Advance(cursor, m)
  BY DEF NextUpload
<1>3. m \in 0 .. D /\ (m = D \/ OpAt(cursor, m) = "upload")
  <2>1. S \in SUBSET Nat /\ S # {}
    BY <1>1
  <2>2. m \in S
    BY <2>1, MinIsLeast
  <2>3. QED BY <2>2
<1> HIDE DEF m
<1>4. m \in 0 .. IndexModulus - 1
  BY <1>1, <1>3
<1>5. NextUpload \in Index
  BY <1>2, <1>4, AdvanceIs
<1>6. ASSUME NextUpload # seen PROVE Slot(NextUpload).op = "upload"
  <2>1. m # D
    BY <1>2, <1>6, AdvanceByDistance
  <2>2. QED BY <1>2, <1>3, <2>1 DEF OpAt
<1>7. QED BY <1>5, <1>6

(* The end of the replay loop.                                             *)
LEMMA CloseTypes ==
  ASSUME PInv, TInv, CloseReplay, deferrals' \in 0 .. DeferLimit + 1
  PROVE  TInv'
<1>1. /\ ProducerTyped /\ SlotsTyped /\ SlotsUsed /\ BytesTyped /\ WorkerTyped /\ StagedTyped
      /\ StagedCounted /\ next \in Index
  BY DEF TInv, PInv, RInv, Typed
<1>2. /\ UNCHANGED <<setup, write, read, uploadRead, slots, arena, producer, staged, stagedBytes>>
      /\ UNCHANGED <<first, copied>>
      /\ held' = next \/ held' = held
      /\ StartStaging(next) \/ (cpc' = "publish" /\ UNCHANGED <<stagedStart, cursor>>)
  BY DEF CloseReplay
<1>3. /\ cpc' # "stage" /\ cpc' \in {"scan", "publish"}
      /\ cursor' \in Index \cup {None} /\ stagedStart' \in Index \cup {None}
      /\ cpc' = "scan" => cursor' \in Index
  BY <1>1, <1>2 DEF StartStaging, RebasedCursor, WorkerTyped
<1>4. ProducerTyped' /\ SlotsTyped' /\ SlotsUsed'
  BY <1>1, <1>2, RestSame
<1>5. StagedTyped' /\ StagedCounted'
  BY <1>1, <1>2, <1>3, StagedSame
<1>6. BytesTyped'
  BY <1>1, <1>2 DEF BytesTyped
<1>7. WorkerTyped'
  BY <1>1, <1>2, <1>3 DEF WorkerTyped
<1>8. QED BY <1>4, <1>5, <1>6, <1>7 DEF TInv

(* The replaying worker's steps keep the types.                            *)
LEMMA ReplayTypes ==
  ASSUME PInv, TInv, PInv', Replay
  PROVE  TInv'
<1>1. /\ ProducerTyped /\ SlotsTyped /\ SlotsUsed /\ BytesTyped /\ WorkerTyped /\ StagedTyped
      /\ StagedCounted /\ RInv /\ next \in Index /\ seen \in Index /\ read \in Index
      /\ limit' \in Index
  BY DEF TInv, PInv, RInv, Typed
<1>2. DeferLimit \in Nat /\ deferrals \in 0 .. DeferLimit + 1 /\ 0 \in Index
  BY <1>1, RingAssumption DEF WorkerTyped, Index
<1>3. DeferralsAfter \in 0 .. DeferLimit + 1
  <2>1. deferrals + 1 \in Nat /\ DeferLimit + 1 \in Nat
    BY <1>2
  <2>2. Lesser(deferrals + 1, DeferLimit + 1) \in 0 .. DeferLimit + 1
    BY <1>2, <2>1 DEF Lesser
  <2>3. QED BY <1>2, <2>2 DEF DeferralsAfter
<1>4. ASSUME ProducerTyped', SlotsTyped', SlotsUsed', BytesTyped', WorkerTyped', StagedTyped',
             StagedCounted'
      PROVE  TInv'
  BY <1>4 DEF TInv
<1>5. CASE StartDrain
  <2>1. /\ UNCHANGED <<setup, write, read, slots, uploadRead, arena, producer, staged, stagedBytes,
                       stagedStart, cursor, deferrals, copied>>
        /\ first' \in {read, 0} /\ held' \in {held, limit'} /\ cpc' \in {"discard", "replay"}
    BY <1>5 DEF StartDrain, BeginReplay, shared
  <2>2. ProducerTyped' /\ SlotsTyped' /\ SlotsUsed' /\ StagedTyped' /\ StagedCounted'
    BY <1>1, <2>1, RestSame, StagedSame
  <2>3. BytesTyped' /\ WorkerTyped'
    BY <1>1, <1>2, <2>1 DEF BytesTyped, WorkerTyped
  <2>4. QED BY <1>4, <2>2, <2>3
<1>6. CASE ReplayRecord
  <2>1. /\ UNCHANGED <<setup, write, read, slots, uploadRead, arena, producer, held,
                       stagedStart, cursor, cpc, first, copied>>
        /\ deferrals' = DeferralsAfter /\ cpc = "replay"
        /\ Unstage(next) \/ UNCHANGED <<staged, stagedBytes>>
    BY <1>6 DEF ReplayRecord, Replayable, shared
  <2>2. ProducerTyped' /\ SlotsTyped' /\ SlotsUsed'
    BY <1>1, <2>1, RestSame
  <2>3. StagedTyped' /\ StagedCounted'
    <3>1. cpc' # "stage"
      BY <2>1
    <3>2. QED BY <1>1, <2>1, <3>1, StagedSame, UnstageTypes
  <2>4. BytesTyped' /\ WorkerTyped'
    BY <1>1, <1>3, <2>1 DEF BytesTyped, WorkerTyped
  <2>5. QED BY <1>4, <2>2, <2>3, <2>4
<1>7. CASE CopyUpload
  <2>1. /\ UNCHANGED <<setup, write, read, slots, uploadRead, arena, producer, held, staged,
                       stagedBytes, stagedStart, cursor, deferrals, first>>
        /\ cpc' = "release" /\ copied' = Bytes(Slot(next))
    BY <1>7 DEF CopyUpload, shared, ring
  <2>2. ProducerTyped' /\ SlotsTyped' /\ SlotsUsed' /\ StagedTyped' /\ StagedCounted'
    BY <1>1, <2>1, RestSame, StagedSame
  <2>3. copied' \in SUBSET (Index \cup {Free})
    BY <1>1, <2>1, BytesOfSlot
  <2>4. BytesTyped' /\ WorkerTyped'
    BY <1>1, <2>1, <2>3 DEF BytesTyped, WorkerTyped
  <2>5. QED BY <1>4, <2>2, <2>4
<1>8. CASE ReleaseUpload
  <2>1. /\ UNCHANGED <<setup, write, read, slots, producer, held, staged, stagedBytes,
                       stagedStart, cursor, deferrals, first>>
        /\ cpc' = "replay" /\ copied' = {} /\ Release(Slot(next))
    BY <1>8 DEF ReleaseUpload, ring
  <2>2. ProducerTyped' /\ SlotsTyped' /\ SlotsUsed' /\ StagedTyped' /\ StagedCounted'
    BY <1>1, <2>1, RestSame, StagedSame
  <2>3. BytesTyped'
    BY <1>1, <2>1, ReleaseTypes
  <2>4. WorkerTyped'
    BY <1>1, <2>1 DEF WorkerTyped
  <2>5. QED BY <1>4, <2>2, <2>3, <2>4
<1>9. CASE StopReplay
  <2>1. CloseReplay /\ (deferrals' = deferrals \/ deferrals' = DeferralsAfter)
    BY <1>9 DEF StopReplay
  <2>2. deferrals' \in 0 .. DeferLimit + 1
    BY <1>2, <1>3, <2>1
  <2>3. QED BY <2>1, <2>2, CloseTypes
<1>10. CASE StageCopy
  <2>1. /\ UNCHANGED <<setup, write, read, slots, uploadRead, arena, producer, held, staged,
                       stagedBytes, stagedStart, deferrals, first>>
        /\ cpc = "scan" /\ NextUpload # seen /\ HasStagingRoom
        /\ cursor' = NextUpload /\ copied' = Bytes(Slot(NextUpload)) /\ cpc' = "stage"
    BY <1>10 DEF StageCopy, shared
  <2>2. cursor \in Index
    BY <1>1, <2>1 DEF WorkerTyped
  <2>3. NextUpload \in Index /\ Slot(NextUpload).op = "upload"
    BY <1>1, <2>1, <2>2, NextUploadTyped
  <2>4. ProducerTyped' /\ SlotsTyped' /\ SlotsUsed'
    BY <1>1, <2>1, RestSame
  <2>5. copied' \in SUBSET (Index \cup {Free})
    BY <1>1, <2>1, <2>3, BytesOfSlot
  <2>6. BytesTyped' /\ WorkerTyped'
    BY <1>1, <2>1, <2>3, <2>5 DEF BytesTyped, WorkerTyped
  <2>7. Slot(cursor)' = Slot(NextUpload) /\ StagedPayload' = StagedPayload
    BY <2>1 DEF Slot, StagedPayload
  <2>8. StagedTyped' /\ StagedCounted'
    BY <1>1, <2>1, <2>3, <2>7 DEF StagedTyped, StagedCounted, StageLimit, HasStagingRoom
  <2>9. QED BY <1>4, <2>4, <2>6, <2>8
<1>11. CASE StageRelease
  <2>1. PICK e : e = [bytes |-> copied, len |-> Slot(cursor).len]
    OBVIOUS
  <2>2. /\ UNCHANGED <<setup, write, read, slots, producer, held, stagedStart, deferrals, first>>
        /\ cpc = "stage" /\ Release(Slot(cursor)) /\ staged' = [staged EXCEPT ![cursor] = e]
        /\ stagedBytes' = stagedBytes + Slot(cursor).len
        /\ cursor' = Advance(cursor, 1) /\ copied' = {} /\ cpc' = "scan"
    BY <1>11, <2>1 DEF StageRelease
  <2>3. PICK i \in Index : i = cursor
    BY <1>1, <2>2 DEF WorkerTyped
  <2>4. ProducerTyped' /\ SlotsTyped' /\ SlotsUsed'
    BY <1>1, <2>2, RestSame
  <2>5. BytesTyped'
    BY <1>1, <2>2, <2>3, ReleaseTypes
  <2>6. Advance(cursor, 1) \in Index
    <3>1. 1 \in 0 .. IndexModulus - 1
      BY RingAssumption
    <3>2. QED BY <2>3, <3>1, AdvanceIs
  <2>7. WorkerTyped'
    BY <1>1, <2>2, <2>6 DEF WorkerTyped
  <2>8. /\ Slot(i).len \in Lengths \cup {0} /\ Slot(i).len \in 0 .. ArenaSize
    BY <1>1, SlotTyped
  <2>9. e.len = Slot(i).len /\ e \in [bytes : SUBSET (Index \cup {Free}), len : Lengths \cup {0}]
    BY <1>1, <2>1, <2>3, <2>8 DEF WorkerTyped
  <2>10. StagedTyped'
    BY <1>1, <2>2, <2>3, <2>9 DEF StagedTyped
  <2>11. /\ staged[i].len \in 0 .. ArenaSize
         /\ Cardinality(StagedPayload)' = Cardinality(StagedPayload) - staged[i].len + e.len
         /\ Cardinality(StagedPayload)' \in Nat /\ Cardinality(StagedPayload) \in Nat
    BY <1>1, <2>2, <2>3, <2>8, <2>9, StagedMoves
  <2>12. /\ stagedBytes \in Nat /\ Cardinality(StagedPayload) <= stagedBytes
         /\ stagedBytes + Slot(i).len <= ArenaSize
    BY <1>1, <2>2, <2>3 DEF StagedCounted, StageLimit
  <2>13. /\ stagedBytes' \in Nat /\ Cardinality(StagedPayload)' <= stagedBytes'
         /\ stagedBytes' <= ArenaSize
    BY <2>2, <2>3, <2>8, <2>9, <2>11, <2>12
  <2>14. StagedCounted'
    BY <2>2, <2>13 DEF StagedCounted, StageLimit
  <2>15. QED BY <1>4, <2>4, <2>5, <2>7, <2>10, <2>14
<1>12. CASE StopStaging
  <2>1. /\ UNCHANGED <<setup, write, read, slots, uploadRead, arena, producer, held, staged,
                       stagedBytes, stagedStart, deferrals, first, copied>>
        /\ cpc = "scan" /\ cursor' = NextUpload /\ cpc' = "publish"
    BY <1>12 DEF StopStaging, shared
  <2>2. NextUpload \in Index
    <3>1. cursor \in Index
      BY <1>1, <2>1 DEF WorkerTyped
    <3>2. QED BY <1>1, <3>1, NextUploadTyped
  <2>3. ProducerTyped' /\ SlotsTyped' /\ SlotsUsed' /\ StagedTyped' /\ StagedCounted'
    BY <1>1, <2>1, RestSame, StagedSame
  <2>4. BytesTyped' /\ WorkerTyped'
    BY <1>1, <2>1, <2>2 DEF BytesTyped, WorkerTyped
  <2>5. QED BY <1>4, <2>3, <2>4
<1>13. CASE EndDrain
  <2>1. /\ UNCHANGED <<setup, write, uploadRead, arena, producer, staged, stagedBytes, deferrals,
                       next, copied>>
        /\ PublishRead(next) /\ cpc' = "idle" /\ first' = 0
        /\ ForgetHeldSuffix \/ UNCHANGED <<held, stagedStart, cursor>>
    BY <1>13 DEF EndDrain
  <2>2. SlotsTyped' /\ SlotsUsed'
    BY <1>1, <2>1, HandBackSlots
  <2>3. ProducerTyped' /\ BytesTyped'
    BY <1>1, <2>1 DEF ProducerTyped, producer, Batched, BytesTyped
  <2>4. StagedTyped' /\ StagedCounted'
    BY <1>1, <2>1, StagedSame
  <2>5. WorkerTyped'
    BY <1>1, <1>2, <2>1 DEF WorkerTyped, ForgetHeldSuffix
  <2>6. QED BY <1>4, <2>2, <2>3, <2>4, <2>5
<1>14. QED BY <1>5, <1>6, <1>7, <1>8, <1>9, <1>10, <1>11, <1>12, <1>13 DEF Replay

(* So do the fence's steps.                                                *)
LEMMA FenceTypes ==
  ASSUME PInv, TInv, PInv', Fence
  PROVE  TInv'
<1>1. /\ ProducerTyped /\ SlotsTyped /\ SlotsUsed /\ BytesTyped /\ WorkerTyped /\ StagedTyped
      /\ StagedCounted /\ RInv /\ next \in Index /\ limit' \in Index /\ 0 \in Index
  BY RingAssumption DEF TInv, PInv, RInv, Typed, Index
<1>2. ASSUME ProducerTyped', SlotsTyped', SlotsUsed', BytesTyped', WorkerTyped', StagedTyped',
             StagedCounted'
      PROVE  TInv'
  BY <1>2 DEF TInv
<1>3. CASE LoadState
  <2>1. /\ UNCHANGED <<setup, write, read, slots, uploadRead, arena, producer, held, staged,
                       stagedBytes, stagedStart, cursor, deferrals, cpc, first, copied>>
        /\ cpc' # "stage"
    BY <1>3 DEF LoadState, shared, drain
  <2>2. ProducerTyped' /\ SlotsTyped' /\ SlotsUsed' /\ StagedTyped' /\ StagedCounted'
    BY <1>1, <2>1, RestSame, StagedSame
  <2>3. BytesTyped' /\ WorkerTyped'
    BY <1>1, <2>1 DEF BytesTyped, WorkerTyped
  <2>4. QED BY <1>2, <2>2, <2>3
<1>4. CASE Discard
  <2>1. /\ UNCHANGED <<setup, write, read, slots, producer, deferrals, cpc, first, copied>>
        /\ cpc' # "stage" /\ DropRecord(Slot(next))
        /\ ForgetHeldSuffix \/ UNCHANGED <<held, stagedStart, cursor>>
    BY <1>4 DEF Discard
  <2>2. \/ Unstage(next) /\ UNCHANGED <<uploadRead, arena>>
        \/ Release(Slot(next)) /\ UNCHANGED <<staged, stagedBytes>>
        \/ UNCHANGED <<uploadRead, arena, staged, stagedBytes>>
    BY <2>1 DEF DropRecord
  <2>3. BytesTyped'
    BY <1>1, <2>2, ReleaseTypes DEF BytesTyped
  <2>4. StagedTyped' /\ StagedCounted'
    BY <1>1, <2>1, <2>2, UnstageTypes, StagedSame
  <2>5. ProducerTyped' /\ SlotsTyped' /\ SlotsUsed'
    BY <1>1, <2>1, RestSame
  <2>6. WorkerTyped'
    BY <1>1, <1>4, <2>1 DEF WorkerTyped, ForgetHeldSuffix, Discard
  <2>7. QED BY <1>2, <2>3, <2>4, <2>5, <2>6
<1>5. CASE EndDiscard
  <2>1. /\ UNCHANGED <<setup, write, uploadRead, arena, producer, staged, stagedBytes, stagedStart,
                       cursor, deferrals, next, copied>>
        /\ PublishRead(next) /\ cpc' \in {"idle", "replay"} /\ first' \in {0, first}
        /\ held' \in {held, limit'}
    BY <1>5 DEF EndDiscard, BeginReplay
  <2>2. SlotsTyped' /\ SlotsUsed'
    BY <1>1, <2>1, HandBackSlots
  <2>3. ProducerTyped' /\ BytesTyped'
    BY <1>1, <2>1 DEF ProducerTyped, producer, Batched, BytesTyped
  <2>4. StagedTyped' /\ StagedCounted'
    BY <1>1, <2>1, StagedSame
  <2>5. WorkerTyped'
    BY <1>1, <2>1 DEF WorkerTyped
  <2>6. QED BY <1>2, <2>2, <2>3, <2>4, <2>5
<1>6. QED BY <1>3, <1>4, <1>5 DEF Fence

(* The staged payloads are dropped.                                        *)
LEMMA NothingStaged ==
  ASSUME staged' = [i \in Index |-> NotStaged], stagedBytes' = 0, cpc' # "stage"
  PROVE  StagedTyped' /\ StagedCounted'
<1>1. NotStaged.len = 0 /\ NotStaged \in [bytes : SUBSET (Index \cup {Free}), len : Lengths \cup {0}]
  BY DEF NotStaged
<1>2. StagedTyped'
  BY <1>1 DEF StagedTyped
<1>3. StagedPayload' = {}
  BY <1>1 DEF StagedPayload
<1>4. Cardinality(StagedPayload)' = 0 /\ 0 <= ArenaSize
  BY <1>3, FS_EmptySet, RingAssumption
<1>5. QED BY <1>2, <1>4 DEF StagedCounted, StageLimit

(* Failures keep the types.                                                *)
LEMMA FailureTypes ==
  ASSUME PInv, TInv, Failure
  PROVE  TInv'
<1>1. /\ ProducerTyped /\ SlotsTyped /\ SlotsUsed /\ BytesTyped /\ WorkerTyped
  BY DEF TInv
<1>2. CASE FailRecord
  <2>1. CloseReplay /\ deferrals' \in 0 .. DeferLimit + 1
    BY <1>1, <1>2 DEF FailRecord, WorkerTyped
  <2>2. QED BY <2>1, CloseTypes
<1>3. CASE DeviceLoss
  <2>1. /\ UNCHANGED <<setup, write, read, uploadRead, slots, arena, producer, deferrals,
                       cpc, first, copied>>
        /\ cpc' # "stage" /\ cpc' # "scan" /\ ForgetHeldSuffix
        /\ staged' = [i \in Index |-> NotStaged] /\ stagedBytes' = 0
    BY <1>3 DEF DeviceLoss, drain
  <2>2. ProducerTyped' /\ SlotsTyped' /\ SlotsUsed' /\ BytesTyped'
    BY <1>1, <2>1, RestSame DEF BytesTyped
  <2>3. WorkerTyped'
    BY <1>1, <2>1 DEF WorkerTyped, ForgetHeldSuffix
  <2>4. StagedTyped' /\ StagedCounted'
    BY <2>1, NothingStaged
  <2>5. QED BY <2>2, <2>3, <2>4 DEF TInv
<1>4. QED BY <1>2, <1>3 DEF Failure

(* The initial states have them.                                           *)
LEMMA InitTypes == Init => TInv
<1> SUFFICES ASSUME Init PROVE TInv
  OBVIOUS
<1>1. /\ 0 \in Index /\ 0 \in Position /\ 0 \in 0 .. MaxPass - 1 /\ 0 \in 0 .. DeferLimit + 1
      /\ 0 <= ArenaSize
  BY RingAssumption, PassesFit DEF Index, Position
<1>2. SlotsTyped /\ SlotsUsed
  BY <1>1 DEF Init, SlotsTyped, SlotsUsed, Forgotten
<1>3. ProducerTyped /\ BytesTyped /\ WorkerTyped
  BY <1>1 DEF Init, ProducerTyped, BytesTyped, WorkerTyped
<1>4. StagedTyped /\ StagedCounted
  <2>1. staged = [i \in Index |-> NotStaged] /\ cpc = "idle" /\ stagedBytes = 0
    BY DEF Init
  <2>2. NotStaged.len = 0
    BY DEF NotStaged
  <2>3. StagedTyped
    BY <2>1 DEF StagedTyped, NotStaged
  <2>4. StagedPayload = {}
    BY <2>1, <2>2 DEF StagedPayload
  <2>5. Cardinality(StagedPayload) = 0
    BY <2>4, FS_EmptySet
  <2>6. QED BY <1>1, <2>1, <2>3, <2>5 DEF StagedCounted, StageLimit
<1>5. QED BY <1>2, <1>3, <1>4 DEF TInv

(* The types hold in every state.                                          *)
LEMMA TInvIsInvariant == LegacyIsUnfenced /\ Spec => []TInv
<1>1. PInv /\ TInv /\ PInv' /\ [Next]_vars => TInv'
  <2> SUFFICES ASSUME PInv, TInv, PInv', [Next]_vars PROVE TInv'
    OBVIOUS
  <2>1. CASE UNCHANGED vars
    <3>1. /\ ProducerTyped /\ SlotsTyped /\ SlotsUsed /\ BytesTyped /\ WorkerTyped /\ StagedTyped
          /\ StagedCounted
      BY DEF TInv
    <3>2. /\ UNCHANGED <<setup, producer, write, read, slots, uploadRead, arena>>
          /\ UNCHANGED <<ring, drain>>
      BY <2>1 DEF vars, shared
    <3>3. \A i \in Index : Slot(i)' = Slot(i)
      BY <3>2 DEF Slot
    <3>4. ProducerTyped' /\ SlotsTyped' /\ SlotsUsed' /\ BytesTyped'
      BY <3>1, <3>2, RestSame DEF BytesTyped
    <3>5. QED BY <3>1, <3>2, <3>3, <3>4, WorkerUntouched DEF TInv
  <2>2. CASE Next
    BY <2>2, ProduceTypes, ReplayTypes, FenceTypes, FailureTypes DEF Next
  <2>3. QED BY <2>1, <2>2
<1>2. QED BY <1>1, InitTypes, InitHolds, NextKeeps, PTL DEF Spec

(* Every word, slot, byte and local of the ring keeps its type, with and   *)
(* without failures and the load fence, in every mode and with either kind *)
(* of producer, but not in legacy mode with the fence.  Among them: what   *)
(* stageHeldWgpuUploads keeps never exceeds its byte limit, and            *)
(* Math.max(0, ...) around each decrement of ring.stagedUploadBytes never  *)
(* has anything to cut off.                                                *)
THEOREM TypeCorrect == LegacyIsUnfenced /\ Spec => []TypeOK
<1>1. PInv /\ TInv => TypeOK
  <2> SUFFICES ASSUME PInv, TInv PROVE TypeOK
    OBVIOUS
  <2>1. Typed /\ SlotsTyped /\ ProducerTyped /\ BytesTyped /\ WorkerTyped /\ StagedTyped
        /\ StagedCounted
    BY DEF PInv, RInv, TInv
  <2>2. stagedBytes \in 0 .. StageLimit
    BY <2>1, RingAssumption DEF StagedCounted, StageLimit
  <2>3. QED BY <2>1, <2>2 DEF Typed, SlotsTyped, ProducerTyped, BytesTyped, WorkerTyped,
          StagedTyped, TypeOK
<1>2. QED BY <1>1, TInvIsInvariant, InitHolds, NextKeeps, PTL DEF Spec

(* Where records are replayed in order, no upload is staged twice, and     *)
(* stagedBytes is exact.                                                   *)
CountIsExact == stagedBytes = Cardinality(StagedPayload)

(* Every step keeps the count exact.                                       *)
LEMMA CountStaysExact ==
  ASSUME ReplaysInOrder, QInv, AInv, TInv, CountIsExact, [Next]_vars
  PROVE  CountIsExact'
<1>1. ASSUME UNCHANGED <<staged, stagedBytes>> PROVE CountIsExact'
  BY <1>1 DEF CountIsExact, StagedPayload
<1>2. StagedTyped /\ stagedBytes \in Nat /\ next \in Index
  BY DEF TInv, StagedCounted, QInv, PInv, RInv, Typed
<1>3. CASE Unstage(next)
  <2>1. /\ staged' = [staged EXCEPT ![next] = NotStaged] /\ NotStaged.len = 0
        /\ 0 \in 0 .. ArenaSize /\ stagedBytes' = stagedBytes - staged[next].len
    BY <1>3, RingAssumption DEF Unstage, NotStaged
  <2>2. /\ staged[next].len \in 0 .. ArenaSize
        /\ Cardinality(StagedPayload) \in Nat
        /\ Cardinality(StagedPayload)' = Cardinality(StagedPayload) - staged[next].len + 0
    BY <1>2, <2>1, StagedMoves
  <2>3. stagedBytes' = Cardinality(StagedPayload)'
    BY <2>1, <2>2 DEF CountIsExact
  <2>4. QED BY <2>3 DEF CountIsExact
<1>4. CASE StageRelease
  <2>1. PICK e : e = [bytes |-> copied, len |-> Slot(cursor).len]
    OBVIOUS
  <2>2. /\ cpc = "stage" /\ staged' = [staged EXCEPT ![cursor] = e]
        /\ stagedBytes' = stagedBytes + Slot(cursor).len
    BY <1>4, <2>1 DEF StageRelease
  <2>3. CursorPlaced /\ IsUpload(cursor)
    BY <2>2 DEF AInv, Live, Placed, CursorPlaced
  <2>4. PICK c \in Index : c = cursor
    BY <2>2 DEF TInv, WorkerTyped
  <2>5. ~IsStaged(c)
    <3>1. Distance(c, read) \in Nat
      <4>1. read \in Index /\ c \in Index
        BY DEF QInv, PInv, RInv, Typed
      <4>2. Distance(c, read) \in 0 .. IndexModulus - 1
        BY <4>1, DistanceIs
      <4>3. QED BY <4>2
    <3>2. ~BehindCursor(c)
      BY <2>4, <3>1 DEF BehindCursor
    <3>3. QED BY <2>3, <3>2 DEF CursorPlaced
  <2>6. Slot(c).len \in 0 .. ArenaSize /\ e.len = Slot(c).len
    BY <2>1, <2>4, SlotTyped DEF TInv
  <2>7. staged[c].len = 0
    BY <2>5 DEF IsStaged, NotStaged
  <2>8. /\ Cardinality(StagedPayload)' = Cardinality(StagedPayload) - staged[c].len + e.len
        /\ Cardinality(StagedPayload) \in Nat
    BY <1>2, <2>2, <2>4, <2>6, StagedMoves
  <2>9. stagedBytes' = Cardinality(StagedPayload)'
    BY <2>2, <2>4, <2>6, <2>7, <2>8 DEF CountIsExact
  <2>10. QED BY <2>9 DEF CountIsExact
<1>5. CASE DeviceLoss
  <2>1. staged' = [i \in Index |-> NotStaged] /\ stagedBytes' = 0 /\ NotStaged.len = 0
    BY <1>5 DEF DeviceLoss, NotStaged
  <2>2. StagedPayload' = {}
    BY <2>1 DEF StagedPayload
  <2>3. stagedBytes' = Cardinality(StagedPayload)'
    BY <2>1, <2>2, FS_EmptySet
  <2>4. QED BY <2>3 DEF CountIsExact
<1>6. CASE UNCHANGED vars
  BY <1>1, <1>6 DEF vars, ring
<1>7. CASE Produce
  <2>1. UNCHANGED ring
    BY <1>7 DEF Produce, PushCommand, StagePassRecord, AbortPass, PushBatch, PushPassRecord,
       IssueUpload, ReserveUpload, PushUpload, Refuse, Publish
  <2>2. QED BY <1>1, <2>1 DEF ring
<1>8. CASE Replay \/ FailRecord
  <2>1. Unstage(next) \/ StageRelease \/ UNCHANGED <<staged, stagedBytes>>
    BY <1>8 DEF Replay, FailRecord, StartDrain, ReplayRecord, CopyUpload, ReleaseUpload,
       StopReplay, CloseReplay, StageCopy, StopStaging, EndDrain, ring
  <2>2. QED BY <1>1, <1>3, <1>4, <2>1
<1>9. ~Fence
  BY DEF Fence, LoadState, Discard, EndDiscard, QInv, PInv, FenceIsAllowed, ReplaysInOrder
<1>10. QED BY <1>5, <1>6, <1>7, <1>8, <1>9 DEF Next, Failure

(* What is staged are uploads that still wait, and stagedBytes counts      *)
(* exactly their bytes (stageHeldWgpuUploads, ring.stagedUploadBytes): no  *)
(* staged copy is left behind by a drain, and none is counted twice.  The  *)
(* load fence and legacy mode are left out.                                *)
THEOREM StagedUploadsWait ==
  ASSUME ReplaysInOrder
  PROVE  Spec => []StagedAreWaiting
<1>1. AInv /\ CountIsExact => StagedAreWaiting
  BY DEF AInv, Live, Placed, CursorPlaced, BehindCursor, IsUpload, CountIsExact, StagedAreWaiting
<1>2. Init => CountIsExact
  <2> SUFFICES ASSUME Init PROVE CountIsExact
    OBVIOUS
  <2>1. staged = [i \in Index |-> NotStaged] /\ stagedBytes = 0 /\ NotStaged.len = 0
    BY DEF Init, NotStaged
  <2>2. StagedPayload = {}
    BY <2>1 DEF StagedPayload
  <2>3. QED BY <2>1, <2>2, FS_EmptySet DEF CountIsExact
<1>3. QInv /\ AInv /\ TInv /\ CountIsExact /\ [Next]_vars => CountIsExact'
  BY CountStaysExact
<1>4. QED
  BY <1>1, <1>2, <1>3, NeverBoth, QInvIsInvariant, AInvIsInvariant, TInvIsInvariant, PTL
  DEF Spec
=============================================================================
