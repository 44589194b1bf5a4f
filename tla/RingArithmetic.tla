--------------------------- MODULE RingArithmetic ---------------------------
(***************************************************************************)
(* Facts about indices that run modulo a multiple of a ring's capacity:    *)
(* the arithmetic behind (write + frame) % capacity on 32-bit words in     *)
(* src/audio-pcm-ring.js; and about the queue a ring holds, which grows at *)
(* its end and shrinks at its front.                                       *)
(***************************************************************************)
EXTENDS Integers, SequenceTheorems, TLAPS

(* Quotient and remainder recompose the number.                            *)
LEMMA DivMod ==
  ASSUME NEW x \in Int, NEW c \in Nat \ {0}
  PROVE  x = c * (x \div c) + (x % c) /\ x \div c \in Int /\ x % c \in 0 .. c - 1
  OBVIOUS

(* A remainder is an index.                                               *)
LEMMA RemainderIn ==
  ASSUME NEW x \in Int, NEW c \in Nat \ {0}
  PROVE  x % c \in 0 .. c - 1
  OBVIOUS

(* No other multiple of c lies strictly between -c and c.                  *)
LEMMA OnlyZeroMultiple ==
  ASSUME NEW z \in Int, NEW c \in Nat \ {0}, c * z < c, -c < c * z
  PROVE  z = 0
<1>1. z >= 1 => c * z >= c
  OBVIOUS
<1>2. z <= -1 => c * z <= -c
  OBVIOUS
<1>3. QED BY <1>1, <1>2

(* Removing a multiple of c does not change the remainder.                 *)
LEMMA ModShift ==
  ASSUME NEW x \in Int, NEW c \in Nat \ {0}, NEW m \in Int, m % c = 0
  PROVE  (x - m) % c = x % c
<1> DEFINE q == x \div c
           r == x % c
           p == m \div c
           q2 == (x - m) \div c
           r2 == (x - m) % c
<1>1. x = c * q + r /\ q \in Int /\ r \in 0 .. c - 1
  BY DivMod
<1>2. m = c * p /\ p \in Int
  BY DivMod
<1>3. x - m = c * q2 + r2 /\ q2 \in Int /\ r2 \in 0 .. c - 1
  BY DivMod
<1> HIDE DEF q, r, p, q2, r2
<1>4. c * (q - p - q2) = c * q - c * p - c * q2
  BY <1>1, <1>2, <1>3
<1>5. c * (q - p - q2) = r2 - r
  BY <1>1, <1>2, <1>3, <1>4
<1>6. q - p - q2 = 0
  BY <1>1, <1>2, <1>3, <1>5, OnlyZeroMultiple
<1>7. r2 = r
  BY <1>1, <1>3, <1>5, <1>6
<1>8. QED BY <1>7 DEF r, r2

(* Numbers less than c apart have different remainders.                    *)
LEMMA ModDistinct ==
  ASSUME NEW x \in Int, NEW y \in Int, NEW c \in Nat \ {0}, x < y, y < x + c
  PROVE  x % c # y % c
<1> SUFFICES ASSUME x % c = y % c PROVE FALSE
  OBVIOUS
<1> DEFINE q == x \div c
           r == x % c
           q2 == y \div c
<1>1. x = c * q + r /\ q \in Int /\ r \in Int
  BY DivMod
<1>2. y = c * q2 + r /\ q2 \in Int
  BY DivMod
<1> HIDE DEF q, r, q2
<1>3. c * (q2 - q) = c * q2 - c * q
  BY <1>1, <1>2
<1>4. c * (q2 - q) = y - x
  BY <1>1, <1>2, <1>3
<1>5. q2 - q = 0
  BY <1>1, <1>2, <1>4, OnlyZeroMultiple
<1>6. QED BY <1>1, <1>2, <1>5

-----------------------------------------------------------------------------
(* Sequences given by their entries, as the contents of a ring are.        *)
HasLength(q, n) == q = [i \in 1 .. n |-> q[i]]

(* What is left when the first m of n entries are taken away.              *)
LEMMA RestOfSequence ==
  ASSUME NEW n \in Nat, NEW m \in 0 .. n, NEW q, NEW t,
         HasLength(q, n), HasLength(t, n - m),
         \A i \in 1 .. n - m : t[i] = q[i + m]
  PROVE  Len(q) = n /\ SubSeq(q, m + 1, n) = t
<1> DEFINE S == {q[i] : i \in 1 .. n} \cup {t[i] : i \in 1 .. n - m}
           u == SubSeq(q, m + 1, n)
<1>1. q \in Seq(S) /\ Len(q) = n
  BY DEF S, HasLength
<1>2. n - m \in Nat /\ t \in Seq(S) /\ Len(t) = n - m
  BY DEF S, HasLength
<1>3. \A i \in m + 1 .. n : q[i] \in S
  OBVIOUS
<1> HIDE DEF S
<1>4. /\ u \in Seq(S) /\ Len(u) = IF m + 1 <= n THEN n - (m + 1) + 1 ELSE 0
      /\ \A i \in 1 .. n - (m + 1) + 1 : u[i] = q[m + 1 + i - 1]
  <2>1. PICK f \in Int : f = m + 1
    OBVIOUS
  <2>2. n \in Int /\ \A i \in f .. n : q[i] \in S
    BY <1>3, <2>1
  <2>3. /\ SubSeq(q, f, n) \in Seq(S)
        /\ Len(SubSeq(q, f, n)) = IF f <= n THEN n - f + 1 ELSE 0
        /\ \A i \in 1 .. n - f + 1 : SubSeq(q, f, n)[i] = q[f + i - 1]
    BY <2>2, SubSeqProperties
  <2>4. QED BY <2>1, <2>3
<1>5. Len(u) = n - m
  BY <1>4
<1>6. \A i \in 1 .. n - m : u[i] = t[i]
  <2>1. \A i \in 1 .. n - m : m + 1 + i - 1 = i + m /\ i \in 1 .. n - (m + 1) + 1
    OBVIOUS
  <2>2. QED BY <1>4, <2>1
<1> HIDE DEF u
<1>7. u = t
  BY <1>2, <1>4, <1>5, <1>6, SeqEqual
<1>8. QED BY <1>1, <1>7 DEF u

(* The part of a longer sequence that a shorter one is.                    *)
LEMMA StartOfSequence ==
  ASSUME NEW n \in Nat, NEW m \in Nat, NEW q, NEW t,
         HasLength(q, n), HasLength(t, n + m),
         \A i \in 1 .. n : t[i] = q[i]
  PROVE  Len(q) = n /\ Len(t) = n + m /\ SubSeq(t, 1, n) = q
<1> DEFINE S == {t[i] : i \in 1 .. n + m}
           u == SubSeq(t, 1, n)
<1>1. n + m \in Nat /\ Len(t) = n + m
  BY DEF HasLength
<1>2. \A i \in 1 .. n : i \in 1 .. n + m /\ t[i] \in S /\ q[i] \in S
  <2>1. \A i \in 1 .. n : i \in 1 .. n + m
    OBVIOUS
  <2>2. \A i \in 1 .. n + m : t[i] \in S
    OBVIOUS
  <2> HIDE DEF S
  <2>3. QED BY <2>1, <2>2
<1> HIDE DEF S
<1>3. q \in Seq(S) /\ Len(q) = n
  BY <1>2 DEF HasLength
<1>4. /\ u \in Seq(S) /\ Len(u) = IF 1 <= n THEN n - 1 + 1 ELSE 0
      /\ \A i \in 1 .. n - 1 + 1 : u[i] = t[1 + i - 1]
  BY <1>2, SubSeqProperties
<1>5. Len(u) = n
  BY <1>4
<1>6. \A i \in 1 .. n : u[i] = q[i]
  <2>1. \A i \in 1 .. n : 1 + i - 1 = i /\ i \in 1 .. n - 1 + 1
    OBVIOUS
  <2>2. QED BY <1>4, <2>1
<1> HIDE DEF u
<1>7. u = q
  BY <1>3, <1>4, <1>5, <1>6, SeqEqual
<1>8. QED BY <1>1, <1>3, <1>7 DEF u
=============================================================================
