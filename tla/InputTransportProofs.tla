------------------------ MODULE InputTransportProofs ------------------------
(***************************************************************************)
(* The seqlock of src/input-transport.js is proved for any number of       *)
(* words, any width of the sequence word and any number of retries: a      *)
(* snapshot the worker accepts is never torn.                              *)
(***************************************************************************)
EXTENDS InputTransport, RingArithmetic, SequenceTheorems

Writing == adapter.pc \in {"store", "close"}
Reading == reader.pc \in {"load", "check"}

(* A state under way has room among the posts, and is a state.             *)
PostIsPlanned ==
  adapter.pc # "idle" => Len(posts) < MaxPosts /\ adapter.held \in States

(* The sequence word is odd exactly while a write is under way.            *)
OddWhileWriting == Writing <=> ~IsEven(sab.sequence)

(* A poll knows how many stores to the sequence word it has missed.        *)
OverlapCounted ==
  Reading => /\ IsEven(reader.before)
             /\ sab.sequence = (reader.before + reader.overlap) % SequenceModulus
             /\ Writing => reader.overlap + 1 < SequenceModulus

(* As long as it has missed none, what it has read is what is there.       *)
ReadIsCurrent ==
  Reading /\ reader.overlap = 0 =>
    /\ \A w \in 1 .. reader.loaded : reader.words[w] = sab.words[w]
    /\ reader.pc = "check" => /\ reader.loaded = WordCount
                              /\ reader.generation = sab.generation

IInv == TypeOK /\ PostIsPlanned /\ OddWhileWriting /\ OverlapCounted /\ ReadIsCurrent
-----------------------------------------------------------------------------
USE DEF Centre, Words, IsEven

(* As the modulus is even, one more store flips the parity.                 *)
LEMMA ParityOfRemainder ==
  ASSUME NEW s \in 0 .. SequenceModulus - 1
  PROVE  /\ (s + 1) % SequenceModulus \in 0 .. SequenceModulus - 1
         /\ s % 2 = 0 => ((s + 1) % SequenceModulus) % 2 = 1
         /\ s % 2 = 1 => ((s + 1) % SequenceModulus) % 2 = 0
<1>1. SequenceModulus \in Nat /\ SequenceModulus % 2 = 0 /\ SequenceModulus > 2
  BY ConstantsAssumption, SequenceAssumption
<1>2. CASE s + 1 = SequenceModulus
  <2>1. (s + 1) % SequenceModulus = 0 BY <1>1, <1>2
  <2>2. QED BY <1>1, <1>2, <2>1
<1>3. CASE s + 1 < SequenceModulus
  <2>1. (s + 1) % SequenceModulus = s + 1 BY <1>1, <1>3
  <2>2. QED BY <1>1, <1>3, <2>1
<1>4. QED BY <1>1, <1>2, <1>3

(* One more store to the sequence word is one more step from any start.    *)
LEMMA OneStepOn ==
  ASSUME NEW b \in Nat, NEW o \in Nat
  PROVE  (((b + o) % SequenceModulus) + 1) % SequenceModulus
           = (b + (o + 1)) % SequenceModulus
<1> DEFINE M == SequenceModulus
           m == M * ((b + o) \div M)
           x == b + (o + 1)
<1>1. M \in Nat \ {0} BY SequenceAssumption, ConstantsAssumption
<1>2. b + o = m + ((b + o) % M) /\ m \in Int /\ (b + o) % M \in Int
  BY <1>1, DivMod
<1>3. m % M = 0 BY <1>1, DivMod
<1>4. x \in Int OBVIOUS
<1> HIDE DEF m, M, x
<1>5. x - m = ((b + o) % M) + 1 BY <1>2 DEF x
<1>6. (x - m) % M = x % M
  BY <1>1, <1>2, <1>3, <1>4, ModShift
<1>7. (((b + o) % M) + 1) % M = x % M BY <1>5, <1>6
<1>8. QED BY <1>7 DEF M, x

(* A write that opens an even sequence makes it odd.                        *)
LEMMA WriteSequenceOfEven ==
  ASSUME NEW s \in 0 .. SequenceModulus - 1, s % 2 = 0
  PROVE  WriteSequence(s) = (s + 1) % SequenceModulus
BY ConstantsAssumption, SequenceAssumption DEF WriteSequence
-----------------------------------------------------------------------------
(* It holds at the start.                                                   *)
LEMMA InitInductive == Init => IInv
<1> SUFFICES ASSUME Init PROVE IInv
  OBVIOUS
<1>1. SequenceModulus \in Nat \ {0} /\ GenerationModulus \in Nat \ {0}
  BY ConstantsAssumption, SequenceAssumption, GenerationAssumption
<1>2. Neutral \in [Words -> Values]
  BY ConstantsAssumption DEF Neutral, Pad
<1>3. TypeOK
  BY <1>1, <1>2, ConstantsAssumption DEF Init, TypeOK, Idle, Generations
<1>4. QED
  BY <1>1, <1>3 DEF IInv, Init, Idle, PostIsPlanned, OddWhileWriting,
     OverlapCounted, ReadIsCurrent, Writing, Reading

(* What the main thread does.                                              *)
LEMMA SetInputStateInductive ==
  ASSUME IInv, NEW s \in States, SetInputState(s)
  PROVE  IInv'
<1> DEFINE g == NextGeneration(adapter.generation)
<1>1. g \in Generations
  <2>1. GenerationModulus \in Nat /\ GenerationModulus > 4
    BY ConstantsAssumption, GenerationAssumption
  <2>2. adapter.generation \in Nat
    BY <2>1 DEF IInv, TypeOK, Generations
  <2>3. (adapter.generation + 1) % GenerationModulus \in 0 .. GenerationModulus - 1
    BY <2>1, <2>2
  <2>4. QED BY <2>1, <2>3 DEF NextGeneration, Generations
<1> HIDE DEF g
<1>2. TypeOK'
  <2>1. unapplied' \in Seq([words : States, generation : Generations])
    BY <1>1 DEF IInv, TypeOK, SetInputState, g
  <2>2. adapter' \in [shared : BOOLEAN, calls : SUBSET {"reset", "mask"},
                      pc : {"idle", "open", "store", "close", "post"},
                      held : States \union {None}, generation : Generations,
                      stored : 0 .. WordCount]
    BY <1>1 DEF IInv, TypeOK, SetInputState, g
  <2>3. QED
    BY <2>1, <2>2 DEF IInv, TypeOK, SetInputState
<1>3. PostIsPlanned'
  BY DEF IInv, TypeOK, SetInputState, RoomToPost, PostIsPlanned
<1>4. OddWhileWriting' /\ OverlapCounted' /\ ReadIsCurrent'
  BY DEF IInv, TypeOK, SetInputState, RoomToPost, OddWhileWriting, OverlapCounted,
     ReadIsCurrent, Writing, Reading
<1>5. QED BY <1>2, <1>3, <1>4 DEF IInv

(* Both stores to the sequence word, and what a poll then knows.           *)
LEMMA StoreSequenceInductive ==
  ASSUME IInv, NEW q, q = (sab.sequence + 1) % SequenceModulus, StoreSequence(q),
         reader.overlap + 1 < SequenceModulus
  PROVE  /\ sab'.sequence \in 0 .. SequenceModulus - 1
         /\ IsEven(sab'.sequence) <=> ~IsEven(sab.sequence)
         /\ sab' \in [words : [Words -> Values], generation : Generations,
                      sequence : 0 .. SequenceModulus - 1]
         /\ reader' \in [pc : {"idle", "load", "check", "retry"},
                attempt : 0 .. MaxAttempts, before : 0 .. SequenceModulus - 1,
                overlap : 0 .. SequenceModulus - 1, words : [Words -> Values],
                loaded : 0 .. WordCount, generation : Generations]
         /\ Reading' <=> Reading
         /\ Reading => reader'.overlap = reader.overlap + 1
         /\ Reading => /\ IsEven(reader'.before)
                       /\ sab'.sequence =
                            (reader'.before + reader'.overlap) % SequenceModulus
         /\ ReadIsCurrent'
<1>1. /\ sab.sequence \in 0 .. SequenceModulus - 1
      /\ reader.before \in 0 .. SequenceModulus - 1
      /\ reader.overlap \in 0 .. SequenceModulus - 1
      /\ SequenceModulus \in Nat
  BY ConstantsAssumption DEF IInv, TypeOK
<1>2. sab'.sequence = q /\ sab' = [sab EXCEPT !.sequence = q]
  BY DEF StoreSequence, IInv, TypeOK
<1>3. /\ q \in 0 .. SequenceModulus - 1
      /\ IsEven(q) <=> ~IsEven(sab.sequence)
  BY <1>1, ParityOfRemainder
<1>4. CASE Reading
  <2>1. reader' = [reader EXCEPT !.overlap = @ + 1]
    BY <1>4 DEF StoreSequence, Reading
  <2>2. reader'.overlap = reader.overlap + 1 /\ reader'.before = reader.before
    BY <2>1 DEF IInv, TypeOK
  <2>3. sab'.sequence = (reader'.before + reader'.overlap) % SequenceModulus
    <3>1. sab.sequence = (reader.before + reader.overlap) % SequenceModulus
      BY <1>4 DEF IInv, OverlapCounted
    <3>2. QED BY <1>1, <1>2, <2>2, <3>1, OneStepOn
  <2>4. IsEven(reader'.before)
    BY <1>4, <2>2 DEF IInv, OverlapCounted
  <2>5. ReadIsCurrent'
    BY <1>1, <2>2 DEF ReadIsCurrent
  <2>6. sab' \in [words : [Words -> Values], generation : Generations,
                 sequence : 0 .. SequenceModulus - 1]
    BY <1>2, <1>3 DEF IInv, TypeOK
  <2>7. reader' \in [pc : {"idle", "load", "check", "retry"},
                attempt : 0 .. MaxAttempts, before : 0 .. SequenceModulus - 1,
                overlap : 0 .. SequenceModulus - 1, words : [Words -> Values],
                loaded : 0 .. WordCount, generation : Generations]
    <3>1. reader.overlap + 1 \in 0 .. SequenceModulus - 1
      BY <1>1
    <3>2. QED BY <2>1, <3>1 DEF IInv, TypeOK
  <2>8. Reading'
    BY <1>4, <2>1 DEF IInv, TypeOK, Reading
  <2>9. QED
    BY <1>2, <1>3, <1>4, <2>2, <2>3, <2>4, <2>5, <2>6, <2>7, <2>8
<1>5. CASE ~Reading
  <2>1. reader' = reader
    BY <1>5 DEF StoreSequence, Reading
  <2>2. QED
    BY <1>2, <1>3, <1>5, <2>1 DEF IInv, TypeOK, Reading, ReadIsCurrent
<1>6. QED BY <1>4, <1>5

(* The writer opens a write, and the sequence is odd.                       *)
LEMMA OpenWriteInductive == ASSUME IInv, OpenWrite PROVE IInv'
<1>1. /\ adapter.pc = "open" /\ StoreSequence(WriteSequence(sab.sequence))
      /\ reader.overlap + 2 < SequenceModulus
      /\ adapter' = [adapter EXCEPT !.pc = "store"]
      /\ UNCHANGED <<posts, worker, core, unapplied>>
  BY DEF OpenWrite, OverlapBound
<1>2. ~Writing /\ IsEven(sab.sequence)
  BY <1>1 DEF IInv, OddWhileWriting, Writing
<1>3. /\ sab.sequence \in 0 .. SequenceModulus - 1
      /\ reader.overlap \in 0 .. SequenceModulus - 1 /\ SequenceModulus \in Nat
  BY ConstantsAssumption DEF IInv, TypeOK
<1>4. WriteSequence(sab.sequence) = (sab.sequence + 1) % SequenceModulus
  BY <1>2, <1>3, WriteSequenceOfEven
<1>5. reader.overlap + 1 < SequenceModulus
  BY <1>1, <1>3
<1>6. adapter'.pc = "store" /\ adapter'.held = adapter.held
  BY <1>1 DEF IInv, TypeOK
<1>7. Writing' /\ ~IsEven(sab'.sequence)
  BY <1>1, <1>2, <1>4, <1>5, <1>6, StoreSequenceInductive DEF Writing
<1>8. TypeOK'
  BY <1>1, <1>4, <1>5, StoreSequenceInductive DEF IInv, TypeOK
<1>9. PostIsPlanned' /\ OddWhileWriting'
  BY <1>1, <1>6, <1>7 DEF IInv, PostIsPlanned, OddWhileWriting
<1>10. OverlapCounted'
  <2>1. Reading => reader'.overlap + 1 < SequenceModulus
    BY <1>1, <1>3, <1>4, <1>5, StoreSequenceInductive
  <2>2. QED
    BY <1>1, <1>4, <1>5, <2>1, StoreSequenceInductive DEF OverlapCounted
<1>11. ReadIsCurrent'
  BY <1>1, <1>4, <1>5, StoreSequenceInductive
<1>12. QED BY <1>8, <1>9, <1>10, <1>11 DEF IInv

(* It closes it, and the sequence is even again.                            *)
LEMMA CloseWriteInductive == ASSUME IInv, CloseWrite PROVE IInv'
<1>1. /\ adapter.pc = "close"
      /\ StoreSequence((sab.sequence + 1) % SequenceModulus)
      /\ adapter' = [adapter EXCEPT !.pc = "post"]
      /\ UNCHANGED <<posts, worker, core, unapplied>>
  BY DEF CloseWrite, ReadSequence
<1>2. Writing /\ ~IsEven(sab.sequence)
  BY <1>1 DEF IInv, OddWhileWriting, Writing
<1>3. CASE reader.overlap + 1 < SequenceModulus
  <2>1. adapter'.pc = "post" /\ adapter'.held = adapter.held
    BY <1>1 DEF IInv, TypeOK
  <2>2. ~Writing' /\ IsEven(sab'.sequence)
    BY <1>1, <1>2, <1>3, <2>1, StoreSequenceInductive DEF Writing
  <2>3. TypeOK'
    BY <1>1, <1>3, StoreSequenceInductive DEF IInv, TypeOK
  <2>4. PostIsPlanned' /\ OddWhileWriting'
    BY <1>1, <2>1, <2>2 DEF IInv, PostIsPlanned, OddWhileWriting
  <2>5. OverlapCounted' /\ ReadIsCurrent'
    BY <1>1, <1>3, <2>2, StoreSequenceInductive DEF OverlapCounted
  <2>6. QED BY <2>3, <2>4, <2>5 DEF IInv
<1>4. CASE ~(reader.overlap + 1 < SequenceModulus)
  <2>1. ~Reading
    BY <1>2, <1>4 DEF IInv, OverlapCounted
  <2>2. reader' = reader /\ sab' = [sab EXCEPT
          !.sequence = (sab.sequence + 1) % SequenceModulus]
    BY <1>1, <2>1 DEF StoreSequence, Reading
  <2>3. /\ (sab.sequence + 1) % SequenceModulus \in 0 .. SequenceModulus - 1
        /\ IsEven((sab.sequence + 1) % SequenceModulus)
    <3>1. sab.sequence \in 0 .. SequenceModulus - 1 /\ SequenceModulus \in Nat
      BY ConstantsAssumption DEF IInv, TypeOK
    <3>2. sab.sequence % 2 = 1
      BY <1>2, <3>1
    <3>3. QED BY <3>1, <3>2, ParityOfRemainder
  <2>4. TypeOK'
    BY <1>1, <2>2, <2>3 DEF IInv, TypeOK
  <2>5. PostIsPlanned' /\ OddWhileWriting' /\ OverlapCounted' /\ ReadIsCurrent'
    BY <1>1, <2>1, <2>2, <2>3 DEF IInv, TypeOK, PostIsPlanned, OddWhileWriting,
       OverlapCounted, ReadIsCurrent, Writing, Reading
  <2>6. QED BY <2>4, <2>5 DEF IInv
<1>5. QED BY <1>3, <1>4

(* A store to a word is never seen by a poll that missed no sequence.      *)
LEMMA WritersAreSeen ==
  ASSUME IInv, Writing, Reading
  PROVE  reader.overlap # 0
<1>1. reader.before \in 0 .. SequenceModulus - 1 /\ SequenceModulus \in Nat
  BY ConstantsAssumption DEF IInv, TypeOK
<1>2. reader.overlap = 0 => sab.sequence = reader.before
  BY <1>1 DEF IInv, OverlapCounted
<1>3. QED BY <1>2 DEF IInv, OverlapCounted, OddWhileWriting

(* It stores one word ...                                                   *)
LEMMA StoreWordInductive == ASSUME IInv, StoreWord PROVE IInv'
<1>1. /\ adapter.pc = "store" /\ adapter.stored + 1 \in Words
      /\ adapter.stored \in 0 .. WordCount
      /\ UNCHANGED <<posts, reader, worker, core, unapplied>>
  BY ConstantsAssumption DEF StoreWord, IInv, TypeOK
<1>2. adapter.held[adapter.stored + 1] \in Values
  BY <1>1, ConstantsAssumption DEF IInv, PostIsPlanned, States, Pad
<1>3. /\ sab' = [sab EXCEPT !.words[adapter.stored + 1] =
                             adapter.held[adapter.stored + 1]]
      /\ adapter' = [adapter EXCEPT !.stored = @ + 1]
  BY DEF StoreWord
<1>4. sab'.sequence = sab.sequence /\ sab'.generation = sab.generation
  BY <1>3 DEF IInv, TypeOK
<1>5. adapter'.pc = adapter.pc /\ adapter'.held = adapter.held
  BY <1>3 DEF IInv, TypeOK
<1>6. sab' \in [words : [Words -> Values], generation : Generations,
                sequence : 0 .. SequenceModulus - 1]
  BY <1>1, <1>2, <1>3 DEF IInv, TypeOK
<1>7. TypeOK'
  <2>1. adapter' \in [shared : BOOLEAN, calls : SUBSET {"reset", "mask"},
                    pc : {"idle", "open", "store", "close", "post"},
                    held : States \union {None}, generation : Generations,
                    stored : 0 .. WordCount]
    <3>1. adapter.stored + 1 \in 0 .. WordCount
      BY <1>1, ConstantsAssumption
    <3>2. QED BY <1>3, <3>1 DEF IInv, TypeOK
  <2>2. QED BY <1>1, <1>6, <2>1 DEF IInv, TypeOK
<1>8. PostIsPlanned' /\ OddWhileWriting' /\ OverlapCounted'
  BY <1>1, <1>4, <1>5 DEF IInv, PostIsPlanned, OddWhileWriting, OverlapCounted,
     Writing, Reading
<1>9. ReadIsCurrent'
  BY <1>1, WritersAreSeen DEF ReadIsCurrent, Writing, Reading
<1>10. QED BY <1>7, <1>8, <1>9 DEF IInv

(* ... and the generation.                                                  *)
LEMMA StoreGenerationInductive == ASSUME IInv, StoreGeneration PROVE IInv'
<1>1. /\ adapter.pc = "store"
      /\ sab' = [sab EXCEPT !.generation = adapter.generation]
      /\ adapter' = [adapter EXCEPT !.pc = "close", !.stored = 0]
      /\ UNCHANGED <<posts, reader, worker, core, unapplied>>
  BY DEF StoreGeneration
<1>2. TypeOK'
  <2>1. adapter' \in [shared : BOOLEAN, calls : SUBSET {"reset", "mask"},
                    pc : {"idle", "open", "store", "close", "post"},
                    held : States \union {None}, generation : Generations,
                    stored : 0 .. WordCount]
    <3>1. 0 \in 0 .. WordCount
      BY ConstantsAssumption
    <3>2. QED BY <1>1, <3>1 DEF IInv, TypeOK
  <2>2. sab' \in [words : [Words -> Values], generation : Generations,
                  sequence : 0 .. SequenceModulus - 1]
    BY <1>1 DEF IInv, TypeOK
  <2>3. QED BY <1>1, <2>1, <2>2 DEF IInv, TypeOK
<1>3. PostIsPlanned' /\ OddWhileWriting' /\ OverlapCounted'
  BY <1>1 DEF IInv, TypeOK, PostIsPlanned, OddWhileWriting, OverlapCounted,
     Writing, Reading
<1>4. ReadIsCurrent'
  BY <1>1, WritersAreSeen DEF ReadIsCurrent, Writing, Reading
<1>5. QED BY <1>2, <1>3, <1>4 DEF IInv

(* It posts what it has planned.                                            *)
LEMMA PostInductive == ASSUME IInv, Post PROVE IInv'
<1>1. /\ adapter.pc = "post"
      /\ posts' = Append(posts, [type |-> "state", words |-> adapter.held,
                                 generation |-> adapter.generation])
      /\ adapter' = [adapter EXCEPT !.pc = "idle"]
      /\ UNCHANGED <<sab, reader, worker, core, unapplied>>
  BY DEF Post
<1>2. Len(posts) < MaxPosts /\ adapter.held \in States
  BY <1>1 DEF IInv, PostIsPlanned
<1>3. posts' \in Seq(Message) /\ Len(posts') <= MaxPosts
  <2>1. [type |-> "state", words |-> adapter.held,
         generation |-> adapter.generation] \in Message
    BY <1>2 DEF Message, IInv, TypeOK
  <2>2. posts \in Seq(Message) /\ MaxPosts \in Nat
    BY ConstantsAssumption DEF IInv, TypeOK
  <2>3. QED BY <1>1, <1>2, <2>1, <2>2
<1>4. TypeOK'
  BY <1>1, <1>3 DEF IInv, TypeOK
<1>5. PostIsPlanned' /\ OddWhileWriting' /\ OverlapCounted' /\ ReadIsCurrent'
  BY <1>1 DEF IInv, TypeOK, PostIsPlanned, OddWhileWriting, OverlapCounted,
     ReadIsCurrent, Writing, Reading
<1>6. QED BY <1>4, <1>5 DEF IInv

(* The page asks for a reset or a mask.                                     *)
LEMMA RequestInductive ==
  ASSUME IInv, RequestReset \/ \E m \in Values : SetInputMask(m)
  PROVE  IInv'
<1>1. PICK message \in Message : posts' = Append(posts, message)
  BY DEF RequestReset, SetInputMask, Message
<1>2. /\ adapter.pc = "idle" /\ Len(posts) < MaxPosts
      /\ UNCHANGED <<adapter, sab, reader, worker, core, unapplied>>
  BY DEF RequestReset, SetInputMask, RoomToPost
<1>3. posts' \in Seq(Message) /\ Len(posts') <= MaxPosts
  BY <1>1, <1>2, ConstantsAssumption DEF IInv, TypeOK
<1>4. TypeOK'
  BY <1>2, <1>3 DEF IInv, TypeOK
<1>5. PostIsPlanned' /\ OddWhileWriting' /\ OverlapCounted' /\ ReadIsCurrent'
  BY <1>2 DEF IInv, PostIsPlanned, OddWhileWriting, OverlapCounted,
     ReadIsCurrent, Writing, Reading
<1>6. QED BY <1>4, <1>5 DEF IInv
-----------------------------------------------------------------------------
(* What the worker does leaves the main thread and shared memory alone.    *)
LEMMA HistoryTyped ==
  ASSUME IInv, NEW g
  PROVE  After(g) \in Seq([words : States, generation : Generations])
<1>1. CASE OfferOf(g) = {}
  BY <1>1 DEF After, IInv, TypeOK
<1>2. CASE OfferOf(g) # {}
  <2> DEFINE i == CHOOSE j \in OfferOf(g) : TRUE
  <2>1. i \in 1 .. Len(unapplied)
    BY <1>2 DEF OfferOf, IInv, TypeOK
  <2> HIDE DEF i
  <2>2. SubSeq(unapplied, i + 1, Len(unapplied))
          \in Seq([words : States, generation : Generations])
    <3> DEFINE Offer == [words : States, generation : Generations]
    <3>1. unapplied \in Seq(Offer) /\ Len(unapplied) \in Nat
      BY DEF IInv, TypeOK
    <3> HIDE DEF Offer
    <3>2. \A j \in i + 1 .. Len(unapplied) : unapplied[j] \in Offer
      BY <2>1, <3>1
    <3>3. i + 1 \in Int /\ Len(unapplied) \in Int
      BY <2>1, <3>1
    <3>4. SubSeq(unapplied, i + 1, Len(unapplied)) \in Seq(Offer)
      BY <3>2, <3>3, SubSeqProperties
    <3>5. QED BY <3>4 DEF Offer
  <2>3. After(g) = SubSeq(unapplied, i + 1, Len(unapplied))
    BY <1>2 DEF After, i
  <2>4. QED BY <2>2, <2>3
<1>3. QED BY <1>1, <1>2

WorkerTyped ==
  /\ worker \in [last : Generations, mask : Values]
  /\ core \in [words : [Words -> Values], generation : Generations]
  /\ unapplied \in Seq([words : States, generation : Generations])

(* A snapshot that is applied has its type.                                 *)
LEMMA ApplyTyped ==
  ASSUME IInv, NEW ws \in [Words -> Values], NEW g \in Generations,
         ApplyInputStateSnapshot(ws, g)
  PROVE  WorkerTyped'
<1>1. ws[1] \in Values
  BY ConstantsAssumption
<1>2. CASE Newer(g)
  <2>1. /\ worker' = [last |-> g, mask |-> ws[1]]
        /\ core' = [words |-> ws, generation |-> g]
        /\ unapplied' = After(g)
    BY <1>2 DEF ApplyInputStateSnapshot, CoreSetInputState
  <2>2. After(g) \in Seq([words : States, generation : Generations])
    BY HistoryTyped
  <2>3. QED BY <1>1, <2>1, <2>2 DEF WorkerTyped
<1>3. CASE ~Newer(g)
  BY <1>3 DEF ApplyInputStateSnapshot, WorkerTyped, IInv, TypeOK
<1>4. QED BY <1>2, <1>3

(* So has a mask that is set by message.                                    *)
LEMMA CoreSetInputMaskTyped ==
  ASSUME NEW m \in Values, CoreSetInputMask(m)
  PROVE  core' \in [words : [Words -> Values], generation : Generations]
<1>1. Pad(m, Centre) \in [Words -> Values]
  BY ConstantsAssumption DEF Pad
<1>2. 0 \in Generations
  BY ConstantsAssumption, GenerationAssumption DEF Generations
<1>3. QED BY <1>1, <1>2 DEF CoreSetInputMask

(* A step of the worker that ends a poll, or happens between two polls.    *)
LEMMA NotReadingAfter ==
  ASSUME IInv, UNCHANGED <<adapter, sab>>, ~Reading',
         posts' \in Seq(Message), Len(posts') <= Len(posts), WorkerTyped',
         reader' \in [pc : {"idle", "load", "check", "retry"},
                attempt : 0 .. MaxAttempts, before : 0 .. SequenceModulus - 1,
                overlap : 0 .. SequenceModulus - 1, words : [Words -> Values],
                loaded : 0 .. WordCount, generation : Generations]
  PROVE  IInv'
<1>1. Len(posts) \in Nat /\ Len(posts') \in Nat /\ MaxPosts \in Nat
  BY ConstantsAssumption DEF IInv, TypeOK
<1>2. TypeOK' /\ PostIsPlanned'
  BY <1>1 DEF IInv, TypeOK, PostIsPlanned, WorkerTyped
<1>3. OddWhileWriting' /\ OverlapCounted' /\ ReadIsCurrent'
  BY DEF IInv, OddWhileWriting, OverlapCounted, ReadIsCurrent, Writing
<1>4. QED BY <1>2, <1>3 DEF IInv

(* So has a reader at rest.                                                 *)
LEMMA IdleTyped ==
  /\ Idle \in [pc : {"idle", "load", "check", "retry"},
                attempt : 0 .. MaxAttempts, before : 0 .. SequenceModulus - 1,
                overlap : 0 .. SequenceModulus - 1, words : [Words -> Values],
                loaded : 0 .. WordCount, generation : Generations]
  /\ Idle.pc = "idle" /\ Idle.overlap = 0 /\ Idle.loaded = 0
<1>1. Neutral \in [Words -> Values]
  BY ConstantsAssumption DEF Neutral, Pad
<1>2. QED
  BY <1>1, ConstantsAssumption, SequenceAssumption, GenerationAssumption
  DEF Idle, Generations

(* The reader begins an attempt ...                                         *)
LEMMA LoadSequenceInductive ==
  ASSUME IInv, NEW a \in 0 .. MaxAttempts, LoadSequence(a),
         UNCHANGED <<adapter, sab, posts, worker, core, unapplied>>
  PROVE  IInv'
<1>1. /\ sab.sequence \in 0 .. SequenceModulus - 1 /\ SequenceModulus \in Nat
      /\ SequenceModulus > 2
  BY ConstantsAssumption, SequenceAssumption DEF IInv, TypeOK
<1>2. CASE IsEven(sab.sequence)
  <2>1. reader' = [Idle EXCEPT !.pc = "load", !.attempt = a,
                               !.before = sab.sequence]
    BY <1>2 DEF LoadSequence
  <2>2. /\ reader'.pc = "load" /\ reader'.before = sab.sequence
        /\ reader'.overlap = 0 /\ reader'.loaded = 0
    BY <2>1, IdleTyped
  <2>3. TypeOK'
    BY <1>1, <2>1, IdleTyped DEF IInv, TypeOK
  <2>4. sab.sequence = (sab.sequence + 0) % SequenceModulus
    BY <1>1
  <2>5. ~Writing'
    BY <1>2 DEF IInv, OddWhileWriting, Writing
  <2>6. OverlapCounted'
    BY <1>2, <2>2, <2>4, <2>5 DEF OverlapCounted
  <2>7. ReadIsCurrent'
    BY <2>2 DEF ReadIsCurrent
  <2>8. PostIsPlanned' /\ OddWhileWriting'
    BY DEF IInv, PostIsPlanned, OddWhileWriting, Writing
  <2>9. QED BY <2>3, <2>6, <2>7, <2>8 DEF IInv
<1>3. CASE ~IsEven(sab.sequence)
  <2>1. reader' = Idle
    BY <1>3 DEF LoadSequence
  <2>2. ~Reading'
    BY <2>1, IdleTyped DEF Reading
  <2>3. QED
    BY <2>1, <2>2, IdleTyped, NotReadingAfter DEF IInv, TypeOK, WorkerTyped
<1>4. QED BY <1>2, <1>3

(* ... loads one word ...                                                   *)
LEMMA LoadWordInductive == ASSUME IInv, LoadWord PROVE IInv'
<1> DEFINE w == reader.loaded + 1
<1>1. /\ reader.pc = "load" /\ w \in Words /\ reader.loaded \in 0 .. WordCount
      /\ reader' = [reader EXCEPT !.words[w] = sab.words[w], !.loaded = w]
      /\ UNCHANGED <<adapter, sab, posts, worker, core, unapplied>>
  BY ConstantsAssumption DEF LoadWord, IInv, TypeOK
<1>2. w \in 0 .. WordCount
  BY <1>1, ConstantsAssumption
<1>3. reader.loaded \in Nat /\ w = reader.loaded + 1
  BY <1>1
<1> HIDE DEF w
<1>4. TypeOK'
  <2>1. sab.words[w] \in Values
    BY <1>1 DEF IInv, TypeOK
  <2>2. QED BY <1>1, <1>2, <2>1 DEF IInv, TypeOK
<1>5. /\ reader'.pc = "load" /\ reader'.overlap = reader.overlap
      /\ reader'.before = reader.before /\ reader'.loaded = w
  BY <1>1 DEF IInv, TypeOK
<1>6. \A v \in Words : reader'.words[v] =
                         IF v = w THEN sab.words[w] ELSE reader.words[v]
  BY <1>1 DEF IInv, TypeOK
<1>7. ReadIsCurrent'
  <2>1. SUFFICES ASSUME reader.overlap = 0
                 PROVE  \A v \in 1 .. w : reader'.words[v] = sab'.words[v]
    BY <1>5 DEF ReadIsCurrent
  <2>2. \A v \in 1 .. reader.loaded : reader.words[v] = sab.words[v]
    BY <1>1, <2>1 DEF IInv, ReadIsCurrent, Reading
  <2>3. \A v \in 1 .. w : v \in Words /\ (v = w \/ v \in 1 .. reader.loaded)
    BY <1>1, <1>3, ConstantsAssumption
  <2>4. QED BY <1>1, <1>6, <2>2, <2>3
<1>8. PostIsPlanned' /\ OddWhileWriting' /\ OverlapCounted'
  BY <1>1, <1>5 DEF IInv, PostIsPlanned, OddWhileWriting, OverlapCounted,
     Writing, Reading
<1>9. QED BY <1>4, <1>7, <1>8 DEF IInv

(* ... and the generation,                                                  *)
LEMMA LoadGenerationInductive == ASSUME IInv, LoadGeneration PROVE IInv'
<1>1. /\ reader.pc = "load" /\ reader.loaded = WordCount
      /\ reader' = [reader EXCEPT !.pc = "check", !.generation = sab.generation]
      /\ UNCHANGED <<adapter, sab, posts, worker, core, unapplied>>
  BY DEF LoadGeneration
<1>2. TypeOK'
  BY <1>1 DEF IInv, TypeOK
<1>3. PostIsPlanned' /\ OddWhileWriting' /\ OverlapCounted' /\ ReadIsCurrent'
  BY <1>1 DEF IInv, TypeOK, PostIsPlanned, OddWhileWriting, OverlapCounted,
     ReadIsCurrent, Writing, Reading
<1>4. QED BY <1>2, <1>3 DEF IInv

(* accepts what it has read ...                                             *)
LEMMA AcceptInductive == ASSUME IInv, Accept PROVE IInv'
<1>1. /\ ApplyInputStateSnapshot(reader.words, reader.generation)
      /\ reader' = Idle /\ UNCHANGED <<adapter, sab, posts>>
  BY DEF Accept
<1>2. reader.words \in [Words -> Values] /\ reader.generation \in Generations
  BY DEF IInv, TypeOK
<1>3. WorkerTyped'
  BY <1>1, <1>2, ApplyTyped
<1>4. posts' \in Seq(Message) /\ Len(posts') <= Len(posts)
  BY <1>1 DEF IInv, TypeOK
<1>5. ~Reading'
  BY <1>1, IdleTyped DEF Reading
<1>6. QED BY <1>1, <1>3, <1>4, <1>5, IdleTyped, NotReadingAfter

(* ... or does not.                                                         *)
LEMMA RejectInductive == ASSUME IInv, Reject PROVE IInv'
<1>1. UNCHANGED <<adapter, sab, posts, worker, core, unapplied>>
  BY DEF Reject
<1>2. /\ reader' \in [pc : {"idle", "load", "check", "retry"},
                attempt : 0 .. MaxAttempts, before : 0 .. SequenceModulus - 1,
                overlap : 0 .. SequenceModulus - 1, words : [Words -> Values],
                loaded : 0 .. WordCount, generation : Generations]
      /\ reader'.pc \in {"idle", "retry"}
  <2>1. CASE reader.attempt < MaxAttempts
    <3>1. reader.attempt + 1 \in 0 .. MaxAttempts
      BY <2>1, ConstantsAssumption DEF IInv, TypeOK
    <3>2. reader' = [Idle EXCEPT !.pc = "retry", !.attempt = reader.attempt + 1]
      BY <2>1 DEF Reject
    <3>3. QED BY <3>1, <3>2, IdleTyped
  <2>2. CASE ~(reader.attempt < MaxAttempts)
    <3>1. reader' = Idle
      BY <2>2 DEF Reject
    <3>2. QED BY <3>1, IdleTyped
  <2>3. QED BY <2>1, <2>2
<1>3. ~Reading'
  BY <1>2 DEF Reading
<1>4. posts' \in Seq(Message) /\ Len(posts') <= Len(posts) /\ WorkerTyped'
  BY <1>1 DEF IInv, TypeOK, WorkerTyped
<1>5. QED BY <1>1, <1>2, <1>3, <1>4, NotReadingAfter

(* The worker receives a post.                                              *)
LEMMA ReceiveInductive == ASSUME IInv, Receive PROVE IInv'
<1>1. /\ reader.pc = "idle" /\ posts # <<>> /\ posts' = Tail(posts)
      /\ UNCHANGED <<adapter, sab, reader>>
  BY DEF Receive, ReceiveState, ReceiveReset, ReceiveMask, Receives
<1>2. /\ Head(posts) \in Message /\ Tail(posts) \in Seq(Message)
      /\ Len(Tail(posts)) <= Len(posts)
  BY <1>1 DEF IInv, TypeOK
<1>3. WorkerTyped'
  <2>1. CASE ReceiveState
    <3>1. /\ Head(posts).type = "state"
          /\ ApplyInputStateSnapshot(Head(posts).words, Head(posts).generation)
      BY <2>1 DEF ReceiveState, Receives
    <3>2. Head(posts).words \in States /\ Head(posts).generation \in Generations
      BY <1>2, <3>1 DEF Message
    <3>3. States \subseteq [Words -> Values]
      BY ConstantsAssumption DEF States, Pad
    <3>4. QED BY <3>1, <3>2, <3>3, ApplyTyped
  <2>2. CASE ReceiveReset
    <3>1. worker.mask \in Values
      BY DEF IInv, TypeOK
    <3>2. CoreSetInputMask(worker.mask) /\ UNCHANGED <<worker, unapplied>>
      BY <2>2 DEF ReceiveReset
    <3>3. QED
      BY <3>1, <3>2, CoreSetInputMaskTyped DEF WorkerTyped, IInv, TypeOK
  <2>3. CASE ReceiveMask
    <3>1. /\ Head(posts).type = "mask"
          /\ worker' = [worker EXCEPT !.mask = Head(posts).mask]
          /\ CoreSetInputMask(Head(posts).mask) /\ UNCHANGED unapplied
      BY <2>3 DEF ReceiveMask, Receives
    <3>2. Head(posts).mask \in Values
      BY <1>2, <3>1 DEF Message
    <3>3. QED
      BY <3>1, <3>2, CoreSetInputMaskTyped DEF WorkerTyped, IInv, TypeOK
  <2>4. QED BY <2>1, <2>2, <2>3 DEF Receive
<1>4. ~Reading'
  BY <1>1 DEF Reading
<1>5. QED BY <1>1, <1>2, <1>3, <1>4, NotReadingAfter DEF IInv, TypeOK

(* Every step keeps the invariant.                                          *)
LEMMA NextInductive == IInv /\ [Next]_vars => IInv'
<1> SUFFICES ASSUME IInv, [Next]_vars PROVE IInv'
  OBVIOUS
<1>1. CASE \E s \in States : SetInputState(s)
  BY <1>1, SetInputStateInductive
<1>2. CASE OpenWrite
  BY <1>2, OpenWriteInductive
<1>3. CASE StoreWord
  BY <1>3, StoreWordInductive
<1>4. CASE StoreGeneration
  BY <1>4, StoreGenerationInductive
<1>5. CASE CloseWrite
  BY <1>5, CloseWriteInductive
<1>6. CASE Post
  BY <1>6, PostInductive
<1>7. CASE RequestReset \/ \E m \in Values : SetInputMask(m)
  BY <1>7, RequestInductive
<1>8. CASE BeginPoll
  <2>1. 1 \in 0 .. MaxAttempts
    BY ConstantsAssumption
  <2>2. QED BY <1>8, <2>1, LoadSequenceInductive DEF BeginPoll
<1>9. CASE LoadWord
  BY <1>9, LoadWordInductive
<1>10. CASE LoadGeneration
  BY <1>10, LoadGenerationInductive
<1>11. CASE Accept
  BY <1>11, AcceptInductive
<1>12. CASE Reject
  BY <1>12, RejectInductive
<1>13. CASE Retry
  <2>1. reader.attempt \in 0 .. MaxAttempts
    BY DEF IInv, TypeOK
  <2>2. QED BY <1>13, <2>1, LoadSequenceInductive DEF Retry
<1>14. CASE Receive
  BY <1>14, ReceiveInductive
<1>15. CASE UNCHANGED vars
  BY <1>15 DEF vars, IInv, TypeOK, PostIsPlanned, OddWhileWriting, OverlapCounted,
     ReadIsCurrent, Writing, Reading
<1>16. QED
  BY <1>1, <1>2, <1>3, <1>4, <1>5, <1>6, <1>7, <1>8, <1>9, <1>10, <1>11, <1>12,
     <1>13, <1>14, <1>15 DEF Next, Receive

(* Functions with the same values are the same.                             *)
LEMMA SameValues ==
  ASSUME NEW S, NEW T, NEW f \in [S -> T], NEW g \in [S -> T],
         \A x \in S : f[x] = g[x]
  PROVE  f = g
OBVIOUS

(* What a reader sees when no store came between is one state.              *)
LEMMA IInvImpliesNoTornSnapshot == IInv => NoTornSnapshot
<1> SUFFICES ASSUME IInv, reader.pc = "check", Unchanged
             PROVE  /\ reader.generation = sab.generation
                    /\ reader.words = sab.words
                    /\ adapter.pc \in {"idle", "open", "post"}
  BY DEF NoTornSnapshot
<1>1. /\ reader.before \in 0 .. SequenceModulus - 1
      /\ reader.overlap \in 0 .. SequenceModulus - 1
      /\ SequenceModulus \in Nat \ {0}
  BY ConstantsAssumption, SequenceAssumption DEF IInv, TypeOK
<1>2. /\ IsEven(reader.before)
      /\ reader.before = (reader.before + reader.overlap) % SequenceModulus
      /\ sab.sequence = reader.before
  BY DEF IInv, OverlapCounted, Reading, Unchanged
<1>3. reader.overlap = 0
  <2>1. reader.before % SequenceModulus = reader.before
    BY <1>1
  <2>2. reader.before < reader.before + reader.overlap =>
          reader.before % SequenceModulus
            # (reader.before + reader.overlap) % SequenceModulus
    <3>1. /\ reader.before \in Int /\ reader.before + reader.overlap \in Int
          /\ reader.before + reader.overlap < reader.before + SequenceModulus
      BY <1>1
    <3>2. QED BY <1>1, <3>1, ModDistinct
  <2>3. QED BY <1>1, <1>2, <2>1, <2>2
<1>4. /\ \A w \in 1 .. WordCount : reader.words[w] = sab.words[w]
      /\ reader.generation = sab.generation
  BY <1>3 DEF IInv, ReadIsCurrent, Reading
<1>5. reader.words = sab.words
  <2>1. reader.words \in [Words -> Values] /\ sab.words \in [Words -> Values]
    BY DEF IInv, TypeOK
  <2>2. \A w \in Words : reader.words[w] = sab.words[w]
    BY <1>4
  <2> HIDE DEF Words
  <2>3. QED BY <2>1, <2>2, SameValues
<1>6. ~Writing
  BY <1>2 DEF IInv, OddWhileWriting
<1>7. adapter.pc \in {"idle", "open", "post"}
  BY <1>6 DEF IInv, TypeOK, Writing
<1>8. QED BY <1>4, <1>5, <1>7

(* For every width, word count and retry limit the state has its type:     *)
(* generation 0 is skipped, posts stay bounded, no counter leaves a word.  *)
THEOREM TypeCorrect == Spec => []TypeOK
<1>1. IInv => TypeOK
  BY DEF IInv
<1>2. QED BY <1>1, InitInductive, NextInductive, PTL DEF Spec

(* The words and the generation that writeInputStateSnapshot stores one by *)
(* one are read together or not at all: readInputStateSnapshot never hands *)
(* over a mixture of two states, as long as a poll is not overtaken by     *)
(* half a sequence word's worth of writes.                                 *)
THEOREM SnapshotsAreNeverTorn == Spec => []NoTornSnapshot
<1>1. QED
  BY InitInductive, NextInductive, IInvImpliesNoTornSnapshot, PTL DEF Spec

-----------------------------------------------------------------------------
(* The race of the two paths.  The counter of generations skips 0 when it  *)
(* wraps; nothing the model looks at is more than MaxPosts offers behind   *)
(* the newest, so comparing by half the modulus tells the order.           *)
Forward(g, k) ==
  IF g + k < GenerationModulus THEN g + k ELSE g + k - GenerationModulus + 1
Behind(g, k) == Forward(g, k) = adapter.generation
Pending == IF adapter.pc = "idle" THEN 0 ELSE 1
Offers == Len(unapplied)
IsState(i) == posts[i].type = "state"

(* A post is at most as far behind the newest offer as posts follow it,    *)
(* and holds the state that was offered with its generation.               *)
PostsInOrder ==
  /\ adapter.pc # "idle" => adapter.generation # 0
  /\ \A i \in 1 .. Len(posts) : IsState(i) =>
       /\ posts[i].generation # 0
       /\ \E k \in 0 .. Len(posts) - i + Pending : Behind(posts[i].generation, k)
       /\ \A j \in 1 .. Offers :
            unapplied[j].generation = posts[i].generation => unapplied[j].words = posts[i].words

(* The states the worker has yet to take up are the newest ones, in order, *)
(* and each is under way to it.                                            *)
OffersInOrder ==
  /\ Offers <= Len(posts) + Pending
  /\ Behind(worker.last, Offers)
  /\ \A j \in 1 .. Offers :
       unapplied[j].generation # 0 /\ Behind(unapplied[j].generation, Offers - j)
  /\ Offers > 0 => unapplied[Offers].words = adapter.held
OffersArePosted ==
  \A j \in 1 .. Offers :
    \/ j = Offers /\ Pending = 1
    \/ \E i \in 1 .. Len(posts) : IsState(i) /\ posts[i].generation = unapplied[j].generation

(* Shared memory holds the newest offer, or the one before while that one  *)
(* is being written.                                                       *)
MemoryIsRecent ==
  IF adapter.shared
  THEN /\ adapter.pc \in {"open", "store"} => Behind(sab.generation, 1)
       /\ adapter.pc \in {"close", "post", "idle"} => Behind(sab.generation, 0)
       /\ adapter.pc = "open" /\ Offers > 1 => sab.words = unapplied[Offers - 1].words
       /\ adapter.pc = "store" =>
            \A w \in 1 .. adapter.stored : sab.words[w] = adapter.held[w]
       /\ adapter.pc \in {"close", "post", "idle"} /\ Offers > 0 => sab.words = adapter.held
       /\ adapter.pc # "store" => adapter.stored = 0
  ELSE adapter.pc \in {"idle", "post"} /\ reader.pc = "idle"

(* The mask to re-apply is the pad's, and only what the page may call is   *)
(* called.                                                                 *)
CallsAreMade ==
  /\ worker.mask = core.words[1]
  /\ \A i \in 1 .. Len(posts) : posts[i].type # "state" => posts[i].type \in adapter.calls

OInv == PostsInOrder /\ OffersInOrder /\ OffersArePosted /\ MemoryIsRecent /\ CallsAreMade

(* How generations lie.                                                    *)
LEMMA Bounds ==
  /\ GenerationModulus \in Nat /\ MaxPosts \in Nat \ {0}
  /\ GenerationModulus > 2 * (MaxPosts + 2)
  /\ Generations = 0 .. GenerationModulus - 1
  BY ConstantsAssumption, GenerationAssumption DEF Generations

(* One more offer is one more step.                                        *)
LEMMA ForwardNext ==
  ASSUME NEW g \in Generations, NEW k \in 0 .. MaxPosts
  PROVE  NextGeneration(Forward(g, k)) = Forward(g, k + 1)
<1>1. Forward(g, k) \in 0 .. GenerationModulus - 1 /\ g \in Nat /\ k \in Nat /\ GenerationModulus \in Nat
  BY Bounds DEF Forward
<1>2. CASE Forward(g, k) + 1 = GenerationModulus
  <2>1. (Forward(g, k) + 1) % GenerationModulus = 0
    BY <1>1, <1>2
  <2>2. QED BY <1>1, <1>2, <2>1, Bounds DEF NextGeneration, Forward
<1>3. CASE Forward(g, k) + 1 # GenerationModulus
  <2>1. (Forward(g, k) + 1) % GenerationModulus = Forward(g, k) + 1
    BY <1>1, <1>3
  <2>2. QED BY <1>1, <1>3, <2>1, Bounds DEF NextGeneration, Forward
<1>4. QED BY <1>2, <1>3

(* A generation is behind the newest by one number only, and by a number   *)
(* there is one generation.                                                *)
LEMMA ForwardOnce ==
  ASSUME NEW g \in Generations, NEW k \in 0 .. MaxPosts + 1, NEW m \in 0 .. MaxPosts + 1
  PROVE  /\ Forward(g, 0) = g
         /\ Forward(g, k) = Forward(g, m) => k = m
         /\ \A h \in Generations :
              g # 0 /\ h # 0 /\ Forward(g, k) = Forward(h, k) => g = h
  BY Bounds DEF Forward

(* The comparison of two generations tells which is the newer.             *)
LEMMA CompareIs ==
  ASSUME NEW g \in Generations, NEW l \in Generations, g # 0,
         NEW k \in 0 .. MaxPosts + 1, NEW u \in 0 .. MaxPosts + 1,
         Forward(g, k) = Forward(l, u)
  PROVE  CompareInputGenerations(g, l) = 1 <=> k < u
<1> DEFINE delta == (g - l) % GenerationModulus
<1>1. /\ g \in Nat /\ l \in Nat /\ k \in Nat /\ u \in Nat /\ g < GenerationModulus
      /\ l < GenerationModulus
  BY Bounds
<1>2. delta = IF g >= l THEN g - l ELSE g - l + GenerationModulus
  BY <1>1, Bounds
<1> HIDE DEF delta
<1>3. k < u => delta # 0 /\ 2 * delta < GenerationModulus
  BY <1>1, <1>2, Bounds DEF Forward
<1>4. ~(k < u) => delta = 0 \/ ~(2 * delta < GenerationModulus)
  BY <1>1, <1>2, Bounds DEF Forward
<1>5. QED BY <1>3, <1>4 DEF CompareInputGenerations, delta

(* What the proof uses of the types.                                       *)
LEMMA Typed ==
  ASSUME IInv
  PROVE  /\ adapter.generation \in Generations /\ worker.last \in Generations
         /\ sab.generation \in Generations
         /\ Offers \in Nat /\ Len(posts) \in Nat /\ Pending \in 0 .. 1
         /\ Len(posts) + Pending <= MaxPosts
         /\ unapplied \in Seq([words : States, generation : Generations])
         /\ posts \in Seq(Message)
         /\ \A j \in 1 .. Offers :
              unapplied[j].generation \in Generations /\ unapplied[j].words \in States
         /\ \A i \in 1 .. Len(posts) : IsState(i) =>
              posts[i].generation \in Generations /\ posts[i].words \in States
<1>1. /\ adapter.generation \in Generations /\ worker.last \in Generations
      /\ sab.generation \in Generations
  BY DEF IInv, TypeOK
<1>2. /\ unapplied \in Seq([words : States, generation : Generations])
      /\ posts \in Seq(Message) /\ Offers \in Nat /\ Len(posts) \in Nat
      /\ Pending \in 0 .. 1 /\ Len(posts) + Pending <= MaxPosts
  BY Bounds DEF IInv, TypeOK, PostIsPlanned, Pending, Offers
<1>3. \A j \in 1 .. Offers :
        unapplied[j].generation \in Generations /\ unapplied[j].words \in States
  <2>1. \A j \in 1 .. Len(unapplied) :
          unapplied[j] \in [words : States, generation : Generations]
    BY <1>2, ElementOfSeq
  <2>2. QED BY <2>1 DEF Offers
<1>4. ASSUME NEW i \in 1 .. Len(posts), IsState(i)
      PROVE  posts[i].generation \in Generations /\ posts[i].words \in States
  <2>1. posts[i] \in Message
    BY <1>2
  <2>2. QED BY <2>1, <1>4 DEF Message, IsState
<1>5. QED BY <1>1, <1>2, <1>3, <1>4

(* A state k offers behind the newest is newer than the worker's last      *)
(* exactly if it is among those not taken up, and then it is that one.     *)
LEMMA NewerIsOffered ==
  ASSUME IInv, OffersInOrder, NEW g \in Generations \ {0}, NEW k \in 0 .. MaxPosts,
         Behind(g, k)
  PROVE  /\ Newer(g) <=> k < Offers
         /\ Newer(g) =>
              /\ OfferOf(g) = {Offers - k} /\ Offers - k \in 1 .. Offers
              /\ Len(After(g)) = k
              /\ \A j \in 1 .. k : After(g)[j] = unapplied[Offers - k + j]
              /\ After(g) \in Seq([words : States, generation : Generations])
<1>1. Offers \in Nat /\ Offers <= MaxPosts /\ MaxPosts \in Nat
  BY Typed, Bounds DEF OffersInOrder
<1>2. Newer(g) <=> k < Offers
  <2>1. Forward(g, k) = Forward(worker.last, Offers)
    BY DEF Behind, OffersInOrder
  <2>2. k \in 0 .. MaxPosts + 1 /\ Offers \in 0 .. MaxPosts + 1 /\ worker.last \in Generations
    BY <1>1, Typed
  <2>3. CompareInputGenerations(g, worker.last) = 1 <=> k < Offers
    BY <2>1, <2>2, CompareIs
  <2>4. QED BY <2>3 DEF Newer
<1>3. ASSUME k < Offers
      PROVE  /\ OfferOf(g) = {Offers - k} /\ Offers - k \in 1 .. Offers
             /\ Len(After(g)) = k
             /\ \A j \in 1 .. k : After(g)[j] = unapplied[Offers - k + j]
             /\ After(g) \in Seq([words : States, generation : Generations])
  <2>1. PICK m \in 1 .. Offers : m = Offers - k
    BY <1>1, <1>3
  <2>2. k = Offers - m
    BY <1>1, <2>1
  <2>3. unapplied[m].generation = g
    <3>1. /\ unapplied[m].generation # 0 /\ Behind(unapplied[m].generation, k)
          /\ unapplied[m].generation \in Generations
      BY <2>2, Typed DEF OffersInOrder
    <3>2. Forward(g, k) = Forward(unapplied[m].generation, k)
      BY <3>1 DEF Behind
    <3>3. k \in 0 .. MaxPosts + 1
      BY <1>1
    <3>4. QED BY <3>1, <3>2, <3>3, ForwardOnce
  <2>4. ASSUME NEW j \in 1 .. Offers, unapplied[j].generation = g
        PROVE  j = m
    <3>1. Forward(g, Offers - j) = Forward(g, k)
      BY <2>4 DEF OffersInOrder, Behind
    <3>2. Offers - j \in 0 .. MaxPosts + 1 /\ k \in 0 .. MaxPosts + 1
      BY <1>1
    <3>3. Offers - j = k
      BY <3>1, <3>2, ForwardOnce
    <3>4. QED BY <1>1, <2>1, <3>3
  <2>5. DOMAIN unapplied = 1 .. Offers
    BY Typed DEF Offers
  <2>6. OfferOf(g) = {m}
    BY <2>3, <2>4, <2>5 DEF OfferOf
  <2>7. After(g) = SubSeq(unapplied, m + 1, Len(unapplied))
    BY <2>6 DEF After
  <2>8. /\ SubSeq(unapplied, m + 1, Offers) \in Seq([words : States, generation : Generations])
        /\ Len(SubSeq(unapplied, m + 1, Offers)) = k
        /\ \A j \in 1 .. k : SubSeq(unapplied, m + 1, Offers)[j] = unapplied[m + j]
    <3> DEFINE T == [words : States, generation : Generations]
    <3>1. PICK f \in Int : f = m + 1
      OBVIOUS
    <3>2. Offers \in Int /\ \A i \in f .. Offers : unapplied[i] \in T
      <4>1. unapplied \in Seq(T)
        BY Typed
      <4> HIDE DEF T
      <4>2. \A i \in 1 .. Len(unapplied) : unapplied[i] \in T
        BY <4>1, ElementOfSeq
      <4>3. \A i \in f .. Offers : i \in 1 .. Len(unapplied)
        BY <1>1, <2>1, <3>1 DEF Offers
      <4>4. QED BY <1>1, <4>2, <4>3
    <3> HIDE DEF T
    <3>3. /\ SubSeq(unapplied, f, Offers) \in Seq(T)
          /\ Len(SubSeq(unapplied, f, Offers)) = IF f <= Offers THEN Offers - f + 1 ELSE 0
          /\ \A i \in 1 .. Offers - f + 1 : SubSeq(unapplied, f, Offers)[i] = unapplied[f + i - 1]
      BY <3>2, SubSeqProperties
    <3>4. Offers - f + 1 = k /\ (~(f <= Offers) => k = 0) /\ \A j \in 1 .. k : f + j - 1 = m + j
      BY <1>1, <2>2, <3>1
    <3>5. QED BY <3>1, <3>3, <3>4 DEF T
  <2>9. QED BY <2>1, <2>6, <2>7, <2>8 DEF Offers
<1>4. QED BY <1>2, <1>3

(* It holds at the start.                                                  *)
LEMMA OffersInit == Init => OInv
<1> SUFFICES ASSUME Init PROVE OInv
  OBVIOUS
<1>1. /\ Offers = 0 /\ Pending = 0 /\ posts = <<>> /\ Len(posts) = 0
      /\ adapter.pc = "idle" /\ adapter.generation = 0 /\ adapter.stored = 0
      /\ sab.generation = 0 /\ worker.last = 0 /\ reader.pc = "idle"
  BY DEF Init, Offers, Pending, Idle
<1>2. Forward(0, 0) = 0
  BY Bounds DEF Forward
<1>3. PostsInOrder /\ OffersInOrder /\ OffersArePosted /\ MemoryIsRecent
  BY <1>1, <1>2 DEF PostsInOrder, OffersInOrder, OffersArePosted, MemoryIsRecent, Behind
<1>4. worker.mask = core.words[1]
  BY ConstantsAssumption DEF Init, Neutral, Pad
<1>5. QED BY <1>1, <1>3, <1>4 DEF OInv, CallsAreMade

(* While the main thread stores one state, nothing else moves.             *)
LEMMA QueuesUnchanged ==
  ASSUME OInv, UNCHANGED <<posts, worker, core, unapplied>>,
         adapter'.generation = adapter.generation, adapter'.held = adapter.held,
         adapter'.calls = adapter.calls, adapter'.pc = "idle" <=> adapter.pc = "idle"
  PROVE  PostsInOrder' /\ OffersInOrder' /\ OffersArePosted' /\ CallsAreMade'
<1>1. Offers' = Offers /\ Pending' = Pending
  BY DEF Offers, Pending
<1>2. PostsInOrder' /\ OffersInOrder'
  BY <1>1 DEF OInv, PostsInOrder, OffersInOrder, Behind, IsState
<1>3. OffersArePosted' /\ CallsAreMade'
  BY <1>1 DEF OInv, OffersArePosted, CallsAreMade, IsState
<1>4. QED BY <1>2, <1>3

(* The writes to shared memory.                                            *)
LEMMA WritesKeepOffers ==
  ASSUME IInv, OInv, OpenWrite \/ StoreWord \/ StoreGeneration \/ CloseWrite
  PROVE  OInv'
<1>1. /\ UNCHANGED <<posts, worker, core, unapplied>>
      /\ adapter'.generation = adapter.generation /\ adapter'.held = adapter.held
      /\ adapter'.calls = adapter.calls /\ adapter'.shared = adapter.shared
      /\ adapter'.pc # "idle" /\ adapter.pc # "idle"
  BY DEF OpenWrite, StoreWord, StoreGeneration, CloseWrite, IInv, TypeOK
<1>2. adapter.shared /\ Offers' = Offers
  BY DEF OInv, MemoryIsRecent, OpenWrite, StoreWord, StoreGeneration, CloseWrite, Offers
<1>3. CASE OpenWrite
  <2>1. /\ adapter.pc = "open" /\ adapter'.pc = "store" /\ sab'.generation = sab.generation
        /\ adapter.stored = 0 /\ adapter'.stored = 0
    BY <1>2, <1>3 DEF OInv, MemoryIsRecent, OpenWrite, StoreSequence, IInv, TypeOK
  <2>2. MemoryIsRecent'
    BY <1>1, <1>2, <2>1 DEF OInv, MemoryIsRecent, Behind
  <2>3. QED BY <1>1, <2>2, QueuesUnchanged DEF OInv
<1>4. CASE StoreWord
  <2>1. /\ adapter.pc = "store" /\ adapter'.pc = "store" /\ sab'.generation = sab.generation
        /\ adapter'.stored = adapter.stored + 1
        /\ adapter.stored \in 0 .. WordCount - 1
    BY <1>4, ConstantsAssumption DEF StoreWord, IInv, TypeOK
  <2>2. \A w \in 1 .. adapter.stored + 1 : sab'.words[w] = adapter.held[w]
    <3>1. sab.words \in [Words -> Values] /\ adapter.stored + 1 \in Words
      BY <2>1, ConstantsAssumption DEF IInv, TypeOK
    <3>2. sab'.words = [sab.words EXCEPT ![adapter.stored + 1] = adapter.held[adapter.stored + 1]]
      BY <1>4 DEF StoreWord, IInv, TypeOK
    <3>3. \A w \in 1 .. adapter.stored : sab.words[w] = adapter.held[w]
      BY <1>2, <2>1 DEF OInv, MemoryIsRecent
    <3>4. QED BY <2>1, <3>1, <3>2, <3>3, ConstantsAssumption
  <2>3. MemoryIsRecent'
    BY <1>1, <1>2, <2>1, <2>2 DEF OInv, MemoryIsRecent, Behind
  <2>4. QED BY <1>1, <2>3, QueuesUnchanged DEF OInv
<1>5. CASE StoreGeneration
  <2>1. /\ adapter.pc = "store" /\ adapter'.pc = "close" /\ adapter'.stored = 0
        /\ sab'.generation = adapter.generation /\ sab'.words = sab.words
        /\ adapter.stored = WordCount
    BY <1>5 DEF StoreGeneration, IInv, TypeOK
  <2>2. sab.words = adapter.held
    <3>1. \A w \in Words : sab.words[w] = adapter.held[w]
      BY <1>2, <2>1 DEF OInv, MemoryIsRecent
    <3>2. sab.words \in [Words -> Values] /\ adapter.held \in [Words -> Values]
      BY <1>1, ConstantsAssumption DEF IInv, TypeOK, PostIsPlanned, States, Pad
    <3> HIDE DEF Words
    <3>3. QED BY <3>1, <3>2, SameValues
  <2>3. Forward(adapter.generation, 0) = adapter.generation
    BY Bounds, Typed DEF Forward
  <2>4. MemoryIsRecent'
    BY <1>1, <1>2, <2>1, <2>2, <2>3 DEF MemoryIsRecent, Behind
  <2>5. QED BY <1>1, <2>4, QueuesUnchanged DEF OInv
<1>6. CASE CloseWrite
  <2>1. /\ adapter.pc = "close" /\ adapter'.pc = "post" /\ sab'.generation = sab.generation
        /\ sab'.words = sab.words /\ adapter'.stored = adapter.stored
    BY <1>6 DEF CloseWrite, StoreSequence, IInv, TypeOK
  <2>2. MemoryIsRecent'
    BY <1>1, <1>2, <2>1 DEF OInv, MemoryIsRecent, Behind
  <2>3. QED BY <1>1, <2>2, QueuesUnchanged DEF OInv
<1>7. QED BY <1>3, <1>4, <1>5, <1>6

(* The reads of a poll, and its giving up.                                 *)
LEMMA ReadsKeepOffers ==
  ASSUME IInv, OInv, BeginPoll \/ LoadWord \/ LoadGeneration \/ Reject \/ Retry
  PROVE  OInv'
<1>1. UNCHANGED <<adapter, sab, posts, worker, core, unapplied>> /\ adapter.shared
  BY DEF BeginPoll, LoadWord, LoadGeneration, Reject, Retry, OInv, MemoryIsRecent
<1>2. Offers' = Offers
  BY <1>1 DEF Offers
<1>3. MemoryIsRecent'
  BY <1>1, <1>2 DEF OInv, MemoryIsRecent, Behind
<1>4. QED BY <1>1, <1>3, QueuesUnchanged DEF OInv

(* A new state moves every other one step further behind.                  *)
LEMMA SetInputStateKeepsOffers ==
  ASSUME IInv, OInv, NEW s \in States, SetInputState(s)
  PROVE  OInv'
<1> DEFINE g == NextGeneration(adapter.generation)
           A == adapter.generation
<1>1. /\ adapter.pc = "idle" /\ adapter'.pc # "idle" /\ Len(posts) < MaxPosts
      /\ adapter'.generation = g /\ adapter'.held = s /\ adapter'.calls = adapter.calls
      /\ adapter'.shared = adapter.shared /\ adapter'.stored = adapter.stored
      /\ adapter'.pc = IF adapter.shared THEN "open" ELSE "post"
      /\ UNCHANGED <<sab, posts, reader, worker, core>>
      /\ unapplied' = Append(unapplied, [words |-> s, generation |-> g])
  BY DEF SetInputState, RoomToPost, IInv, TypeOK
<1>2. Pending = 0 /\ Pending' = 1 /\ Len(posts) \in 0 .. MaxPosts - 1 /\ MaxPosts \in Nat
  BY <1>1, Typed, Bounds DEF Pending
<1>3. Offers' = Offers + 1 /\ Offers \in 0 .. MaxPosts - 1
  BY <1>1, <1>2, Typed DEF Offers, OInv, OffersInOrder
<1>4. /\ \A j \in 1 .. Offers : unapplied'[j] = unapplied[j]
      /\ unapplied'[Offers + 1] = [words |-> s, generation |-> g]
  BY <1>1, <1>3, Typed DEF Offers
<1>5. g # 0 /\ g \in Generations
  <2>1. A \in Generations
    BY Typed
  <2>2. (A + 1) % GenerationModulus \in 0 .. GenerationModulus - 1
    BY <2>1, Bounds
  <2>3. QED BY <2>2, Bounds DEF NextGeneration
<1>6. \A h \in Generations, k \in 0 .. MaxPosts : Behind(h, k) => Forward(h, k + 1) = g
  BY ForwardNext DEF Behind
<1>7. Forward(g, 0) = g
  BY <1>5, Bounds DEF Forward
<1> HIDE DEF g, A
<1>8. PostsInOrder'
  <2> SUFFICES ASSUME NEW i \in 1 .. Len(posts), IsState(i)
               PROVE  /\ posts[i].generation # 0
                      /\ \E k \in 0 .. Len(posts) - i + 1 : Forward(posts[i].generation, k) = g
                      /\ \A j \in 1 .. Offers + 1 :
                           unapplied'[j].generation = posts[i].generation
                             => unapplied'[j].words = posts[i].words
    BY <1>1, <1>2, <1>3, <1>5 DEF PostsInOrder, Behind, IsState
  <2>1. PICK k \in 0 .. Len(posts) - i : Behind(posts[i].generation, k)
    BY <1>2 DEF OInv, PostsInOrder
  <2>2. posts[i].generation \in Generations /\ posts[i].generation # 0
    BY Typed DEF OInv, PostsInOrder
  <2>3. k \in 0 .. MaxPosts /\ k + 1 \in 0 .. Len(posts) - i + 1 /\ k + 1 \in 0 .. MaxPosts + 1
    BY <1>2
  <2>4. Forward(posts[i].generation, k + 1) = g
    BY <1>6, <2>1, <2>2, <2>3
  <2>5. posts[i].generation # g
    <3>1. k + 1 # 0 /\ 0 \in 0 .. MaxPosts + 1
      BY <1>2
    <3>2. Forward(g, k + 1) # Forward(g, 0)
      BY <1>5, <2>3, <3>1, ForwardOnce
    <3>3. QED BY <1>7, <2>4, <3>2
  <2>6. ASSUME NEW j \in 1 .. Offers + 1, unapplied'[j].generation = posts[i].generation
        PROVE  unapplied'[j].words = posts[i].words
    <3>1. j # Offers + 1
      BY <1>4, <2>5, <2>6
    <3>2. j \in 1 .. Offers
      BY <1>3, <3>1
    <3>3. QED BY <1>4, <2>6, <3>2 DEF OInv, PostsInOrder
  <2>7. QED BY <2>2, <2>3, <2>4, <2>6
<1>9. OffersInOrder'
  <2>1. Offers + 1 <= Len(posts) + 1
    BY <1>2, <1>3, Typed DEF OInv, OffersInOrder
  <2>2. Forward(worker.last, Offers + 1) = g
    <3>1. worker.last \in Generations /\ Offers \in 0 .. MaxPosts /\ Behind(worker.last, Offers)
      BY <1>2, <1>3, Typed DEF OInv, OffersInOrder
    <3>2. QED BY <1>6, <3>1
  <2>3. ASSUME NEW j \in 1 .. Offers + 1
        PROVE  unapplied'[j].generation # 0 /\ Forward(unapplied'[j].generation, Offers + 1 - j) = g
    <3>1. CASE j = Offers + 1
      <4>1. Offers + 1 - j = 0
        BY <1>3, <3>1
      <4>2. QED BY <1>4, <1>5, <1>7, <3>1, <4>1
    <3>2. CASE j # Offers + 1
      <4>1. j \in 1 .. Offers /\ Offers - j \in 0 .. MaxPosts /\ Offers + 1 - j = (Offers - j) + 1
        BY <1>2, <1>3, <3>2
      <4>2. /\ unapplied[j].generation # 0 /\ unapplied[j].generation \in Generations
            /\ Behind(unapplied[j].generation, Offers - j)
        BY <4>1, Typed DEF OInv, OffersInOrder
      <4>3. QED BY <1>4, <1>6, <4>1, <4>2
    <3>3. QED BY <3>1, <3>2
  <2>4. unapplied'[Offers + 1].words = s
    BY <1>4
  <2>5. \A j \in 1 .. Offers' :
          unapplied'[j].generation # 0 /\ Forward(unapplied'[j].generation, Offers' - j) = g
    BY <1>3, <2>3
  <2>6. Offers' <= Len(posts') + Pending' /\ Forward(worker'.last, Offers') = g
    BY <1>1, <1>2, <1>3, <2>1, <2>2
  <2>7. unapplied'[Offers'].words = adapter'.held
    BY <1>1, <1>3, <2>4
  <2>8. QED BY <1>1, <2>5, <2>6, <2>7 DEF OffersInOrder, Behind
<1>10. OffersArePosted'
  <2>1. \A j \in 1 .. Offers + 1 :
          \/ j = Offers + 1
          \/ j \in 1 .. Offers /\ \E i \in 1 .. Len(posts) :
               IsState(i) /\ posts[i].generation = unapplied[j].generation
    BY <1>2, <1>3 DEF OInv, OffersArePosted
  <2>2. QED BY <1>1, <1>2, <1>3, <1>4, <2>1 DEF OffersArePosted, IsState
<1>11. MemoryIsRecent'
  <2>1. CASE adapter.shared
    <3>1. Behind(sab.generation, 0) /\ (Offers > 0 => sab.words = unapplied[Offers].words)
          /\ adapter.stored = 0
      BY <1>1, <2>1 DEF OInv, MemoryIsRecent, OffersInOrder
    <3>2. Forward(sab.generation, 1) = g
      <4>1. 0 \in 0 .. MaxPosts /\ 0 + 1 = 1
        BY <1>2
      <4>2. QED BY <1>6, <3>1, <4>1, Typed
    <3>3. Offers + 1 > 1 => Offers \in 1 .. Offers /\ (Offers + 1) - 1 = Offers
      BY <1>3
    <3>4. Offers + 1 > 1 => sab.words = unapplied'[(Offers + 1) - 1].words
      BY <1>3, <1>4, <3>1, <3>3
    <3>5. QED BY <1>1, <1>3, <2>1, <3>1, <3>2, <3>4 DEF MemoryIsRecent, Behind
  <2>2. CASE ~adapter.shared
    BY <1>1, <2>2 DEF OInv, MemoryIsRecent
  <2>3. QED BY <2>1, <2>2
<1>12. CallsAreMade'
  BY <1>1 DEF OInv, CallsAreMade
<1>13. QED BY <1>8, <1>9, <1>10, <1>11, <1>12 DEF OInv

(* A post is of the newest state.                                          *)
LEMMA PostKeepsOffers == ASSUME IInv, OInv, Post PROVE OInv'
<1> DEFINE n == Len(posts)
           m == [type |-> "state", words |-> adapter.held, generation |-> adapter.generation]
<1>1. /\ adapter.pc = "post" /\ adapter'.pc = "idle" /\ adapter.generation # 0
      /\ adapter'.generation = adapter.generation /\ adapter'.held = adapter.held
      /\ adapter'.calls = adapter.calls /\ adapter'.shared = adapter.shared
      /\ adapter'.stored = adapter.stored
      /\ UNCHANGED <<sab, reader, worker, core, unapplied>>
      /\ posts' = Append(posts, m)
  BY DEF Post, IInv, TypeOK, OInv, PostsInOrder
<1>2. Pending = 1 /\ Pending' = 0 /\ n \in Nat /\ Offers' = Offers /\ Offers \in Nat
  BY <1>1, Typed DEF Pending, Offers
<1>3. /\ Len(posts') = n + 1 /\ posts'[n + 1] = m
      /\ \A i \in 1 .. n : posts'[i] = posts[i]
  BY <1>1, <1>2, Typed
<1>4. Behind(adapter.generation, 0) /\ Offers <= MaxPosts /\ MaxPosts \in Nat
  BY <1>2, Typed, Bounds DEF Behind, Forward, OInv, OffersInOrder
<1>5. m.type = "state" /\ m.words = adapter.held /\ m.generation = adapter.generation
  OBVIOUS
<1> HIDE DEF n, m
<1>6. PostsInOrder'
  <2> SUFFICES ASSUME NEW i \in 1 .. n + 1, posts'[i].type = "state"
               PROVE  /\ posts'[i].generation # 0
                      /\ \E k \in 0 .. n + 1 - i : Behind(posts'[i].generation, k)
                      /\ \A j \in 1 .. Offers : unapplied[j].generation = posts'[i].generation
                           => unapplied[j].words = posts'[i].words
    BY <1>1, <1>2, <1>3 DEF PostsInOrder, Behind, IsState
  <2>1. CASE i = n + 1
    <3>1. 0 \in 0 .. n + 1 - i
      BY <1>2, <2>1
    <3>2. ASSUME NEW j \in 1 .. Offers, unapplied[j].generation = adapter.generation
          PROVE  unapplied[j].words = adapter.held
      <4>1. Forward(adapter.generation, Offers - j) = Forward(adapter.generation, 0)
        BY <1>4, <3>2 DEF Behind, OInv, OffersInOrder
      <4>2. Offers - j \in 0 .. MaxPosts + 1 /\ 0 \in 0 .. MaxPosts + 1
        BY <1>2, <1>4
      <4>3. Offers - j = 0
        BY <4>1, <4>2, Typed, ForwardOnce
      <4>4. j = Offers /\ Offers > 0
        BY <1>2, <4>3
      <4>5. QED BY <4>4 DEF OInv, OffersInOrder
    <3>3. QED BY <1>1, <1>3, <1>4, <1>5, <2>1, <3>1, <3>2
  <2>2. CASE i # n + 1
    <3>1. i \in 1 .. n /\ posts'[i] = posts[i] /\ n - i + 1 = n + 1 - i
      BY <1>2, <1>3, <2>2
    <3>2. QED BY <1>2, <3>1 DEF OInv, PostsInOrder, IsState, n
  <2>3. QED BY <2>1, <2>2
<1>7. OffersInOrder'
  <2>1. Offers <= n + 1
    BY <1>2 DEF OInv, OffersInOrder, n
  <2>2. QED BY <1>1, <1>2, <1>3, <2>1 DEF OInv, OffersInOrder, Behind
<1>8. OffersArePosted'
  <2> SUFFICES ASSUME NEW j \in 1 .. Offers
               PROVE  \E i \in 1 .. n + 1 : posts'[i].type = "state"
                        /\ posts'[i].generation = unapplied[j].generation
    BY <1>1, <1>2, <1>3 DEF OffersArePosted, IsState
  <2>1. CASE j = Offers
    <3>1. Forward(unapplied[j].generation, Offers - j) = adapter.generation
      BY DEF OInv, OffersInOrder, Behind
    <3>2. Offers - j = 0 /\ unapplied[j].generation \in Generations
      BY <1>2, <2>1, Typed
    <3>3. unapplied[j].generation = adapter.generation
      BY <3>1, <3>2, Bounds DEF Forward
    <3>4. n + 1 \in 1 .. n + 1
      BY <1>2
    <3>5. QED BY <1>3, <1>5, <3>3, <3>4
  <2>2. CASE j # Offers
    <3>1. PICK i \in 1 .. n : IsState(i) /\ posts[i].generation = unapplied[j].generation
      BY <2>2 DEF OInv, OffersArePosted, n
    <3>2. i \in 1 .. n + 1
      BY <1>2
    <3>3. QED BY <1>3, <3>1, <3>2 DEF IsState
  <2>3. QED BY <2>1, <2>2
<1>9. MemoryIsRecent'
  BY <1>1, <1>2 DEF OInv, MemoryIsRecent, Behind
<1>10. CallsAreMade'
  <2>1. \A i \in 1 .. n + 1 : posts'[i].type # "state" => posts'[i].type \in adapter.calls
    <3>1. \A i \in 1 .. n : posts'[i].type # "state" => posts'[i].type \in adapter.calls
      BY <1>3 DEF OInv, CallsAreMade, n
    <3>2. \A i \in 1 .. n + 1 : i = n + 1 \/ i \in 1 .. n
      BY <1>2
    <3>3. QED BY <1>3, <1>5, <3>1, <3>2
  <2>2. QED BY <1>1, <1>3, <2>1 DEF OInv, CallsAreMade
<1>11. QED BY <1>6, <1>7, <1>8, <1>9, <1>10 DEF OInv

(* A call between two states is one more post.                             *)
LEMMA CallKeepsOffers ==
  ASSUME IInv, OInv, NEW m \in Message, m.type # "state", m.type \in adapter.calls,
         Len(posts) < MaxPosts, adapter.pc = "idle", posts' = Append(posts, m),
         UNCHANGED <<adapter, sab, reader, worker, core, unapplied>>
  PROVE  OInv'
<1> DEFINE n == Len(posts)
<1>1. Pending = 0 /\ Pending' = 0 /\ n \in Nat /\ Offers' = Offers /\ Offers \in Nat
  BY Typed DEF Pending, Offers
<1>2. /\ Len(posts') = n + 1 /\ posts'[n + 1] = m
      /\ \A i \in 1 .. n : posts'[i] = posts[i]
  BY <1>1, Typed
<1>3. \A i \in 1 .. n + 1 : i = n + 1 \/ i \in 1 .. n
  BY <1>1
<1> HIDE DEF n
<1>4. PostsInOrder'
  <2> SUFFICES ASSUME NEW i \in 1 .. n + 1, posts'[i].type = "state"
               PROVE  /\ posts'[i].generation # 0
                      /\ \E k \in 0 .. n + 1 - i : Behind(posts'[i].generation, k)
                      /\ \A j \in 1 .. Offers : unapplied[j].generation = posts'[i].generation
                           => unapplied[j].words = posts'[i].words
    BY <1>1, <1>2 DEF PostsInOrder, Behind, IsState
  <2>1. i \in 1 .. n /\ posts'[i] = posts[i]
    BY <1>2, <1>3
  <2>2. PICK k \in 0 .. n - i : Behind(posts[i].generation, k)
    BY <1>1, <2>1 DEF OInv, PostsInOrder, IsState, n
  <2>3. k \in 0 .. n + 1 - i
    BY <1>1, <2>1
  <2>4. QED BY <2>1, <2>2, <2>3 DEF OInv, PostsInOrder, IsState, n
<1>5. OffersInOrder'
  <2>1. Offers <= n + 1
    BY <1>1 DEF OInv, OffersInOrder, n
  <2>2. QED BY <1>1, <1>2, <2>1 DEF OInv, OffersInOrder, Behind
<1>6. OffersArePosted'
  <2>1. \A i \in 1 .. n : i \in 1 .. n + 1 /\ posts'[i] = posts[i]
    BY <1>1, <1>2
  <2>2. QED BY <1>1, <1>2, <2>1 DEF OInv, OffersArePosted, IsState, n
<1>7. MemoryIsRecent'
  BY <1>1 DEF OInv, MemoryIsRecent, Behind
<1>8. CallsAreMade'
  BY <1>2, <1>3 DEF OInv, CallsAreMade, n
<1>9. QED BY <1>4, <1>5, <1>6, <1>7, <1>8 DEF OInv

(* Which both other calls are.                                             *)
LEMMA RequestsKeepOffers ==
  ASSUME IInv, OInv, RequestReset \/ \E m \in Values : SetInputMask(m)
  PROVE  OInv'
<1>1. CASE RequestReset
  <2>1. [type |-> "reset"] \in Message
    BY DEF Message
  <2>2. QED BY <1>1, <2>1, CallKeepsOffers DEF RequestReset, RoomToPost
<1>2. CASE \E m \in Values : SetInputMask(m)
  <2>1. PICK m \in Values : SetInputMask(m)
    BY <1>2
  <2>2. [type |-> "mask", mask |-> m] \in Message
    BY DEF Message
  <2>3. QED BY <2>1, <2>2, CallKeepsOffers DEF SetInputMask, RoomToPost
<1>3. QED BY <1>1, <1>2

(* What is left when a state is taken up: the offers after it.             *)
LEMMA TakeUp ==
  ASSUME IInv, OInv, NEW g \in Generations, NEW words, NEW k \in 0 .. MaxPosts,
         Behind(g, k), Newer(g), ApplyInputStateSnapshot(words, g)
  PROVE  /\ worker'.last = g /\ worker'.mask = core'.words[1] /\ core'.words = words
         /\ unapplied' = After(g)
         /\ Offers' = k /\ k < Offers /\ Offers - k \in 1 .. Offers
         /\ OfferOf(g) = {Offers - k}
         /\ \A j \in 1 .. k : /\ (Offers - k) + j \in 1 .. Offers
                              /\ unapplied'[j] = unapplied[(Offers - k) + j]
                              /\ unapplied'[j].generation \in Generations \ {0}
                              /\ Behind(unapplied'[j].generation, k - j)
         /\ k > 0 => unapplied'[k] = unapplied[Offers]
<1>1. g \in Generations \ {0} /\ OffersInOrder
  BY DEF Newer, OInv
<1>2. /\ k < Offers /\ OfferOf(g) = {Offers - k} /\ Offers - k \in 1 .. Offers
      /\ Len(After(g)) = k /\ \A j \in 1 .. k : After(g)[j] = unapplied[(Offers - k) + j]
  BY <1>1, NewerIsOffered
<1>3. worker'.last = g /\ worker'.mask = words[1] /\ core'.words = words /\ unapplied' = After(g)
  BY DEF ApplyInputStateSnapshot, CoreSetInputState
<1>4. Offers \in Nat /\ k \in Nat
  BY Typed
<1>5. ASSUME NEW j \in 1 .. k
      PROVE  /\ (Offers - k) + j \in 1 .. Offers
             /\ unapplied'[j] = unapplied[(Offers - k) + j]
             /\ unapplied'[j].generation \in Generations \ {0}
             /\ Behind(unapplied'[j].generation, k - j)
  <2>1. PICK i \in 1 .. Offers : i = (Offers - k) + j
    BY <1>2, <1>4
  <2>2. Offers - i = k - j
    BY <1>2, <1>4, <2>1
  <2>3. /\ unapplied[i].generation \in Generations /\ unapplied[i].generation # 0
        /\ Behind(unapplied[i].generation, Offers - i)
    BY <1>1, Typed DEF OffersInOrder
  <2>4. QED BY <1>2, <1>3, <2>1, <2>2, <2>3
<1>6. k > 0 => k \in 1 .. k /\ (Offers - k) + k = Offers
  BY <1>4
<1>7. k > 0 => unapplied'[k] = unapplied[Offers]
  BY <1>2, <1>3, <1>6
<1>8. QED BY <1>2, <1>3, <1>5, <1>7 DEF Offers

(* A poll that ends well hands over the newest state, or the one before.   *)
LEMMA AcceptTakes ==
  ASSUME IInv, OInv, Accept
  PROVE  /\ adapter.shared /\ reader.generation \in Generations
         /\ ApplyInputStateSnapshot(reader.words, reader.generation)
         /\ UNCHANGED <<adapter, sab, posts>> /\ reader'.pc = "idle"
         /\ \E k \in 0 .. 1 :
              /\ Behind(reader.generation, k)
              /\ adapter.pc = "open" => k = 1
              /\ adapter.pc # "open" => k = 0
              /\ k < Offers => reader.words = unapplied[Offers - k].words
              /\ adapter.pc \in {"idle", "open", "post"}
<1>1. /\ reader.pc = "check" /\ Unchanged /\ reader' = Idle
      /\ ApplyInputStateSnapshot(reader.words, reader.generation)
      /\ UNCHANGED <<adapter, sab, posts>>
  BY DEF Accept
<1>2. /\ reader.generation = sab.generation /\ reader.words = sab.words
      /\ adapter.pc \in {"idle", "open", "post"}
  BY <1>1, IInvImpliesNoTornSnapshot DEF NoTornSnapshot
<1>3. adapter.shared /\ reader'.pc = "idle" /\ reader.generation \in Generations
  BY <1>1 DEF OInv, MemoryIsRecent, Idle, IInv, TypeOK
<1>4. Offers \in Nat
  BY Typed
<1>5. CASE adapter.pc = "open"
  <2>1. Behind(sab.generation, 1) /\ (1 < Offers => sab.words = unapplied[Offers - 1].words)
    BY <1>3, <1>4, <1>5 DEF OInv, MemoryIsRecent
  <2>2. QED BY <1>1, <1>2, <1>3, <1>5, <2>1
<1>6. CASE adapter.pc # "open"
  <2>1. Behind(sab.generation, 0) /\ (0 < Offers => sab.words = unapplied[Offers].words)
    BY <1>2, <1>3, <1>4, <1>6 DEF OInv, MemoryIsRecent, OffersInOrder
  <2>2. Offers - 0 = Offers
    BY <1>4
  <2>3. QED BY <1>1, <1>2, <1>3, <1>6, <2>1, <2>2
<1>7. QED BY <1>5, <1>6

(* Taking it up keeps the rest in order.                                   *)
LEMMA AcceptKeepsOffers == ASSUME IInv, OInv, Accept PROVE OInv'
<1> DEFINE g == reader.generation
<1>1. /\ adapter.shared /\ g \in Generations /\ ApplyInputStateSnapshot(reader.words, g)
      /\ UNCHANGED <<adapter, sab, posts>> /\ reader'.pc = "idle"
  BY AcceptTakes
<1>2. PICK k \in 0 .. 1 :
        /\ Behind(g, k) /\ (adapter.pc = "open" => k = 1) /\ (adapter.pc # "open" => k = 0)
        /\ k < Offers => reader.words = unapplied[Offers - k].words
        /\ adapter.pc \in {"idle", "open", "post"}
  BY AcceptTakes
<1>3. k \in 0 .. MaxPosts /\ k \in Nat
  BY <1>2, Bounds
<1> HIDE DEF g
<1>4. CASE Newer(g)
  <2>1. /\ worker'.last = g /\ worker'.mask = core'.words[1]
        /\ Offers' = k /\ k < Offers
        /\ \A j \in 1 .. k : /\ (Offers - k) + j \in 1 .. Offers
                             /\ unapplied'[j] = unapplied[(Offers - k) + j]
                             /\ unapplied'[j].generation \in Generations \ {0}
                             /\ Behind(unapplied'[j].generation, k - j)
        /\ k > 0 => unapplied'[k] = unapplied[Offers]
    BY <1>1, <1>2, <1>3, <1>4, TakeUp
  <2>2. Pending' = Pending /\ Pending \in 0 .. 1 /\ Offers \in Nat /\ Len(posts) \in Nat
    BY <1>1, Typed DEF Pending
  <2>3. PostsInOrder'
    <3>1. \A i \in 1 .. Len(posts), j \in 1 .. k : IsState(i)
            /\ unapplied'[j].generation = posts[i].generation
              => unapplied'[j].words = posts[i].words
      BY <2>1 DEF OInv, PostsInOrder
    <3>2. QED BY <1>1, <2>1, <2>2, <3>1 DEF OInv, PostsInOrder, Behind, IsState
  <2>4. OffersInOrder'
    <3>1. k <= Len(posts) + Pending
      BY <1>3, <2>1, <2>2 DEF OInv, OffersInOrder
    <3>2. k > 0 => unapplied'[k].words = adapter.held
      BY <1>3, <2>1, <2>2 DEF OInv, OffersInOrder
    <3>3. QED BY <1>1, <1>2, <2>1, <2>2, <3>1, <3>2 DEF OffersInOrder, Behind
  <2>5. OffersArePosted'
    <3> SUFFICES ASSUME NEW j \in 1 .. k
                 PROVE  \/ j = k /\ Pending = 1
                        \/ \E i \in 1 .. Len(posts) :
                             IsState(i) /\ posts[i].generation = unapplied'[j].generation
      BY <1>1, <2>1, <2>2 DEF OffersArePosted, IsState
    <3>1. j = k /\ (Offers - k) + j = Offers
      BY <1>2, <2>2
    <3>2. QED BY <2>1, <3>1 DEF OInv, OffersArePosted
  <2>6. MemoryIsRecent'
    <3>1. ~(k > 1)
      BY <1>2
    <3>2. k > 0 => adapter.pc = "open"
      BY <1>2
    <3>3. QED BY <1>1, <1>2, <2>1, <3>1, <3>2 DEF OInv, MemoryIsRecent, Behind
  <2>7. CallsAreMade'
    BY <1>1, <2>1 DEF OInv, CallsAreMade
  <2>8. QED BY <2>3, <2>4, <2>5, <2>6, <2>7 DEF OInv
<1>5. CASE ~Newer(g)
  <2>1. UNCHANGED <<worker, core, unapplied>>
    BY <1>1, <1>5 DEF ApplyInputStateSnapshot
  <2>2. MemoryIsRecent'
    BY <1>1, <2>1 DEF OInv, MemoryIsRecent, Behind, Offers
  <2>3. QED BY <1>1, <2>1, <2>2, QueuesUnchanged DEF OInv
<1>6. QED BY <1>4, <1>5

(* When a post is received, those after it move up.                        *)
LEMMA TailOfPosts ==
  ASSUME IInv, posts # <<>>, posts' = Tail(posts)
  PROVE  /\ Len(posts) \in Nat \ {0} /\ Len(posts') = Len(posts) - 1
         /\ Head(posts) = posts[1] /\ 1 \in 1 .. Len(posts)
         /\ \A i \in 1 .. Len(posts) - 1 :
              i + 1 \in 1 .. Len(posts) /\ posts'[i] = posts[i + 1]
<1>1. posts \in Seq(Message) /\ Len(posts) \in Nat
  BY Typed
<1>2. /\ Len(posts) # 0 /\ Head(posts) = posts[1] /\ Len(Tail(posts)) = Len(posts) - 1
      /\ \A i \in 1 .. Len(posts) - 1 : Tail(posts)[i] = posts[i + 1]
  BY <1>1, HeadTailProperties, EmptySeq
<1>3. \A i \in 1 .. Len(posts) - 1 : i + 1 \in 1 .. Len(posts)
  BY <1>1
<1>4. QED BY <1>1, <1>2, <1>3

(* The posts that are left are in order if what is unapplied is what it    *)
(* was, or the newest part of it.                                          *)
LEMMA TailKeepsPosts ==
  ASSUME IInv, OInv, posts # <<>>, posts' = Tail(posts), adapter' = adapter,
         \A j \in 1 .. Offers' : \E i \in 1 .. Offers : unapplied'[j] = unapplied[i],
         worker'.mask = core'.words[1]
  PROVE  PostsInOrder' /\ CallsAreMade'
<1> DEFINE n == Len(posts)
<1>1. /\ n \in Nat \ {0} /\ Len(posts') = n - 1 /\ Pending' = Pending /\ Pending \in 0 .. 1
      /\ \A i \in 1 .. n - 1 : i + 1 \in 1 .. n /\ posts'[i] = posts[i + 1]
  BY TailOfPosts, Typed DEF Pending
<1> HIDE DEF n
<1>2. ASSUME NEW i \in 1 .. n - 1, posts'[i].type = "state"
      PROVE  /\ posts'[i].generation # 0
             /\ \E k \in 0 .. (n - 1) - i + Pending : Behind(posts'[i].generation, k)
             /\ \A j \in 1 .. Offers' : unapplied'[j].generation = posts'[i].generation
                  => unapplied'[j].words = posts'[i].words
  <2>1. PICK m \in 1 .. n : m = i + 1 /\ posts'[i] = posts[m]
    BY <1>1
  <2>2. IsState(m) /\ n - m = (n - 1) - i
    BY <1>1, <1>2, <2>1 DEF IsState
  <2>3. /\ posts[m].generation # 0
        /\ \E k \in 0 .. n - m + Pending : Behind(posts[m].generation, k)
        /\ \A j \in 1 .. Offers : unapplied[j].generation = posts[m].generation
             => unapplied[j].words = posts[m].words
    BY <2>2 DEF OInv, PostsInOrder, n
  <2>4. QED BY <2>1, <2>2, <2>3
<1>3. PostsInOrder'
  BY <1>1, <1>2 DEF PostsInOrder, IsState, Behind, OInv
<1>4. CallsAreMade'
  <2>1. \A i \in 1 .. n - 1 : posts'[i].type # "state" => posts'[i].type \in adapter.calls
    BY <1>1 DEF OInv, CallsAreMade, n
  <2>2. QED BY <1>1, <2>1 DEF CallsAreMade
<1>5. QED BY <1>3, <1>4

(* The state in a post that is newer than all before it is the offer of    *)
(* its generation.                                                         *)
LEMMA ReceivedState ==
  ASSUME IInv, OInv, ReceiveState
  PROVE  LET m == Head(posts) IN
         /\ reader.pc = "idle" /\ posts # <<>> /\ posts' = Tail(posts)
         /\ m = posts[1] /\ m.type = "state" /\ m.generation \in Generations \ {0}
         /\ ApplyInputStateSnapshot(m.words, m.generation)
         /\ UNCHANGED <<adapter, sab, reader>>
         /\ \A j \in 1 .. Offers :
              unapplied[j].generation = m.generation => m.words = unapplied[j].words
         /\ \E k \in 0 .. (Len(posts) - 1) + Pending : Behind(m.generation, k) /\ k \in 0 .. MaxPosts
<1>1. /\ reader.pc = "idle" /\ posts # <<>> /\ posts' = Tail(posts)
      /\ Head(posts).type = "state" /\ UNCHANGED <<adapter, sab, reader>>
      /\ ApplyInputStateSnapshot(Head(posts).words, Head(posts).generation)
  BY DEF ReceiveState, Receives
<1>2. Head(posts) = posts[1] /\ 1 \in 1 .. Len(posts) /\ IsState(1)
  BY <1>1, TailOfPosts DEF IsState
<1>3. PICK k \in 0 .. (Len(posts) - 1) + Pending : Behind(posts[1].generation, k)
  BY <1>2 DEF OInv, PostsInOrder
<1>4. k \in 0 .. MaxPosts
  BY <1>3, Typed, Bounds
<1>5. posts[1].generation \in Generations \ {0}
  BY <1>2, Typed DEF OInv, PostsInOrder
<1>6. \A j \in 1 .. Offers :
        unapplied[j].generation = posts[1].generation => posts[1].words = unapplied[j].words
  BY <1>2 DEF OInv, PostsInOrder
<1>7. QED BY <1>1, <1>2, <1>3, <1>4, <1>5, <1>6

(* They hold every offer that is left, if the one received holds none.     *)
LEMMA TailHasOffers ==
  ASSUME IInv, OInv, posts # <<>>, posts' = Tail(posts), adapter' = adapter,
         Offers' \in Nat,
         \A j \in 1 .. Offers' :
           /\ IsState(1) => posts[1].generation # unapplied'[j].generation
           /\ \E i \in 1 .. Offers : unapplied'[j] = unapplied[i] /\ (i = Offers => j = Offers')
  PROVE  OffersArePosted'
<1> DEFINE n == Len(posts)
<1>1. /\ n \in Nat \ {0} /\ Len(posts') = n - 1 /\ Pending' = Pending
      /\ \A i \in 1 .. n - 1 : posts'[i] = posts[i + 1]
  BY TailOfPosts, Typed DEF Pending
<1> HIDE DEF n
<1> SUFFICES ASSUME NEW j \in 1 .. Offers', ~(j = Offers' /\ Pending = 1)
             PROVE  \E i \in 1 .. n - 1 : posts'[i].type = "state"
                      /\ posts'[i].generation = unapplied'[j].generation
  BY <1>1 DEF OffersArePosted, IsState
<1>2. PICK i \in 1 .. Offers : unapplied'[j] = unapplied[i] /\ (i = Offers => j = Offers')
  OBVIOUS
<1>3. PICK p \in 1 .. n : IsState(p) /\ posts[p].generation = unapplied[i].generation
  BY <1>2 DEF OInv, OffersArePosted, n
<1>4. p # 1
  BY <1>2, <1>3
<1>5. p - 1 \in 1 .. n - 1 /\ (p - 1) + 1 = p
  BY <1>1, <1>4
<1>6. posts'[p - 1] = posts[p]
  BY <1>1, <1>5
<1>7. QED BY <1>2, <1>3, <1>5, <1>6 DEF IsState

(* Taking up the state of a post, or dropping it.                          *)
LEMMA ReceiveStateKeepsOffers == ASSUME IInv, OInv, ReceiveState PROVE OInv'
<1> DEFINE g == Head(posts).generation
           n == Len(posts)
<1>1. /\ reader.pc = "idle" /\ posts # <<>> /\ posts' = Tail(posts)
      /\ g = posts[1].generation /\ IsState(1) /\ g \in Generations \ {0}
      /\ ApplyInputStateSnapshot(Head(posts).words, g)
      /\ UNCHANGED <<adapter, sab, reader>>
      /\ \A j \in 1 .. Offers : unapplied[j].generation = g => Head(posts).words = unapplied[j].words
  BY ReceivedState DEF IsState
<1>2. PICK k \in 0 .. (n - 1) + Pending : Behind(g, k) /\ k \in 0 .. MaxPosts
  BY ReceivedState
<1>3. /\ n \in Nat \ {0} /\ Len(posts') = n - 1 /\ Pending' = Pending /\ Pending \in 0 .. 1
      /\ Offers \in Nat /\ k \in Nat /\ Offers <= MaxPosts /\ MaxPosts \in Nat
  BY <1>1, TailOfPosts, Typed, Bounds DEF Pending, OInv, OffersInOrder
<1>4. k <= (n - 1) + Pending
  BY <1>2, <1>3
<1> HIDE DEF g, n
<1>5. CASE Newer(g)
  <2>1. /\ worker'.last = g /\ worker'.mask = core'.words[1]
        /\ Offers' = k /\ k < Offers
        /\ \A j \in 1 .. k : /\ (Offers - k) + j \in 1 .. Offers
                             /\ unapplied'[j] = unapplied[(Offers - k) + j]
                             /\ unapplied'[j].generation \in Generations \ {0}
                             /\ Behind(unapplied'[j].generation, k - j)
        /\ k > 0 => unapplied'[k] = unapplied[Offers]
    BY <1>1, <1>2, <1>5, TakeUp
  <2>2. PostsInOrder' /\ CallsAreMade'
    <3>1. \A j \in 1 .. Offers' : \E i \in 1 .. Offers : unapplied'[j] = unapplied[i]
      BY <2>1
    <3>2. QED BY <1>1, <2>1, <3>1, TailKeepsPosts
  <2>3. OffersInOrder'
    <3>1. k > 0 => unapplied'[k].words = adapter.held
      BY <1>3, <2>1 DEF OInv, OffersInOrder
    <3>2. QED BY <1>1, <1>2, <1>3, <1>4, <2>1, <3>1 DEF OffersInOrder, Behind
  <2>4. OffersArePosted'
    <3>1. ASSUME NEW j \in 1 .. k
          PROVE  /\ g # unapplied'[j].generation
                 /\ \E i \in 1 .. Offers : unapplied'[j] = unapplied[i] /\ (i = Offers => j = k)
      <4>1. Forward(unapplied'[j].generation, k - j) = Forward(g, k)
        BY <1>2, <2>1 DEF Behind
      <4>2. k - j \in 0 .. MaxPosts + 1 /\ k \in 0 .. MaxPosts + 1 /\ k - j # k
        BY <1>3, <2>1
      <4>3. g # unapplied'[j].generation
        BY <1>1, <4>1, <4>2, ForwardOnce
      <4>4. (Offers - k) + j = Offers => j = k
        BY <1>3
      <4>5. QED BY <2>1, <4>3, <4>4
    <3>2. QED BY <1>1, <1>3, <2>1, <3>1, TailHasOffers
  <2>5. MemoryIsRecent'
    <3>1. adapter.shared /\ adapter.pc = "open" /\ k > 1 =>
            sab.words = unapplied'[k - 1].words
      <4>1. SUFFICES ASSUME adapter.shared, adapter.pc = "open", k > 1
                     PROVE  sab.words = unapplied'[k - 1].words
        OBVIOUS
      <4>2. PICK j \in 1 .. k : j = k - 1
        BY <1>3, <4>1
      <4>3. (Offers - k) + j = Offers - 1
        BY <1>3, <4>2
      <4>4. sab.words = unapplied[Offers - 1].words
        BY <1>3, <2>1, <4>1 DEF OInv, MemoryIsRecent
      <4>5. QED BY <2>1, <4>2, <4>3, <4>4
    <3>2. k > 0 => Offers > 0
      BY <1>3, <2>1
    <3>3. QED BY <1>1, <2>1, <3>1, <3>2 DEF OInv, MemoryIsRecent, Behind
  <2>6. QED BY <2>2, <2>3, <2>4, <2>5 DEF OInv
<1>6. CASE ~Newer(g)
  <2>1. UNCHANGED <<worker, core, unapplied>> /\ Offers' = Offers
    BY <1>1, <1>6 DEF ApplyInputStateSnapshot, Offers
  <2>2. Offers <= k
    <3>1. ~(k < Offers)
      BY <1>1, <1>2, <1>6, NewerIsOffered DEF OInv
    <3>2. QED BY <1>3, <3>1
  <2>3. PostsInOrder' /\ CallsAreMade'
    BY <1>1, <2>1, TailKeepsPosts DEF OInv, CallsAreMade
  <2>4. OffersInOrder'
    BY <1>1, <1>3, <1>4, <2>1, <2>2 DEF OInv, OffersInOrder, Behind
  <2>5. OffersArePosted'
    <3>1. ASSUME NEW j \in 1 .. Offers
          PROVE  g # unapplied[j].generation
      <4>1. Forward(unapplied[j].generation, Offers - j) = Forward(g, k)
        BY <1>2 DEF Behind, OInv, OffersInOrder
      <4>2. Offers - j \in 0 .. MaxPosts + 1 /\ k \in 0 .. MaxPosts + 1 /\ Offers - j # k
        BY <1>3, <1>2, <2>2
      <4>3. QED BY <1>1, <4>1, <4>2, ForwardOnce
    <3>2. QED BY <1>1, <1>3, <2>1, <3>1, TailHasOffers
  <2>6. MemoryIsRecent'
    BY <1>1, <2>1 DEF OInv, MemoryIsRecent, Behind
  <2>7. QED BY <2>3, <2>4, <2>5, <2>6 DEF OInv
<1>7. QED BY <1>5, <1>6

(* A reset or a mask is not what an offer waits for.                       *)
LEMMA CallsKeepOffers == ASSUME IInv, OInv, ReceiveReset \/ ReceiveMask PROVE OInv'
<1> DEFINE n == Len(posts)
<1>1. /\ posts # <<>> /\ posts' = Tail(posts) /\ Head(posts).type # "state"
      /\ UNCHANGED <<adapter, sab, reader, unapplied>>
  BY DEF ReceiveReset, ReceiveMask, Receives
<1>2. worker'.last = worker.last /\ worker'.mask = core'.words[1]
  <2>1. ASSUME NEW m PROVE Pad(m, Centre)[1] = m
    BY ConstantsAssumption DEF Pad
  <2>2. worker \in [last : Generations, mask : Values]
    BY DEF IInv, TypeOK
  <2>3. CASE ReceiveReset
    BY <2>1, <2>3 DEF ReceiveReset, CoreSetInputMask
  <2>4. CASE ReceiveMask
    BY <2>1, <2>2, <2>4 DEF ReceiveMask, CoreSetInputMask
  <2>5. QED BY <2>3, <2>4
<1>3. /\ n \in Nat \ {0} /\ Len(posts') = n - 1 /\ Pending' = Pending /\ Pending \in 0 .. 1
      /\ Offers \in Nat /\ Offers' = Offers /\ Offers <= MaxPosts /\ MaxPosts \in Nat
      /\ n + Pending <= MaxPosts
  <2>1. n \in Nat \ {0} /\ Len(posts') = n - 1
    BY <1>1, TailOfPosts
  <2>2. Pending' = Pending /\ Offers' = Offers
    BY <1>1 DEF Pending, Offers
  <2>3. Offers \in Nat /\ Pending \in 0 .. 1 /\ n + Pending <= MaxPosts /\ MaxPosts \in Nat
    BY Typed, Bounds
  <2>4. Offers <= n + Pending
    BY DEF OInv, OffersInOrder
  <2>5. QED BY <2>1, <2>2, <2>3, <2>4
<1>4. ~IsState(1)
  BY <1>1, TailOfPosts DEF IsState
<1>5. PostsInOrder' /\ CallsAreMade'
  BY <1>1, <1>2, <1>3, TailKeepsPosts
<1>6. OffersArePosted'
  <2>1. \A j \in 1 .. Offers :
          \E i \in 1 .. Offers : unapplied[j] = unapplied[i] /\ (i = Offers => j = Offers)
    OBVIOUS
  <2>2. QED BY <1>1, <1>3, <1>4, <2>1, TailHasOffers
<1> HIDE DEF n
<1>7. Offers <= (n - 1) + Pending
  <2>1. CASE Offers = 0
    BY <1>3, <2>1
  <2>2. CASE Offers > 0 /\ ~(Offers = 1 /\ Pending = 1)
    <3>1. 1 \in 1 .. Offers
      BY <1>3, <2>2
    <3>2. PICK i \in 1 .. n : IsState(i) /\ posts[i].generation = unapplied[1].generation
      BY <2>2, <3>1 DEF OInv, OffersArePosted, n
    <3>3. i # 1
      BY <1>4, <3>2
    <3>4. PICK k \in 0 .. n - i + Pending : Behind(posts[i].generation, k)
      BY <3>2 DEF OInv, PostsInOrder, n
    <3>5. Forward(unapplied[1].generation, Offers - 1) = Forward(unapplied[1].generation, k)
      BY <3>1, <3>2, <3>4 DEF OInv, OffersInOrder, Behind
    <3>6. /\ unapplied[1].generation \in Generations /\ k \in 0 .. MaxPosts + 1
          /\ Offers - 1 \in 0 .. MaxPosts + 1
      BY <1>3, <2>2, <3>1, Typed
    <3>7. Offers - 1 = k
      BY <3>5, <3>6, ForwardOnce
    <3>8. QED BY <1>3, <3>3, <3>7
  <2>3. CASE Offers = 1 /\ Pending = 1
    BY <1>3, <2>3
  <2>4. QED BY <1>3, <2>1, <2>2, <2>3
<1>8. OffersInOrder'
  BY <1>1, <1>2, <1>3, <1>7 DEF OInv, OffersInOrder, Behind
<1>9. MemoryIsRecent'
  BY <1>1, <1>3 DEF OInv, MemoryIsRecent, Behind
<1>10. QED BY <1>5, <1>6, <1>8, <1>9 DEF OInv

(* Every step keeps the offers in order.                                   *)
LEMMA OffersNext == IInv /\ OInv /\ [Next]_vars => OInv'
<1> SUFFICES ASSUME IInv, OInv, [Next]_vars PROVE OInv'
  OBVIOUS
<1>1. CASE \E s \in States : SetInputState(s)
  BY <1>1, SetInputStateKeepsOffers
<1>2. CASE OpenWrite \/ StoreWord \/ StoreGeneration \/ CloseWrite
  BY <1>2, WritesKeepOffers
<1>3. CASE Post
  BY <1>3, PostKeepsOffers
<1>4. CASE RequestReset \/ \E m \in Values : SetInputMask(m)
  BY <1>4, RequestsKeepOffers
<1>5. CASE BeginPoll \/ LoadWord \/ LoadGeneration \/ Reject \/ Retry
  BY <1>5, ReadsKeepOffers
<1>6. CASE Accept
  BY <1>6, AcceptKeepsOffers
<1>7. CASE ReceiveState
  BY <1>7, ReceiveStateKeepsOffers
<1>8. CASE ReceiveReset \/ ReceiveMask
  BY <1>8, CallsKeepOffers
<1>9. CASE UNCHANGED vars
  <2>1. MemoryIsRecent'
    BY <1>9 DEF vars, OInv, MemoryIsRecent, Behind, Offers
  <2>2. QED BY <1>9, <2>1, QueuesUnchanged DEF vars, OInv
<1>10. QED
  BY <1>1, <1>2, <1>3, <1>4, <1>5, <1>6, <1>7, <1>8, <1>9 DEF Next

(* A state handed over is dropped, or is an offer not taken up before.     *)
TakesOffer ==
  \E i \in 1 .. Offers :
    /\ OfferOf(worker'.last) = {i} /\ core'.words = unapplied[i].words
    /\ Offers' = Offers - i
    /\ \A j \in 1 .. Offers - i : unapplied'[j] = unapplied[i + j]

(* So it is with a state that is this far behind.                          *)
LEMMA StateIsTakenUp ==
  ASSUME IInv, OInv, NEW g \in Generations, NEW words, NEW k \in 0 .. MaxPosts,
         Behind(g, k), ApplyInputStateSnapshot(words, g),
         Newer(g) => words = unapplied[Offers - k].words
  PROVE  UNCHANGED <<worker, core, unapplied>> \/ TakesOffer
<1>1. CASE Newer(g)
  <2>1. /\ worker'.last = g /\ core'.words = words /\ Offers' = k
        /\ Offers - k \in 1 .. Offers /\ OfferOf(g) = {Offers - k}
        /\ \A j \in 1 .. k : unapplied'[j] = unapplied[(Offers - k) + j]
    BY <1>1, TakeUp
  <2>2. PICK i \in 1 .. Offers : i = Offers - k
    BY <2>1
  <2>3. k = Offers - i
    BY <2>2, Typed, Bounds
  <2>4. QED BY <1>1, <2>1, <2>2, <2>3 DEF TakesOffer
<1>2. CASE ~Newer(g)
  BY <1>2 DEF ApplyInputStateSnapshot
<1>3. QED BY <1>1, <1>2

(* Whichever path delivers it.                                             *)
LEMMA OffersAreTaken ==
  ASSUME IInv, OInv, Accept \/ ReceiveState
  PROVE  UNCHANGED <<worker, core, unapplied>> \/ TakesOffer
<1>1. CASE Accept
  <2>1. reader.generation \in Generations
        /\ ApplyInputStateSnapshot(reader.words, reader.generation)
    BY <1>1, AcceptTakes
  <2>2. PICK k \in 0 .. 1 :
          /\ Behind(reader.generation, k)
          /\ k < Offers => reader.words = unapplied[Offers - k].words
    BY <1>1, AcceptTakes
  <2>3. k \in 0 .. MaxPosts
    BY <2>2, Bounds
  <2>4. Newer(reader.generation) => k < Offers
    BY <2>1, <2>2, <2>3, NewerIsOffered DEF OInv, Newer
  <2>5. QED BY <2>1, <2>2, <2>3, <2>4, StateIsTakenUp
<1>2. CASE ReceiveState
  <2> DEFINE m == Head(posts)
  <2>1. /\ m.generation \in Generations \ {0}
        /\ ApplyInputStateSnapshot(m.words, m.generation)
        /\ \A j \in 1 .. Offers :
             unapplied[j].generation = m.generation => m.words = unapplied[j].words
    BY <1>2, ReceivedState
  <2>2. PICK k \in 0 .. MaxPosts : Behind(m.generation, k)
    BY <1>2, ReceivedState
  <2>3. Newer(m.generation) =>
          Offers - k \in 1 .. Offers /\ OfferOf(m.generation) = {Offers - k}
    BY <2>1, <2>2, NewerIsOffered DEF OInv
  <2>4. Newer(m.generation) => m.words = unapplied[Offers - k].words
    BY <2>1, <2>3 DEF OfferOf
  <2> HIDE DEF m
  <2>5. QED BY <2>1, <2>2, <2>4, StateIsTakenUp
<1>3. QED BY <1>1, <1>2

(* Shared memory and the posts race and repeat each other, and the counter *)
(* of generations wraps: applyInputStateSnapshot still only ever takes up  *)
(* a state offered after the last one it took, for every modulus more than *)
(* twice as wide as the messages under way.                                *)
THEOREM OnlyLaterStatesAreTaken == Spec => NeverGoesBack
<1> DEFINE Later == \E i \in OfferOf(worker'.last) : core'.words = unapplied[i].words
<1>1. IInv /\ OInv /\ [Next]_vars => [worker'.last # worker.last => Later]_vars
  <2> SUFFICES ASSUME IInv, OInv, Next, worker'.last # worker.last PROVE Later
    OBVIOUS
  <2>1. CASE Accept \/ ReceiveState
    BY <2>1, OffersAreTaken DEF TakesOffer
  <2>2. CASE ~(Accept \/ ReceiveState)
    <3>1. worker'.last = worker.last
      BY <2>2 DEF Next, SetInputState, OpenWrite, StoreWord, StoreGeneration, CloseWrite,
         Post, RequestReset, SetInputMask, BeginPoll, LoadWord, LoadGeneration, Reject,
         Retry, ReceiveReset, ReceiveMask, IInv, TypeOK
    <3>2. QED BY <3>1
  <2>3. QED BY <2>1, <2>2
<1>2. QED
  BY <1>1, InitInductive, NextInductive, OffersInit, OffersNext, PTL DEF Spec, NeverGoesBack

-----------------------------------------------------------------------------
(* The register of the latest input.                                       *)
Offer == [words : States, generation : Generations]
Offered == [i \in DOMAIN unapplied |-> unapplied[i].words]
WordsOf(u) == [i \in 1 .. Len(u) |-> u[i].words]

(* The words of any queue of offers.                                       *)
LEMMA WordsOfOffers ==
  ASSUME NEW u \in Seq(Offer)
  PROVE  /\ HasLength(WordsOf(u), Len(u)) /\ Len(WordsOf(u)) = Len(u)
         /\ WordsOf(u) \in Seq(States) /\ Len(u) \in Nat
         /\ \A i \in 1 .. Len(u) : WordsOf(u)[i] = u[i].words
         /\ WordsOf(u) = [i \in DOMAIN u |-> u[i].words]
<1>1. PICK n \in Nat : n = Len(u) /\ DOMAIN u = 1 .. n
  OBVIOUS
<1>2. \A i \in 1 .. n : u[i].words \in States
  <2>1. \A i \in 1 .. n : u[i] \in Offer
    BY <1>1, ElementOfSeq
  <2>2. QED BY <2>1 DEF Offer
<1>3. PICK w : w = WordsOf(u)
  OBVIOUS
<1>4. w = [i \in 1 .. n |-> u[i].words]
  BY <1>1, <1>3 DEF WordsOf
<1>5. w \in Seq(States) /\ Len(w) = n
  BY <1>2, <1>4
<1>6. w = [i \in 1 .. n |-> w[i]]
  BY <1>4
<1>7. QED BY <1>1, <1>3, <1>4, <1>5, <1>6 DEF HasLength

(* What is offered to the register, before and after a step.               *)
LEMMA OfferedIs ==
  ASSUME IInv, IInv'
  PROVE  /\ unapplied \in Seq(Offer) /\ unapplied' \in Seq(Offer)
         /\ Offered = WordsOf(unapplied) /\ Offered' = WordsOf(unapplied')
<1>1. unapplied \in Seq(Offer) /\ unapplied' \in Seq(Offer)
  BY DEF IInv, TypeOK, Offer
<1>2. WordsOf(unapplied) = Offered
  <2>1. WordsOf(unapplied) = [i \in DOMAIN unapplied |-> unapplied[i].words]
    BY <1>1, WordsOfOffers
  <2>2. QED BY <2>1 DEF Offered
<1>3. WordsOf(unapplied') = Offered'
  <2>1. WordsOf(unapplied') = [i \in DOMAIN unapplied' |-> unapplied'[i].words]
    BY <1>1, WordsOfOffers
  <2>2. QED BY <2>1 DEF Offered
<1>4. QED BY <1>1, <1>2, <1>3

(* A new state is offered last.                                            *)
LEMMA OfferIsAppended ==
  ASSUME IInv, IInv', NEW s \in States, SetInputState(s)
  PROVE  Offered' = Append(Offered, s)
<1>1. unapplied \in Seq(Offer) /\ unapplied' \in Seq(Offer)
  BY OfferedIs
<1>2. /\ Len(unapplied') = Len(unapplied) + 1 /\ Len(unapplied) \in Nat
      /\ unapplied'[Len(unapplied) + 1].words = s
      /\ \A i \in 1 .. Len(unapplied) : unapplied'[i] = unapplied[i]
  BY <1>1 DEF SetInputState
<1>2a. PICK n \in Nat : n = Len(unapplied)
  BY <1>2
<1>3. PICK q, t : q = Offered /\ t = Offered'
  OBVIOUS
<1>4. /\ q \in Seq(States) /\ Len(q) = n /\ \A i \in 1 .. n : q[i] = unapplied[i].words
      /\ t \in Seq(States) /\ Len(t) = n + 1
      /\ \A i \in 1 .. n + 1 : t[i] = unapplied'[i].words
  BY <1>1, <1>2, <1>2a, <1>3, OfferedIs, WordsOfOffers
<1>5. /\ Append(q, s) \in Seq(States) /\ Len(Append(q, s)) = n + 1
      /\ \A i \in 1 .. n : Append(q, s)[i] = q[i]
      /\ Append(q, s)[n + 1] = s
  BY <1>2a, <1>4, AppendProperties
<1>6. \A i \in 1 .. n + 1 : t[i] = Append(q, s)[i]
  <2>1. \A i \in 1 .. n + 1 : i = n + 1 \/ i \in 1 .. n
    BY <1>2a
  <2>2. QED BY <1>2, <1>2a, <1>3, <1>4, <1>5, <2>1
<1>7. t = Append(q, s)
  BY <1>2a, <1>4, <1>5, <1>6, SeqEqual
<1>8. QED BY <1>3, <1>7

(* What is taken up is one of the offers, and the later ones are left.     *)
LEMMA OfferIsApplied ==
  ASSUME IInv, IInv', TakesOffer
  PROVE  \E i \in 1 .. Len(Offered) :
           core'.words = Offered[i] /\ Offered' = SubSeq(Offered, i + 1, Len(Offered))
<1>1. unapplied \in Seq(Offer) /\ unapplied' \in Seq(Offer)
  BY OfferedIs
<1>2. PICK i \in 1 .. Len(unapplied) :
        /\ core'.words = unapplied[i].words /\ Len(unapplied') = Len(unapplied) - i
        /\ \A j \in 1 .. Len(unapplied) - i : unapplied'[j] = unapplied[i + j]
  BY DEF TakesOffer, Offers
<1>2a. PICK n \in Nat : n = Len(unapplied)
  BY <1>1
<1>3. PICK q, t : q = Offered /\ t = Offered'
  OBVIOUS
<1>4. /\ HasLength(q, n) /\ Len(q) = n /\ \A j \in 1 .. n : q[j] = unapplied[j].words
      /\ HasLength(t, n - i) /\ \A j \in 1 .. n - i : t[j] = unapplied'[j].words
  BY <1>1, <1>2, <1>2a, <1>3, OfferedIs, WordsOfOffers
<1>5. \A j \in 1 .. n - i : t[j] = q[j + i]
  <2>1. \A j \in 1 .. n - i : j + i \in 1 .. n /\ i + j = j + i
    BY <1>2, <1>2a
  <2>2. QED BY <1>2, <1>2a, <1>4, <2>1
<1>6. i \in 0 .. n
  BY <1>2, <1>2a
<1>7. SubSeq(q, i + 1, n) = t
  BY <1>2a, <1>4, <1>5, <1>6, RestOfSequence
<1>8. i \in 1 .. Len(q) /\ core'.words = q[i] /\ t = SubSeq(q, i + 1, Len(q))
  BY <1>2, <1>2a, <1>4, <1>7
<1>9. QED BY <1>3, <1>8

(* The mask a reset re-applies is that of the pad, so only the sticks move.*)
LEMMA CallsChangeThePad ==
  ASSUME IInv, OInv, ReceiveReset \/ ReceiveMask
  PROVE  LatestInput!Reset \/ LatestInput!Press
<1>1. /\ posts # <<>> /\ Head(posts).type # "state" /\ UNCHANGED <<adapter, unapplied>>
      /\ posts' = Tail(posts)
  BY DEF ReceiveReset, ReceiveMask, Receives
<1>2. Head(posts) \in Message /\ Head(posts).type \in adapter.calls
  <2>1. Head(posts) = posts[1] /\ 1 \in 1 .. Len(posts)
    BY <1>1, TailOfPosts
  <2>2. posts[1] \in Message
    BY <2>1, Typed, ElementOfSeq
  <2>3. QED BY <1>1, <2>1, <2>2 DEF OInv, CallsAreMade
<1>3. Offered' = Offered
  BY <1>1 DEF Offered
<1>4. CASE ReceiveReset
  <2>1. core'.words = Pad(core.words[1], Centre) /\ "reset" \in adapter.calls
    BY <1>2, <1>4 DEF ReceiveReset, Receives, CoreSetInputMask, OInv, CallsAreMade
  <2>2. QED BY <1>1, <1>3, <2>1 DEF LatestInput!Reset, SticksCentred, Offered
<1>5. CASE ReceiveMask
  <2>1. /\ core'.words = Pad(Head(posts).mask, Centre) /\ "mask" \in adapter.calls
        /\ Head(posts).type = "mask"
    BY <1>2, <1>5 DEF ReceiveMask, Receives, CoreSetInputMask
  <2>2. Head(posts).mask \in Values
    BY <1>2, <2>1 DEF Message
  <2>3. QED BY <1>1, <1>3, <2>1, <2>2 DEF LatestInput!Press, Offered
<1>6. QED BY <1>4, <1>5

(* What the register sees of a state.                                      *)
RegisterSame == UNCHANGED <<Offered, core.words, adapter.calls>>

(* Every step offers, applies, resets or presses, or the register stays.   *)
LEMMA StepOfRegister ==
  IInv /\ IInv' /\ OInv /\ [Next]_vars => LatestInput!Next \/ RegisterSame
<1> SUFFICES ASSUME IInv, IInv', OInv, [Next]_vars
             PROVE  LatestInput!Next \/ RegisterSame
  OBVIOUS
<1>1. adapter'.calls = adapter.calls
  BY DEF Next, vars, SetInputState, OpenWrite, StoreWord, StoreGeneration, CloseWrite, Post,
     RequestReset, SetInputMask, BeginPoll, LoadWord, LoadGeneration, Accept, Reject, Retry,
     ReceiveState, ReceiveReset, ReceiveMask, Receives, IInv, TypeOK
<1>2. CASE \E s \in States : SetInputState(s)
  <2>1. PICK s \in States : SetInputState(s)
    BY <1>2
  <2>2. Offered' = Append(Offered, s) /\ core' = core
    BY <2>1, OfferIsAppended DEF SetInputState
  <2>3. QED BY <1>1, <2>2 DEF LatestInput!Next, LatestInput!Offer, Offered
<1>3. CASE Accept \/ ReceiveState
  <2>1. CASE UNCHANGED <<worker, core, unapplied>>
    BY <1>1, <2>1 DEF RegisterSame, Offered
  <2>2. CASE TakesOffer
    <3>1. \E i \in 1 .. Len(Offered) :
            core'.words = Offered[i] /\ Offered' = SubSeq(Offered, i + 1, Len(Offered))
      BY <2>2, OfferIsApplied
    <3>2. QED BY <1>1, <3>1 DEF LatestInput!Next, LatestInput!Apply, Offered
  <2>3. QED BY <1>3, <2>1, <2>2, OffersAreTaken
<1>4. CASE ReceiveReset \/ ReceiveMask
  BY <1>4, CallsChangeThePad DEF LatestInput!Next
<1>5. CASE ~(\/ \E s \in States : SetInputState(s)
             \/ Accept \/ ReceiveState \/ ReceiveReset \/ ReceiveMask)
  <2>1. UNCHANGED <<core, unapplied>>
    BY <1>5 DEF Next, vars, OpenWrite, StoreWord, StoreGeneration, CloseWrite, Post,
       RequestReset, SetInputMask, BeginPoll, LoadWord, LoadGeneration, Reject, Retry
  <2>2. QED BY <1>1, <2>1 DEF RegisterSame, Offered
<1>6. QED BY <1>2, <1>3, <1>4, <1>5

(* Shared memory, the messages and the core together (input-transport.js,  *)
(* upstream-worker-adapter.js, upstream-discio-worker.js and the input     *)
(* state of dolphin_web_discio.cpp) are the register of the latest input:  *)
(* the pad only moves on to a whole state offered later; resets centre the *)
(* sticks of what it holds, and nothing brings an older state back.        *)
THEOREM TransportImplementsLatestInput == Spec => ImplementsLatestInput
<1>1. Init => LatestInput!Init
  <2> SUFFICES ASSUME Init PROVE LatestInput!Init
    OBVIOUS
  <2>1. unapplied = <<>> /\ core.words = Neutral /\ adapter.calls \in Calls
    BY DEF Init
  <2>2. Offered = <<>>
    BY <2>1 DEF Offered
  <2>3. adapter.calls \subseteq {"reset", "mask"}
    BY <2>1, ConstantsAssumption
  <2>4. QED BY <2>1, <2>2, <2>3 DEF LatestInput!Init, Offered
<1>2. IInv /\ IInv' /\ OInv /\ [Next]_vars => LatestInput!Next \/ RegisterSame
  BY StepOfRegister
<1>3. QED
  BY <1>1, <1>2, InitInductive, NextInductive, OffersInit, OffersNext, PTL
     DEF Spec, ImplementsLatestInput, LatestInput!Spec, RegisterSame, Offered
=============================================================================
