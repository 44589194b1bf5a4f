---------------------------- MODULE AudioPcmRing ----------------------------
(***************************************************************************)
(* The shared-memory PCM ring between the upstream worker, which mixes     *)
(* audio (src/audio-pcm-producer.js), and the audio thread, which plays it *)
(* (src/audio-worklet-processor.js).  Both run src/audio-pcm-ring.js on    *)
(* one SharedArrayBuffer.                                                  *)
(*                                                                         *)
(* Each thread has a program counter, and every Atomics access of a word   *)
(* the other thread writes is an action of its own; so is the copy of      *)
(* every frame, which is not atomic.  Calls of one thread never interleave *)
(* with each other: the worker's handlers and its timer run one at a time. *)
(* A local of the code that is dead is kept at its initial value.          *)
(*                                                                         *)
(* A definition whose name ends in _Faulty is the seeded fault of the one  *)
(* that follows it: the properties are shown to notice it.                 *)
(***************************************************************************)
EXTENDS Integers, Sequences

CONSTANTS
  Capacity,       \* frames the ring holds          (8192 in the code)
  IndexModulus,   \* the indices are 32-bit words   (2^32 in the code)
  TargetFrames,   \* refill stops at this fill      (5760 in the code)
  StartFrames,    \* playing starts at this fill    (2400 in the code)
  MaxMixFrames,   \* frames of one mix              (audioBufferFrames, 4096)
  Quantum,        \* frames the audio thread wants  (128)
  MaxEpoch        \* bound: the runs stop requesting epochs here

(* The sizes of the code, up to scale.  A ring whose capacity does not     *)
(* divide the index range would misplace frames when the index wraps;      *)
(* validateAudioPcmRing only accepts 8192.                                 *)
ASSUME CapacityAssumption ==
  /\ Capacity \in Nat \ {0}
  /\ IndexModulus \in Nat
  /\ IndexModulus >= 2 * Capacity
  /\ IndexModulus % Capacity = 0
ASSUME FillAssumption ==
  /\ TargetFrames \in Nat /\ TargetFrames <= Capacity
  /\ StartFrames \in Nat /\ StartFrames <= TargetFrames
  /\ Quantum \in Nat \ {0} /\ Quantum <= StartFrames
  /\ MaxMixFrames \in Nat \ {0}
ASSUME EpochAssumption == MaxEpoch \in Nat \ {0}

VARIABLES
  \* the header words and the payload of the SharedArrayBuffer
  writeIndex, readIndex, state, epoch, epochAck, samples,
  \* the producer: AudioPcmProducer's fields, its program counter and locals
  ring, muted, ppc, attempt, fill, mixed, writable, pcopied,
  \* the consumer: its program counter and the locals of consumeAudioPcm
  cpc, cEpoch, cWrite, consumed, output,
  \* what the audio thread has been given: its last quantum, and whether it
  \* got one since it last flushed
  played, playedSinceFlush

header == <<writeIndex, readIndex, state, epoch, epochAck>>
producer == <<ring, muted, ppc, attempt, fill, mixed, writable, pcopied>>
consumer == <<cpc, cEpoch, cWrite, consumed, output>>
history == <<played, playedSinceFlush>>
vars == <<header, samples, producer, consumer, history>>

Index == 0 .. IndexModulus - 1
Slot == 0 .. Capacity - 1
RingState == {"STOPPED", "PREFILL", "RUNNING", "MUTED"}

(* A frame is known by the epoch it was mixed in and the write index it    *)
(* was given.                                                              *)
Silence == [epoch |-> 0, index |-> 0]
Frame == [epoch : Nat, index : Index]

Lesser(a, b) == IF a <= b THEN a ELSE b

(* (i + n) | 0 and (a - b) >>> 0 on words of IndexModulus values; n and    *)
(* the true distance are always below IndexModulus.                        *)
Advance_Faulty(i, n) == i + n
Advance(i, n) == IF i + n >= IndexModulus THEN i + n - IndexModulus ELSE i + n
Distance(a, b) == IF a >= b THEN a - b ELSE a - b + IndexModulus

SlotOf(i) == i % Capacity

AvailableFrames == Distance(writeIndex, readIndex)
FreeFrames == Capacity - Lesser(Capacity, AvailableFrames)

MuteState(m) == IF m THEN "MUTED" ELSE "PREFILL"

(***************************************************************************)
(* createAudioPcmRing, and an AudioPcmProducer before install.             *)
(***************************************************************************)
Init ==
  /\ writeIndex = 0 /\ readIndex = 0
  /\ state = "MUTED" /\ epoch = 0 /\ epochAck = 0
  /\ samples = [s \in Slot |-> Silence]
  /\ ring = FALSE /\ muted = TRUE
  /\ ppc = "idle" /\ attempt = 0 /\ fill = 0 /\ mixed = 0
  /\ writable = 0 /\ pcopied = 0
  /\ cpc = "idle" /\ cEpoch = 0 /\ cWrite = 0 /\ consumed = 0
  /\ output = <<>>
  /\ played = <<>> /\ playedSinceFlush = FALSE

(***************************************************************************)
(* The producer's handlers.  requestAudioPcmEpoch is two accesses: the     *)
(* state word first, then the epoch word.                                  *)
(***************************************************************************)
RequestEpoch(s) ==
  /\ epoch < MaxEpoch
  /\ state' = s
  /\ ppc' = "bumpEpoch"
  /\ UNCHANGED <<writeIndex, readIndex, epoch, epochAck>>

Install(m) ==
  /\ ppc = "idle"
  /\ ring' = TRUE /\ muted' = m
  /\ RequestEpoch(MuteState(m))
  /\ UNCHANGED <<attempt, fill, mixed, writable, pcopied, samples, consumer,
                 history>>

SetMuted(m) ==
  /\ ppc = "idle" /\ ring
  /\ ~(m = muted /\ epoch # 0)
  /\ muted' = m
  /\ RequestEpoch(MuteState(m))
  /\ UNCHANGED <<ring, attempt, fill, mixed, writable, pcopied, samples,
                 consumer, history>>

Transition ==
  /\ ppc = "idle" /\ ring
  /\ RequestEpoch(MuteState(muted))
  /\ UNCHANGED <<ring, muted, attempt, fill, mixed, writable, pcopied, samples,
                 consumer, history>>

BumpEpoch ==
  /\ ppc = "bumpEpoch"
  /\ epoch' = epoch + 1
  /\ ppc' = "idle"
  /\ UNCHANGED <<writeIndex, readIndex, state, epochAck, ring, muted, attempt,
                 fill, mixed, writable, pcopied, samples, consumer, history>>

Stop ==
  /\ ppc = "idle" /\ ring
  /\ ring' = FALSE
  /\ UNCHANGED <<header, samples, muted, ppc, attempt, fill, mixed, writable,
                 pcopied, consumer, history>>

(***************************************************************************)
(* refill, called by the 10 ms timer with two mixes and by the command     *)
(* ring's drain with one.  The epoch word is the producer's own; what it   *)
(* reads of the other thread is EPOCH_ACK and READ_INDEX.                  *)
(***************************************************************************)
MayRefill_Faulty == ring
MayRefill == ring /\ ~muted

EpochAcknowledged_Faulty == TRUE
EpochAcknowledged == epochAck = epoch

Refill(maxMixes) ==
  /\ ppc = "idle" /\ MayRefill
  /\ EpochAcknowledged
  /\ ppc' = "readFill" /\ attempt' = maxMixes
  /\ UNCHANGED <<header, samples, ring, muted, fill, mixed, writable, pcopied,
                 consumer, history>>

ReadFill ==
  /\ ppc = "readFill"
  /\ IF attempt = 0
     THEN ppc' = "readFinal" /\ UNCHANGED fill
     ELSE ppc' = "mix" /\ fill' = AvailableFrames
  /\ UNCHANGED <<header, samples, ring, muted, attempt, mixed, writable,
                 pcopied, consumer, history>>

Requested ==
  Lesser(MaxMixFrames, Lesser(TargetFrames - fill, FreeFrames))

Mix(n) ==
  /\ ppc = "mix"
  /\ fill < TargetFrames /\ FreeFrames > 0
  /\ n \in 1 .. Requested
  /\ mixed' = n
  /\ ppc' = "readFree"
  /\ UNCHANGED <<header, samples, ring, muted, attempt, fill, writable,
                 pcopied, consumer, history>>

(* The ring is full enough, or the core had nothing to mix.                *)
MixNothing ==
  /\ ppc = "mix"
  /\ ppc' = "readFinal" /\ attempt' = 0 /\ fill' = 0
  /\ UNCHANGED <<header, samples, ring, muted, mixed, writable, pcopied,
                 consumer, history>>

(* writeAudioPcm: how much fits, the frames, then the index.               *)
ReadFree ==
  /\ ppc = "readFree"
  /\ writable' = Lesser(mixed, FreeFrames)
  /\ pcopied' = 0
  /\ ppc' = "write"
  /\ UNCHANGED <<header, samples, ring, muted, attempt, fill, mixed, consumer,
                 history>>

WriteFrame ==
  /\ ppc = "write" /\ pcopied < writable
  /\ LET i == Advance(writeIndex, pcopied)
     IN  samples' = [samples EXCEPT ![SlotOf(i)] = [epoch |-> epoch, index |-> i]]
  /\ pcopied' = pcopied + 1
  /\ UNCHANGED <<header, ring, muted, ppc, attempt, fill, mixed, writable,
                 consumer, history>>

PublishWrite ==
  /\ ppc = "write" /\ pcopied = writable
  /\ writeIndex' = Advance(writeIndex, writable)
  /\ IF writable = mixed
     THEN ppc' = "readFill" /\ attempt' = attempt - 1
     ELSE ppc' = "readFinal" /\ attempt' = 0
  /\ fill' = 0 /\ mixed' = 0 /\ writable' = 0 /\ pcopied' = 0
  /\ UNCHANGED <<readIndex, state, epoch, epochAck, samples, ring, muted,
                 consumer, history>>

Prefilled_Faulty == AvailableFrames > 0
Prefilled == AvailableFrames >= StartFrames

ReadFinal ==
  /\ ppc = "readFinal"
  /\ ppc' = IF Prefilled THEN "setRunning" ELSE "idle"
  /\ UNCHANGED <<header, samples, ring, muted, attempt, fill, mixed, writable,
                 pcopied, consumer, history>>

SetRunning ==
  /\ ppc = "setRunning"
  /\ state' = "RUNNING"
  /\ ppc' = "idle"
  /\ UNCHANGED <<writeIndex, readIndex, epoch, epochAck, samples, ring, muted,
                 attempt, fill, mixed, writable, pcopied, consumer, history>>

(***************************************************************************)
(* consumeAudioPcm, which process() calls for every quantum.  EPOCH_ACK    *)
(* and READ_INDEX are the consumer's own words.                            *)
(***************************************************************************)
LoadEpoch_Faulty ==
  /\ cpc = "idle"
  /\ cEpoch' = epoch
  /\ cpc' = IF epoch # epochAck /\ state = "RUNNING"
             THEN "loadWrite" ELSE "loadState"
  /\ UNCHANGED <<header, samples, producer, cWrite, consumed, output, history>>
LoadEpoch ==
  /\ cpc = "idle"
  /\ cEpoch' = epoch
  /\ cpc' = IF epoch # epochAck THEN "loadWrite" ELSE "loadState"
  /\ UNCHANGED <<header, samples, producer, cWrite, consumed, output, history>>

LoadWrite ==
  /\ cpc = "loadWrite"
  /\ cWrite' = writeIndex
  /\ cpc' = "flush"
  /\ UNCHANGED <<header, samples, producer, cEpoch, consumed, output, history>>

Flush_Faulty ==
  /\ cpc = "flush"
  /\ playedSinceFlush' = FALSE
  /\ cpc' = "acknowledge"
  /\ UNCHANGED <<header, samples, producer, cEpoch, cWrite, consumed, output,
                 played>>
Flush ==
  /\ cpc = "flush"
  /\ readIndex' = cWrite
  /\ playedSinceFlush' = FALSE
  /\ cpc' = "acknowledge"
  /\ UNCHANGED <<writeIndex, state, epoch, epochAck, samples, producer, cEpoch,
                 cWrite, consumed, output, played>>

Acknowledge_Faulty ==
  /\ cpc = "acknowledge"
  /\ cpc' = "idle" /\ cEpoch' = 0 /\ cWrite' = 0
  /\ UNCHANGED <<header, samples, producer, consumed, output, history>>
Acknowledge ==
  /\ cpc = "acknowledge"
  /\ epochAck' = cEpoch
  /\ cpc' = "idle" /\ cEpoch' = 0 /\ cWrite' = 0
  /\ UNCHANGED <<writeIndex, readIndex, state, epoch, samples, producer,
                 consumed, output, history>>

LoadState ==
  /\ cpc = "loadState"
  /\ IF state = "RUNNING"
     THEN cpc' = "loadAvailable" /\ UNCHANGED cEpoch
     ELSE cpc' = "idle" /\ cEpoch' = 0
  /\ UNCHANGED <<header, samples, producer, cWrite, consumed, output, history>>

QuantumFrames == Lesser(Quantum, Lesser(Capacity, AvailableFrames))

LoadAvailable ==
  /\ cpc = "loadAvailable"
  /\ consumed' = QuantumFrames
  /\ cpc' = "copy"
  /\ UNCHANGED <<header, samples, producer, cEpoch, cWrite, output, history>>

NextToCopy == Advance(readIndex, Len(output))

CopyFrame ==
  /\ cpc = "copy" /\ Len(output) < consumed
  /\ output' = Append(output, samples[SlotOf(NextToCopy)])
  /\ UNCHANGED <<header, samples, producer, cpc, cEpoch, cWrite, consumed,
                 history>>

(* READ_INDEX moves past what was copied; the rest of the quantum, if any, *)
(* is an underrun and silent.                                              *)
PublishRead_Faulty ==
  /\ cpc = "copy" /\ Len(output) = consumed
  /\ readIndex' = Advance(readIndex, Quantum)
  /\ played' = output
  /\ playedSinceFlush' = TRUE
  /\ cpc' = "idle" /\ cEpoch' = 0 /\ consumed' = 0 /\ output' = <<>>
  /\ UNCHANGED <<writeIndex, state, epoch, epochAck, samples, producer, cWrite>>
PublishRead ==
  /\ cpc = "copy" /\ Len(output) = consumed
  /\ readIndex' = Advance(readIndex, consumed)
  /\ played' = output
  /\ playedSinceFlush' = TRUE
  /\ cpc' = "idle" /\ cEpoch' = 0 /\ consumed' = 0 /\ output' = <<>>
  /\ UNCHANGED <<writeIndex, state, epoch, epochAck, samples, producer, cWrite>>

-----------------------------------------------------------------------------
Requests ==
  \/ \E m \in BOOLEAN : Install(m) \/ SetMuted(m)
  \/ Transition
  \/ Stop

RefillSteps ==
  \/ \E n \in 1 .. 2 : Refill(n)
  \/ ReadFill
  \/ \E n \in 1 .. Capacity : Mix(n)
  \/ MixNothing
  \/ ReadFree \/ WriteFrame \/ PublishWrite \/ ReadFinal \/ SetRunning

Consume ==
  \/ LoadEpoch \/ LoadWrite \/ Flush \/ Acknowledge
  \/ LoadState \/ LoadAvailable \/ CopyFrame \/ PublishRead

Next == Requests \/ BumpEpoch \/ RefillSteps \/ Consume

Spec == Init /\ [][Next]_vars

(***************************************************************************)
(* A handler that has begun finishes, the timer keeps firing, and the      *)
(* audio thread keeps asking for quanta.  Nothing makes a user mute, load  *)
(* a state or stop; and nothing but strong fairness of Mix makes the core  *)
(* deliver sound.                                                          *)
(***************************************************************************)
Fairness ==
  /\ WF_vars(BumpEpoch)
  /\ WF_vars(RefillSteps)
  /\ SF_vars(\E n \in 1 .. Capacity : Mix(n))
  /\ WF_vars(Consume)

FairSpec == Spec /\ Fairness

-----------------------------------------------------------------------------
(* Type invariant of the two threads and the shared words.                 *)
TypeOK ==
  /\ writeIndex \in Index /\ readIndex \in Index
  /\ state \in RingState
  /\ epoch \in 0 .. MaxEpoch /\ epochAck \in 0 .. MaxEpoch
  /\ samples \in [Slot -> Frame]
  /\ ring \in BOOLEAN /\ muted \in BOOLEAN
  /\ ppc \in {"idle", "bumpEpoch", "readFill", "mix", "readFree", "write",
              "readFinal", "setRunning"}
  /\ attempt \in 0 .. 2
  /\ fill \in 0 .. Capacity
  /\ mixed \in 0 .. Capacity /\ writable \in 0 .. Capacity
  /\ pcopied \in 0 .. Capacity
  /\ cpc \in {"idle", "loadWrite", "flush", "acknowledge", "loadState",
              "loadAvailable", "copy"}
  /\ cEpoch \in 0 .. MaxEpoch /\ cWrite \in Index
  /\ consumed \in 0 .. Quantum
  /\ output \in Seq(Frame) /\ Len(output) <= Quantum
  /\ played \in Seq(Frame)
  /\ playedSinceFlush \in BOOLEAN

Refilling == ppc \notin {"idle", "bumpEpoch"}
Flushing == cpc \in {"loadWrite", "flush", "acknowledge"}
Playing == cpc \in {"loadAvailable", "copy"}

(* The handshake of refill (which returns while EPOCH_ACK is behind) and   *)
(* consumeAudioPcm (which flushes while it is behind) is a lock: the       *)
(* worker is never adding frames while the audio thread drops them.        *)
FlushExcludesRefill == ~(Refilling /\ Flushing)

(* The index words never say that more than the whole ring is filled, and  *)
(* neither thread has claimed frames the other one owns: the slots being   *)
(* copied out and the slots being written are disjoint.                    *)
ClaimsAreDisjoint ==
  /\ AvailableFrames <= Capacity
  /\ cpc = "copy" => consumed <= AvailableFrames
  /\ ppc = "write" => AvailableFrames + writable <= Capacity

(* Everything the core mixed reaches the ring: writeAudioPcm never has     *)
(* less room than refill saw before it asked for the mix.                  *)
MixedFramesFit == ppc = "write" => writable = mixed

(* After a load, a reset or a mute, no frame of an earlier epoch is played *)
(* by a quantum that has seen the new epoch.                               *)
NoStaleFrames ==
  cpc = "copy" =>
    /\ \A i \in 1 .. Len(output) : output[i].epoch = cEpoch
    /\ ~Flushing

(* A quantum hears frames in mixing order, without a gap or a repeat.      *)
InMixingOrder ==
  \A i \in 1 .. Len(output) - 1 :
    output[i + 1].index = Advance(output[i].index, 1)

(* Prefill works: the first quantum played after a flush finds at least    *)
(* StartFrames frames, so it cannot underrun.                              *)
FirstQuantumIsPrefilled ==
  (cpc = "loadAvailable" /\ ~playedSinceFlush) => AvailableFrames >= StartFrames

(* Once the audio thread has acknowledged a mute, it plays nothing until   *)
(* an unmute.                                                              *)
MutedIsQuiet ==
  (ring /\ muted /\ ppc = "idle" /\ epochAck = epoch) =>
     state # "RUNNING" /\ ~Playing

(* Every requested epoch is acknowledged, whatever the audio thread was    *)
(* doing when it was requested.                                            *)
EpochsAreAcknowledged == []<>(epochAck = epoch)

(* An unmuted ring that is left alone plays again: a transition never      *)
(* leaves the two sides waiting for each other.                            *)
SoundResumes ==
  <>[](ring /\ ~muted) => []<>(state = "RUNNING")

-----------------------------------------------------------------------------
(* The ring implements AudioFifo: the queue is the slots from READ_INDEX   *)
(* up to WRITE_INDEX, and a quantum is in flight when it has compared the  *)
(* epoch words.                                                            *)
Fifo == INSTANCE AudioFifo WITH
  queue <- [i \in 1 .. AvailableFrames |->
              samples[SlotOf(Advance(readIndex, i - 1))]],
  acked <- epochAck,
  grace <- epochAck # epoch /\ cpc \in {"loadState", "loadAvailable", "copy"}

(* Every step of the two threads is a step of the queue or a stutter.      *)
ImplementsFifo == Fifo!Spec
=============================================================================
