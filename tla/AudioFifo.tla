------------------------------ MODULE AudioFifo ------------------------------
(***************************************************************************)
(* What the PCM ring promises, without words, slots or threads: a bounded  *)
(* queue of frames that the worker appends to and the audio thread takes   *)
(* quanta from, and a handshake that empties it.  AudioPcmRing implements  *)
(* it.                                                                     *)
(***************************************************************************)
EXTENDS Integers, Sequences, SequencesExt

CONSTANTS Capacity, Quantum

VARIABLES
  queue,    \* the frames that may still be played, oldest first
  epoch,    \* the newest epoch the worker asked for
  acked,    \* the epoch the audio thread last acknowledged
  grace,    \* a quantum that began before the newest request may finish
  played    \* the frames of the last quantum

vars == <<queue, epoch, acked, grace, played>>

Init ==
  /\ queue = <<>> /\ played = <<>>
  /\ epoch = 0 /\ acked = 0
  /\ grace = FALSE

(* A load, a reset, a mute or an unmute.  At most one quantum is in        *)
(* flight, and a second request does not give it another chance.           *)
Request ==
  /\ epoch' = epoch + 1
  /\ grace' \in (IF acked = epoch THEN BOOLEAN ELSE {FALSE, grace})
  /\ UNCHANGED <<queue, acked, played>>

(* Frames of the acknowledged epoch arrive together, behind the others.    *)
Deliver ==
  /\ acked = epoch
  /\ IsStrictPrefix(queue, queue')
  /\ Len(queue') <= Capacity
  /\ \A i \in Len(queue) + 1 .. Len(queue') : queue'[i].epoch = epoch
  /\ UNCHANGED <<epoch, acked, grace, played>>

(* A quantum takes the oldest frames; what it takes is gone.               *)
Play ==
  /\ acked = epoch \/ grace
  /\ \E n \in 0 .. Len(queue) :
       /\ n <= Quantum
       /\ played' = SubSeq(queue, 1, n)
       /\ queue' = SubSeq(queue, n + 1, Len(queue))
  /\ grace' = FALSE
  /\ UNCHANGED <<epoch, acked>>

(* The quantum in flight turns out to be silent.                           *)
StaySilent ==
  /\ grace
  /\ grace' = FALSE
  /\ UNCHANGED <<queue, epoch, acked, played>>

Discard ==
  /\ acked # epoch /\ ~grace
  /\ queue' = <<>>
  /\ UNCHANGED <<epoch, acked, grace, played>>

Acknowledge ==
  /\ queue = <<>> /\ ~grace
  /\ acked' \in acked + 1 .. epoch
  /\ UNCHANGED <<queue, epoch, grace, played>>

Next == Request \/ Deliver \/ Play \/ StaySilent \/ Discard \/ Acknowledge

Spec == Init /\ [][Next]_vars
=============================================================================
