---------------------------- MODULE ReplayQueue -----------------------------
(***************************************************************************)
(* What the command ring promises the renderer: records leave the ring     *)
(* once each and in the order they were published, a drain takes whole     *)
(* passes only where the session promises it, a fence drops no record      *)
(* behind an END, and a consumer that fails stops for good.                *)
(***************************************************************************)
EXTENDS Integers, Sequences

CONSTANTS MayDrop, MayStop   \* whether fences and failures are possible

VARIABLES queue,    \* the kinds and names of the records not yet handed back
          whole,    \* this session promises that passes are taken whole
          dropping, \* a fence is dropping records
          stopped

Init == queue = <<>> /\ whole \in BOOLEAN /\ dropping = FALSE /\ stopped = FALSE

Rest(k) == SubSeq(queue, k + 1, Len(queue))

(* The first k records hold no BEGIN without its END, and no END without   *)
(* its BEGIN.                                                              *)
Ends(k) == {e \in 1 .. k : queue[e].op = "end"}
Begins(k) == {b \in 1 .. k : queue[b].op = "begin"}
WholePasses(k) ==
  /\ \A b \in Begins(k) : \E e \in Ends(k) : b < e
  /\ \A e \in Ends(k) : \E b \in Begins(k) :
       b < e /\ \A f \in Ends(k) : ~(b < f /\ f < e)

Publish ==
  /\ ~stopped /\ UNCHANGED <<dropping, stopped>>
  /\ Len(queue') > Len(queue)
  /\ SubSeq(queue', 1, Len(queue)) = queue

Replay ==
  /\ ~stopped /\ ~dropping /\ UNCHANGED <<dropping, stopped>>
  /\ \E k \in 1 .. Len(queue) : (whole => WholePasses(k)) /\ queue' = Rest(k)

StartDropping ==
  /\ MayDrop /\ ~stopped /\ ~dropping
  /\ dropping' = TRUE /\ UNCHANGED <<queue, stopped>>

Drop ==
  /\ dropping /\ ~stopped /\ dropping' = FALSE /\ UNCHANGED stopped
  /\ \E k \in 1 .. Len(queue) : Ends(k - 1) = {} /\ queue' = Rest(k)

Stop ==
  /\ MayStop /\ ~stopped /\ stopped' = TRUE /\ UNCHANGED dropping
  /\ \E k \in 0 .. Len(queue) : queue' = Rest(k)

Next ==
  /\ UNCHANGED whole
  /\ Publish \/ Replay \/ StartDropping \/ Drop \/ Stop
Spec == Init /\ [][Next]_<<queue, whole, dropping, stopped>>
=============================================================================
