----------------------------- MODULE LatestInput ----------------------------
(***************************************************************************)
(* What the input transport promises the core: the pad holds a complete    *)
(* controller state that the page offered, and it only moves on to states  *)
(* offered later.  States in between may be skipped.  A reset centres the  *)
(* sticks of whatever the pad holds, and a bare mask replaces it.          *)
(***************************************************************************)
EXTENDS Integers, Sequences

CONSTANTS States, Neutral,
          SticksCentred(_), \* the same buttons with centred sticks
          Bare              \* the pads a bare mask makes

VARIABLES offered, \* the states offered after the one the pad took up last
          pad,     \* what the pad holds
          calls    \* which of "reset" and "mask" are called

Init == offered = <<>> /\ pad = Neutral /\ calls \subseteq {"reset", "mask"}

Offer ==
  /\ \E s \in States : offered' = Append(offered, s)
  /\ UNCHANGED <<pad, calls>>

Apply ==
  /\ \E i \in 1 .. Len(offered) :
       /\ pad' = offered[i]
       /\ offered' = SubSeq(offered, i + 1, Len(offered))
  /\ UNCHANGED calls

Reset ==
  /\ "reset" \in calls /\ pad' = SticksCentred(pad)
  /\ UNCHANGED <<offered, calls>>

Press ==
  /\ "mask" \in calls /\ pad' \in Bare
  /\ UNCHANGED <<offered, calls>>

Next == Offer \/ Apply \/ Reset \/ Press
Spec == Init /\ [][Next]_<<offered, pad, calls>>
=============================================================================
