----------------------------- MODULE MCJitCache -----------------------------
(***************************************************************************)
(* Scenarios of JitCache for TLC.                                          *)
(***************************************************************************)
EXTENDS JitCache, SequencesExt

(* As blocks are alike, one order of them is as good as another.           *)
OneOrder == {SubSeq(SetToSeq(Keys), 1, n) : n \in 0 .. Cardinality(Keys)}

(* A tab that is closed and opened again, with a store that fails; two     *)
(* loads that overlap; pthreads that cannot be reached, or are added late. *)
Restarts == [loads |-> 1, threads |-> 1, sessions |-> 1, compiles |-> 1, fails |-> {"store"}]
Overlap == [loads |-> 2, threads |-> 1, sessions |-> 0, compiles |-> 1, fails |-> {}]
Late == [loads |-> 1, threads |-> 2, sessions |-> 0, compiles |-> 1, fails |-> {"post"}]
AllScenarios == {Restarts, Overlap, Late}
=============================================================================
