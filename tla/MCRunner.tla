------------------------------ MODULE MCRunner ------------------------------
(* Small instances of Runner: the cfg files give the sets of names, runs    *)
(* and calls as model values, and every bound.                              *)
EXTENDS Runner, TLC

(* Names, runs and calls are interchangeable; used by the runs that check   *)
(* invariants only.                                                         *)
Symmetric == Permutations(Names) \cup Permutations(Runs) \cup Permutations(Requests)

=============================================================================
