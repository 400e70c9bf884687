---------------------------- MODULE MCDosMemory ----------------------------
(* Instances of DosMemory for TLC.                                         *)
EXTENDS DosMemory, TLC

CONSTANTS p1, p2

MCProcs == {p1, p2}
MCSymmetry == Permutations(MCProcs)

(* Every fit and every choice of the chains, not every pair of them.       *)
MCStrategies ==
  [fit : {"first", "last"}, chains : {"low"}]
    \cup {[fit |-> "first", chains |-> "high"]}
    \cup [fit : {"best", "last"}, chains : {"high_first"}]

(* States that differ only in MCBs that no chain reaches any more: every   *)
(* call follows a chain or starts at a block that is held.                 *)
MCView ==
  <<LET mcbs == Mcbs \cap DOMAIN mem IN [s \in mcbs |-> mem[s]],
    linked, allocation_strategy, psp, held, reported>>
=============================================================================
