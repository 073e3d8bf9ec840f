------------------------ MODULE MCCreateReservation ------------------------
(***************************************************************************)
(* A small restaurant for TLC: two tables of different size in zones of    *)
(* the same priority, so that both orders of findAvailableTables matter.   *)
(***************************************************************************)
EXTENDS CreateReservation, TLC

CONSTANTS small, large

MCTables == {small, large}
MCCapacity == (small :> 2) @@ (large :> 5)
MCPriority == (small :> 1) @@ (large :> 1)
MCStarts == {1, 2, 3}
MCTwoStarts == {1, 2}
MCDurations == {2}
MCParties == {2}
MCManyParties == {2, 4}

MCHours == {{1}, Starts}

Symmetry == Permutations(Requests) \cup Permutations(Codes)
=============================================================================
