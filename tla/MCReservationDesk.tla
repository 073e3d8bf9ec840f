------------------------- MODULE MCReservationDesk -------------------------
(***************************************************************************)
(* The restaurant of MCCreateReservation with two sittings that do not     *)
(* touch, so that moving a reservation to the other sitting is possible,   *)
(* and lengthening one makes it reach into the other.                      *)
(***************************************************************************)
EXTENDS ReservationDesk, FiniteSets, TLC

CONSTANTS small, large

MCTables == {small, large}
MCCapacity == (small :> 2) @@ (large :> 5)
MCPriority == (small :> 1) @@ (large :> 1)
MCStarts == {1, 3}
MCDurations == {2}
MCParties == {2, 3}
MCCouples == {2}

Sitting(s) == [NoWish EXCEPT !.start = {s}]
Party(n) == [NoWish EXCEPT !.guests = {n}]

\* Another sitting; two other ends; another party; no table.
MCPatches == {Sitting(3), [NoWish EXCEPT !.end = {3}], [NoWish EXCEPT !.end = {5}],
              Party(3), [NoWish EXCEPT !.clear = TRUE]}
MCSeatPatches == {[NoWish EXCEPT !.start = {3}, !.table = {large}]}
MCSmaller == {Party(2)}
MCTimePatches == {Sitting(1), Sitting(3), [NoWish EXCEPT !.end = {3}]}
MCModifies == {[Sitting(3) EXCEPT !.guests = {3}]}
MCMoves == {Sitting(1), Sitting(3)}

\* What is left of a call that has ended is its row, and the answer to the query for tables is
\* looked at once.  When fewer than two reservations are left that nobody wrote to,
\* UntouchedNeverCollide says nothing any more, of this state or of a later one.
Live(f) == [q \in {r \in Requests : pc[r] \in Running} |-> f[q]]
Request(m) == [mover[m] EXCEPT !.booked = IF At(m, "tables") THEN @ ELSE {}]
Seen == IF Cardinality(Requests \ touched) < 2 THEN <<touched>>
        ELSE <<pc, Live(booked), Live(table), Live(code), Live(outcome), input, redisLock, rowLock,
               reservations, codes, floorVars, [m \in Movers |-> Request(m)], touched>>

Symmetry == Permutations(Requests \ Earlier) \cup Permutations(Earlier)
            \cup Permutations(Movers) \cup Permutations(Codes)
=============================================================================
