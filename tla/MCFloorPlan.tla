---------------------------- MODULE MCFloorPlan ----------------------------
(***************************************************************************)
(* Two tables with a name each, a zone, the page, other clients, and two   *)
(* calls at a time.                                                        *)
(***************************************************************************)
EXTENDS FloorPlan, TLC

Symmetry == UNION {Permutations(s) : s \in {TableNames, ZoneNames, Zones, Tables}}

\* Once another client has been there, nothing is claimed of the page, and whatever the page
\* can still ask for that client can ask for: states are then told apart by the rows and calls.
OfRows(c) == [c EXCEPT !.from = "other"]

Seen == IF "others" \in doubt
        THEN <<rowVars, {OfRows(c) : c \in {d \in calls : d.op \notin Loads}}, Cardinality(calls)>>
        ELSE <<vars>>
=============================================================================
