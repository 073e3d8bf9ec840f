------------------------------ MODULE MCAgenda ------------------------------
(***************************************************************************)
(* Two calls about one reservation, and the pages that show it.            *)
(***************************************************************************)
EXTENDS Agenda, TLC

Symmetry == Permutations(Calls) \cup Permutations(Tabs) \cup Permutations(Slots)

\* States are told apart by what the two properties read, and by all that leads to it: not by
\* what is on a page gone astray, nor by the rows that nothing here reads again.
Some(set) == set # {}

SeenOf(t) ==
    IF t \notin astray THEN <<page[t], inbox[t], drop[t]>>
    ELSE <<page[t].at, Some(page[t].list), Some(page[t].calendar), Len(inbox[t]),
           {<<d.to, d.by, d.at, d.row>> : d \in drop[t]}>>

Seen == <<status, audits, noShows, call, [c \in Calls |-> Some(wrote[c])], start,
          [t \in Tabs |-> SeenOf(t)], sender, result, emitted, astray>>
=============================================================================
