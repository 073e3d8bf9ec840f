---------------------------- MODULE TableLedger ----------------------------
(***************************************************************************)
(* What the reservation book of one restaurant promises, whatever locks    *)
(* and transactions it is built from: a booking takes its tables for a     *)
(* window of time in one step, only if no other booking holds one of them  *)
(* in that window, keeps exactly what it took, and may give it back.       *)
(***************************************************************************)
EXTENDS Naturals

CONSTANTS Bookings,   \* the bookings that may ever be made
          Tables,     \* the restaurant's tables
          Instants    \* the instants a window starts or ends at

VARIABLE held         \* what each booking holds

\* A hold: the tables taken and the half-open window [start, end) they are taken for.
Hold == [tables : SUBSET Tables, start : Instants, end : Instants]

Free(b) == held[b].tables = {}

\* Two holds collide when they share a table at some instant.
Collide(h, g) == /\ h.tables \cap g.tables # {}
                 /\ h.start < g.end
                 /\ g.start < h.end

\* No two bookings hold the same table at the same time: what
\* executeConcurrentBookingTx says its row lock is for.
NoCollision == \A b, c \in Bookings : b # c => ~Collide(held[b], held[c])

Init == /\ held \in [Bookings -> Hold]
        /\ \A b \in Bookings : Free(b)

Take(b, h) == /\ Free(b)
              /\ \A c \in Bookings \ {b} : ~Collide(h, held[c])
              /\ held' = [held EXCEPT ![b] = h]

GiveBack(b) == /\ ~Free(b)
               /\ held' = [held EXCEPT ![b].tables = {}]

Next == \E b \in Bookings : GiveBack(b) \/ \E h \in Hold : Take(b, h)

Spec == Init /\ [][Next]_held
=============================================================================
