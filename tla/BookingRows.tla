---------------------------- MODULE BookingRows ----------------------------
(***************************************************************************)
(* The rows of one restaurant and the queries over them: reservations with *)
(* the tables assigned to them (Reservation, ReservationTable), the floor  *)
(* (RestaurantTable with the priority of its zone) and                     *)
(* AvailabilityRepository.findAvailableTables.  Pure operators, no state.  *)
(*                                                                         *)
(* Time is abstract: an instant is a natural number and a window is the    *)
(* half-open [start, end).                                                 *)
(***************************************************************************)
EXTENDS Naturals

CONSTANTS Requests,    \* booking requests; a request's row carries its name
          Tables,
          Capacity,    \* guests a table seats
          Priority,    \* priority of the table's zone, lower is offered first
          Starts,      \* instants a guest may ask for
          Durations,   \* lengths of a stay
          Parties,     \* guest counts
          Phones,      \* normalized phone numbers
          Codes        \* confirmation codes

ASSUME FloorAssumption == /\ Capacity \in [Tables -> Nat]
                          /\ Priority \in [Tables -> Nat]
ASSUME TimeAssumption == /\ Starts \subseteq Nat
                         /\ Durations \subseteq Nat \ {0}
ASSUME PartiesAssumption == Parties \subseteq Nat \ {0}

\* findAvailableTables accepts a table with up to this many seats to spare.
SPARE_SEATS == 3

ACTIVE_STATUSES == {"PENDING", "CONFIRMED"}
STATUSES == ACTIVE_STATUSES \cup {"CANCELLED", "COMPLETED", "NO_SHOW"}

Instants == Starts \cup {s + d : s \in Starts, d \in Durations} \cup {0}

\* A Reservation row with its ReservationTable rows; status "NONE" is "no such row".
ReservationRow == [status : STATUSES \cup {"NONE"},
                   start  : Instants,
                   end    : Instants,
                   guests : Parties \cup {0},
                   tables : SUBSET Tables]

NoRow == [status |-> "NONE", start |-> 0, end |-> 0, guests |-> 0, tables |-> {}]

\* What a caller asks createReservation for; the end is start plus the duration.
BookingInput == [start : Starts, duration : Durations, guests : Parties, phone : Phones]

InputEnd(in) == in.start + in.duration

Active(row) == row.status \in ACTIVE_STATUSES

\* The where clause on reservationStart and reservationEnd.
Overlaps(row, start, end) == row.start < end /\ start < row.end

\* Mutant of BookedTables: a reservation books its table for good, whatever its window.
BookedTables_AnyTime(rows, start, end, except) ==
    UNION {rows[r].tables : r \in {o \in Requests \ except : Active(rows[o])}}

\* First query of findAvailableTables: the tables of the active reservations that
\* overlap the window, the reservations in `except` left out.
BookedTables(rows, start, end, except) ==
    UNION {rows[r].tables : r \in {o \in Requests \ except :
                                     Active(rows[o]) /\ Overlaps(rows[o], start, end)}}

\* Second query: active tables not in the first query's answer, big enough for the
\* party and not too big.
AvailableTables(active, booked, guests) ==
    {t \in active \ booked : /\ Capacity[t] >= guests
                             /\ Capacity[t] <= guests + SPARE_SEATS}

\* orderBy zone priority, then capacity, both ascending; ties come in any order.
SortsBefore(t, u) == \/ Priority[t] < Priority[u]
                     \/ Priority[t] = Priority[u] /\ Capacity[t] <= Capacity[u]

\* The tables that may come first in the answer of the second query.
FirstTables(available) == {t \in available : \A u \in available : SortsBefore(t, u)}
=============================================================================
