---------------------------- MODULE ServiceHours ----------------------------
(***************************************************************************)
(* When a restaurant can be booked: the OpeningHour rows that its settings *)
(* keep, the check that every booking passes (ensureReservable), and the   *)
(* alternatives that are offered over WhatsApp and come back as a text.    *)
(*                                                                         *)
(* Time is a line of instants; the wall clock of a zone is the instant     *)
(* plus the zone's offset, cut into days of DayLength steps.  A clock text *)
(* "HH:MM" is zero-padded on both sides of every comparison the code makes *)
(* (normalizeTime, padStart), so that texts compare as times do.           *)
(***************************************************************************)
EXTENDS Integers, FiniteSets

CONSTANTS DayLength,        \* steps in a day
          Weekdays,         \* days in a week
          ServerOffset,     \* the zone of Date's getDay, getHours and toLocaleTimeString
          RestaurantOffset, \* the zone of Restaurant.timezone
          Offsets,          \* -180 to 180 minutes by 30, without 0
          Rows,             \* what the settings may say of a day
          BlockedDates,     \* instants of the BlockedDate rows, which no code here writes
          Default           \* opening and closing time shown for a day without a row

Days == 0..Weekdays - 1
Clock == 0..DayLength - 1
Row == [listed : BOOLEAN, open : Clock, close : Clock, isClosed : BOOLEAN]

ASSUME HoursAssumption ==
    /\ {DayLength, Weekdays} \subseteq Nat \ {0}
    /\ {ServerOffset, RestaurantOffset} \subseteq Nat
    /\ BlockedDates \subseteq Nat
    /\ Offsets \subseteq Int \ {0}
    /\ Rows \subseteq Row /\ Default \in Row

VARIABLES
    week,     \* the rows, by day; not listed: missing, deleted or inactive
    offered,  \* the instants whose texts are the conversation's alternativeSlots
    answer    \* the last request for a table: how it came about and what came of it

vars == <<week, offered, answer>>

Kinds == {"none", "offered", "booked", "closed", "full"}

HoursTypeOK == /\ week \in [Days -> Row]
               /\ offered \subseteq Int
               /\ answer \in [kind : Kinds, start : Int, chosen : BOOLEAN]

Init == /\ week \in [Days -> Rows]
        /\ offered = {}
        /\ answer = [kind |-> "none", start |-> 0, chosen |-> FALSE]
-----------------------------------------------------------------------------
(* Clocks *)

DateOf(instant, offset) == (instant + offset) \div DayLength
TimeOf(instant, offset) == (instant + offset) % DayLength
WeekdayOf(instant, offset) == DateOf(instant, offset) % Weekdays

\* buildReservationDate: the instant at which the restaurant's clock shows date and time.
InstantOf(date, time) == date * DayLength + time - RestaurantOffset

\* The text of a slot, as findAvailableSlots writes it.
SlotText(slot) == TimeOf(slot, ServerOffset)
-----------------------------------------------------------------------------
(* Admission *)

Within(row, time) == row.open <= time /\ time < row.close

\* ensureReservable, on the server's clock.
Admits(start) ==
    /\ LET row == week[WeekdayOf(start, ServerOffset)]
       IN  row.listed /\ ~row.isClosed /\ Within(row, TimeOf(start, ServerOffset))
    /\ \A b \in BlockedDates : DateOf(b, ServerOffset) # DateOf(start, ServerOffset)

\* createReservation: a table may be free or not, which is CreateReservation's subject.
Request(start, chosen) ==
    \E kind \in IF Admits(start) THEN {"booked", "full"} ELSE {"closed"} :
        answer' = [kind |-> kind, start |-> start, chosen |-> chosen]
-----------------------------------------------------------------------------
(* Operations *)

SaveHours(day, row) ==
    /\ week' = [week EXCEPT ![day] = row]
    /\ UNCHANGED <<offered, answer>>

Reserve(start) ==
    /\ Request(start, FALSE)
    /\ UNCHANGED <<week, offered>>

\* An enquiry looks at tables only: those at the other starts if there is none at this one;
\* if there is one, an earlier offer stays on the table.
Enquire(start) ==
    /\ \/ \E free \in SUBSET {start + o : o \in Offsets} : offered' = free
       \/ UNCHANGED offered
    /\ answer' = [kind |-> "offered", start |-> start, chosen |-> FALSE]
    /\ UNCHANGED week
-----------------------------------------------------------------------------
(* Properties *)

\* The week as the settings page shows it: twelve to ten for the days without a row.
Shown(day) == IF week[day].listed THEN week[day] ELSE Default

\* Open, as a restaurant reads "Viernes 13:00 00:00": a service that closes at or before
\* its opening time goes on into the next day.
OpenAt(start) ==
    LET day == WeekdayOf(start, RestaurantOffset)
        time == TimeOf(start, RestaurantOffset)
        today == Shown(day)
        yesterday == Shown((day - 1) % Weekdays)
    IN  \/ /\ ~today.isClosed
           /\ IF today.open < today.close THEN Within(today, time) ELSE today.open <= time
        \/ /\ ~yesterday.isClosed /\ yesterday.close <= yesterday.open
           /\ time < yesterday.close

Blocked(start) ==
    \E b \in BlockedDates : DateOf(b, RestaurantOffset) = DateOf(start, RestaurantOffset)

Requested == answer'.kind \in {"booked", "full", "closed"} /\ answer' # answer

\* "WhatsApp no deberia confirmar reservas para ese lunes": what is booked starts while
\* the restaurant is open, by its own clock, on a day that is not blocked.  Where the
\* server's clock is the restaurant's this is what Admits says; the variations are of others.
BookedWhileOpen ==
    [][Requested /\ answer'.kind = "booked"
         => OpenAt(answer'.start) /\ ~Blocked(answer'.start)]_vars

\* "el horario semanal se usa para validar disponibilidad": who is refused as closed asked
\* for a time at which the week shown says closed.
ClosedWhileClosed ==
    [][Requested /\ answer'.kind = "closed"
         => ~OpenAt(answer'.start) \/ Blocked(answer'.start)]_vars

\* "Pero tenemos estos horarios disponibles": a slot that is chosen is requested for the
\* instant at which a table was found, not for another day or another zone's hour.
ChosenWasOffered ==
    [][Requested /\ answer'.chosen => answer'.start \in offered]_vars

\* The same sentence: a slot is offered only when it can be had.
OfferedIsOpen ==
    [][offered' # offered => \A slot \in offered' : Admits(slot)]_vars
=============================================================================
