------------------------------- MODULE Agenda -------------------------------
(***************************************************************************)
(* The agenda of the dashboard over ReservationClosing: pages that load    *)
(* the day once, join the restaurant's room afterwards and live on events, *)
(* with a list, and a calendar that keeps a copy of its own and moves a    *)
(* reservation before the API has agreed.                                  *)
(*                                                                         *)
(* One reservation of the day is followed, by its status and its start.    *)
(* Events to one page come in order; answers of calls come on their own.   *)
(***************************************************************************)
EXTENDS ReservationClosing, Sequences

CONSTANTS Tabs, Slots,
          AgendaFaults,  \* "socket": a connection breaks, "lost": the answer of a move is lost
          MaxEvents      \* bound on the events on their way to one page

ASSUME AgendaAssumption == AgendaFaults \subseteq {"socket", "lost"} /\ MaxEvents \in Nat

VARIABLES
    start,    \* Reservation.reservationStart
    page,     \* by tab: how far it is, its list and the calendar's copy of the row
    inbox,    \* by tab: events on their way
    drop,     \* by tab: the move it has asked for, {} for none
    sender,   \* by call: the page that waits for its answer, {} for none
    result,   \* by call: the row as updateStatus left it
    emitted,  \* the calls whose event has been emitted
    astray    \* history: pages that, since they opened, were not told of a change, have seen two
              \*          things under way at once, or were answered nothing to a move

agendaVars == <<start, page, inbox, drop, sender, result, emitted, astray>>

Row == [status |-> status, start |-> start]
Rows == [status : STATUSES, start : Slots]

AgendaTypeOK ==
    /\ start \in Slots
    /\ page \in [Tabs -> [at : {"closed", "asked", "read", "loaded", "joined"},
                          list : SUBSET Rows, calendar : SUBSET Rows]]
    /\ \A t \in Tabs : inbox[t] \in Seq(Rows)
    /\ drop \in [Tabs -> SUBSET [to : Slots, old : Rows, by : {"calendar", "grid", "nobody"},
                                 at : {"asked", "written", "told", "refused", "nothing"},
                                 row : SUBSET Rows]]
    /\ sender \in [Calls -> SUBSET Tabs] /\ result \in [Calls -> SUBSET Rows]
    /\ emitted \subseteq Calls /\ astray \subseteq Tabs

Closed == [at |-> "closed", list |-> {}, calendar |-> {}]

\* Of the plain statuses the page sends one: COMPLETED, by the button that seats.
AgendaInit ==
    /\ Init /\ start \in Slots
    /\ \A c \in Calls : Is(c, {"status"}) => call[c].target = "COMPLETED"
    /\ page = [t \in Tabs |-> Closed] /\ inbox = [t \in Tabs |-> <<>>]
    /\ drop = [t \in Tabs |-> {}]
    /\ sender = [c \in Calls |-> {}] /\ result = [c \in Calls |-> {}]
    /\ emitted = {} /\ astray = {}
-----------------------------------------------------------------------------
HasRow(t) == page[t].at \in {"read", "loaded", "joined"}
Live(t) == page[t].at \in {"loaded", "joined"}
Joined == {t \in Tabs : page[t].at = "joined"}

\* A call that has not told everybody yet, a move, or an event on its way.
UnderWay(c) == \/ call[c].at \in {"find", "write", "audit", "log"}
               \/ At(c, "done") /\ result[c] # {} /\ (~Is(c, {"by code"}) /\ c \notin emitted)
               \/ sender[c] # {}
Quiet == /\ \A c \in Calls : ~UnderWay(c)
         /\ \A t \in Tabs : drop[t] = {} /\ inbox[t] = <<>>

Starts == astray' = IF Quiet THEN astray ELSE Tabs

\* upsertReservation, of the list (the calendar's effect follows it) and of the calendar
ListShows(t, row) == [page EXCEPT ![t].list = {row}, ![t].calendar = {row}]
CalendarShows(t, row) == [page EXCEPT ![t].calendar = {row}]

\* emitToRestaurant: to those who are in the room now.
EmitToRestaurant(row) ==
    /\ \A t \in Joined : Len(inbox[t]) < MaxEvents
    /\ inbox' = [t \in Tabs |-> IF t \in Joined THEN Append(inbox[t], row) ELSE inbox[t]]
    /\ astray' = astray \cup {t \in Tabs \ Joined : HasRow(t)}
-----------------------------------------------------------------------------
(* A page's life *)

\* ngOnInit and loadAgendaDiaria
Open(t) == /\ page[t].at = "closed"
           /\ page' = [page EXCEPT ![t].at = "asked"]
           /\ astray' = IF Quiet THEN astray \ {t} ELSE astray \cup {t}
           /\ UNCHANGED <<vars, start, inbox, drop, sender, result, emitted>>

FindAll(t) == /\ page[t].at = "asked"
              /\ page' = [page EXCEPT ![t] = [at |-> "read", list |-> {Row}, calendar |-> {}]]
              /\ UNCHANGED <<vars, start, inbox, drop, sender, result, emitted, astray>>

\* The lists are set and connect() begins: there is no room joined yet.
LoadAnswered(t) ==
    /\ page[t].at = "read"
    /\ page' = [page EXCEPT ![t].at = "loaded", ![t].calendar = page[t].list]
    /\ UNCHANGED <<vars, start, inbox, drop, sender, result, emitted, astray>>

\* handleConnection joins the restaurant's room.
HandleConnection(t) ==
    /\ page[t].at = "loaded"
    /\ page' = [page EXCEPT ![t].at = "joined"]
    /\ UNCHANGED <<vars, start, inbox, drop, sender, result, emitted, astray>>

\* The connection breaks, and comes back by itself without a new load.
SocketBreaks(t) ==
    /\ "socket" \in AgendaFaults /\ page[t].at = "joined"
    /\ page' = [page EXCEPT ![t].at = "loaded"]
    /\ inbox' = [inbox EXCEPT ![t] = <<>>]
    /\ astray' = IF inbox[t] = <<>> THEN astray ELSE astray \cup {t}
    /\ UNCHANGED <<vars, start, drop, sender, result, emitted>>

\* ngOnDestroy: nobody listens to what comes after, also to the answer of a move.
Leave(t) ==
    /\ Live(t)
    /\ page' = [page EXCEPT ![t] = Closed]
    /\ inbox' = [inbox EXCEPT ![t] = <<>>]
    /\ sender' = [c \in Calls |-> sender[c] \ {t}]
    /\ drop' = [drop EXCEPT ![t] = {[d EXCEPT !.by = "nobody"] : d \in @}]
    /\ UNCHANGED <<vars, start, result, emitted, astray>>

Deliver(t) == /\ inbox[t] # <<>>
              /\ page' = ListShows(t, Head(inbox[t]))
              /\ inbox' = [inbox EXCEPT ![t] = Tail(@)]
              /\ UNCHANGED <<vars, start, drop, sender, result, emitted, astray>>

\* Another reservation of the list changes, and the calendar's copy is set from the list.
CalendarEffect(t) ==
    /\ Live(t) /\ page[t].calendar # page[t].list
    /\ page' = [page EXCEPT ![t].calendar = page[t].list]
    /\ astray' = astray \cup {t}
    /\ UNCHANGED <<vars, start, inbox, drop, sender, result, emitted>>
-----------------------------------------------------------------------------
(* Calls about the status *)

\* The buttons of a page that shows the reservation, whatever its status there; one dialog
\* at a time; or a page that is not followed, or the guest's message.
AskFrom(c) ==
    /\ Ask(c) /\ Starts
    /\ \/ UNCHANGED sender
       \/ \E t \in Tabs :
              /\ ~Is(c, {"by code"}) /\ Live(t)
              /\ Is(c, {"status"}) \/ \A d \in Calls : t \in sender[d] => Is(d, {"status"})
              /\ sender' = [sender EXCEPT ![c] = {t}]
    /\ UNCHANGED <<start, page, inbox, drop, result, emitted>>

\* A change that nobody is told of.
Untold == astray' = astray \cup {t \in Tabs : HasRow(t)}

StatusWritten(c) ==
    /\ Write(c)
    /\ result' = [result EXCEPT ![c] = {[status |-> call[c].target, start |-> start]}]
    /\ IF Is(c, {"by code"}) THEN Untold ELSE UNCHANGED astray
    /\ UNCHANGED <<start, page, inbox, drop, sender, emitted>>

Inside(c) == /\ Find(c) \/ Audit(c) \/ Log(c)
             /\ UNCHANGED agendaVars

\* Mutant of Emit: the event carries the row that was looked up first.
Emit_Current(c) ==
    /\ At(c, "done") /\ c \notin emitted /\ ~Is(c, {"by code"})
    /\ \E row \in result[c] : EmitToRestaurant([row EXCEPT !.status =
            IF call[c].read = {} THEN @ ELSE CHOOSE s \in call[c].read : TRUE])
    /\ emitted' = emitted \cup {c}
    /\ UNCHANGED <<vars, start, page, drop, sender, result>>

\* After the audit: the row as it was when the status was written.
Emit(c) ==
    /\ At(c, "done") /\ c \notin emitted /\ ~Is(c, {"by code"})
    /\ \E row \in result[c] : EmitToRestaurant(row)
    /\ emitted' = emitted \cup {c}
    /\ UNCHANGED <<vars, start, page, drop, sender, result>>

StatusAnswered(c) ==
    /\ c \in emitted
    /\ \E t \in sender[c], row \in result[c] : page' = ListShows(t, row)
    /\ sender' = [sender EXCEPT ![c] = {}]
    /\ UNCHANGED <<vars, start, inbox, drop, result, emitted, astray>>

\* An error for the page that asked, and no event though the status may be written.
CallFails(c) ==
    /\ Fail(c)
    /\ IF wrote[c] = {} THEN UNCHANGED astray ELSE Untold
    /\ sender' = [sender EXCEPT ![c] = {}]
    /\ UNCHANGED <<start, page, inbox, drop, result, emitted>>
-----------------------------------------------------------------------------
(* Moves: dropped on the calendar or on the grid *)

\* The calendar shows the new slot at once.
OnDrop(t, to, by) ==
    /\ Live(t) /\ drop[t] = {}
    /\ \E row \in IF by = "calendar" THEN page[t].calendar ELSE page[t].list :
         /\ drop' = [drop EXCEPT ![t] = {[to |-> to, old |-> row, by |-> by, at |-> "asked",
                                          row |-> {}]}]
         /\ page' = IF by = "calendar" THEN CalendarShows(t, [row EXCEPT !.start = to]) ELSE page
    /\ Starts
    /\ UNCHANGED <<vars, start, inbox, sender, result, emitted>>

DropIs(t, at) == \E d \in drop[t] : d.at = at
DropGoes(t, at) == drop' = [drop EXCEPT ![t] = {[d EXCEPT !.at = at] : d \in @}]

\* PATCH :id writes the start; finds no table and refuses; or answers 200 with nothing, as the
\* row has gone or the table was switched off since it was found.
Update(t) ==
    /\ DropIs(t, "asked")
    /\ \/ \E d \in drop[t] :
            /\ start' = d.to
            /\ drop' = [drop EXCEPT ![t] =
                          {[d EXCEPT !.at = "written",
                                     !.row = {[status |-> status, start |-> d.to]}]}]
       \/ UNCHANGED start /\ \E end \in {"refused", "nothing"} : DropGoes(t, end)
    /\ UNCHANGED <<vars, page, inbox, sender, result, emitted, astray>>

UpdateEmits(t) ==
    /\ DropIs(t, "written")
    /\ \E d \in drop[t] : \E row \in d.row : EmitToRestaurant(row)
    /\ DropGoes(t, "told")
    /\ UNCHANGED <<vars, start, page, sender, result, emitted>>

\* The grid tells the list, the calendar itself only.
DropAnswered(t) ==
    /\ DropIs(t, "told")
    /\ \E d \in drop[t] : \E row \in d.row :
         page' = CASE d.by = "grid"     -> ListShows(t, row)
                   [] d.by = "calendar" -> CalendarShows(t, row)
                   [] d.by = "nobody"   -> page
    /\ drop' = [drop EXCEPT ![t] = {}]
    /\ UNCHANGED <<vars, start, inbox, sender, result, emitted, astray>>

\* upsertReservation throws on nothing: the calendar keeps what it showed at once.
DropVoid(t) ==
    /\ DropIs(t, "nothing")
    /\ astray' = astray \cup {u \in {t} : \E d \in drop[t] : d.by = "calendar"}
    /\ drop' = [drop EXCEPT ![t] = {}]
    /\ UNCHANGED <<vars, start, page, inbox, sender, result, emitted>>

\* An error for the page: the move was refused, its request died after the write, or its
\* answer is lost.
MoveFails(t) == \/ DropIs(t, "refused")
                \/ "crash" \in Faults /\ DropIs(t, "written")
                \/ "lost" \in AgendaFaults /\ DropIs(t, "told")

\* Mutant of DropFails: what was moved stays where it was dropped.
DropFails_Stays(t) ==
    /\ MoveFails(t)
    /\ IF DropIs(t, "written") THEN Untold ELSE UNCHANGED astray
    /\ drop' = [drop EXCEPT ![t] = {}]
    /\ UNCHANGED <<vars, start, page, inbox, sender, result, emitted>>

\* The calendar puts back the row that was dragged, the whole of it.
DropFails(t) ==
    /\ MoveFails(t)
    /\ \E d \in drop[t] : page' = IF d.by = "calendar" THEN CalendarShows(t, d.old) ELSE page
    /\ IF DropIs(t, "written") THEN Untold ELSE UNCHANGED astray
    /\ drop' = [drop EXCEPT ![t] = {}]
    /\ UNCHANGED <<vars, start, inbox, sender, result, emitted>>

PageNext(t) == \/ Open(t) \/ FindAll(t) \/ LoadAnswered(t) \/ HandleConnection(t)
               \/ SocketBreaks(t) \/ Leave(t) \/ Deliver(t) \/ CalendarEffect(t)
               \/ \E to \in Slots, by \in {"calendar", "grid"} : OnDrop(t, to, by)
               \/ Update(t) \/ UpdateEmits(t) \/ DropAnswered(t) \/ DropVoid(t) \/ DropFails(t)

CallNext(c) == \/ AskFrom(c) \/ Inside(c) \/ StatusWritten(c) \/ Emit(c) \/ StatusAnswered(c)
               \/ CallFails(c)

AgendaNext == (\E t \in Tabs : PageNext(t)) \/ (\E c \in Calls : CallNext(c))

AgendaSpec == AgendaInit /\ [][AgendaNext]_<<vars, agendaVars>>
-----------------------------------------------------------------------------
(* Properties *)

\* Nothing but these makes a page wrong for good: a change that was not told to it (by code,
\* failed after the write, or while it was not in the room), two things under way at once, and
\* a move on the calendar that the API answered with nothing.  Any other page shows, when all
\* is quiet, the row as it is, in list and calendar.
AgendaIsTrue ==
    Quiet => \A t \in Joined \ astray :
                 page[t].list = {Row} /\ page[t].calendar = {Row}
=============================================================================
