-------------------------- MODULE ReservationDesk --------------------------
(***************************************************************************)
(* The handlers that change reservations after they are made, next to the  *)
(* bookings of CreateReservation: PATCH reservations/:id from the          *)
(* dashboard, modifyReservationByCode from WhatsApp, and PATCH :id/status. *)
(* None of them opens a transaction or takes a lock: each statement        *)
(* commits on its own, and one action below is one statement with the code *)
(* up to the next.  A mover is a slot that serves such requests one after  *)
(* another.                                                                *)
(*                                                                         *)
(* modifyLatestReservationByPhone and cancelLatestReservationByPhone are   *)
(* called from nowhere and are left out.                                   *)
(***************************************************************************)
EXTENDS CreateReservation

CONSTANTS Movers,          \* concurrent PATCH :id and modify-by-code requests
          Earlier,         \* reservations made before the model starts
          PatchWishes,     \* bodies of PATCH :id
          ModifyWishes,    \* what guests ask of modify by code
          DefaultStay,     \* the 90 minutes of modifyReservationByCode and safeDurationMs
          StatusChoices,   \* statuses PATCH :id/status is called with
          MoversMayCrash

\* A wish: a field is {} where the body leaves it out; clear is tableId: null.
Wish == [start : SUBSET Starts, end : SUBSET Instants, guests : SUBSET Parties,
         table : SUBSET Tables, clear : BOOLEAN]
NoWish == [start |-> {}, end |-> {}, guests |-> {}, table |-> {}, clear |-> FALSE]

ASSUME DeskAssumption ==
    /\ Earlier \subseteq Requests
    /\ PatchWishes \cup ModifyWishes \subseteq Wish
    /\ DefaultStay \in Nat \ {0}
    /\ StatusChoices \subseteq {"PENDING", "CONFIRMED", "COMPLETED"}
    /\ MoversMayCrash \in BOOLEAN

VARIABLES
    mover,    \* the request each mover serves, and its locals
    touched,  \* history: reservations that a mover or PATCH :id/status wrote to
    astray    \* history: reservations on which a request stopped half way, or went on
              \* although it could not move them

deskVars == <<vars, mover, touched, astray>>

Deciding == {"hours", "booked", "tables"}
Writing  == {"find", "findTable", "delete", "insert", "save", "guests", "anyway"}

\* The tableId handed to update(): undefined, null, or a table.
Seat == [given : BOOLEAN, tables : SUBSET Tables]
Unseated == [given |-> FALSE, tables |-> {}]
Window == [start : Instants, end : Instants]
NoWindow == [start |-> 0, end |-> 0]

\* seen is the row as the first read found it, booked the answer to the first query for
\* tables, window the row's times as update() read them again.
Resting == [at |-> "idle", kind |-> "patch", target |-> {}, wish |-> NoWish, seen |-> NoRow,
            booked |-> {}, seat |-> Unseated, window |-> NoWindow]

DeskTypeOK ==
    /\ TypeOK
    /\ mover \in [Movers -> [at     : {"idle"} \cup Deciding \cup Writing,
                             kind   : {"patch", "modify"},
                             target : SUBSET Requests,
                             wish   : PatchWishes \cup ModifyWishes \cup {NoWish},
                             seen   : ReservationRow,
                             booked : SUBSET Tables,
                             seat   : Seat,
                             window : Window]]
    /\ touched \subseteq Requests
    /\ astray \subseteq Requests

\* A restaurant with the reservations that earlier calls of execute made, all answered.
DeskInit ==
    /\ pc = [q \in Requests |-> IF q \in Earlier THEN "answered" ELSE "idle"]
    /\ input \in [Requests -> BookingInput]
    /\ booked = [q \in Requests |-> {}]
    /\ table = [q \in Requests |-> {}]
    /\ code = [q \in Requests |-> {}]
    /\ outcome = [q \in Requests |-> IF q \in Earlier THEN "booked" ELSE "none"]
    /\ redisLock = FALSE
    /\ rowLock = Nobody
    /\ \E seats \in [Earlier -> Tables], labels \in [Earlier -> Codes] :
         /\ \A r \in Earlier : seats[r] \in AvailableTables(Tables, {}, input[r].guests)
         /\ \A r, o \in Earlier : r # o => labels[r] # labels[o]
         /\ reservations = [q \in Requests |-> IF q \in Earlier
                                                THEN NewRow(input[q], {seats[q]}) ELSE NoRow]
         /\ codes = [q \in Requests |-> IF q \in Earlier THEN {labels[q]} ELSE {}]
    /\ NoDoubleBooking
    /\ customers = {input[q].phone : q \in Earlier}
    /\ activeTables = Tables
    /\ openStarts = Starts
    /\ announced = Earlier
    /\ mover = [m \in Movers |-> Resting]
    /\ touched = {}
    /\ astray = {}
-----------------------------------------------------------------------------
(* What a request works with *)

Given(field, default) == IF field = {} THEN default ELSE CHOOSE x \in field : TRUE

\* computeReservationEnd keeps the length of the stay as the first read found it, and takes
\* the 90 minutes of the default for a row that does not end after it starts.
Stay(row) == IF row.start < row.end THEN row.end - row.start ELSE DefaultStay
MovedEnd(w, row) == Given(w.start, row.start) + Stay(row)

\* The window a request asks for: PATCH keeps the length of the stay unless the body has
\* an end, modify by code always takes the default stay.
WantedWindow(k, w, row) ==
    LET start == Given(w.start, row.start) IN
    [start |-> start,
     end   |-> IF k = "modify" THEN start + DefaultStay
               ELSE Given(w.end, IF w.start = {} THEN row.end ELSE MovedEnd(w, row))]

WantedGuests(w, row) == Given(w.guests, row.guests)

\* resolveAvailableTableForUpdate leaves the table alone when the body has no start or
\* end, no other guest count and no table.
NeedsTable(w, row) ==
    \/ w.start \cup w.end \cup w.table # {} \/ w.clear
    \/ w.guests \ {row.guests} # {}

\* Mutant of SeatFor: the guest's table is kept without a look at the answer.
SeatFor_KeepsCurrent(m, available) ==
    IF mover[m].seen.tables # {} THEN mover[m].seen.tables ELSE FirstTables(available)

\* The tables the request may settle on: the one asked for if it is available, the
\* current one if it still is, else the first. Modify by code takes the first.
SeatFor(m, available) ==
    LET current == mover[m].seen.tables \cap available
    IN  IF mover[m].kind = "modify" THEN FirstTables(available)
        ELSE IF mover[m].wish.table # {} THEN mover[m].wish.table \cap available
        ELSE IF current # {} THEN current ELSE FirstTables(available)

Target(m) == CHOOSE r \in mover[m].target : TRUE
Wanted(m) == WantedWindow(mover[m].kind, mover[m].wish, mover[m].seen)

At(m, place) == mover[m].at = place
Step(m, place) == mover' = [mover EXCEPT ![m].at = place]
Finish(m) == mover' = [mover EXCEPT ![m] = Resting]

\* A statement that only reads.
ReadsOnly == UNCHANGED <<vars, touched, astray>>

\* A statement that writes columns of the target's row.
Writes(m, row) ==
    /\ reservations' = [reservations EXCEPT ![Target(m)] = row]
    /\ touched' = touched \cup mover[m].target
    /\ UNCHANGED <<callVars, redisLock, rowLock, customers, codes, floorVars, announced>>
-----------------------------------------------------------------------------
(* PATCH :id and modifyReservationByCode, statement by statement *)

\* Mutant of Begin: the body's start and end are not compared.
Begin_AnyWindow(m, k, r, w) ==
    /\ At(m, "idle") /\ reservations[r].status # "NONE"
    /\ k = "modify" => reservations[r].status # "CANCELLED"
    /\ LET row == reservations[r]
           needs == k = "modify" \/ NeedsTable(w, row)
       IN  /\ WantedWindow(k, w, row).end \in Instants
           /\ mover' = [mover EXCEPT ![m] = [Resting EXCEPT
                          !.at = IF needs THEN "hours" ELSE "find",
                          !.kind = k, !.target = {r}, !.wish = w, !.seen = row]]
    /\ ReadsOnly

\* The first read of the row.  PATCH refuses an end before the start, modify by code a
\* cancelled reservation; neither looks at other statuses.
\* Bound: no window ends beyond Instants.
Begin(m, k, r, w) ==
    /\ At(m, "idle") /\ reservations[r].status # "NONE"
    /\ k = "modify" => reservations[r].status # "CANCELLED"
    /\ LET row == reservations[r]
           needs == k = "modify" \/ NeedsTable(w, row)
           wanted == WantedWindow(k, w, row)
       IN  /\ wanted.end \in Instants
           /\ needs => wanted.start < wanted.end
           /\ mover' = [mover EXCEPT ![m] = [Resting EXCEPT
                          !.at = IF needs THEN "hours" ELSE "find",
                          !.kind = k, !.target = {r}, !.wish = w, !.seen = row]]
    /\ ReadsOnly

\* ensureReservable; a body with tableId: null then needs no table.
CheckHours(m) ==
    /\ At(m, "hours")
    /\ IF Wanted(m).start \notin openStarts THEN Finish(m)
       ELSE IF mover[m].wish.clear
       THEN mover' = [mover EXCEPT ![m].at = "find", ![m].seat = [given |-> TRUE, tables |-> {}]]
       ELSE Step(m, "booked")
    /\ ReadsOnly

\* Mutant of QueryBooked: the window searched is the one the reservation has.
QueryBooked_OldWindow(m) ==
    /\ At(m, "booked")
    /\ LET row == mover[m].seen
       IN  mover' = [mover EXCEPT ![m].at = "tables",
                       ![m].booked = BookedTables(reservations, row.start, row.end,
                                                  mover[m].target)]
    /\ ReadsOnly

QueryBooked(m) ==
    /\ At(m, "booked")
    /\ mover' = [mover EXCEPT ![m].at = "tables",
                   ![m].booked = BookedTables(reservations, Wanted(m).start, Wanted(m).end,
                                              mover[m].target)]
    /\ ReadsOnly

\* Mutant of QueryTables: no available table is taken for no table asked for.
QueryTables_EmptyIsNull(m) ==
    /\ At(m, "tables")
    /\ LET guests == WantedGuests(mover[m].wish, mover[m].seen)
           seats == SeatFor(m, AvailableTables(activeTables, mover[m].booked, guests))
           first == IF seats = {} THEN {} ELSE {CHOOSE t \in seats : TRUE}
       IN  mover' = [mover EXCEPT ![m].at = "find", ![m].seat = [given |-> TRUE, tables |-> first]]
    /\ ReadsOnly

QueryTables(m) ==
    /\ At(m, "tables")
    /\ LET guests == WantedGuests(mover[m].wish, mover[m].seen)
           seats == SeatFor(m, AvailableTables(activeTables, mover[m].booked, guests))
       IN  \/ seats = {} /\ Finish(m)
           \/ \E t \in seats : mover' = [mover EXCEPT ![m].at = "find",
                                           ![m].seat = [given |-> TRUE, tables |-> {t}]]
    /\ ReadsOnly

\* update() reads the row again and takes from it the times the request does not give.
FindRow(m) ==
    /\ At(m, "find")
    /\ LET row == reservations[Target(m)]
           wanted == Wanted(m)
           w == mover[m].wish
           modify == mover[m].kind = "modify"
       IN  mover' = [mover EXCEPT
             ![m].at = IF ~mover[m].seat.given THEN "save"
                       ELSE IF mover[m].seat.tables = {} THEN "delete" ELSE "findTable",
             ![m].window = [start |-> IF modify THEN wanted.start ELSE Given(w.start, row.start),
                            end   |-> IF modify \/ w.start \cup w.end # {} THEN wanted.end
                                      ELSE row.end]]
    /\ ReadsOnly

\* Modify by code asks for another guest count than it found.
GuestsChange(m) ==
    mover[m].kind = "modify" /\ mover[m].wish.guests \ {mover[m].seen.guests} # {}

\* update() answers null if the table has been switched off.  That ends a PATCH, while modify
\* by code only logs what it got and goes on to the guest count.
FindTable(m) ==
    /\ At(m, "findTable")
    /\ \/ mover[m].seat.tables \subseteq activeTables /\ Step(m, "delete")
       \/ /\ ~(mover[m].seat.tables \subseteq activeTables)
          /\ IF GuestsChange(m) THEN Step(m, "anyway") ELSE Finish(m)
    /\ ReadsOnly

DeleteTables(m) ==
    /\ At(m, "delete")
    /\ Writes(m, [reservations[Target(m)] EXCEPT !.tables = {}])
    /\ Step(m, IF mover[m].seat.tables = {} THEN "save" ELSE "insert")
    /\ UNCHANGED astray

InsertTable(m) ==
    /\ At(m, "insert")
    /\ mover[m].seat.tables \cap reservations[Target(m)].tables = {}
    /\ Writes(m, [reservations[Target(m)] EXCEPT !.tables = @ \cup mover[m].seat.tables])
    /\ Step(m, "save")
    /\ UNCHANGED astray

\* Something of the request is written, and something is not.
HalfDone(m) == At(m, "insert") \/ At(m, "guests") \/ (At(m, "save") /\ mover[m].seat.given)

\* A statement fails, or the process dies: what was written stays.
Break(m) ==
    /\ Finish(m)
    /\ astray' = IF HalfDone(m) THEN astray \cup mover[m].target ELSE astray
    /\ UNCHANGED <<vars, touched>>

\* Another request has assigned the same table meanwhile: the primary key rejects the insert.
InsertTwice(m) ==
    /\ At(m, "insert")
    /\ mover[m].seat.tables \subseteq reservations[Target(m)].tables
    /\ Break(m)

\* reservation.update writes both times; PATCH writes the guest count if the body has one.
SaveRow(m) ==
    /\ At(m, "save")
    /\ LET row == reservations[Target(m)]
           patched == IF mover[m].kind = "patch" THEN mover[m].wish.guests ELSE {}
       IN  /\ Writes(m, [row EXCEPT !.start = mover[m].window.start, !.end = mover[m].window.end,
                                    !.guests = Given(patched, @)])
           /\ IF GuestsChange(m) THEN Step(m, "guests") ELSE Finish(m)
    /\ UNCHANGED astray

\* Modify by code writes another guest count in a statement of its own.
SaveGuests(m) ==
    /\ At(m, "guests") \/ At(m, "anyway")
    /\ Writes(m, [reservations[Target(m)] EXCEPT !.guests = Given(mover[m].wish.guests, @)])
    /\ astray' = IF At(m, "anyway") THEN astray \cup mover[m].target ELSE astray
    /\ Finish(m)

\* The process comes back, and requests are sent again.
MoverCrash(m) ==
    /\ MoversMayCrash
    /\ mover[m].at \in Writing
    /\ Break(m)

\* PATCH :id/status: any status but CANCELLED and NO_SHOW, from any status.
SetStatus(r, status) ==
    /\ reservations[r].status # "NONE"
    /\ reservations' = [reservations EXCEPT ![r].status = status]
    /\ touched' = touched \cup {r}
    /\ UNCHANGED <<callVars, redisLock, rowLock, customers, codes, floorVars, announced, mover,
                   astray>>
-----------------------------------------------------------------------------
Serve(m) == \/ \E r \in Requests, w \in PatchWishes : Begin(m, "patch", r, w)
            \/ \E r \in Requests, w \in ModifyWishes : Begin(m, "modify", r, w)
            \/ CheckHours(m)
            \/ QueryBooked(m)
            \/ QueryTables(m)
            \/ FindRow(m)
            \/ FindTable(m)
            \/ DeleteTables(m)
            \/ InsertTable(m) \/ InsertTwice(m)
            \/ SaveRow(m)
            \/ SaveGuests(m)
            \/ MoverCrash(m)

DeskNext == \/ Next /\ UNCHANGED <<mover, touched, astray>>
            \/ \E m \in Movers : Serve(m)
            \/ \E r \in Requests, status \in StatusChoices : SetStatus(r, status)

DeskSpec == DeskInit /\ [][DeskNext]_deskVars
-----------------------------------------------------------------------------
(* Properties *)

\* Nobody is in the middle of changing the book.
AtRest == /\ \A m \in Movers : At(m, "idle")
          /\ \A q \in Requests : pc[q] \in {"idle"} \cup Ended

\* The desk's type invariant, and what a request that is about to write relies on: it writes
\* a table exactly where it settled on one, and unseats a reservation only if asked to.
OnlyClearUnseats ==
    \A m \in Movers :
        /\ mover[m].at \in {"findTable", "insert"} => mover[m].seat.tables # {}
        /\ mover[m].seat.given /\ mover[m].seat.tables = {} => mover[m].wish.clear

DeskInv == DeskTypeOK /\ OnlyClearUnseats

\* "evitar sobre-reservas": with every request answered, no table is booked twice, but for
\* reservations that a request left half moved.
NoOverbookingAtRest ==
    AtRest => \A p, q \in Requests \ astray : p # q => ~Ledger!Collide(Held[p], Held[q])

\* With every request answered, an active reservation that has a table has one, which
\* seats its party without wasting more than SPARE_SEATS.  A request that fails between two
\* of its statements, or goes on without the table it wanted, spoils that for the
\* reservation it was about, and for no other.
SeatedAtRest ==
    AtRest => \A r \in Requests \ astray :
        Active(reservations[r]) /\ reservations[r].tables # {} =>
            \E t \in Tables : /\ reservations[r].tables = {t}
                              /\ Capacity[t] \in reservations[r].guests ..
                                                 reservations[r].guests + SPARE_SEATS

\* "reservationEnd debe ser posterior a reservationStart": a reservation ends after it starts.
WindowsWellFormed ==
    \A r \in Requests : reservations[r].status # "NONE" =>
        reservations[r].start < reservations[r].end

\* Whatever movers and crashes do to the reservations they write, two reservations that no
\* such handler wrote never collide: bookings stay sound among themselves.
UntouchedNeverCollide ==
    \A p, q \in Requests \ touched :
        p # q => ~Ledger!Collide(Held[p], Held[q])

\* "ya está cancelada y no puede modificarse": a cancelled reservation keeps its window.
CancelledKeepsWindow ==
    [][\A r \in Requests : reservations[r].status = "CANCELLED" =>
         /\ reservations'[r].start = reservations[r].start
         /\ reservations'[r].end = reservations[r].end]_deskVars

\* The state diagram of a reservation has no arrow out of CANCELLED.
CancelledIsFinal ==
    [][\A r \in Requests : reservations[r].status = "CANCELLED" =>
         reservations'[r].status = "CANCELLED"]_deskVars
=============================================================================
