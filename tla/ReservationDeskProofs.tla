----------------------- MODULE ReservationDeskProofs -----------------------
(***************************************************************************)
(* Theorems about ReservationDesk, for every set of requests, tables,      *)
(* wishes and movers.  What holds of any number of movers at once comes    *)
(* first; then what holds when requests are served one at a time, which    *)
(* is all that can be said of handlers that take no lock: each hypothesis  *)
(* names one thing the code leaves open.                                   *)
(***************************************************************************)
EXTENDS ReservationDesk, CreateReservationProofs

Mover == [at     : {"idle"} \cup Deciding \cup Writing,
          kind   : {"patch", "modify"},
          target : SUBSET Requests,
          wish   : PatchWishes \cup ModifyWishes \cup {NoWish},
          seen   : ReservationRow,
          booked : SUBSET Tables,
          seat   : Seat,
          window : Window]

Busy(m) == mover[m].at # "idle"

\* A request that is served has one reservation, which exists, and a window within bounds.
MoverInv ==
    \A m \in Movers :
        /\ Busy(m) => /\ \E r \in Requests : mover[m].target = {r}
                      /\ reservations[Target(m)].status # "NONE"
                      /\ Wanted(m).end \in Instants
        /\ mover[m].at \in {"findTable", "delete", "insert"} => mover[m].seat.given

DeskIInv == DeskInv /\ MoverInv

\* What a booking has learnt of the reservations that no mover has written.
UntouchedInv ==
    /\ RowLockInv
    /\ \A q \in Requests :
         /\ pc[q] \in {"bookedRead", "picked", "inserted"} =>
              BookedTables(reservations, input[q].start, InputEnd(input[q]), touched)
                \subseteq booked[q]
         /\ pc[q] \in {"picked", "inserted"} => table[q] \cap booked[q] = {}
    /\ UntouchedNeverCollide

OneMover == \A m, o \in Movers : m = o

\* The one request served finds its reservation's times as it first read them until it
\* writes them, so that the window it saves is the one it checked.
TimesInv ==
    /\ RowsFollowCommit
    /\ WindowsWellFormed
    /\ \A m \in Movers :
         /\ Busy(m) /\ ~At(m, "guests") =>
              /\ reservations[Target(m)].start = mover[m].seen.start
              /\ reservations[Target(m)].end = mover[m].seen.end
              /\ Wanted(m).start < Wanted(m).end
         /\ mover[m].at \in {"findTable", "delete", "insert", "save"} =>
              mover[m].window = Wanted(m)

Suits(t, guests) == Capacity[t] \in guests .. guests + SPARE_SEATS
Suited(tables, guests) == tables # {} => \E t \in Tables : tables = {t} /\ Suits(t, guests)

\* The tables that the one request served is about to leave its reservation with suit the
\* party that it is about to write, unless an earlier request left that one half written.
SeatInv ==
    /\ RowsFollowCommit
    /\ \A q \in Requests : pc[q] \in {"picked", "inserted"} => Suited(table[q], input[q].guests)
    /\ \A r \in Requests \ astray :
         (\A m \in Movers : r \in mover[m].target => mover[m].at \notin {"save", "guests"})
            => Suited(reservations[r].tables, reservations[r].guests)
    /\ \A m \in Movers :
         /\ Busy(m) /\ ~At(m, "guests") => reservations[Target(m)].guests = mover[m].seen.guests
         /\ Busy(m) /\ mover[m].seat.given =>
              Suited(mover[m].seat.tables, WantedGuests(mover[m].wish, mover[m].seen))
         /\ mover[m].at \in {"find", "save"} /\ ~mover[m].seat.given =>
              mover[m].kind = "patch" /\ ~NeedsTable(mover[m].wish, mover[m].seen)
         /\ At(m, "insert") => reservations[Target(m)].tables = {}
         /\ mover[m].at \in {"save", "guests"} =>
              \/ Target(m) \in astray
              \/ Suited(reservations[Target(m)].tables, WantedGuests(mover[m].wish, mover[m].seen))
         /\ At(m, "guests") => mover[m].wish.guests # {}

Clash(p, q) == /\ Active(reservations[p]) /\ Active(reservations[q])
               /\ Overlaps(reservations[p], reservations[q].start, reservations[q].end)
               /\ reservations[p].tables \cap reservations[q].tables # {}

\* The table the one request served has settled on stays free in the window it will save, and
\* only reservations that a request left half moved share a table at a time.
AloneInv ==
    /\ \A q \in Requests : pc[q] = "answered"
    /\ \A p, q \in Requests \ astray :
         p # q /\ (\A m \in Movers : At(m, "save") /\ mover[m].seat.given =>
                                       {p, q} \cap mover[m].target = {}) => ~Clash(p, q)
    /\ \A m \in Movers :
         /\ At(m, "tables") => BookedTables(reservations, Wanted(m).start, Wanted(m).end,
                                            mover[m].target) \subseteq mover[m].booked
         /\ Busy(m) /\ mover[m].seat.given =>
              mover[m].seat.tables \cap BookedTables(reservations, Wanted(m).start, Wanted(m).end,
                                                     mover[m].target) = {}
         /\ At(m, "insert") => reservations[Target(m)].tables = {}
         /\ At(m, "save") /\ mover[m].seat.given =>
              reservations[Target(m)].tables = mover[m].seat.tables
-----------------------------------------------------------------------------
(* The operators *)

LEMMA GivenIsOne ==
    ASSUME NEW S, NEW field \in SUBSET S, NEW default \in S
    PROVE  Given(field, default) \in S
<1>1. CASE field = {}
  BY <1>1 DEF Given
<1>2. CASE field # {}
  BY <1>2 DEF Given
<1> QED
  BY <1>1, <1>2

LEMMA GuestsAreGiven ==
    ASSUME NEW field \in SUBSET (Parties \cup {0}), NEW default \in Parties \cup {0}
    PROVE  Given(field, default) \in Parties \cup {0}
<1> DEFINE S == Parties \cup {0}
<1>1. field \in SUBSET S /\ default \in S
  OBVIOUS
<1> HIDE DEF S
<1>2. Given(field, default) \in S
  BY <1>1, GivenIsOne
<1> QED
  BY <1>2 DEF S

LEMMA StartsAreInstants == Starts \subseteq Instants
BY TimeAssumption DEF Instants

LEMMA WishType ==
    ASSUME NEW w \in PatchWishes \cup ModifyWishes \cup {NoWish}
    PROVE  /\ w.start \in SUBSET Starts /\ w.end \in SUBSET Instants
           /\ w.guests \in SUBSET Parties /\ w.table \in SUBSET Tables /\ w.clear \in BOOLEAN
<1>1. w \in Wish
  <2>1. NoWish \in Wish
    BY DEF NoWish, Wish
  <2>2. PatchWishes \cup ModifyWishes \subseteq Wish
    BY DeskAssumption
  <2> QED
    BY <2>1, <2>2
<1> QED
  BY <1>1 DEF Wish

\* The start of a wanted window is an instant, the guests wanted are a party.
LEMMA WantedType ==
    ASSUME NEW k, NEW w \in PatchWishes \cup ModifyWishes \cup {NoWish},
           NEW row \in ReservationRow
    PROVE  /\ WantedWindow(k, w, row).start \in Instants
           /\ WantedGuests(w, row) \in Parties \cup {0}
<1>1. row.start \in Instants /\ row.guests \in Parties \cup {0}
  BY DEF ReservationRow
<1>2. w.start \in SUBSET Instants /\ w.guests \in SUBSET (Parties \cup {0})
  BY WishType, StartsAreInstants
<1> QED
  BY <1>1, <1>2, GivenIsOne DEF WantedWindow, WantedGuests

LEMMA FirstTablesAreAvailable ==
    ASSUME NEW available
    PROVE  FirstTables(available) \subseteq available
BY DEF FirstTables

\* Whatever table a request settles on was available.
LEMMA SeatIsAvailable ==
    ASSUME NEW m, NEW available
    PROVE  SeatFor(m, available) \subseteq available
BY FirstTablesAreAvailable DEF SeatFor
-----------------------------------------------------------------------------
(* What each statement does to its mover *)

\* The fields that a request has until it is answered.
Keeps(x, y) == y.kind = x.kind /\ y.target = x.target /\ y.wish = x.wish /\ y.seen = x.seen

\* The mover goes on with the request it has.
Goes(m, place, found, seat, window) ==
    /\ mover' \in [Movers -> Mover] /\ Keeps(mover[m], mover'[m])
    /\ mover'[m].at = place /\ mover'[m].booked = found
    /\ mover'[m].seat = seat /\ mover'[m].window = window
    /\ \A o \in Movers \ {m} : mover'[o] = mover[o]

\* The mover is done with it, or it failed.
Drops(m, place) ==
    /\ mover' \in [Movers -> Mover]
    /\ mover'[m].at = place /\ mover'[m].target = {} /\ mover'[m].seat = Unseated
    /\ \A o \in Movers \ {m} : mover'[o] = mover[o]

Places == {"idle"} \cup Deciding \cup Writing

LEMMA RestingIsMover == Resting \in Mover /\ Resting.at = "idle"
<1>1. NoRow \in ReservationRow
  BY NoRowIsRow
<1>2. Unseated \in Seat /\ NoWindow \in Window
  BY DEF Unseated, Seat, NoWindow, Window, Instants
<1> QED
  BY <1>1, <1>2 DEF Resting, Mover

LEMMA MoverIsMover ==
    ASSUME DeskTypeOK
    PROVE  /\ mover \in [Movers -> Mover] /\ TypeOK
           /\ touched \subseteq Requests /\ astray \subseteq Requests
BY DEF DeskTypeOK, Mover

\* One slot of a function is written.
LEMMA SlotWritten ==
    ASSUME DeskTypeOK, NEW m \in Movers, NEW x \in Mover,
           mover' = [mover EXCEPT ![m] = x]
    PROVE  /\ mover' \in [Movers -> Mover] /\ mover'[m] = x
           /\ \A o \in Movers \ {m} : mover'[o] = mover[o]
BY MoverIsMover

\* One field of a mover is written.
LEMMA PlaceWritten ==
    ASSUME NEW x \in Mover, NEW v \in Places, NEW y, y = [x EXCEPT !.at = v]
    PROVE  /\ y \in Mover /\ y.at = v
           /\ y.kind = x.kind /\ y.target = x.target /\ y.wish = x.wish
           /\ y.seen = x.seen /\ y.booked = x.booked /\ y.seat = x.seat /\ y.window = x.window
BY DEF Mover, Places

LEMMA KindWritten ==
    ASSUME NEW x \in Mover, NEW v \in {"patch", "modify"}, NEW y, y = [x EXCEPT !.kind = v]
    PROVE  /\ y \in Mover /\ y.kind = v
           /\ y.at = x.at /\ y.target = x.target /\ y.wish = x.wish
           /\ y.seen = x.seen /\ y.booked = x.booked /\ y.seat = x.seat /\ y.window = x.window
BY DEF Mover, Places

LEMMA TargetWritten ==
    ASSUME NEW x \in Mover, NEW v \in SUBSET Requests, NEW y, y = [x EXCEPT !.target = v]
    PROVE  /\ y \in Mover /\ y.target = v
           /\ y.at = x.at /\ y.kind = x.kind /\ y.wish = x.wish
           /\ y.seen = x.seen /\ y.booked = x.booked /\ y.seat = x.seat /\ y.window = x.window
BY DEF Mover, Places

LEMMA WishWritten ==
    ASSUME NEW x \in Mover, NEW v \in PatchWishes \cup ModifyWishes \cup {NoWish}, NEW y, y = [x EXCEPT !.wish = v]
    PROVE  /\ y \in Mover /\ y.wish = v
           /\ y.at = x.at /\ y.kind = x.kind /\ y.target = x.target
           /\ y.seen = x.seen /\ y.booked = x.booked /\ y.seat = x.seat /\ y.window = x.window
BY DEF Mover, Places

LEMMA SeenWritten ==
    ASSUME NEW x \in Mover, NEW v \in ReservationRow, NEW y, y = [x EXCEPT !.seen = v]
    PROVE  /\ y \in Mover /\ y.seen = v
           /\ y.at = x.at /\ y.kind = x.kind /\ y.target = x.target /\ y.wish = x.wish
           /\ y.booked = x.booked /\ y.seat = x.seat /\ y.window = x.window
BY DEF Mover, Places

LEMMA BookedWritten ==
    ASSUME NEW x \in Mover, NEW v \in SUBSET Tables, NEW y, y = [x EXCEPT !.booked = v]
    PROVE  /\ y \in Mover /\ y.booked = v
           /\ y.at = x.at /\ y.kind = x.kind /\ y.target = x.target /\ y.wish = x.wish
           /\ y.seen = x.seen /\ y.seat = x.seat /\ y.window = x.window
BY DEF Mover, Places

LEMMA SeatWritten ==
    ASSUME NEW x \in Mover, NEW v \in Seat, NEW y, y = [x EXCEPT !.seat = v]
    PROVE  /\ y \in Mover /\ y.seat = v
           /\ y.at = x.at /\ y.kind = x.kind /\ y.target = x.target /\ y.wish = x.wish
           /\ y.seen = x.seen /\ y.booked = x.booked /\ y.window = x.window
BY DEF Mover, Places

LEMMA WindowWritten ==
    ASSUME NEW x \in Mover, NEW v \in Window, NEW y, y = [x EXCEPT !.window = v]
    PROVE  /\ y \in Mover /\ y.window = v
           /\ y.at = x.at /\ y.kind = x.kind /\ y.target = x.target /\ y.wish = x.wish
           /\ y.seen = x.seen /\ y.booked = x.booked /\ y.seat = x.seat
BY DEF Mover, Places

LEMMA StepGoes ==
    ASSUME DeskTypeOK, NEW m \in Movers, NEW place \in Places, Step(m, place)
    PROVE  Goes(m, place, mover[m].booked, mover[m].seat, mover[m].window)
<1> DEFINE x == [mover[m] EXCEPT !.at = place]
<1>1. mover[m] \in Mover
  BY MoverIsMover
<1>2. /\ x \in Mover /\ Keeps(mover[m], x) /\ x.at = place
      /\ x.booked = mover[m].booked /\ x.seat = mover[m].seat /\ x.window = mover[m].window
  BY <1>1, PlaceWritten DEF Keeps
<1>3. mover' = [mover EXCEPT ![m] = x]
  BY DEF Step
<1> HIDE DEF x
<1> QED
  BY <1>2, <1>3, SlotWritten DEF Goes

LEMMA FinishDrops ==
    ASSUME DeskTypeOK, NEW m \in Movers, Finish(m)
    PROVE  Drops(m, "idle")
<1>1. mover' = [mover EXCEPT ![m] = Resting]
  BY DEF Finish
<1>2. /\ mover' \in [Movers -> Mover] /\ mover'[m] = Resting
      /\ \A o \in Movers \ {m} : mover'[o] = mover[o]
  BY <1>1, SlotWritten, RestingIsMover
<1>3. Resting.at = "idle" /\ Resting.target = {} /\ Resting.seat = Unseated
  BY DEF Resting
<1> QED
  BY <1>2, <1>3 DEF Drops

LEMMA BeginEffect ==
    ASSUME DeskTypeOK, NEW m \in Movers, NEW k \in {"patch", "modify"}, NEW r \in Requests,
           NEW w \in PatchWishes \cup ModifyWishes, Begin(m, k, r, w)
    PROVE  /\ At(m, "idle") /\ reservations[r].status # "NONE" /\ ReadsOnly
           /\ mover' \in [Movers -> Mover] /\ \A o \in Movers \ {m} : mover'[o] = mover[o]
           /\ mover'[m].at = IF k = "modify" \/ NeedsTable(w, reservations[r])
                              THEN "hours" ELSE "find"
           /\ mover'[m].kind = k /\ mover'[m].target = {r} /\ mover'[m].wish = w
           /\ mover'[m].seen = reservations[r] /\ mover'[m].seat = Unseated
           /\ WantedWindow(k, w, reservations[r]).end \in Instants
           /\ k = "modify" \/ NeedsTable(w, reservations[r]) =>
                WantedWindow(k, w, reservations[r]).start < WantedWindow(k, w, reservations[r]).end
<1> DEFINE place == IF k = "modify" \/ NeedsTable(w, reservations[r]) THEN "hours" ELSE "find"
           a == [Resting EXCEPT !.at = place]
           b == [a EXCEPT !.kind = k]
           c == [b EXCEPT !.target = {r}]
           d == [c EXCEPT !.wish = w]
           e == [d EXCEPT !.seen = reservations[r]]
<1>1. mover' = [mover EXCEPT ![m] = e]
  BY DEF Begin
<1>2. place \in Places /\ reservations[r] \in ReservationRow
  BY MoverIsMover DEF TypeOK, Places, Deciding, Writing
<1> HIDE DEF place
<1>3. a \in Mover /\ a.at = place /\ a.seat = Unseated
  BY <1>2, RestingIsMover, PlaceWritten DEF Resting
<1> HIDE DEF a
<1>4. b \in Mover /\ b.at = place /\ b.kind = k /\ b.seat = Unseated
  BY <1>3, KindWritten
<1> HIDE DEF b
<1>5. c \in Mover /\ c.at = place /\ c.kind = k /\ c.target = {r} /\ c.seat = Unseated
  BY <1>4, TargetWritten
<1> HIDE DEF c
<1>6. d \in Mover /\ d.at = place /\ d.kind = k /\ d.target = {r} /\ d.wish = w /\ d.seat = Unseated
  BY <1>5, WishWritten
<1> HIDE DEF d
<1>7. /\ e \in Mover /\ e.at = place /\ e.kind = k /\ e.target = {r} /\ e.wish = w
      /\ e.seen = reservations[r] /\ e.seat = Unseated
  BY <1>2, <1>6, SeenWritten
<1> HIDE DEF e
<1>8. /\ mover' \in [Movers -> Mover] /\ mover'[m] = e
      /\ \A o \in Movers \ {m} : mover'[o] = mover[o]
  BY <1>1, <1>7, SlotWritten
<1>9. /\ At(m, "idle") /\ reservations[r].status # "NONE" /\ ReadsOnly
      /\ WantedWindow(k, w, reservations[r]).end \in Instants
      /\ k = "modify" \/ NeedsTable(w, reservations[r]) =>
           WantedWindow(k, w, reservations[r]).start < WantedWindow(k, w, reservations[r]).end
  BY DEF Begin
<1> QED
  BY <1>7, <1>8, <1>9 DEF place

\* Two fields of a mover are written.
LEMMA SeatGoes ==
    ASSUME DeskTypeOK, NEW m \in Movers, NEW place \in Places, NEW seat \in Seat,
           mover' = [mover EXCEPT ![m].at = place, ![m].seat = seat]
    PROVE  Goes(m, place, mover[m].booked, seat, mover[m].window)
<1> DEFINE a == [mover[m] EXCEPT !.at = place]
           x == [a EXCEPT !.seat = seat]
<1>1. mover[m] \in Mover /\ mover \in [Movers -> Mover]
  BY MoverIsMover
<1>2. mover' = [mover EXCEPT ![m] = x]
  BY <1>1
<1>3. /\ a \in Mover /\ Keeps(mover[m], a) /\ a.at = place
      /\ a.booked = mover[m].booked /\ a.window = mover[m].window
  BY <1>1, PlaceWritten DEF Keeps
<1> HIDE DEF a
<1>4. /\ x \in Mover /\ Keeps(mover[m], x) /\ x.at = place /\ x.seat = seat
      /\ x.booked = mover[m].booked /\ x.window = mover[m].window
  BY <1>3, SeatWritten DEF Keeps
<1> HIDE DEF x
<1> QED
  BY <1>2, <1>4, SlotWritten DEF Goes

LEMMA BookedGoes ==
    ASSUME DeskTypeOK, NEW m \in Movers, NEW place \in Places, NEW found \in SUBSET Tables,
           mover' = [mover EXCEPT ![m].at = place, ![m].booked = found]
    PROVE  Goes(m, place, found, mover[m].seat, mover[m].window)
<1> DEFINE a == [mover[m] EXCEPT !.at = place]
           x == [a EXCEPT !.booked = found]
<1>1. mover[m] \in Mover /\ mover \in [Movers -> Mover]
  BY MoverIsMover
<1>2. mover' = [mover EXCEPT ![m] = x]
  BY <1>1
<1>3. /\ a \in Mover /\ Keeps(mover[m], a) /\ a.at = place
      /\ a.seat = mover[m].seat /\ a.window = mover[m].window
  BY <1>1, PlaceWritten DEF Keeps
<1> HIDE DEF a
<1>4. /\ x \in Mover /\ Keeps(mover[m], x) /\ x.at = place /\ x.booked = found
      /\ x.seat = mover[m].seat /\ x.window = mover[m].window
  BY <1>3, BookedWritten DEF Keeps
<1> HIDE DEF x
<1> QED
  BY <1>2, <1>4, SlotWritten DEF Goes

LEMMA WindowGoes ==
    ASSUME DeskTypeOK, NEW m \in Movers, NEW place \in Places, NEW window \in Window,
           mover' = [mover EXCEPT ![m].at = place, ![m].window = window]
    PROVE  Goes(m, place, mover[m].booked, mover[m].seat, window)
<1> DEFINE a == [mover[m] EXCEPT !.at = place]
           x == [a EXCEPT !.window = window]
<1>1. mover[m] \in Mover /\ mover \in [Movers -> Mover]
  BY MoverIsMover
<1>2. mover' = [mover EXCEPT ![m] = x]
  BY <1>1
<1>3. /\ a \in Mover /\ Keeps(mover[m], a) /\ a.at = place
      /\ a.booked = mover[m].booked /\ a.seat = mover[m].seat
  BY <1>1, PlaceWritten DEF Keeps
<1> HIDE DEF a
<1>4. /\ x \in Mover /\ Keeps(mover[m], x) /\ x.at = place /\ x.window = window
      /\ x.booked = mover[m].booked /\ x.seat = mover[m].seat
  BY <1>3, WindowWritten DEF Keeps
<1> HIDE DEF x
<1> QED
  BY <1>2, <1>4, SlotWritten DEF Goes
-----------------------------------------------------------------------------
(* What each statement does *)

\* A request that is served has one reservation.
Serves(m, r) == mover[m].target = {r} /\ reservations[r].status # "NONE"

LEMMA TargetIsOne ==
    ASSUME NEW m, NEW r, mover[m].target = {r}
    PROVE  Target(m) = r
BY DEF Target

LEMMA BusyServes ==
    ASSUME DeskIInv, NEW m \in Movers, Busy(m)
    PROVE  /\ \E r \in Requests : Serves(m, r) /\ Target(m) = r
           /\ Wanted(m).start \in Instants /\ Wanted(m).end \in Instants
<1>1. mover[m] \in Mover
  BY MoverIsMover DEF DeskIInv, DeskInv
<1>2. Wanted(m).start \in Instants
  BY <1>1, WantedType DEF Wanted, Mover
<1>3. PICK r \in Requests : mover[m].target = {r}
  BY DEF DeskIInv, MoverInv
<1>4. Target(m) = r
  BY <1>3, TargetIsOne
<1> QED
  BY <1>2, <1>3, <1>4 DEF DeskIInv, MoverInv, Serves

LEMMA CheckHoursEffect ==
    ASSUME DeskTypeOK, NEW m \in Movers, CheckHours(m)
    PROVE  /\ At(m, "hours") /\ ReadsOnly
           /\ \/ Drops(m, "idle")
              \/ /\ mover[m].wish.clear
                 /\ Goes(m, "find", mover[m].booked, [given |-> TRUE, tables |-> {}], mover[m].window)
              \/ Goes(m, "booked", mover[m].booked, mover[m].seat, mover[m].window)
<1>1. CASE Finish(m)
  BY <1>1, FinishDrops DEF CheckHours
<1>2. CASE Step(m, "booked")
  BY <1>2, StepGoes DEF CheckHours, Places, Deciding
<1>3. CASE /\ mover[m].wish.clear
           /\ mover' = [mover EXCEPT ![m].at = "find", ![m].seat = [given |-> TRUE, tables |-> {}]]
  <2>1. "find" \in Places /\ [given |-> TRUE, tables |-> {}] \in Seat
    BY DEF Places, Writing, Seat
  <2> QED
    BY <1>3, <2>1, SeatGoes DEF CheckHours
<1> QED
  BY <1>1, <1>2, <1>3 DEF CheckHours

LEMMA QueryBookedEffect ==
    ASSUME DeskTypeOK, NEW m \in Movers, QueryBooked(m)
    PROVE  /\ At(m, "booked") /\ ReadsOnly
           /\ Goes(m, "tables", BookedTables(reservations, Wanted(m).start, Wanted(m).end,
                                             mover[m].target), mover[m].seat, mover[m].window)
<1> DEFINE found == BookedTables(reservations, Wanted(m).start, Wanted(m).end, mover[m].target)
<1>1. found \in SUBSET Tables
  BY BookedTablesAreTables DEF DeskTypeOK, TypeOK
<1>2. At(m, "booked") /\ ReadsOnly /\ mover' = [mover EXCEPT ![m].at = "tables", ![m].booked = found]
  BY DEF QueryBooked
<1> HIDE DEF found
<1>3. Goes(m, "tables", found, mover[m].seat, mover[m].window)
  BY <1>1, <1>2, BookedGoes DEF Places, Deciding
<1> QED
  BY <1>2, <1>3 DEF found

LEMMA QueryTablesEffect ==
    ASSUME DeskTypeOK, NEW m \in Movers, QueryTables(m)
    PROVE  /\ At(m, "tables") /\ ReadsOnly
           /\ \/ Drops(m, "idle")
              \/ \E t \in AvailableTables(activeTables, mover[m].booked,
                                          WantedGuests(mover[m].wish, mover[m].seen)) :
                   Goes(m, "find", mover[m].booked, [given |-> TRUE, tables |-> {t}], mover[m].window)
<1> DEFINE available == AvailableTables(activeTables, mover[m].booked,
                                        WantedGuests(mover[m].wish, mover[m].seen))
<1>1. At(m, "tables") /\ ReadsOnly
  BY DEF QueryTables
<1>2. available \subseteq Tables /\ SeatFor(m, available) \subseteq available
  BY SeatIsAvailable, MoverIsMover DEF AvailableTables, TypeOK
<1>3. \/ Finish(m)
      \/ \E t \in SeatFor(m, available) :
           mover' = [mover EXCEPT ![m].at = "find", ![m].seat = [given |-> TRUE, tables |-> {t}]]
  BY DEF QueryTables
<1> HIDE DEF available
<1>4. CASE Finish(m)
  BY <1>1, <1>4, FinishDrops
<1>5. ASSUME NEW t \in SeatFor(m, available),
             mover' = [mover EXCEPT ![m].at = "find", ![m].seat = [given |-> TRUE, tables |-> {t}]]
      PROVE  \E u \in available :
               Goes(m, "find", mover[m].booked, [given |-> TRUE, tables |-> {u}], mover[m].window)
  <2>1. t \in available /\ t \in Tables
    BY <1>2
  <2>2. "find" \in Places /\ [given |-> TRUE, tables |-> {t}] \in Seat
    BY <2>1 DEF Places, Writing, Seat
  <2>3. Goes(m, "find", mover[m].booked, [given |-> TRUE, tables |-> {t}], mover[m].window)
    BY <1>5, <2>2, SeatGoes
  <2> QED
    BY <2>1, <2>3
<1> QED
  BY <1>1, <1>3, <1>4, <1>5 DEF available

\* The window that update() writes: what the request gives, and else what the row has.
FoundWindow(m) ==
    LET row == reservations[Target(m)]
        w == mover[m].wish
        modify == mover[m].kind = "modify"
    IN  [start |-> IF modify THEN Wanted(m).start ELSE Given(w.start, row.start),
         end   |-> IF modify \/ w.start \cup w.end # {} THEN Wanted(m).end ELSE row.end]

LEMMA FindRowEffect ==
    ASSUME DeskIInv, NEW m \in Movers, FindRow(m)
    PROVE  /\ At(m, "find") /\ ReadsOnly
           /\ Goes(m, IF ~mover[m].seat.given THEN "save"
                      ELSE IF mover[m].seat.tables = {} THEN "delete" ELSE "findTable",
                   mover[m].booked, mover[m].seat, FoundWindow(m))
<1> DEFINE place == IF ~mover[m].seat.given THEN "save"
                    ELSE IF mover[m].seat.tables = {} THEN "delete" ELSE "findTable"
<1>1. At(m, "find") /\ ReadsOnly
  BY DEF FindRow
<1>2. mover' = [mover EXCEPT ![m].at = place, ![m].window = FoundWindow(m)]
  BY DEF FindRow, FoundWindow
<1>3. place \in Places
  BY DEF Places, Writing
<1>4. FoundWindow(m) \in Window
  <2>1. Busy(m)
    BY <1>1 DEF At, Busy
  <2>2. reservations[Target(m)] \in ReservationRow
    BY <2>1, BusyServes DEF DeskIInv, DeskInv, DeskTypeOK, TypeOK
  <2>3. /\ reservations[Target(m)].start \in Instants /\ reservations[Target(m)].end \in Instants
        /\ Wanted(m).start \in Instants /\ Wanted(m).end \in Instants
    BY <2>1, <2>2, BusyServes DEF ReservationRow
  <2>4. mover[m].wish.start \in SUBSET Instants
    <3>1. mover[m].wish \in PatchWishes \cup ModifyWishes \cup {NoWish}
      BY MoverIsMover DEF DeskIInv, DeskInv, Mover
    <3> QED
      BY <3>1, WishType, StartsAreInstants
  <2>5. Given(mover[m].wish.start, reservations[Target(m)].start) \in Instants
    BY <2>3, <2>4, GivenIsOne
  <2> QED
    BY <2>3, <2>5 DEF FoundWindow, Window
<1> HIDE DEF place
<1>5. Goes(m, place, mover[m].booked, mover[m].seat, FoundWindow(m))
  BY <1>2, <1>3, <1>4, WindowGoes DEF DeskIInv, DeskInv
<1> QED
  BY <1>1, <1>5 DEF place

LEMMA FindTableEffect ==
    ASSUME DeskTypeOK, NEW m \in Movers, FindTable(m)
    PROVE  /\ At(m, "findTable") /\ ReadsOnly
           /\ \/ Drops(m, "idle")
              \/ Goes(m, "delete", mover[m].booked, mover[m].seat, mover[m].window)
              \/ /\ GuestsChange(m)
                 /\ Goes(m, "anyway", mover[m].booked, mover[m].seat, mover[m].window)
BY FinishDrops, StepGoes DEF FindTable, Places, Writing

\* A statement writes columns of one reservation and nothing else of the book.
Wrote(r, tables, start, end, guests) ==
    /\ reservations' \in [Requests -> ReservationRow]
    /\ reservations'[r].status = reservations[r].status
    /\ reservations'[r].tables = tables /\ reservations'[r].guests = guests
    /\ reservations'[r].start = start /\ reservations'[r].end = end
    /\ \A o \in Requests \ {r} : reservations'[o] = reservations[o]
    /\ touched' = touched \cup {r}
    /\ UNCHANGED <<callVars, redisLock, rowLock, customers, codes, floorVars, announced>>

LEMMA WritesRow ==
    ASSUME DeskTypeOK, NEW m \in Movers, NEW r \in Requests, Serves(m, r),
           NEW row \in ReservationRow, Writes(m, row), row.status = reservations[r].status
    PROVE  Wrote(r, row.tables, row.start, row.end, row.guests)
<1>1. mover[m].target = {r} /\ Target(m) = r
  BY TargetIsOne DEF Serves
<1>2. reservations \in [Requests -> ReservationRow]
  BY DEF DeskTypeOK, TypeOK
<1>3. /\ reservations' \in [Requests -> ReservationRow] /\ reservations'[r] = row
      /\ \A o \in Requests \ {r} : reservations'[o] = reservations[o]
  BY <1>1, <1>2 DEF Writes
<1>4. /\ touched' = touched \cup {r}
      /\ UNCHANGED <<callVars, redisLock, rowLock, customers, codes, floorVars, announced>>
  BY <1>1 DEF Writes
<1> QED
  BY <1>3, <1>4 DEF Wrote

LEMMA DeleteTablesEffect ==
    ASSUME DeskTypeOK, NEW m \in Movers, NEW r \in Requests, Serves(m, r), DeleteTables(m)
    PROVE  /\ At(m, "delete")
           /\ Wrote(r, {}, reservations[r].start, reservations[r].end, reservations[r].guests)
           /\ Goes(m, IF mover[m].seat.tables = {} THEN "save" ELSE "insert",
                   mover[m].booked, mover[m].seat, mover[m].window)
<1> DEFINE row == [reservations[r] EXCEPT !.tables = {}]
           place == IF mover[m].seat.tables = {} THEN "save" ELSE "insert"
<1>1. At(m, "delete") /\ Writes(m, row) /\ Step(m, place)
  BY TargetIsOne DEF DeleteTables, Serves
<1>2. reservations[r] \in ReservationRow
  BY DEF DeskTypeOK, TypeOK
<1>3. /\ row \in ReservationRow /\ row.status = reservations[r].status /\ row.tables = {}
      /\ row.start = reservations[r].start /\ row.end = reservations[r].end
      /\ row.guests = reservations[r].guests
  BY <1>2 DEF ReservationRow
<1>4. place \in Places
  BY DEF Places, Writing
<1> HIDE DEF row, place
<1>5. Wrote(r, {}, reservations[r].start, reservations[r].end, reservations[r].guests)
  BY <1>1, <1>3, WritesRow
<1>6. Goes(m, place, mover[m].booked, mover[m].seat, mover[m].window)
  BY <1>1, <1>4, StepGoes
<1> QED
  BY <1>1, <1>5, <1>6 DEF place

LEMMA InsertTableEffect ==
    ASSUME DeskTypeOK, NEW m \in Movers, NEW r \in Requests, Serves(m, r), InsertTable(m)
    PROVE  /\ At(m, "insert")
           /\ Wrote(r, reservations[r].tables \cup mover[m].seat.tables, reservations[r].start,
                    reservations[r].end, reservations[r].guests)
           /\ Goes(m, "save", mover[m].booked, mover[m].seat, mover[m].window)
<1> DEFINE tables == reservations[r].tables \cup mover[m].seat.tables
           row == [reservations[r] EXCEPT !.tables = tables]
<1>1. At(m, "insert") /\ Writes(m, row) /\ Step(m, "save")
  BY TargetIsOne DEF InsertTable, Serves
<1>2. reservations[r] \in ReservationRow /\ tables \subseteq Tables
  <2>1. mover[m].seat \in Seat
    BY MoverIsMover DEF Mover
  <2>2. reservations[r] \in ReservationRow
    BY DEF DeskTypeOK, TypeOK
  <2> QED
    BY <2>1, <2>2 DEF Seat, ReservationRow
<1> HIDE DEF tables
<1>3. /\ row \in ReservationRow /\ row.status = reservations[r].status /\ row.tables = tables
      /\ row.start = reservations[r].start /\ row.end = reservations[r].end
      /\ row.guests = reservations[r].guests
  BY <1>2 DEF ReservationRow
<1> HIDE DEF row
<1>4. Wrote(r, tables, reservations[r].start, reservations[r].end, reservations[r].guests)
  BY <1>1, <1>3, WritesRow
<1>5. Goes(m, "save", mover[m].booked, mover[m].seat, mover[m].window)
  BY <1>1, StepGoes DEF Places, Writing
<1> QED
  BY <1>1, <1>4, <1>5 DEF tables

\* PATCH writes the guest count with the times, modify by code in a statement of its own.
Patched(m) == IF mover[m].kind = "patch" THEN mover[m].wish.guests ELSE {}

LEMMA SaveRowEffect ==
    ASSUME DeskTypeOK, NEW m \in Movers, NEW r \in Requests, Serves(m, r), SaveRow(m)
    PROVE  /\ At(m, "save")
           /\ Wrote(r, reservations[r].tables, mover[m].window.start, mover[m].window.end,
                    Given(Patched(m), reservations[r].guests))
           /\ IF GuestsChange(m)
              THEN Goes(m, "guests", mover[m].booked, mover[m].seat, mover[m].window)
              ELSE Drops(m, "idle")
<1> DEFINE guests == Given(Patched(m), reservations[r].guests)
           a == [reservations[r] EXCEPT !.start = mover[m].window.start]
           b == [a EXCEPT !.end = mover[m].window.end]
           row == [b EXCEPT !.guests = guests]
<1>1. mover[m] \in Mover /\ reservations[r] \in ReservationRow
  BY MoverIsMover DEF TypeOK
<1>2. mover[m].window.start \in Instants /\ mover[m].window.end \in Instants
  BY <1>1 DEF Mover, Window
<1>3. guests \in Parties \cup {0}
  <2>1. mover[m].wish.guests \in SUBSET Parties
    BY <1>1, WishType DEF Mover
  <2>2. Patched(m) \in SUBSET (Parties \cup {0})
    BY <2>1 DEF Patched
  <2>3. reservations[r].guests \in Parties \cup {0}
    BY <1>1 DEF ReservationRow
  <2> QED
    BY <2>2, <2>3, GuestsAreGiven
<1>4. /\ a \in ReservationRow /\ a.start = mover[m].window.start
      /\ a.status = reservations[r].status /\ a.tables = reservations[r].tables
      /\ a.guests = reservations[r].guests
  BY <1>1, <1>2 DEF ReservationRow
<1>5. At(m, "save") /\ Writes(m, row)
  <2>1. Target(m) = r
    BY TargetIsOne DEF Serves
  <2>2. Writes(m, [reservations[r] EXCEPT !.start = mover[m].window.start,
                                          !.end = mover[m].window.end,
                                          !.guests = Given(Patched(m), @)])
    BY <2>1 DEF SaveRow, Patched
  <2>3. [reservations[r] EXCEPT !.start = mover[m].window.start, !.end = mover[m].window.end,
                                !.guests = Given(Patched(m), @)] = row
    <3> HIDE DEF a
    <3>1. b.guests = reservations[r].guests
      BY <1>4 DEF ReservationRow
    <3>2. [b EXCEPT !.guests = Given(Patched(m), @)] = row
      <4> HIDE DEF b
      <4> QED
        BY <3>1
    <3> QED
      BY <3>2 DEF a
  <2> HIDE DEF row
  <2> QED
    BY <2>2, <2>3 DEF SaveRow
<1> HIDE DEF guests, a
<1>6. /\ b \in ReservationRow /\ b.start = mover[m].window.start /\ b.end = mover[m].window.end
      /\ b.status = reservations[r].status /\ b.tables = reservations[r].tables
  BY <1>2, <1>4 DEF ReservationRow
<1> HIDE DEF b
<1>7. /\ row \in ReservationRow /\ row.start = mover[m].window.start
      /\ row.end = mover[m].window.end /\ row.guests = guests
      /\ row.status = reservations[r].status /\ row.tables = reservations[r].tables
  BY <1>3, <1>6 DEF ReservationRow
<1> HIDE DEF row
<1>8. Wrote(r, reservations[r].tables, mover[m].window.start, mover[m].window.end, guests)
  BY <1>5, <1>7, WritesRow
<1>9. IF GuestsChange(m) THEN Goes(m, "guests", mover[m].booked, mover[m].seat, mover[m].window)
                 ELSE Drops(m, "idle")
  <2>1. IF GuestsChange(m) THEN Step(m, "guests") ELSE Finish(m)
    BY DEF SaveRow
  <2> QED
    BY <2>1, StepGoes, FinishDrops DEF Places, Writing
<1> QED
  BY <1>5, <1>8, <1>9 DEF guests

LEMMA SaveGuestsEffect ==
    ASSUME DeskTypeOK, NEW m \in Movers, NEW r \in Requests, Serves(m, r), SaveGuests(m)
    PROVE  /\ At(m, "guests") \/ (At(m, "anyway") /\ astray' = astray \cup {r})
           /\ Drops(m, "idle")
           /\ Wrote(r, reservations[r].tables, reservations[r].start, reservations[r].end,
                    Given(mover[m].wish.guests, reservations[r].guests))
<1> DEFINE guests == Given(mover[m].wish.guests, reservations[r].guests)
           row == [reservations[r] EXCEPT !.guests = guests]
<1>1. mover[m] \in Mover /\ reservations[r] \in ReservationRow
  BY MoverIsMover DEF TypeOK
<1>2. guests \in Parties \cup {0}
  <2>1. mover[m].wish.guests \in SUBSET (Parties \cup {0})
    BY <1>1, WishType DEF Mover
  <2>2. reservations[r].guests \in Parties \cup {0}
    BY <1>1 DEF ReservationRow
  <2> QED
    BY <2>1, <2>2, GuestsAreGiven
<1>3. /\ At(m, "guests") \/ (At(m, "anyway") /\ astray' = astray \cup {r})
      /\ Drops(m, "idle")
  BY FinishDrops DEF SaveGuests, Serves
<1>4. Writes(m, row)
  BY TargetIsOne DEF SaveGuests, Serves
<1> HIDE DEF guests
<1>5. /\ row \in ReservationRow /\ row.start = reservations[r].start
      /\ row.end = reservations[r].end /\ row.guests = guests
      /\ row.status = reservations[r].status /\ row.tables = reservations[r].tables
  BY <1>1, <1>2 DEF ReservationRow
<1> HIDE DEF row
<1>6. Wrote(r, reservations[r].tables, reservations[r].start, reservations[r].end, guests)
  BY <1>4, <1>5, WritesRow
<1> QED
  BY <1>3, <1>6 DEF guests

\* A request that fails half way leaves the book as it is, and its reservation astray.
LEMMA BreakEffect ==
    ASSUME DeskTypeOK, NEW m \in Movers, InsertTwice(m) \/ MoverCrash(m)
    PROVE  /\ UNCHANGED <<vars, touched>> /\ Drops(m, "idle") /\ mover[m].at \in Writing
           /\ astray' = IF HalfDone(m) THEN astray \cup mover[m].target ELSE astray
<1>1. Break(m)
  BY DEF InsertTwice, MoverCrash
<1>2. mover[m].at \in Writing
  BY DEF InsertTwice, MoverCrash, At, Writing
<1> QED
  BY <1>1, <1>2, FinishDrops DEF Break

\* PATCH :id/status writes one column.
LEMMA SetStatusEffect ==
    ASSUME DeskTypeOK, NEW r \in Requests, NEW status \in StatusChoices, SetStatus(r, status)
    PROVE  /\ reservations' \in [Requests -> ReservationRow]
           /\ reservations[r].status # "NONE"
           /\ reservations'[r].status = status /\ status # "NONE"
           /\ reservations'[r].tables = reservations[r].tables
           /\ reservations'[r].start = reservations[r].start
           /\ reservations'[r].end = reservations[r].end
           /\ reservations'[r].guests = reservations[r].guests
           /\ \A o \in Requests \ {r} : reservations'[o] = reservations[o]
           /\ touched' = touched \cup {r}
           /\ UNCHANGED <<callVars, redisLock, rowLock, customers, codes, floorVars, announced, mover>>
<1> DEFINE row == [reservations[r] EXCEPT !.status = status]
<1>1. status # "NONE" /\ status \in STATUSES
  BY DeskAssumption DEF STATUSES, ACTIVE_STATUSES
<1>2. reservations \in [Requests -> ReservationRow]
  BY DEF DeskTypeOK, TypeOK
<1>3. /\ row \in ReservationRow /\ row.status = status /\ row.tables = reservations[r].tables
      /\ row.start = reservations[r].start /\ row.end = reservations[r].end
      /\ row.guests = reservations[r].guests
  BY <1>1, <1>2 DEF ReservationRow
<1>4. reservations' = [reservations EXCEPT ![r] = row]
  BY DEF SetStatus
<1> HIDE DEF row
<1>5. /\ reservations' \in [Requests -> ReservationRow] /\ reservations'[r] = row
      /\ \A o \in Requests \ {r} : reservations'[o] = reservations[o]
  BY <1>2, <1>3, <1>4
<1> QED
  BY <1>1, <1>3, <1>5 DEF SetStatus
-----------------------------------------------------------------------------
(* The desk's own invariant, for any number of movers *)

SlotInv(m) ==
    /\ mover[m].at \in {"findTable", "insert"} => mover[m].seat.tables # {}
    /\ mover[m].seat.given /\ mover[m].seat.tables = {} => mover[m].wish.clear
    /\ Busy(m) => /\ \E r \in Requests : mover[m].target = {r}
                  /\ reservations[Target(m)].status # "NONE"
                  /\ Wanted(m).end \in Instants
    /\ mover[m].at \in {"findTable", "delete", "insert"} => mover[m].seat.given

LEMMA DeskIInvBySlot == DeskIInv <=> DeskTypeOK /\ \A m \in Movers : SlotInv(m)
BY DEF DeskIInv, DeskInv, OnlyClearUnseats, MoverInv, SlotInv

LEMMA DeskIInvBySlotNext == DeskIInv' <=> DeskTypeOK' /\ \A m \in Movers : SlotInv(m)'
BY DEF DeskIInv, DeskInv, OnlyClearUnseats, MoverInv, SlotInv

\* No reservation goes away.
RowsStay == \A r \in Requests : reservations[r].status # "NONE" => reservations'[r].status # "NONE"

\* A step that writes one slot and leaves it in order.
SlotKept(m) == /\ mover' \in [Movers -> Mover] /\ \A o \in Movers \ {m} : mover'[o] = mover[o]
               /\ SlotInv(m)'

LEMMA IdleSlot ==
    ASSUME NEW m \in Movers, Drops(m, "idle")
    PROVE  SlotKept(m)
BY DEF Drops, SlotInv, Busy, Unseated, SlotKept

LEMMA SameSlot ==
    ASSUME RowsStay, NEW m \in Movers, SlotInv(m), mover'[m] = mover[m]
    PROVE  SlotInv(m)'
<1>1. Target(m)' = Target(m) /\ Wanted(m)' = Wanted(m) /\ Busy(m)' = Busy(m)
  BY DEF Target, Wanted, Busy
<1>2. Busy(m) => reservations'[Target(m)].status # "NONE"
  <2> SUFFICES ASSUME Busy(m) PROVE reservations'[Target(m)].status # "NONE"
    OBVIOUS
  <2>1. PICK r \in Requests : mover[m].target = {r}
    BY DEF SlotInv
  <2>2. Target(m) = r
    BY <2>1, TargetIsOne
  <2> QED
    BY <2>2 DEF SlotInv, RowsStay
<1> QED
  BY <1>1, <1>2 DEF SlotInv

\* A mover that goes on with its request still wants the same window.
LEMMA GoesKeeps ==
    ASSUME NEW m \in Movers, NEW place, NEW found, NEW seat, NEW window,
           Goes(m, place, found, seat, window)
    PROVE  Target(m)' = Target(m) /\ Wanted(m)' = Wanted(m)
BY DEF Goes, Keeps, Target, Wanted

LEMMA GoingSlot ==
    ASSUME RowsStay, NEW m \in Movers, SlotInv(m), Busy(m),
           NEW place, NEW found, NEW seat, NEW window, Goes(m, place, found, seat, window),
           place \in {"findTable", "insert"} => seat.tables # {},
           seat.given /\ seat.tables = {} => mover[m].wish.clear,
           place \in {"findTable", "delete", "insert"} => seat.given
    PROVE  SlotKept(m)
<1>1. Target(m)' = Target(m) /\ Wanted(m)' = Wanted(m)
  BY GoesKeeps
<1>2. reservations'[Target(m)].status # "NONE"
  <2>1. PICK r \in Requests : mover[m].target = {r}
    BY DEF SlotInv
  <2>2. Target(m) = r
    BY <2>1, TargetIsOne
  <2> QED
    BY <2>2 DEF SlotInv, RowsStay
<1>3. /\ mover'[m].at = place /\ mover'[m].seat = seat /\ mover'[m].wish = mover[m].wish
      /\ mover'[m].target = mover[m].target
  BY DEF Goes, Keeps
<1>4. (Busy(m) => /\ \E r \in Requests : mover[m].target = {r}
                  /\ reservations[Target(m)].status # "NONE"
                  /\ Wanted(m).end \in Instants)'
  BY <1>1, <1>2, <1>3 DEF SlotInv
<1> QED
  BY <1>3, <1>4 DEF SlotInv, SlotKept, Goes

\* What a mover's step is, its first read aside: a read, or a statement that writes its
\* reservation.
LEMMA ServeSteps ==
    ASSUME DeskIInv, NEW m \in Movers, Serve(m)
    PROVE  \/ \E k \in {"patch", "modify"}, r \in Requests, w \in PatchWishes \cup ModifyWishes :
                Begin(m, k, r, w)
           \/ /\ Busy(m)
              /\ \E r \in Requests : Serves(m, r) /\ Target(m) = r
              /\ \/ CheckHours(m) \/ QueryBooked(m) \/ QueryTables(m) \/ FindRow(m)
                 \/ FindTable(m) \/ DeleteTables(m) \/ InsertTable(m) \/ InsertTwice(m)
                 \/ SaveRow(m) \/ SaveGuests(m) \/ MoverCrash(m)
<1>1. CASE \/ \E r \in Requests, w \in PatchWishes : Begin(m, "patch", r, w)
           \/ \E r \in Requests, w \in ModifyWishes : Begin(m, "modify", r, w)
  BY <1>1
<1>2. CASE \/ CheckHours(m) \/ QueryBooked(m) \/ QueryTables(m) \/ FindRow(m)
           \/ FindTable(m) \/ DeleteTables(m) \/ InsertTable(m) \/ InsertTwice(m)
           \/ SaveRow(m) \/ SaveGuests(m) \/ MoverCrash(m)
  <2>1. Busy(m)
    BY <1>2 DEF CheckHours, QueryBooked, QueryTables, FindRow, FindTable, DeleteTables,
                InsertTable, InsertTwice, SaveRow, SaveGuests, MoverCrash, At, Busy, Writing
  <2> QED
    BY <1>2, <2>1, BusyServes
<1> QED
  BY <1>1, <1>2 DEF Serve

\* What a mover's step does to the book: nothing, or it writes its own reservation, which
\* stays.
LEMMA ServeWrites ==
    ASSUME DeskIInv, NEW m \in Movers, Serve(m)
    PROVE  \/ UNCHANGED <<vars, touched>>
           \/ \E r \in Requests :
                /\ Serves(m, r) /\ Target(m) = r /\ mover[m].at \in Writing
                /\ \E tables, start, end, guests : Wrote(r, tables, start, end, guests)
<1>1. DeskTypeOK
  BY DEF DeskIInv, DeskInv
<1>2. ASSUME NEW k, NEW r, NEW w, Begin(m, k, r, w) PROVE UNCHANGED <<vars, touched>>
  BY <1>2 DEF Begin, ReadsOnly
<1>3. CASE CheckHours(m) \/ QueryBooked(m) \/ QueryTables(m) \/ FindRow(m) \/ FindTable(m)
           \/ InsertTwice(m) \/ MoverCrash(m)
  BY <1>3 DEF CheckHours, QueryBooked, QueryTables, FindRow, FindTable, InsertTwice, MoverCrash,
              Break, ReadsOnly
<1>4. ASSUME NEW r \in Requests, Serves(m, r), Target(m) = r,
             DeleteTables(m) \/ InsertTable(m) \/ SaveRow(m) \/ SaveGuests(m)
      PROVE  /\ mover[m].at \in Writing
             /\ \E tables, start, end, guests : Wrote(r, tables, start, end, guests)
  <2>1. CASE DeleteTables(m)
    BY <1>1, <1>4, <2>1, DeleteTablesEffect DEF Writing, At
  <2>2. CASE InsertTable(m)
    BY <1>1, <1>4, <2>2, InsertTableEffect DEF Writing, At
  <2>3. CASE SaveRow(m)
    BY <1>1, <1>4, <2>3, SaveRowEffect DEF Writing, At
  <2>4. CASE SaveGuests(m)
    BY <1>1, <1>4, <2>4, SaveGuestsEffect DEF Writing, At
  <2> QED
    BY <1>4, <2>1, <2>2, <2>3, <2>4
<1> QED
  BY <1>2, <1>3, <1>4, ServeSteps

LEMMA RowsStayStep ==
    ASSUME DeskIInv, [DeskNext]_deskVars
    PROVE  RowsStay
<1>1. reservations \in [Requests -> ReservationRow] /\ DeskTypeOK
  BY DEF DeskIInv, DeskInv, DeskTypeOK, TypeOK
<1>2. ASSUME [Next]_vars PROVE RowsStay
  <2>1. CASE UNCHANGED reservations
    BY <2>1 DEF RowsStay
  <2>2. ASSUME NEW q \in Requests, Commit(q) \/ CommitUnacknowledged(q) PROVE RowsStay
    <3>1. reservations' = [reservations EXCEPT ![q] = NewRow(input[q], table[q])]
      BY <2>2 DEF Commit, CommitUnacknowledged
    <3>2. NewRow(input[q], table[q]).status = "CONFIRMED"
      BY DEF NewRow
    <3> QED
      BY <1>1, <3>1, <3>2 DEF RowsStay
  <2>3. ASSUME NEW r \in Requests, NEW status \in EndStatuses, Retire(r, status) PROVE RowsStay
    <3>1. status # "NONE"
      BY EnvironmentAssumption DEF STATUSES
    <3>2. reservations'[r].status = status /\ \A o \in Requests \ {r} : reservations'[o] = reservations[o]
      BY <1>1, <2>3 DEF Retire, ReservationRow
    <3> QED
      BY <3>1, <3>2 DEF RowsStay
  <2> QED
    BY <1>2, <2>1, <2>2, <2>3, RowSteps
<1>3. ASSUME NEW m \in Movers, Serve(m) PROVE RowsStay
  <2>1. CASE UNCHANGED <<vars, touched>>
    BY <2>1 DEF vars, storeVars, RowsStay
  <2>2. ASSUME NEW r \in Requests, Serves(m, r),
               NEW tables, NEW start, NEW end, NEW guests, Wrote(r, tables, start, end, guests)
        PROVE  RowsStay
    BY <2>2 DEF Wrote, Serves, RowsStay
  <2> QED
    BY <1>3, <2>1, <2>2, ServeWrites
<1>4. ASSUME NEW r \in Requests, NEW status \in StatusChoices, SetStatus(r, status) PROVE RowsStay
  BY <1>1, <1>4, SetStatusEffect DEF RowsStay
<1>5. CASE UNCHANGED deskVars
  BY <1>5 DEF deskVars, vars, storeVars, RowsStay
<1> QED
  BY <1>2, <1>3, <1>4, <1>5 DEF DeskNext

\* A reservation that has gone astray stays so, and only served reservations go.
LEMMA AstrayStep ==
    ASSUME DeskIInv, [DeskNext]_deskVars
    PROVE  astray \subseteq astray' /\ astray' \subseteq Requests
<1>1. DeskTypeOK /\ astray \subseteq Requests
  BY MoverIsMover DEF DeskIInv, DeskInv
<1>2. ASSUME NEW m \in Movers, Serve(m)
      PROVE  astray' = astray \/ astray' = astray \cup mover[m].target
  <2>1. ASSUME NEW k, NEW r, NEW w, Begin(m, k, r, w) PROVE astray' = astray
    BY <2>1 DEF Begin, ReadsOnly
  <2>2. CASE CheckHours(m) \/ QueryBooked(m) \/ QueryTables(m) \/ FindRow(m) \/ FindTable(m)
    BY <2>2 DEF CheckHours, QueryBooked, QueryTables, FindRow, FindTable, ReadsOnly
  <2>3. CASE DeleteTables(m) \/ InsertTable(m) \/ SaveRow(m)
    BY <2>3 DEF DeleteTables, InsertTable, SaveRow
  <2>4. CASE SaveGuests(m)
    BY <2>4 DEF SaveGuests
  <2>5. CASE InsertTwice(m) \/ MoverCrash(m)
    BY <2>5, <1>1, BreakEffect
  <2> QED
    BY <1>2, <2>1, <2>2, <2>3, <2>4, <2>5 DEF Serve
<1>3. ASSUME NEW m \in Movers PROVE mover[m].target \subseteq Requests
  BY <1>1, MoverIsMover DEF Mover
<1>4. \/ astray' = astray \/ \E m \in Movers : Serve(m)
  BY DEF DeskNext, SetStatus, deskVars
<1> QED
  BY <1>1, <1>2, <1>3, <1>4

\* A mover's step writes its own slot.
LEMMA ServeSlot ==
    ASSUME DeskIInv, NEW m \in Movers, Serve(m), RowsStay
    PROVE  SlotKept(m)
<1>1. DeskTypeOK /\ SlotInv(m)
  BY DeskIInvBySlot
<1>2. ASSUME NEW k \in {"patch", "modify"}, NEW r \in Requests,
             NEW w \in PatchWishes \cup ModifyWishes, Begin(m, k, r, w)
      PROVE  SlotKept(m)
  <2>1. /\ reservations[r].status # "NONE"
        /\ mover' \in [Movers -> Mover] /\ \A o \in Movers \ {m} : mover'[o] = mover[o]
        /\ mover'[m].at \in {"hours", "find"}
        /\ mover'[m].kind = k /\ mover'[m].target = {r} /\ mover'[m].wish = w
        /\ mover'[m].seen = reservations[r] /\ mover'[m].seat = Unseated
        /\ WantedWindow(k, w, reservations[r]).end \in Instants
    BY <1>1, <1>2, BeginEffect
  <2>2. Target(m)' = r
    BY <2>1 DEF Target
  <2>3. Wanted(m)' = WantedWindow(k, w, reservations[r])
    BY <2>1 DEF Wanted
  <2>4. reservations'[r].status # "NONE"
    BY <2>1 DEF RowsStay
  <2>5. /\ (\E o \in Requests : mover[m].target = {o})'
        /\ (reservations[Target(m)].status # "NONE")'
        /\ (Wanted(m).end \in Instants)'
    BY <2>1, <2>2, <2>3, <2>4
  <2>6. SlotInv(m)'
    BY <2>1, <2>5 DEF SlotInv, Unseated
  <2> QED
    BY <2>1, <2>6 DEF SlotKept
<1>3. ASSUME Busy(m), CheckHours(m) PROVE SlotKept(m)
  <2>1. CASE Drops(m, "idle")
    BY <2>1, IdleSlot
  <2>2. CASE /\ mover[m].wish.clear
             /\ Goes(m, "find", mover[m].booked, [given |-> TRUE, tables |-> {}], mover[m].window)
    BY <1>1, <1>3, <2>2, GoingSlot
  <2>3. CASE Goes(m, "booked", mover[m].booked, mover[m].seat, mover[m].window)
    <3>1. mover[m].seat.given /\ mover[m].seat.tables = {} => mover[m].wish.clear
      BY <1>1 DEF SlotInv
    <3> QED
      BY <1>1, <1>3, <2>3, <3>1, GoingSlot
  <2> QED
    BY <1>1, <1>3, <2>1, <2>2, <2>3, CheckHoursEffect
<1>4. mover[m].seat.given /\ mover[m].seat.tables = {} => mover[m].wish.clear
  BY <1>1 DEF SlotInv
<1>5. ASSUME Busy(m), QueryBooked(m) PROVE SlotKept(m)
  <2>1. Goes(m, "tables", BookedTables(reservations, Wanted(m).start, Wanted(m).end,
                                       mover[m].target), mover[m].seat, mover[m].window)
    BY <1>1, <1>5, QueryBookedEffect
  <2> QED
    BY <1>1, <1>4, <1>5, <2>1, GoingSlot
<1>6. ASSUME Busy(m), QueryTables(m) PROVE SlotKept(m)
  <2>1. ASSUME NEW t,
               Goes(m, "find", mover[m].booked, [given |-> TRUE, tables |-> {t}], mover[m].window)
        PROVE  SlotKept(m)
    BY <1>1, <1>6, <2>1, GoingSlot
  <2> QED
    BY <1>1, <1>6, <2>1, QueryTablesEffect, IdleSlot
<1>7. ASSUME Busy(m), FindRow(m) PROVE SlotKept(m)
  <2> DEFINE place == IF ~mover[m].seat.given THEN "save"
                      ELSE IF mover[m].seat.tables = {} THEN "delete" ELSE "findTable"
  <2>1. Goes(m, place, mover[m].booked, mover[m].seat, FoundWindow(m))
    BY <1>7, FindRowEffect
  <2>2. /\ place \in {"findTable", "insert"} => mover[m].seat.tables # {}
        /\ place \in {"findTable", "delete", "insert"} => mover[m].seat.given
    OBVIOUS
  <2> HIDE DEF place
  <2> QED
    BY <1>1, <1>4, <1>7, <2>1, <2>2, GoingSlot
<1>8. ASSUME Busy(m), FindTable(m) PROVE SlotKept(m)
  <2>1. mover[m].seat.given
    BY <1>1, <1>8 DEF FindTable, At, SlotInv
  <2>2. ASSUME NEW place \in {"delete", "anyway"},
               Goes(m, place, mover[m].booked, mover[m].seat, mover[m].window)
        PROVE  SlotKept(m)
    BY <1>1, <1>4, <1>8, <2>1, <2>2, GoingSlot
  <2> QED
    BY <1>1, <1>8, <2>2, FindTableEffect, IdleSlot
<1>9. ASSUME Busy(m), NEW r \in Requests, Serves(m, r), DeleteTables(m)
      PROVE  SlotKept(m)
  <2> DEFINE place == IF mover[m].seat.tables = {} THEN "save" ELSE "insert"
  <2>1. At(m, "delete") /\ Goes(m, place, mover[m].booked, mover[m].seat, mover[m].window)
    BY <1>1, <1>9, DeleteTablesEffect
  <2>2. mover[m].seat.given
    BY <1>1, <2>1 DEF At, SlotInv
  <2>3. place \in {"findTable", "insert"} => mover[m].seat.tables # {}
    OBVIOUS
  <2> HIDE DEF place
  <2> QED
    BY <1>1, <1>4, <1>9, <2>1, <2>2, <2>3, GoingSlot
<1>10. ASSUME Busy(m), NEW r \in Requests, Serves(m, r), InsertTable(m)
       PROVE  SlotKept(m)
  <2>1. Goes(m, "save", mover[m].booked, mover[m].seat, mover[m].window)
    BY <1>1, <1>10, InsertTableEffect
  <2> QED
    BY <1>1, <1>4, <1>10, <2>1, GoingSlot
<1>11. ASSUME Busy(m), NEW r \in Requests, Serves(m, r), SaveRow(m)
       PROVE  SlotKept(m)
  <2>1. ASSUME Goes(m, "guests", mover[m].booked, mover[m].seat, mover[m].window)
        PROVE  SlotKept(m)
    BY <1>1, <1>4, <1>11, <2>1, GoingSlot
  <2> QED
    BY <1>1, <1>11, <2>1, SaveRowEffect, IdleSlot
<1>12. ASSUME Busy(m), NEW r \in Requests, Serves(m, r), SaveGuests(m) PROVE SlotKept(m)
  BY <1>1, <1>12, SaveGuestsEffect, IdleSlot
<1>13. ASSUME InsertTwice(m) \/ MoverCrash(m) PROVE SlotKept(m)
  BY <1>1, <1>13, BreakEffect, IdleSlot
<1> QED
  BY <1>2, <1>3, <1>5, <1>6, <1>7, <1>8, <1>9, <1>10, <1>11, <1>12, <1>13, ServeSteps

LEMMA DeskIInvStep == DeskIInv /\ [DeskNext]_deskVars => DeskIInv'
<1> SUFFICES ASSUME DeskIInv, [DeskNext]_deskVars PROVE DeskIInv'
  OBVIOUS
<1>1. DeskTypeOK /\ TypeOK /\ touched \subseteq Requests /\ RowsStay /\ astray' \subseteq Requests
  BY RowsStayStep, AstrayStep, MoverIsMover DEF DeskIInv, DeskInv
<1>2. mover \in [Movers -> Mover] /\ \A m \in Movers : SlotInv(m)
  BY <1>1, DeskIInvBySlot, MoverIsMover
<1>3. ASSUME TypeOK', mover' = mover, touched' \subseteq Requests PROVE DeskIInv'
  <2>1. \A m \in Movers : SlotInv(m)'
    BY <1>1, <1>2, <1>3, SameSlot
  <2>2. DeskTypeOK'
    BY <1>1, <1>3 DEF DeskTypeOK
  <2> QED
    BY <2>1, <2>2, DeskIInvBySlotNext
<1>4. ASSUME [Next]_vars, UNCHANGED <<mover, touched, astray>> PROVE DeskIInv'
  BY <1>1, <1>3, <1>4, TypeStep
<1>5. ASSUME NEW m \in Movers, Serve(m) PROVE DeskIInv'
  <2>1. /\ mover' \in [Movers -> Mover] /\ \A o \in Movers \ {m} : mover'[o] = mover[o]
        /\ SlotInv(m)'
    BY <1>1, <1>5, ServeSlot DEF SlotKept
  <2>2. \A o \in Movers : SlotInv(o)'
    BY <1>1, <1>2, <2>1, SameSlot
  <2>3. TypeOK' /\ touched' \subseteq Requests
    <3>1. CASE UNCHANGED <<vars, touched>>
      BY <1>1, <3>1, TypeStep
    <3>2. ASSUME NEW r \in Requests, NEW tables, NEW start, NEW end, NEW guests,
                 Wrote(r, tables, start, end, guests)
          PROVE  TypeOK' /\ touched' \subseteq Requests
      BY <1>1, <3>2 DEF Wrote, TypeOK, callVars, floorVars
    <3> QED
      BY <1>5, <3>1, <3>2, ServeWrites
  <2>4. DeskTypeOK'
    BY <1>1, <2>1, <2>3 DEF DeskTypeOK, Mover
  <2> QED
    BY <2>2, <2>4, DeskIInvBySlotNext
<1>6. ASSUME NEW r \in Requests, NEW status \in StatusChoices, SetStatus(r, status) PROVE DeskIInv'
  <2>1. /\ reservations' \in [Requests -> ReservationRow] /\ touched' = touched \cup {r}
        /\ UNCHANGED <<callVars, redisLock, rowLock, customers, codes, floorVars, announced, mover>>
    BY <1>1, <1>6, SetStatusEffect
  <2>2. TypeOK'
    BY <1>1, <2>1 DEF TypeOK, callVars, floorVars
  <2> QED
    BY <1>1, <1>3, <2>1, <2>2
<1>7. CASE UNCHANGED deskVars
  <2>1. [Next]_vars /\ UNCHANGED <<mover, touched, astray>>
    BY <1>7 DEF deskVars
  <2> QED
    BY <1>4, <2>1
<1> QED
  BY <1>4, <1>5, <1>6, <1>7 DEF DeskNext

\* The reservations the desk starts with: each has one table that suits its party.
LEMMA DeskInitRows ==
    ASSUME DeskInit
    PROVE  /\ \A q \in Requests :
                /\ q \in Earlier => /\ pc[q] = "answered" /\ outcome[q] = "booked"
                                    /\ \E t \in AvailableTables(Tables, {}, input[q].guests) :
                                         reservations[q] = NewRow(input[q], {t})
                /\ q \notin Earlier => /\ pc[q] = "idle" /\ outcome[q] = "none" /\ NoTrace(q)
           /\ input \in [Requests -> BookingInput] /\ rowLock = Nobody
           /\ \A m \in Movers : mover[m] = Resting
           /\ touched = {} /\ astray = {} /\ NoDoubleBooking
<1>1. /\ pc = [q \in Requests |-> IF q \in Earlier THEN "answered" ELSE "idle"]
      /\ outcome = [q \in Requests |-> IF q \in Earlier THEN "booked" ELSE "none"]
      /\ input \in [Requests -> BookingInput] /\ rowLock = Nobody
      /\ announced = Earlier /\ mover = [m \in Movers |-> Resting] /\ touched = {}
      /\ astray = {} /\ NoDoubleBooking
  BY DEF DeskInit
<1>2. PICK seats \in [Earlier -> Tables], labels \in [Earlier -> Codes] :
         /\ \A r \in Earlier : seats[r] \in AvailableTables(Tables, {}, input[r].guests)
         /\ reservations = [q \in Requests |-> IF q \in Earlier
                                                THEN NewRow(input[q], {seats[q]}) ELSE NoRow]
         /\ codes = [q \in Requests |-> IF q \in Earlier THEN {labels[q]} ELSE {}]
  BY DEF DeskInit
<1>3. ASSUME NEW q \in Requests
      PROVE  /\ q \in Earlier => /\ pc[q] = "answered" /\ outcome[q] = "booked"
                                 /\ \E t \in AvailableTables(Tables, {}, input[q].guests) :
                                      reservations[q] = NewRow(input[q], {t})
             /\ q \notin Earlier => /\ pc[q] = "idle" /\ outcome[q] = "none" /\ NoTrace(q)
  <2>1. CASE q \in Earlier
    BY <1>1, <1>2, <2>1
  <2>2. CASE q \notin Earlier
    BY <1>1, <1>2, <2>2 DEF NoTrace
  <2> QED
    BY <2>1, <2>2
<1> QED
  BY <1>1, <1>3

LEMMA DeskInitType == DeskInit => TypeOK
<1> SUFFICES ASSUME DeskInit PROVE TypeOK
  OBVIOUS
<1>1. reservations \in [Requests -> ReservationRow]
  <2>1. ASSUME NEW q \in Requests PROVE reservations[q] \in ReservationRow
    <3>1. CASE q \in Earlier
      <4>1. PICK t \in AvailableTables(Tables, {}, input[q].guests) :
              reservations[q] = NewRow(input[q], {t})
        BY <3>1, DeskInitRows
      <4>2. t \in Tables /\ input[q] \in BookingInput
        BY DeskInitRows DEF AvailableTables
      <4> QED
        BY <4>1, <4>2, NewRowIsRow
    <3>2. CASE q \notin Earlier
      BY <3>2, DeskInitRows, NoRowIsRow DEF NoTrace
    <3> QED
      BY <3>1, <3>2
  <2>2. reservations = [q \in Requests |-> reservations[q]]
    BY DEF DeskInit
  <2> QED
    BY <2>1, <2>2
<1>2. codes \in [Requests -> SUBSET Codes]
  <2>1. PICK labels \in [Earlier -> Codes] :
          codes = [q \in Requests |-> IF q \in Earlier THEN {labels[q]} ELSE {}]
    BY DEF DeskInit
  <2> QED
    BY <2>1
<1>3. /\ booked \in [Requests -> SUBSET Tables]
      /\ table \in [Requests -> SUBSET Tables]
      /\ code \in [Requests -> SUBSET Codes]
      /\ redisLock \in BOOLEAN
      /\ activeTables \subseteq Tables
      /\ openStarts \subseteq Starts
      /\ announced \subseteq Requests
  BY DeskAssumption DEF DeskInit
<1>4. pc \in [Requests -> Stages] /\ outcome \in [Requests -> Outcomes]
  BY DEF DeskInit, Stages, Ended, Outcomes
<1>5. customers \subseteq Phones
  <2>1. \A q \in Earlier : input[q].phone \in Phones
    BY DeskAssumption, DeskInitRows DEF BookingInput
  <2> QED
    BY <2>1 DEF DeskInit
<1> QED
  BY <1>1, <1>2, <1>3, <1>4, <1>5, DeskInitRows DEF TypeOK

LEMMA DeskInitIInv == DeskInit => DeskIInv
<1> SUFFICES ASSUME DeskInit PROVE DeskIInv
  OBVIOUS
<1>1. mover \in [Movers -> Mover]
  BY RestingIsMover DEF DeskInit
<1>2. DeskTypeOK
  BY <1>1, DeskInitType, DeskInitRows DEF DeskTypeOK, Mover
<1>3. \A m \in Movers : SlotInv(m)
  BY DeskInitRows DEF Resting, SlotInv, Busy, Unseated
<1> QED
  BY <1>2, <1>3, DeskIInvBySlot

\* What the desk itself relies on holds of any number of requests at once: each works on one
\* reservation that exists, within the bounds of time.
THEOREM DeskIInvInvariant == DeskSpec => []DeskIInv
BY DeskInitIInv, DeskIInvStep, PTL DEF DeskSpec

\* Type correctness of the desk, and that a reservation loses its table only where the body
\* of the request said so: however many requests work on the same rows, and wherever they die.
THEOREM DeskIsSound == DeskSpec => []DeskInv
BY DeskIInvInvariant, PTL DEF DeskIInv
-----------------------------------------------------------------------------
(* Bookings stay sound among themselves *)

\* A reservation written leaves the answer that leaves it out.
LEMMA TouchedLeaves ==
    ASSUME NEW r \in Requests, touched' = touched \cup {r},
           \A o \in Requests \ {r} : reservations'[o] = reservations[o], NEW start, NEW end
    PROVE  BookedTables(reservations', start, end, touched')
             \subseteq BookedTables(reservations, start, end, touched)
BY DEF BookedTables

LEMMA UntouchedOtherStep ==
    ASSUME UntouchedInv, NEW r \in Requests, touched' = touched \cup {r},
           \A o \in Requests \ {r} : reservations'[o] = reservations[o],
           UNCHANGED <<callVars, rowLock>>
    PROVE  UntouchedInv'
<1>1. RowLockInv'
  BY DEF UntouchedInv, RowLockInv, callVars
<1>2. ASSUME NEW q \in Requests
      PROVE  /\ pc[q] \in {"bookedRead", "picked", "inserted"} =>
                  BookedTables(reservations', input[q].start, InputEnd(input[q]), touched')
                    \subseteq booked[q]
             /\ pc[q] \in {"picked", "inserted"} => table[q] \cap booked[q] = {}
  BY <1>2, TouchedLeaves DEF UntouchedInv
<1>3. UntouchedNeverCollide'
  <2>1. \A p \in Requests \ touched' : p \in Requests \ touched /\ Held'[p] = Held[p]
    BY DEF Held
  <2> QED
    BY <2>1 DEF UntouchedInv, UntouchedNeverCollide, Ledger!Collide
<1> QED
  BY <1>1, <1>2, <1>3 DEF UntouchedInv, callVars

LEMMA UntouchedChecks ==
    ASSUME TypeOK, UntouchedInv, [Next]_vars, UNCHANGED touched, NEW q \in Requests
    PROVE  /\ pc'[q] \in {"bookedRead", "picked", "inserted"} =>
                BookedTables(reservations', input'[q].start, InputEnd(input'[q]), touched)
                  \subseteq booked'[q]
           /\ pc'[q] \in {"picked", "inserted"} => table'[q] \cap booked'[q] = {}
<1> DEFINE Kept == /\ pc'[q] \in {"bookedRead", "picked", "inserted"} =>
                        BookedTables(reservations', input'[q].start, InputEnd(input'[q]), touched)
                          \subseteq booked'[q]
                   /\ pc'[q] \in {"picked", "inserted"} => table'[q] \cap booked'[q] = {}
<1> USE DEF TypeOK, Goto, InTransaction, storeVars, floorVars
<1>1. ASSUME NEW c \in Requests, AcquireLock(c) \/ RefuseBusy(c) \/ LockRow(c)
                                  \/ Announce(c) \/ ReleaseLock(c) \/ EnsureReservable(c)
      PROVE  Kept
  BY <1>1 DEF UntouchedInv, AcquireLock, RefuseBusy, LockRow, Announce, ReleaseLock,
              EnsureReservable
<1>2. ASSUME NEW c \in Requests, ReadBooked(c) PROVE Kept
  <2>1. BookedTables(reservations, input[c].start, InputEnd(input[c]), touched)
          \subseteq BookedTables(reservations, input[c].start, InputEnd(input[c]), {})
    BY DEF BookedTables
  <2> QED
    BY <1>2, <2>1 DEF UntouchedInv, ReadBooked
<1>3. ASSUME NEW c \in Requests, PickTable(c) PROVE Kept
  BY <1>3 DEF UntouchedInv, PickTable, FirstTables, AvailableTables
<1>4. ASSUME NEW c \in Requests, InsertRows(c) PROVE Kept
  BY <1>4 DEF UntouchedInv, InsertRows
<1>5. ASSUME NEW c \in Requests,
             RejectClosed(c) \/ RejectFull(c) \/ RejectCode(c) \/ TimeOut(c) \/ Crash(c)
      PROVE  Kept
  BY <1>5 DEF UntouchedInv, RejectClosed, RejectFull, RejectCode, TimeOut, Crash, Rollback,
              ForgetLocals
<1>6. ASSUME NEW c \in Requests, Commit(c) \/ CommitUnacknowledged(c) PROVE Kept
  <2>1. \A o \in Requests : o # c => pc[o] \notin InTransaction
    BY <1>6 DEF UntouchedInv, RowLockInv, Commit, CommitUnacknowledged
  <2> QED
    BY <1>6, <2>1 DEF Commit, CommitUnacknowledged
<1>7. ASSUME NEW r \in Requests, NEW status \in EndStatuses, Retire(r, status) PROVE Kept
  <2>1. UNCHANGED <<pc, input, booked, table>>
    BY <1>7 DEF Retire, callVars
  <2>2. ASSUME pc[q] \in {"bookedRead", "picked", "inserted"}
        PROVE  BookedTables(reservations', input[q].start, InputEnd(input[q]), touched)
                 \subseteq booked[q]
    BY <1>7, <2>2, RetireShrinksBooked DEF UntouchedInv
  <2> QED
    BY <2>1, <2>2 DEF UntouchedInv
<1>8. CASE \/ ExpireLock \/ \E t \in Switchable : SwitchTable(t)
           \/ \E starts \in HourChoices : ChangeHours(starts)
  BY <1>8 DEF UntouchedInv, ExpireLock, SwitchTable, ChangeHours, callVars
<1>9. CASE UNCHANGED vars
  BY <1>9 DEF UntouchedInv, vars, callVars
<1> QED
  BY <1>1, <1>2, <1>3, <1>4, <1>5, <1>6, <1>7, <1>8, <1>9
     DEF Next, Call, Proceed, Fault, Environment

\* A commit collides with no reservation but one that a mover has written.
LEMMA UntouchedCommit ==
    ASSUME TypeOK, UntouchedInv, NEW q \in Requests, Commit(q) \/ CommitUnacknowledged(q),
           NEW o \in Requests \ (touched \cup {q})
    PROVE  ~Ledger!Collide(Held'[q], Held'[o]) /\ ~Ledger!Collide(Held'[o], Held'[q])
<1>1. /\ pc[q] = "inserted" /\ reservations'[q] = NewRow(input[q], table[q])
      /\ reservations'[o] = reservations[o]
  BY DEF Commit, CommitUnacknowledged, TypeOK
<1>2. /\ Held'[q].tables = table[q] /\ Held'[q].start = input[q].start
      /\ Held'[q].end = InputEnd(input[q])
  BY <1>1 DEF Held, HoldOf, NewRow, Active, ACTIVE_STATUSES
<1>3. /\ Held'[o].start = reservations[o].start /\ Held'[o].end = reservations[o].end
      /\ Held'[o].tables = IF Active(reservations[o]) THEN reservations[o].tables ELSE {}
  BY <1>1 DEF Held, HoldOf
<1>4. ASSUME Active(reservations[o]),
             Overlaps(reservations[o], input[q].start, InputEnd(input[q]))
      PROVE  reservations[o].tables \cap table[q] = {}
  <2>1. reservations[o].tables
          \subseteq BookedTables(reservations, input[q].start, InputEnd(input[q]), touched)
    BY <1>4 DEF BookedTables
  <2> QED
    BY <1>1, <2>1 DEF UntouchedInv
<1> QED
  BY <1>2, <1>3, <1>4 DEF Ledger!Collide, Overlaps

LEMMA UntouchedStep ==
    DeskIInv /\ UntouchedInv /\ [DeskNext]_deskVars => UntouchedInv'
<1> SUFFICES ASSUME DeskIInv, UntouchedInv, [DeskNext]_deskVars PROVE UntouchedInv'
  OBVIOUS
<1>1. TypeOK /\ DeskTypeOK
  BY MoverIsMover DEF DeskIInv, DeskInv
<1>2. ASSUME [Next]_vars, UNCHANGED touched PROVE UntouchedInv'
  <2>1. RowLockInv'
    BY <1>1, <1>2, RowLockStep DEF UntouchedInv
  <2>2. UntouchedNeverCollide'
    <3>1. CASE UNCHANGED reservations
      BY <1>2, <3>1 DEF UntouchedInv, UntouchedNeverCollide, Held
    <3>2. ASSUME NEW q \in Requests, Commit(q) \/ CommitUnacknowledged(q)
          PROVE  UntouchedNeverCollide'
      <4>1. \A o \in Requests \ {q} : Held'[o] = Held[o]
        BY <1>1, <3>2 DEF Commit, CommitUnacknowledged, TypeOK, Held
      <4>2. \A o \in Requests \ (touched \cup {q}) :
               ~Ledger!Collide(Held'[q], Held'[o]) /\ ~Ledger!Collide(Held'[o], Held'[q])
        BY <1>1, <3>2, UntouchedCommit
      <4> QED
        BY <1>2, <4>1, <4>2 DEF UntouchedInv, UntouchedNeverCollide, Ledger!Collide
    <3>3. ASSUME NEW r \in Requests, NEW status \in EndStatuses, Retire(r, status)
          PROVE  UntouchedNeverCollide'
      <4>1. \A o \in Requests \ {r} : Held'[o] = Held[o]
        BY <1>1, <3>3 DEF Retire, TypeOK, Held
      <4>2. Held'[r].tables = {}
        BY <1>1, <3>3, EnvironmentAssumption
           DEF Retire, TypeOK, ReservationRow, Held, HoldOf, Active, STATUSES, ACTIVE_STATUSES
      <4> QED
        BY <1>2, <4>1, <4>2 DEF UntouchedInv, UntouchedNeverCollide, Ledger!Collide
    <3> QED
      BY <1>2, <3>1, <3>2, <3>3, RowSteps
  <2> QED
    BY <1>1, <1>2, <2>1, <2>2, UntouchedChecks DEF UntouchedInv
<1>3. ASSUME NEW m \in Movers, Serve(m) PROVE UntouchedInv'
  <2>1. CASE UNCHANGED <<vars, touched>>
    BY <1>2, <2>1
  <2>2. ASSUME NEW r \in Requests, NEW tables, NEW start, NEW end, NEW guests,
               Wrote(r, tables, start, end, guests)
        PROVE  UntouchedInv'
    BY <2>2, UntouchedOtherStep DEF Wrote
  <2> QED
    BY <1>3, <2>1, <2>2, ServeWrites
<1>4. ASSUME NEW r \in Requests, NEW status \in StatusChoices, SetStatus(r, status)
      PROVE  UntouchedInv'
  BY <1>1, <1>4, SetStatusEffect, UntouchedOtherStep
<1>5. CASE UNCHANGED deskVars
  BY <1>2, <1>5 DEF deskVars
<1> QED
  BY <1>2, <1>3, <1>4, <1>5 DEF DeskNext

\* Bookings that no dashboard edit has written never collide, whatever else is edited,
\* confirmed again or left half written by a crash meanwhile.
THEOREM BookingsStaySound == DeskSpec => []UntouchedNeverCollide
<1>1. ASSUME DeskInit PROVE UntouchedInv
  <2>1. RowLockInv
    BY <1>1, DeskInitRows, NobodyAssumption DEF RowLockInv, InTransaction
  <2>2. UntouchedNeverCollide
    BY <1>1, DeskInitRows DEF NoDoubleBooking, UntouchedNeverCollide, Held, HoldOf, Overlaps,
                              Ledger!Collide
  <2> QED
    BY <1>1, <2>1, <2>2, DeskInitRows DEF UntouchedInv
<1>2. UntouchedInv => UntouchedNeverCollide
  BY DEF UntouchedInv
<1> QED
  BY <1>1, <1>2, DeskIInvInvariant, UntouchedStep, PTL DEF DeskSpec
-----------------------------------------------------------------------------
(* What bookings and status changes leave alone *)

LEMMA DeskRowsFollow ==
    ASSUME DeskIInv, RowsFollowCommit, [DeskNext]_deskVars
    PROVE  RowsFollowCommit'
<1>1. TypeOK /\ DeskTypeOK
  BY MoverIsMover DEF DeskIInv, DeskInv
<1>2. ASSUME [Next]_vars PROVE RowsFollowCommit'
  BY <1>1, <1>2, RowsFollowCommitStep
<1>3. ASSUME NEW r \in Requests, reservations[r].status # "NONE",
             \A o \in Requests \ {r} : reservations'[o] = reservations[o],
             UNCHANGED <<callVars, codes, announced>>
      PROVE  RowsFollowCommit'
  <2>1. ~NoTrace(r)
    BY <1>3 DEF NoTrace, NoRow
  <2>2. \A o \in Requests \ {r} : NoTrace(o) => NoTrace(o)'
    BY <1>3 DEF NoTrace
  <2> QED
    BY <1>3, <2>1, <2>2 DEF RowsFollowCommit, callVars
<1>4. ASSUME NEW m \in Movers, Serve(m) PROVE RowsFollowCommit'
  <2>1. CASE UNCHANGED <<vars, touched>>
    BY <1>2, <2>1
  <2>2. ASSUME NEW r \in Requests, Serves(m, r), NEW tables, NEW start, NEW end, NEW guests,
               Wrote(r, tables, start, end, guests)
        PROVE  RowsFollowCommit'
    BY <1>3, <2>2 DEF Wrote, Serves
  <2> QED
    BY <1>4, <2>1, <2>2, ServeWrites
<1>5. ASSUME NEW r \in Requests, NEW status \in StatusChoices, SetStatus(r, status)
      PROVE  RowsFollowCommit'
  BY <1>1, <1>3, <1>5, SetStatusEffect
<1>6. CASE UNCHANGED deskVars
  BY <1>2, <1>6 DEF deskVars
<1> QED
  BY <1>2, <1>4, <1>5, <1>6 DEF DeskNext

LEMMA DeskInitFollows == DeskInit => RowsFollowCommit
BY DeskInitRows DEF RowsFollowCommit, InTransaction, Ended
-----------------------------------------------------------------------------
(* One request at a time: windows stay well-formed *)

SlotTimes(m) ==
    /\ Busy(m) /\ ~At(m, "guests") =>
         /\ reservations[Target(m)].start = mover[m].seen.start
         /\ reservations[Target(m)].end = mover[m].seen.end
         /\ Wanted(m).start < Wanted(m).end
    /\ mover[m].at \in {"findTable", "delete", "insert", "save"} => mover[m].window = Wanted(m)

LEMMA TimesInvBySlot ==
    TimesInv <=> RowsFollowCommit /\ WindowsWellFormed /\ \A m \in Movers : SlotTimes(m)
BY DEF TimesInv, SlotTimes

LEMMA TimesInvBySlotNext ==
    TimesInv' <=> RowsFollowCommit' /\ WindowsWellFormed' /\ \A m \in Movers : SlotTimes(m)'
BY DEF TimesInv, SlotTimes

LEMMA NewRowIsWellFormed ==
    ASSUME NEW in \in BookingInput, NEW tables
    PROVE  NewRow(in, tables).start < NewRow(in, tables).end
<1>1. in.start \in Nat /\ in.duration \in Nat \ {0}
  BY TimeAssumption DEF BookingInput
<1> QED
  BY <1>1 DEF NewRow, InputEnd

LEMMA NextKeepsWindows ==
    ASSUME TypeOK, RowsFollowCommit, WindowsWellFormed, [Next]_vars
    PROVE  WindowsWellFormed'
<1>1. CASE UNCHANGED reservations
  BY <1>1 DEF WindowsWellFormed
<1>2. ASSUME NEW q \in Requests, Commit(q) \/ CommitUnacknowledged(q) PROVE WindowsWellFormed'
  <2>1. /\ reservations'[q] = NewRow(input[q], table[q])
        /\ \A o \in Requests \ {q} : reservations'[o] = reservations[o]
    BY <1>2, CommitRows DEF TypeOK
  <2>2. NewRow(input[q], table[q]).start < NewRow(input[q], table[q]).end
    BY NewRowIsWellFormed DEF TypeOK
  <2> QED
    BY <2>1, <2>2 DEF WindowsWellFormed
<1>3. ASSUME NEW o \in Requests, NEW status \in EndStatuses, Retire(o, status)
      PROVE  WindowsWellFormed'
  <2>1. reservations[o].status # "NONE" /\ \A r \in Requests \ {o} : reservations'[r] = reservations[r]
    BY <1>3 DEF Retire, TypeOK
  <2>2. RowKept(o)
    BY <1>3, NextKeepsRows DEF Next, Environment
  <2> QED
    BY <2>1, <2>2 DEF WindowsWellFormed, RowKept
<1> QED
  BY <1>1, <1>2, <1>3, RowSteps

\* A slot that is not written, while nobody writes its reservation.
LEMMA SameTimes ==
    ASSUME DeskIInv, NEW m \in Movers, SlotTimes(m), mover'[m] = mover[m],
           \A r \in Requests : RowKept(r)
    PROVE  SlotTimes(m)'
<1>1. /\ Target(m)' = Target(m) /\ Wanted(m)' = Wanted(m) /\ Busy(m)' = Busy(m)
      /\ At(m, "guests")' = At(m, "guests")
  BY DEF Target, Wanted, Busy, At
<1>2. Busy(m) => Target(m) \in Requests /\ reservations[Target(m)].status # "NONE"
  BY BusyServes DEF Serves
<1> QED
  BY <1>1, <1>2 DEF SlotTimes, RowKept

LEMMA IdleTimes ==
    ASSUME NEW m \in Movers, Drops(m, "idle")
    PROVE  SlotTimes(m)'
BY DEF Drops, SlotTimes, Busy

\* A mover that goes on finds the times as they were, if its statement does not write them.
LEMMA GoingTimes ==
    ASSUME NEW m \in Movers, SlotTimes(m), Busy(m), ~At(m, "guests"),
           NEW place, NEW found, NEW seat, NEW window, Goes(m, place, found, seat, window),
           /\ reservations'[Target(m)].start = reservations[Target(m)].start
           /\ reservations'[Target(m)].end = reservations[Target(m)].end,
           place \in {"findTable", "delete", "insert", "save"} => window = Wanted(m)
    PROVE  SlotTimes(m)'
<1>1. Target(m)' = Target(m) /\ Wanted(m)' = Wanted(m)
  BY GoesKeeps
<1>2. mover'[m].at = place /\ mover'[m].window = window /\ mover'[m].seen = mover[m].seen
  BY DEF Goes, Keeps
<1> QED
  BY <1>1, <1>2 DEF SlotTimes

\* A window of a body without times is the reservation's own.
LEMMA NoTimesNoMove ==
    ASSUME NEW w, NEW row, w.start \cup w.end = {}
    PROVE  WantedWindow("patch", w, row).start = row.start /\ WantedWindow("patch", w, row).end = row.end
BY DEF WantedWindow, Given

LEMMA BeginTimes ==
    ASSUME DeskIInv, TimesInv, NEW m \in Movers, NEW k \in {"patch", "modify"},
           NEW r \in Requests, NEW w \in PatchWishes \cup ModifyWishes, Begin(m, k, r, w)
    PROVE  SlotTimes(m)'
<1>1. DeskTypeOK
  BY DEF DeskIInv, DeskInv
<1>2. /\ reservations[r].status # "NONE" /\ ReadsOnly
      /\ mover'[m].at \in {"hours", "find"}
      /\ mover'[m].kind = k /\ mover'[m].target = {r} /\ mover'[m].wish = w
      /\ mover'[m].seen = reservations[r]
      /\ k = "modify" \/ NeedsTable(w, reservations[r]) =>
           WantedWindow(k, w, reservations[r]).start < WantedWindow(k, w, reservations[r]).end
  BY <1>1, BeginEffect
<1>3. Target(m)' = r /\ Wanted(m)' = WantedWindow(k, w, reservations[r])
  BY <1>2 DEF Target, Wanted
<1>4. reservations' = reservations
  BY <1>2 DEF ReadsOnly, vars, storeVars
<1>5. WantedWindow(k, w, reservations[r]).start < WantedWindow(k, w, reservations[r]).end
  <2>1. CASE k = "modify" \/ NeedsTable(w, reservations[r])
    BY <1>2, <2>1
  <2>2. CASE k = "patch" /\ ~NeedsTable(w, reservations[r])
    <3>1. w.start \cup w.end = {}
      BY <2>2 DEF NeedsTable
    <3>2. reservations[r].start < reservations[r].end
      BY <1>2 DEF TimesInv, WindowsWellFormed
    <3> QED
      BY <2>2, <3>1, <3>2, NoTimesNoMove
  <2> QED
    BY <2>1, <2>2
<1> QED
  BY <1>2, <1>3, <1>4, <1>5 DEF SlotTimes

\* The second read finds the times of the first: the window it settles on is the one checked.
LEMMA FoundIsWanted ==
    ASSUME DeskIInv, NEW m \in Movers, SlotTimes(m), At(m, "find")
    PROVE  FoundWindow(m) = Wanted(m)
<1>1. Busy(m) /\ ~At(m, "guests")
  BY DEF At, Busy
<1>2. /\ reservations[Target(m)].start = mover[m].seen.start
      /\ reservations[Target(m)].end = mover[m].seen.end
  BY <1>1 DEF SlotTimes
<1>3. mover[m].kind \in {"patch", "modify"}
  BY MoverIsMover DEF DeskIInv, DeskInv, Mover
<1>4. CASE mover[m].kind = "modify"
  BY <1>4 DEF FoundWindow, Wanted, WantedWindow
<1>5. CASE mover[m].kind = "patch" /\ mover[m].wish.start \cup mover[m].wish.end # {}
  BY <1>2, <1>5 DEF FoundWindow, Wanted, WantedWindow
<1>6. CASE mover[m].kind = "patch" /\ mover[m].wish.start \cup mover[m].wish.end = {}
  <2>1. mover[m].wish.start = {} /\ mover[m].wish.end = {}
    BY <1>6
  <2> QED
    BY <1>2, <1>6, <2>1 DEF FoundWindow, Wanted, WantedWindow, Given
<1> QED
  BY <1>3, <1>4, <1>5, <1>6

\* A statement that keeps the times of the reservation it writes, or that writes a window
\* in which the end comes after the start, leaves every window well-formed.
LEMMA WroteWindows ==
    ASSUME WindowsWellFormed, NEW r \in Requests, NEW tables, NEW start, NEW end, NEW guests,
           Wrote(r, tables, start, end, guests),
           reservations[r].status # "NONE" => start < end
    PROVE  WindowsWellFormed'
BY DEF WindowsWellFormed, Wrote

LEMMA ServeTimes ==
    ASSUME DeskIInv, TimesInv, NEW m \in Movers, Serve(m)
    PROVE  SlotTimes(m)' /\ WindowsWellFormed'
<1>1. DeskTypeOK /\ SlotTimes(m) /\ WindowsWellFormed
  BY TimesInvBySlot DEF DeskIInv, DeskInv
<1>2. UNCHANGED vars => WindowsWellFormed' /\ reservations' = reservations
  BY <1>1 DEF vars, storeVars, WindowsWellFormed
<1>3. ASSUME NEW k \in {"patch", "modify"}, NEW r \in Requests,
             NEW w \in PatchWishes \cup ModifyWishes, Begin(m, k, r, w)
      PROVE  SlotTimes(m)' /\ WindowsWellFormed'
  <2>1. UNCHANGED vars
    BY <1>3 DEF Begin, ReadsOnly
  <2> QED
    BY <1>2, <1>3, <2>1, BeginTimes
<1>4. ASSUME Busy(m), CheckHours(m) PROVE SlotTimes(m)' /\ WindowsWellFormed'
  <2>1. At(m, "hours") /\ UNCHANGED vars
    BY <1>4 DEF CheckHours, ReadsOnly
  <2>2. ~At(m, "guests")
    BY <2>1 DEF At
  <2>3. ASSUME NEW place \in {"find", "booked"}, NEW found, NEW seat, NEW window,
               Goes(m, place, found, seat, window)
        PROVE  SlotTimes(m)'
    BY <1>1, <1>2, <1>4, <2>1, <2>2, <2>3, GoingTimes
  <2> QED
    BY <1>1, <1>2, <1>4, <2>1, <2>3, CheckHoursEffect, IdleTimes
<1>5. ASSUME Busy(m), QueryBooked(m) PROVE SlotTimes(m)' /\ WindowsWellFormed'
  <2>1. /\ At(m, "booked") /\ UNCHANGED vars
        /\ Goes(m, "tables", BookedTables(reservations, Wanted(m).start, Wanted(m).end,
                                          mover[m].target), mover[m].seat, mover[m].window)
    BY <1>1, <1>5, QueryBookedEffect DEF ReadsOnly
  <2>2. ~At(m, "guests")
    BY <2>1 DEF At
  <2>3. SlotTimes(m)'
    BY <1>1, <1>2, <1>5, <2>1, <2>2, GoingTimes
  <2> QED
    BY <1>2, <2>1, <2>3
<1>6. ASSUME Busy(m), QueryTables(m) PROVE SlotTimes(m)' /\ WindowsWellFormed'
  <2>1. At(m, "tables") /\ UNCHANGED vars
    BY <1>6 DEF QueryTables, ReadsOnly
  <2>2. ~At(m, "guests")
    BY <2>1 DEF At
  <2>3. ASSUME NEW found, NEW seat, NEW window, Goes(m, "find", found, seat, window)
        PROVE  SlotTimes(m)'
    BY <1>1, <1>2, <1>6, <2>1, <2>2, <2>3, GoingTimes
  <2> QED
    BY <1>1, <1>2, <1>6, <2>1, <2>3, QueryTablesEffect, IdleTimes
<1>7. ASSUME Busy(m), FindRow(m) PROVE SlotTimes(m)' /\ WindowsWellFormed'
  <2> DEFINE place == IF ~mover[m].seat.given THEN "save"
                      ELSE IF mover[m].seat.tables = {} THEN "delete" ELSE "findTable"
  <2>1. /\ At(m, "find") /\ UNCHANGED vars
        /\ Goes(m, place, mover[m].booked, mover[m].seat, FoundWindow(m))
    BY <1>7, FindRowEffect DEF ReadsOnly
  <2> HIDE DEF place
  <2>2. FoundWindow(m) = Wanted(m) /\ ~At(m, "guests")
    BY <1>1, <2>1, FoundIsWanted DEF At
  <2>3. SlotTimes(m)'
    BY <1>1, <1>2, <1>7, <2>1, <2>2, GoingTimes
  <2> QED
    BY <1>2, <2>1, <2>3
<1>8. ASSUME Busy(m), FindTable(m) PROVE SlotTimes(m)' /\ WindowsWellFormed'
  <2>1. At(m, "findTable") /\ UNCHANGED vars
    BY <1>8 DEF FindTable, ReadsOnly
  <2>2. ~At(m, "guests") /\ mover[m].window = Wanted(m)
    BY <1>1, <2>1 DEF At, SlotTimes
  <2>3. ASSUME NEW place \in {"delete", "anyway"},
               Goes(m, place, mover[m].booked, mover[m].seat, mover[m].window)
        PROVE  SlotTimes(m)'
    BY <1>1, <1>2, <1>8, <2>1, <2>2, <2>3, GoingTimes
  <2> QED
    BY <1>1, <1>2, <1>8, <2>1, <2>3, FindTableEffect, IdleTimes
<1>9. ASSUME NEW r \in Requests, Serves(m, r), Target(m) = r, Busy(m), ~At(m, "guests")
      PROVE  /\ reservations[r].start < reservations[r].end
             /\ Wanted(m).start < Wanted(m).end
  BY <1>1, <1>9 DEF SlotTimes, Serves, WindowsWellFormed
<1>10. ASSUME NEW r \in Requests, Serves(m, r), Target(m) = r, Busy(m), DeleteTables(m)
       PROVE  SlotTimes(m)' /\ WindowsWellFormed'
  <2> DEFINE place == IF mover[m].seat.tables = {} THEN "save" ELSE "insert"
  <2>1. /\ At(m, "delete")
        /\ Wrote(r, {}, reservations[r].start, reservations[r].end, reservations[r].guests)
        /\ Goes(m, place, mover[m].booked, mover[m].seat, mover[m].window)
    BY <1>1, <1>10, DeleteTablesEffect
  <2> HIDE DEF place
  <2>2. ~At(m, "guests") /\ mover[m].window = Wanted(m)
    BY <1>1, <2>1 DEF At, SlotTimes
  <2>3. /\ reservations'[r].start = reservations[r].start
        /\ reservations'[r].end = reservations[r].end
    BY <2>1 DEF Wrote
  <2>4. SlotTimes(m)'
    BY <1>1, <1>10, <2>1, <2>2, <2>3, GoingTimes
  <2> QED
    BY <1>1, <1>9, <1>10, <2>1, <2>2, <2>4, WroteWindows
<1>11. ASSUME NEW r \in Requests, Serves(m, r), Target(m) = r, Busy(m), InsertTable(m)
       PROVE  SlotTimes(m)' /\ WindowsWellFormed'
  <2>1. /\ At(m, "insert")
        /\ Wrote(r, reservations[r].tables \cup mover[m].seat.tables, reservations[r].start,
                 reservations[r].end, reservations[r].guests)
        /\ Goes(m, "save", mover[m].booked, mover[m].seat, mover[m].window)
    BY <1>1, <1>11, InsertTableEffect
  <2>2. ~At(m, "guests") /\ mover[m].window = Wanted(m)
    BY <1>1, <2>1 DEF At, SlotTimes
  <2>3. /\ reservations'[r].start = reservations[r].start
        /\ reservations'[r].end = reservations[r].end
    BY <2>1 DEF Wrote
  <2>4. SlotTimes(m)'
    BY <1>1, <1>11, <2>1, <2>2, <2>3, GoingTimes
  <2> QED
    BY <1>1, <1>9, <1>11, <2>1, <2>2, <2>4, WroteWindows
<1>12. ASSUME NEW r \in Requests, Serves(m, r), Target(m) = r, Busy(m), SaveRow(m)
       PROVE  SlotTimes(m)' /\ WindowsWellFormed'
  <2>1. /\ At(m, "save")
        /\ Wrote(r, reservations[r].tables, mover[m].window.start, mover[m].window.end,
                 Given(Patched(m), reservations[r].guests))
        /\ \/ Goes(m, "guests", mover[m].booked, mover[m].seat, mover[m].window)
           \/ Drops(m, "idle")
    BY <1>1, <1>12, SaveRowEffect
  <2>2. mover[m].window = Wanted(m) /\ Wanted(m).start < Wanted(m).end
    BY <1>1, <1>12, <2>1 DEF At, SlotTimes
  <2>3. WindowsWellFormed'
    BY <1>1, <2>1, <2>2, WroteWindows
  <2>4. ASSUME Goes(m, "guests", mover[m].booked, mover[m].seat, mover[m].window)
        PROVE  SlotTimes(m)'
    BY <2>4 DEF Goes, SlotTimes, At
  <2> QED
    BY <2>1, <2>3, <2>4, IdleTimes
<1>13. ASSUME NEW r \in Requests, Serves(m, r), Target(m) = r, Busy(m), SaveGuests(m)
       PROVE  SlotTimes(m)' /\ WindowsWellFormed'
  <2>1. /\ Drops(m, "idle")
        /\ Wrote(r, reservations[r].tables, reservations[r].start, reservations[r].end,
                 Given(mover[m].wish.guests, reservations[r].guests))
    BY <1>1, <1>13, SaveGuestsEffect
  <2>2. reservations[r].start < reservations[r].end
    BY <1>1, <1>13 DEF Serves, WindowsWellFormed
  <2> QED
    BY <1>1, <2>1, <2>2, WroteWindows, IdleTimes
<1>14. ASSUME InsertTwice(m) \/ MoverCrash(m) PROVE SlotTimes(m)' /\ WindowsWellFormed'
  BY <1>1, <1>2, <1>14, BreakEffect, IdleTimes
<1> QED
  BY <1>3, <1>4, <1>5, <1>6, <1>7, <1>8, <1>10, <1>11, <1>12, <1>13, <1>14, ServeSteps

LEMMA TimesStep ==
    OneMover /\ DeskIInv /\ TimesInv /\ [DeskNext]_deskVars => TimesInv'
<1> SUFFICES ASSUME OneMover, DeskIInv, TimesInv, [DeskNext]_deskVars PROVE TimesInv'
  OBVIOUS
<1>1. /\ TypeOK /\ DeskTypeOK /\ RowsFollowCommit /\ WindowsWellFormed
      /\ \A m \in Movers : SlotTimes(m)
  BY MoverIsMover, TimesInvBySlot DEF DeskIInv, DeskInv
<1>2. RowsFollowCommit'
  BY <1>1, DeskRowsFollow
<1>3. ASSUME WindowsWellFormed', mover' = mover, \A r \in Requests : RowKept(r) PROVE TimesInv'
  <2>1. \A m \in Movers : SlotTimes(m)'
    BY <1>1, <1>3, SameTimes
  <2> QED
    BY <1>2, <1>3, <2>1, TimesInvBySlotNext
<1>4. ASSUME [Next]_vars, UNCHANGED mover PROVE TimesInv'
  BY <1>1, <1>3, <1>4, NextKeepsRows, NextKeepsWindows
<1>5. ASSUME NEW m \in Movers, Serve(m) PROVE TimesInv'
  <2>1. \A o \in Movers : SlotTimes(o)'
    BY <1>5, ServeTimes DEF OneMover
  <2> QED
    BY <1>2, <1>5, <2>1, ServeTimes, TimesInvBySlotNext
<1>6. ASSUME NEW r \in Requests, NEW status \in StatusChoices, SetStatus(r, status) PROVE TimesInv'
  <2>1. WindowsWellFormed' /\ mover' = mover /\ \A o \in Requests : RowKept(o)
    BY <1>1, <1>6, SetStatusEffect DEF WindowsWellFormed, RowKept
  <2> QED
    BY <1>3, <2>1
<1>7. CASE UNCHANGED deskVars
  BY <1>4, <1>7 DEF deskVars
<1> QED
  BY <1>4, <1>5, <1>6, <1>7 DEF DeskNext

LEMMA DeskInitTimes == DeskInit => TimesInv
<1> SUFFICES ASSUME DeskInit PROVE TimesInv
  OBVIOUS
<1>1. WindowsWellFormed
  <2> SUFFICES ASSUME NEW r \in Requests, reservations[r].status # "NONE"
               PROVE  reservations[r].start < reservations[r].end
    BY DEF WindowsWellFormed
  <2>1. r \in Earlier
    BY DeskInitRows DEF NoTrace, NoRow
  <2>2. PICK t : reservations[r] = NewRow(input[r], {t})
    BY <2>1, DeskInitRows
  <2> QED
    BY <2>2, NewRowIsWellFormed, DeskInitRows
<1>2. \A m \in Movers : SlotTimes(m)
  BY DeskInitRows DEF SlotTimes, Resting, Busy
<1> QED
  BY <1>1, <1>2, DeskInitFollows, TimesInvBySlot

\* With dashboard edits served one at a time, every reservation ends after it starts, whatever
\* is booked meanwhile and wherever the process dies.
THEOREM WindowsStayWellFormed ==
    ASSUME OneMover PROVE DeskSpec => []WindowsWellFormed
<1>1. DeskIInv /\ TimesInv /\ [DeskNext]_deskVars => TimesInv'
  BY TimesStep
<1>2. TimesInv => WindowsWellFormed
  BY DEF TimesInv
<1> QED
  BY <1>1, <1>2, DeskInitTimes, DeskIInvInvariant, PTL DEF DeskSpec
-----------------------------------------------------------------------------
(* One request at a time: parties stay seated where they fit *)

Seated(m) == WantedGuests(mover[m].wish, mover[m].seen)
RowSuits(r) == Suited(reservations[r].tables, reservations[r].guests)
Settling(m) == mover[m].at \in {"save", "guests"}

SlotSeat(m) ==
    /\ Busy(m) /\ ~At(m, "guests") => reservations[Target(m)].guests = mover[m].seen.guests
    /\ Busy(m) /\ mover[m].seat.given => Suited(mover[m].seat.tables, Seated(m))
    /\ mover[m].at \in {"find", "save"} /\ ~mover[m].seat.given =>
         mover[m].kind = "patch" /\ ~NeedsTable(mover[m].wish, mover[m].seen)
    /\ At(m, "insert") => reservations[Target(m)].tables = {}
    /\ Settling(m) => Target(m) \in astray \/ Suited(reservations[Target(m)].tables, Seated(m))
    /\ At(m, "guests") => mover[m].wish.guests # {}

PickedSuits(q) == pc[q] \in {"picked", "inserted"} => Suited(table[q], input[q].guests)
RestSuits == \A r \in Requests \ astray :
                (\A m \in Movers : r \in mover[m].target => ~Settling(m)) => RowSuits(r)

LEMMA SeatInvByPart ==
    SeatInv <=> /\ RowsFollowCommit /\ RestSuits
                /\ \A q \in Requests : PickedSuits(q)
                /\ \A m \in Movers : SlotSeat(m)
BY DEF SeatInv, RestSuits, PickedSuits, SlotSeat, Seated, RowSuits, Settling

LEMMA SeatInvByPartNext ==
    SeatInv' <=> /\ RowsFollowCommit' /\ RestSuits'
                 /\ \A q \in Requests : PickedSuits(q)'
                 /\ \A m \in Movers : SlotSeat(m)'
BY DEF SeatInv, RestSuits, PickedSuits, SlotSeat, Seated, RowSuits, Settling

\* The second query answers with tables that suit the party.
LEMMA AvailableSuits ==
    ASSUME NEW active \in SUBSET Tables, NEW found, NEW guests \in Parties \cup {0},
           NEW t \in AvailableTables(active, found, guests)
    PROVE  t \in Tables /\ Suits(t, guests) /\ Suited({t}, guests)
<1>1. t \in Tables /\ Capacity[t] >= guests /\ Capacity[t] <= guests + SPARE_SEATS
  BY DEF AvailableTables
<1>2. Capacity[t] \in Nat /\ guests \in Nat
  BY <1>1, FloorAssumption, PartiesAssumption
<1>3. Suits(t, guests)
  BY <1>1, <1>2 DEF Suits, SPARE_SEATS
<1> QED
  BY <1>1, <1>3 DEF Suited

LEMMA NothingSuits == ASSUME NEW guests PROVE Suited({}, guests)
BY DEF Suited

\* A body that asks for no other guest count wants the one of the row.
LEMMA NoOtherGuests ==
    ASSUME NEW w, NEW row, w.guests \ {row.guests} = {}
    PROVE  WantedGuests(w, row) = row.guests
<1>1. CASE w.guests = {}
  BY <1>1 DEF WantedGuests, Given
<1>2. CASE w.guests # {}
  <2>1. w.guests = {row.guests}
    BY <1>2
  <2> QED
    BY <2>1 DEF WantedGuests, Given
<1> QED
  BY <1>1, <1>2

LEMMA NextPickedSuits ==
    ASSUME TypeOK, [Next]_vars, NEW q \in Requests, PickedSuits(q)
    PROVE  PickedSuits(q)'
<1> USE DEF TypeOK, Goto, PickedSuits
<1>1. ASSUME NEW c \in Requests, AcquireLock(c) \/ RefuseBusy(c) \/ LockRow(c)
                                  \/ Announce(c) \/ ReleaseLock(c) \/ EnsureReservable(c)
                                  \/ ReadBooked(c)
      PROVE  PickedSuits(q)'
  BY <1>1 DEF AcquireLock, RefuseBusy, LockRow, Announce, ReleaseLock, EnsureReservable, ReadBooked
<1>2. ASSUME NEW c \in Requests, PickTable(c) PROVE PickedSuits(q)'
  <2>1. PICK t \in FirstTables(AvailableTables(activeTables, booked[c], input[c].guests)) :
          table' = [table EXCEPT ![c] = {t}]
    BY <1>2 DEF PickTable
  <2>2. input[c].guests \in Parties \cup {0}
    BY DEF BookingInput
  <2>3. t \in AvailableTables(activeTables, booked[c], input[c].guests)
    BY FirstTablesAreAvailable
  <2>4. Suited({t}, input[c].guests)
    BY <2>2, <2>3, AvailableSuits
  <2>5. pc' = [pc EXCEPT ![c] = "picked"] /\ input' = input
    BY <1>2 DEF PickTable
  <2>6. CASE q = c
    BY <2>1, <2>4, <2>5, <2>6
  <2>7. CASE q # c
    BY <2>1, <2>5, <2>7
  <2> QED
    BY <2>6, <2>7
<1>3. ASSUME NEW c \in Requests, InsertRows(c) PROVE PickedSuits(q)'
  BY <1>3 DEF InsertRows
<1>4. ASSUME NEW c \in Requests,
             RejectClosed(c) \/ RejectFull(c) \/ RejectCode(c) \/ TimeOut(c) \/ Crash(c)
      PROVE  PickedSuits(q)'
  BY <1>4 DEF RejectClosed, RejectFull, RejectCode, TimeOut, Crash, Rollback, ForgetLocals
<1>5. ASSUME NEW c \in Requests, Commit(c) \/ CommitUnacknowledged(c) PROVE PickedSuits(q)'
  BY <1>5 DEF Commit, CommitUnacknowledged, ForgetLocals
<1>6. CASE Environment
  BY <1>6 DEF Environment, ExpireLock, Retire, SwitchTable, ChangeHours, callVars
<1>7. CASE UNCHANGED vars
  BY <1>7 DEF vars, callVars
<1> QED
  BY <1>1, <1>2, <1>3, <1>4, <1>5, <1>6, <1>7 DEF Next, Call, Proceed, Fault

LEMMA NextRowSuits ==
    ASSUME TypeOK, RowsFollowCommit, [Next]_vars, \A q \in Requests : PickedSuits(q),
           NEW r \in Requests
    PROVE  RowSuits(r) => RowSuits(r)'
<1>1. CASE UNCHANGED reservations
  BY <1>1 DEF RowSuits
<1>2. ASSUME NEW q \in Requests, Commit(q) \/ CommitUnacknowledged(q)
      PROVE  RowSuits(r) => RowSuits(r)'
  <2>1. /\ pc[q] = "inserted" /\ reservations'[q] = NewRow(input[q], table[q])
        /\ \A o \in Requests \ {q} : reservations'[o] = reservations[o]
    BY <1>2, CommitRows DEF TypeOK
  <2>2. RowSuits(q)'
    BY <2>1 DEF PickedSuits, RowSuits, NewRow
  <2> QED
    BY <2>1, <2>2 DEF RowSuits
<1>3. ASSUME NEW o \in Requests, NEW status \in EndStatuses, Retire(o, status)
      PROVE  RowSuits(r) => RowSuits(r)'
  BY <1>3 DEF Retire, TypeOK, ReservationRow, RowSuits
<1> QED
  BY <1>1, <1>2, <1>3, RowSteps

\* A slot that is not written, while nobody writes its reservation.
LEMMA SameSeat ==
    ASSUME DeskIInv, NEW m \in Movers, SlotSeat(m), mover'[m] = mover[m],
           \A r \in Requests : RowKept(r), astray \subseteq astray'
    PROVE  SlotSeat(m)'
<1>1. /\ Target(m)' = Target(m) /\ Seated(m)' = Seated(m) /\ Busy(m)' = Busy(m)
      /\ \A place : At(m, place)' = At(m, place) /\ Settling(m)' = Settling(m)
  BY DEF Target, Seated, Busy, At, Settling
<1>2. Busy(m) => Target(m) \in Requests /\ reservations[Target(m)].status # "NONE"
  BY BusyServes DEF Serves
<1>3. At(m, "insert") \/ At(m, "guests") \/ Settling(m) => Busy(m)
  BY DEF At, Busy, Settling
<1> QED
  BY <1>1, <1>2, <1>3 DEF SlotSeat, RowKept

LEMMA IdleSeat ==
    ASSUME NEW m \in Movers, Drops(m, "idle")
    PROVE  SlotSeat(m)' /\ ~Settling(m)'
BY DEF Drops, SlotSeat, Busy, At, Settling

LEMMA GoingSeat ==
    ASSUME NEW m \in Movers, NEW place, NEW found, NEW seat, NEW window,
           Goes(m, place, found, seat, window), astray \subseteq astray',
           place # "guests" => reservations'[Target(m)].guests = mover[m].seen.guests,
           seat.given => Suited(seat.tables, Seated(m)),
           place \in {"find", "save"} /\ ~seat.given =>
             mover[m].kind = "patch" /\ ~NeedsTable(mover[m].wish, mover[m].seen),
           place = "insert" => reservations'[Target(m)].tables = {},
           place \in {"save", "guests"} =>
             Target(m) \in astray \/ Suited(reservations'[Target(m)].tables, Seated(m)),
           place = "guests" => mover[m].wish.guests # {}
    PROVE  SlotSeat(m)'
<1>1. Target(m)' = Target(m)
  BY GoesKeeps
<1>2. /\ mover'[m].at = place /\ mover'[m].seat = seat /\ mover'[m].kind = mover[m].kind
      /\ mover'[m].wish = mover[m].wish /\ mover'[m].seen = mover[m].seen
  BY DEF Goes, Keeps
<1>3. Seated(m)' = Seated(m)
  BY <1>2 DEF Seated
<1> QED
  BY <1>1, <1>2, <1>3 DEF SlotSeat, At, Settling

\* The one mover reads: whatever it does next, every reservation suits its party.
LEMMA ReadKeepsRest ==
    ASSUME OneMover, RestSuits, NEW m \in Movers, ~Settling(m), UNCHANGED vars,
           astray \subseteq astray'
    PROVE  RestSuits'
<1>1. \A r \in Requests \ astray : RowSuits(r)
  BY DEF OneMover, RestSuits
<1>2. reservations' = reservations
  BY DEF vars, storeVars
<1> QED
  BY <1>1, <1>2 DEF RestSuits, RowSuits

\* The one mover writes: it is settling its reservation, or leaves it with a table that suits.
LEMMA WriteKeepsRest ==
    ASSUME OneMover, RestSuits, NEW m \in Movers, NEW r \in Requests, Serves(m, r),
           NEW tables, NEW start, NEW end, NEW guests, Wrote(r, tables, start, end, guests),
           astray \subseteq astray',
           \/ mover'[m].target = {r} /\ Settling(m)'
           \/ Suited(tables, guests)
           \/ r \in astray'
    PROVE  RestSuits'
<1>1. \A o \in (Requests \ astray) \ {r} : RowSuits(o)
  BY DEF OneMover, RestSuits, Serves
<1>2. \A o \in (Requests \ astray) \ {r} : RowSuits(o)'
  BY <1>1 DEF Wrote, RowSuits
<1>3. CASE Suited(tables, guests)
  BY <1>2, <1>3 DEF Wrote, RestSuits, RowSuits
<1>4. CASE mover'[m].target = {r} /\ Settling(m)'
  BY <1>2, <1>4 DEF RestSuits
<1>5. CASE r \in astray'
  BY <1>2, <1>5 DEF RestSuits
<1> QED
  BY <1>3, <1>4, <1>5

LEMMA ServeSeat ==
    ASSUME OneMover, DeskIInv, SeatInv, NEW m \in Movers, Serve(m), astray \subseteq astray'
    PROVE  SlotSeat(m)' /\ RestSuits'
<1>1. DeskTypeOK /\ SlotSeat(m) /\ RestSuits
  BY SeatInvByPart DEF DeskIInv, DeskInv
<1>2. UNCHANGED vars => reservations' = reservations
  BY DEF vars, storeVars
<1>3. ASSUME NEW k \in {"patch", "modify"}, NEW r \in Requests,
             NEW w \in PatchWishes \cup ModifyWishes, Begin(m, k, r, w)
      PROVE  SlotSeat(m)' /\ RestSuits'
  <2>1. /\ At(m, "idle") /\ UNCHANGED vars
        /\ mover'[m].at = IF k = "modify" \/ NeedsTable(w, reservations[r])
                           THEN "hours" ELSE "find"
        /\ mover'[m].kind = k /\ mover'[m].target = {r} /\ mover'[m].wish = w
        /\ mover'[m].seen = reservations[r] /\ mover'[m].seat = Unseated
    BY <1>1, <1>3, BeginEffect DEF ReadsOnly
  <2>2. Target(m)' = r /\ reservations' = reservations
    BY <1>2, <2>1 DEF Target
  <2>3. SlotSeat(m)'
    BY <2>1, <2>2 DEF SlotSeat, Unseated, At, Settling
  <2>4. ~Settling(m)
    BY <2>1 DEF At, Settling
  <2> QED
    BY <1>1, <2>1, <2>3, <2>4, ReadKeepsRest
<1>4. ASSUME Busy(m), ~At(m, "guests")
      PROVE  reservations[Target(m)].guests = mover[m].seen.guests
  BY <1>1, <1>4 DEF SlotSeat
<1>5. Busy(m) /\ mover[m].seat.given => Suited(mover[m].seat.tables, Seated(m))
  BY <1>1 DEF SlotSeat
<1>6. ASSUME Busy(m), CheckHours(m) PROVE SlotSeat(m)' /\ RestSuits'
  <2>1. At(m, "hours") /\ UNCHANGED vars
    BY <1>6 DEF CheckHours, ReadsOnly
  <2>2. ~At(m, "guests") /\ ~Settling(m)
    BY <2>1 DEF At, Settling
  <2>3. RestSuits'
    BY <1>1, <2>1, <2>2, ReadKeepsRest
  <2>4. reservations'[Target(m)].guests = mover[m].seen.guests
    BY <1>2, <1>4, <1>6, <2>1, <2>2
  <2>5. ASSUME Goes(m, "find", mover[m].booked, [given |-> TRUE, tables |-> {}], mover[m].window)
        PROVE  SlotSeat(m)'
    <3> DEFINE seat == [given |-> TRUE, tables |-> {}]
    <3>1. seat.given = TRUE /\ Suited(seat.tables, Seated(m))
      BY NothingSuits
    <3>2. Goes(m, "find", mover[m].booked, seat, mover[m].window)
      BY <2>5
    <3> HIDE DEF seat
    <3> QED
      BY <2>4, <3>1, <3>2, GoingSeat
  <2>6. ASSUME Goes(m, "booked", mover[m].booked, mover[m].seat, mover[m].window)
        PROVE  SlotSeat(m)'
    BY <1>5, <1>6, <2>4, <2>6, GoingSeat
  <2> QED
    BY <1>1, <1>6, <2>3, <2>5, <2>6, CheckHoursEffect, IdleSeat
<1>7. ASSUME Busy(m), QueryBooked(m) PROVE SlotSeat(m)' /\ RestSuits'
  <2>1. /\ At(m, "booked") /\ UNCHANGED vars
        /\ Goes(m, "tables", BookedTables(reservations, Wanted(m).start, Wanted(m).end,
                                          mover[m].target), mover[m].seat, mover[m].window)
    BY <1>1, <1>7, QueryBookedEffect DEF ReadsOnly
  <2>2. ~At(m, "guests") /\ ~Settling(m)
    BY <2>1 DEF At, Settling
  <2>3. RestSuits'
    BY <1>1, <2>1, <2>2, ReadKeepsRest
  <2>4. reservations'[Target(m)].guests = mover[m].seen.guests
    BY <1>2, <1>4, <1>7, <2>1, <2>2
  <2>5. SlotSeat(m)'
    BY <1>5, <1>7, <2>1, <2>4, GoingSeat
  <2> QED
    BY <2>3, <2>5
<1>8. ASSUME Busy(m), QueryTables(m) PROVE SlotSeat(m)' /\ RestSuits'
  <2>1. At(m, "tables") /\ UNCHANGED vars
    BY <1>8 DEF QueryTables, ReadsOnly
  <2>2. ~At(m, "guests") /\ ~Settling(m)
    BY <2>1 DEF At, Settling
  <2>3. RestSuits'
    BY <1>1, <2>1, <2>2, ReadKeepsRest
  <2>4. reservations'[Target(m)].guests = mover[m].seen.guests
    BY <1>2, <1>4, <1>8, <2>1, <2>2
  <2>5. ASSUME NEW t \in AvailableTables(activeTables, mover[m].booked, Seated(m)),
               Goes(m, "find", mover[m].booked, [given |-> TRUE, tables |-> {t}], mover[m].window)
        PROVE  SlotSeat(m)'
    <3> DEFINE seat == [given |-> TRUE, tables |-> {t}]
    <3>1. Seated(m) \in Parties \cup {0}
      BY <1>1, MoverIsMover, WantedType DEF Mover, Seated
    <3>2. activeTables \in SUBSET Tables
      BY <1>1 DEF DeskTypeOK, TypeOK
    <3>3. seat.given = TRUE /\ Suited(seat.tables, Seated(m))
      BY <3>1, <3>2, AvailableSuits
    <3>4. Goes(m, "find", mover[m].booked, seat, mover[m].window)
      BY <2>5
    <3> HIDE DEF seat
    <3> QED
      BY <2>4, <3>3, <3>4, GoingSeat
  <2> QED
    BY <1>1, <1>8, <2>3, <2>5, QueryTablesEffect, IdleSeat DEF Seated
<1>9. ASSUME Busy(m), FindRow(m) PROVE SlotSeat(m)' /\ RestSuits'
  <2> DEFINE place == IF ~mover[m].seat.given THEN "save"
                      ELSE IF mover[m].seat.tables = {} THEN "delete" ELSE "findTable"
  <2>1. /\ At(m, "find") /\ UNCHANGED vars
        /\ Goes(m, place, mover[m].booked, mover[m].seat, FoundWindow(m))
    BY <1>9, FindRowEffect DEF ReadsOnly
  <2>2. ~At(m, "guests") /\ ~Settling(m)
    BY <2>1 DEF At, Settling
  <2>3. RestSuits'
    BY <1>1, <2>1, <2>2, ReadKeepsRest
  <2>4. reservations'[Target(m)].guests = mover[m].seen.guests
    BY <1>2, <1>4, <1>9, <2>1, <2>2
  <2>5. ASSUME ~mover[m].seat.given
        PROVE  /\ mover[m].kind = "patch" /\ ~NeedsTable(mover[m].wish, mover[m].seen)
               /\ Target(m) \in astray \/ Suited(reservations'[Target(m)].tables, Seated(m))
    <3>1. mover[m].kind = "patch" /\ ~NeedsTable(mover[m].wish, mover[m].seen)
      BY <1>1, <2>1, <2>5 DEF SlotSeat, At
    <3>2. Seated(m) = mover[m].seen.guests
      BY <3>1, NoOtherGuests DEF NeedsTable, Seated
    <3>3. Target(m) \in Requests
      BY <1>9, BusyServes
    <3>4. Target(m) \in astray \/ RowSuits(Target(m))
      BY <1>1, <2>2, <3>3 DEF OneMover, RestSuits
    <3> QED
      BY <1>2, <2>1, <2>4, <3>1, <3>2, <3>4 DEF RowSuits
  <2>6. /\ place \in {"save", "delete", "findTable"}
        /\ place = "save" => ~mover[m].seat.given
    OBVIOUS
  <2> HIDE DEF place
  <2>7. SlotSeat(m)'
    BY <1>5, <1>9, <2>1, <2>4, <2>5, <2>6, GoingSeat
  <2> QED
    BY <2>3, <2>7
<1>10. ASSUME Busy(m), FindTable(m) PROVE SlotSeat(m)' /\ RestSuits'
  <2>1. At(m, "findTable") /\ UNCHANGED vars
    BY <1>10 DEF FindTable, ReadsOnly
  <2>2. ~At(m, "guests") /\ ~Settling(m)
    BY <2>1 DEF At, Settling
  <2>3. RestSuits'
    BY <1>1, <2>1, <2>2, ReadKeepsRest
  <2>4. reservations'[Target(m)].guests = mover[m].seen.guests
    BY <1>2, <1>4, <1>10, <2>1, <2>2
  <2>5. ASSUME NEW place \in {"delete", "anyway"},
               Goes(m, place, mover[m].booked, mover[m].seat, mover[m].window)
        PROVE  SlotSeat(m)'
    BY <1>5, <1>10, <2>4, <2>5, GoingSeat
  <2> QED
    BY <1>1, <1>10, <2>3, <2>5, FindTableEffect, IdleSeat
<1>11. ASSUME NEW r \in Requests, Serves(m, r), Target(m) = r, Busy(m), DeleteTables(m)
       PROVE  SlotSeat(m)' /\ RestSuits'
  <2> DEFINE place == IF mover[m].seat.tables = {} THEN "save" ELSE "insert"
  <2>1. /\ At(m, "delete")
        /\ Wrote(r, {}, reservations[r].start, reservations[r].end, reservations[r].guests)
        /\ Goes(m, place, mover[m].booked, mover[m].seat, mover[m].window)
    BY <1>1, <1>11, DeleteTablesEffect
  <2>2. ~At(m, "guests") /\ mover[m].seat.given
    BY <2>1 DEF At, DeskIInv, MoverInv
  <2>3. reservations'[Target(m)].tables = {} /\ reservations'[Target(m)].guests = mover[m].seen.guests
    BY <1>4, <1>11, <2>1, <2>2 DEF Wrote
  <2>4. place \in {"save", "insert"} /\ Suited({}, Seated(m)) /\ Suited({}, reservations[r].guests)
    BY NothingSuits
  <2> HIDE DEF place
  <2>5. SlotSeat(m)'
    BY <1>5, <1>11, <2>1, <2>2, <2>3, <2>4, GoingSeat
  <2> QED
    BY <1>1, <1>11, <2>1, <2>4, <2>5, WriteKeepsRest
<1>12. ASSUME NEW r \in Requests, Serves(m, r), Target(m) = r, Busy(m), InsertTable(m)
       PROVE  SlotSeat(m)' /\ RestSuits'
  <2>1. /\ At(m, "insert")
        /\ Wrote(r, reservations[r].tables \cup mover[m].seat.tables, reservations[r].start,
                 reservations[r].end, reservations[r].guests)
        /\ Goes(m, "save", mover[m].booked, mover[m].seat, mover[m].window)
    BY <1>1, <1>12, InsertTableEffect
  <2>2. ~At(m, "guests") /\ mover[m].seat.given /\ reservations[r].tables = {}
    BY <1>1, <1>12, <2>1 DEF At, DeskIInv, MoverInv, SlotSeat
  <2>3. /\ reservations'[Target(m)].tables = mover[m].seat.tables
        /\ reservations'[Target(m)].guests = mover[m].seen.guests
    BY <1>4, <1>12, <2>1, <2>2 DEF Wrote
  <2>4. SlotSeat(m)'
    BY <1>5, <1>12, <2>1, <2>2, <2>3, GoingSeat
  <2>5. mover'[m].target = {r} /\ Settling(m)'
    BY <1>12, <2>1 DEF Goes, Keeps, Settling, Serves
  <2> QED
    BY <1>1, <1>12, <2>1, <2>4, <2>5, WriteKeepsRest
<1>13. ASSUME NEW r \in Requests, Serves(m, r), Target(m) = r, Busy(m), SaveRow(m)
       PROVE  SlotSeat(m)' /\ RestSuits'
  <2> DEFINE guests == Given(Patched(m), reservations[r].guests)
  <2>1. /\ At(m, "save")
        /\ Wrote(r, reservations[r].tables, mover[m].window.start, mover[m].window.end, guests)
        /\ IF GuestsChange(m) THEN Goes(m, "guests", mover[m].booked, mover[m].seat, mover[m].window)
                      ELSE Drops(m, "idle")
    BY <1>1, <1>13, SaveRowEffect
  <2>2. ~At(m, "guests")
    BY <2>1 DEF At
  <2>3. /\ r \in astray \/ Suited(reservations[r].tables, Seated(m))
        /\ reservations[r].guests = mover[m].seen.guests
    BY <1>1, <1>4, <1>13, <2>1, <2>2 DEF SlotSeat, Settling, At
  <2>4. CASE GuestsChange(m)
    <3>1. Goes(m, "guests", mover[m].booked, mover[m].seat, mover[m].window)
      BY <2>1, <2>4
    <3>2. mover[m].wish.guests # {}
      BY <2>4 DEF GuestsChange
    <3>3. Target(m) \in astray \/ Suited(reservations'[Target(m)].tables, Seated(m))
      BY <1>13, <2>1, <2>3 DEF Wrote
    <3>4. SlotSeat(m)'
      BY <1>5, <1>13, <3>1, <3>2, <3>3, GoingSeat
    <3>5. mover'[m].target = {r} /\ Settling(m)'
      BY <1>13, <3>1 DEF Goes, Keeps, Settling, Serves
    <3> HIDE DEF guests
    <3> QED
      BY <1>1, <1>13, <2>1, <3>4, <3>5, WriteKeepsRest
  <2>5. CASE ~GuestsChange(m)
    <3>1. guests = Seated(m)
      <4>1. mover[m].kind \in {"patch", "modify"}
        BY <1>1, MoverIsMover DEF Mover
      <4>2. CASE mover[m].kind = "patch"
        BY <2>3, <4>2 DEF Patched, Seated, WantedGuests
      <4>3. CASE mover[m].kind = "modify"
        <5>1. Seated(m) = mover[m].seen.guests
          BY <2>5, <4>3, NoOtherGuests DEF GuestsChange, Seated
        <5> QED
          BY <2>3, <4>3, <5>1 DEF Patched, Given
      <4> QED
        BY <4>1, <4>2, <4>3
    <3> HIDE DEF guests
    <3> QED
      BY <1>1, <1>13, <2>1, <2>3, <2>5, <3>1, WriteKeepsRest, IdleSeat
  <2> QED
    BY <2>4, <2>5
<1>14. ASSUME NEW r \in Requests, Serves(m, r), Target(m) = r, Busy(m), SaveGuests(m)
       PROVE  SlotSeat(m)' /\ RestSuits'
  <2> DEFINE guests == Given(mover[m].wish.guests, reservations[r].guests)
  <2>1. /\ At(m, "guests") \/ (At(m, "anyway") /\ astray' = astray \cup {r})
        /\ Drops(m, "idle")
        /\ Wrote(r, reservations[r].tables, reservations[r].start, reservations[r].end, guests)
    BY <1>1, <1>14, SaveGuestsEffect
  <2>2. CASE At(m, "guests")
    <3>1. /\ r \in astray \/ Suited(reservations[r].tables, Seated(m))
          /\ mover[m].wish.guests # {}
      BY <1>1, <1>14, <2>2 DEF SlotSeat, Settling, At
    <3>2. guests = Seated(m)
      BY <3>1 DEF Seated, WantedGuests, Given
    <3> HIDE DEF guests
    <3> QED
      BY <1>1, <1>14, <2>1, <3>1, <3>2, WriteKeepsRest, IdleSeat
  <2> HIDE DEF guests
  <2>3. CASE astray' = astray \cup {r}
    BY <1>1, <1>14, <2>1, <2>3, WriteKeepsRest, IdleSeat
  <2> QED
    BY <2>1, <2>2, <2>3
<1>15. ASSUME Busy(m), InsertTwice(m) \/ MoverCrash(m) PROVE SlotSeat(m)' /\ RestSuits'
  <2>1. /\ UNCHANGED vars /\ Drops(m, "idle")
        /\ astray' = IF HalfDone(m) THEN astray \cup mover[m].target ELSE astray
    BY <1>1, <1>15, BreakEffect
  <2>2. SlotSeat(m)'
    BY <2>1, IdleSeat
  <2>3. CASE ~Settling(m)
    BY <1>1, <2>1, <2>2, <2>3, ReadKeepsRest
  <2>4. PICK r \in Requests : mover[m].target = {r} /\ Target(m) = r
    BY <1>15, BusyServes DEF Serves
  <2>5. \A o \in (Requests \ astray) \ {r} : RowSuits(o)
    BY <1>1, <2>4 DEF OneMover, RestSuits
  <2>6. CASE At(m, "save") /\ ~mover[m].seat.given
    <3>1. /\ mover[m].kind = "patch" /\ ~NeedsTable(mover[m].wish, mover[m].seen)
          /\ r \in astray \/ Suited(reservations[r].tables, Seated(m))
          /\ reservations[r].guests = mover[m].seen.guests
      BY <1>1, <1>15, <2>4, <2>6 DEF SlotSeat, At, Settling
    <3>2. Seated(m) = mover[m].seen.guests
      BY <3>1, NoOtherGuests DEF NeedsTable, Seated
    <3>3. r \in astray \/ RowSuits(r)
      BY <3>1, <3>2 DEF RowSuits
    <3> QED
      BY <1>2, <2>1, <2>2, <2>5, <3>3 DEF RestSuits, RowSuits
  <2>7. CASE HalfDone(m)
    <3>1. r \in astray'
      BY <2>1, <2>4, <2>7
    <3> QED
      BY <1>2, <2>1, <2>2, <2>5, <3>1 DEF RestSuits, RowSuits
  <2> QED
    BY <2>3, <2>6, <2>7 DEF HalfDone, Settling, At
<1> QED
  BY <1>3, <1>6, <1>7, <1>8, <1>9, <1>10, <1>11, <1>12, <1>13, <1>14, <1>15, ServeSteps

LEMMA SeatStep ==
    OneMover /\ DeskIInv /\ SeatInv /\ [DeskNext]_deskVars => SeatInv'
<1> SUFFICES ASSUME OneMover, DeskIInv, SeatInv, [DeskNext]_deskVars PROVE SeatInv'
  OBVIOUS
<1>1. /\ TypeOK /\ DeskTypeOK /\ RowsFollowCommit /\ RestSuits
      /\ \A q \in Requests : PickedSuits(q)
      /\ \A m \in Movers : SlotSeat(m)
  BY MoverIsMover, SeatInvByPart DEF DeskIInv, DeskInv
<1>2. RowsFollowCommit' /\ astray \subseteq astray'
  BY <1>1, DeskRowsFollow, AstrayStep
<1>3. ASSUME mover' = mover, \A r \in Requests : RowKept(r) /\ (RowSuits(r) => RowSuits(r)'),
             \A q \in Requests : PickedSuits(q)'
      PROVE  SeatInv'
  <2>1. \A m \in Movers : SlotSeat(m)'
    BY <1>1, <1>2, <1>3, SameSeat
  <2>2. RestSuits'
    BY <1>1, <1>2, <1>3 DEF RestSuits, Settling
  <2> QED
    BY <1>2, <1>3, <2>1, <2>2, SeatInvByPartNext
<1>4. ASSUME [Next]_vars, UNCHANGED mover PROVE SeatInv'
  BY <1>1, <1>3, <1>4, NextKeepsRows, NextRowSuits, NextPickedSuits
<1>5. ASSUME UNCHANGED callVars PROVE \A q \in Requests : PickedSuits(q)'
  BY <1>1, <1>5 DEF callVars, PickedSuits
<1>6. ASSUME NEW m \in Movers, Serve(m) PROVE SeatInv'
  <2>1. SlotSeat(m)' /\ RestSuits'
    BY <1>2, <1>6, ServeSeat
  <2>2. \A o \in Movers : SlotSeat(o)'
    BY <2>1 DEF OneMover
  <2>3. UNCHANGED callVars
    BY <1>6, ServeWrites DEF vars, Wrote
  <2> QED
    BY <1>2, <1>5, <2>1, <2>2, <2>3, SeatInvByPartNext
<1>7. ASSUME NEW r \in Requests, NEW status \in StatusChoices, SetStatus(r, status) PROVE SeatInv'
  <2>1. UNCHANGED callVars /\ mover' = mover
    BY <1>1, <1>7, SetStatusEffect
  <2>2. \A o \in Requests : RowKept(o) /\ (RowSuits(o) => RowSuits(o)')
    BY <1>1, <1>7, SetStatusEffect DEF RowKept, RowSuits
  <2> QED
    BY <1>3, <1>5, <2>1, <2>2
<1>8. CASE UNCHANGED deskVars
  BY <1>4, <1>8 DEF deskVars
<1> QED
  BY <1>4, <1>6, <1>7, <1>8 DEF DeskNext

LEMMA DeskInitSeat == DeskInit => SeatInv
<1> SUFFICES ASSUME DeskInit PROVE SeatInv
  OBVIOUS
<1>1. RestSuits
  <2>1. ASSUME NEW r \in Requests PROVE RowSuits(r)
    <3>1. CASE r \in Earlier
      <4>1. PICK t \in AvailableTables(Tables, {}, input[r].guests) :
              reservations[r] = NewRow(input[r], {t})
        BY <3>1, DeskInitRows
      <4>2. input[r].guests \in Parties \cup {0}
        BY DeskInitRows DEF BookingInput
      <4>3. Suited({t}, input[r].guests)
        BY <4>2, AvailableSuits
      <4> QED
        BY <4>1, <4>3 DEF RowSuits, NewRow
    <3>2. CASE r \notin Earlier
      <4>1. reservations[r].tables = {}
        BY <3>2, DeskInitRows DEF NoTrace, NoRow
      <4> QED
        BY <4>1, NothingSuits DEF RowSuits
    <3> QED
      BY <3>1, <3>2
  <2> QED
    BY <2>1 DEF RestSuits
<1>2. \A m \in Movers : SlotSeat(m)
  BY DeskInitRows DEF SlotSeat, Resting, Busy, At, Settling
<1>3. \A q \in Requests : PickedSuits(q)
  BY DeskInitRows DEF PickedSuits
<1> QED
  BY <1>1, <1>2, <1>3, DeskInitFollows, SeatInvByPart

\* With changes served one at a time, an active reservation that has a table has one, which
\* suits its party, whatever is booked meanwhile, whatever becomes of the tables, and wherever
\* the process dies: all but the reservations that a change left half written, or whose party
\* modify by code changed although the table it had chosen was switched off.
THEOREM PartiesStaySeated ==
    ASSUME OneMover PROVE DeskSpec => []SeatedAtRest
<1>1. DeskIInv /\ SeatInv /\ [DeskNext]_deskVars => SeatInv'
  BY SeatStep
<1>2. SeatInv => SeatedAtRest
  <2> SUFFICES ASSUME SeatInv, AtRest, NEW r \in Requests \ astray, reservations[r].tables # {}
               PROVE  \E t \in Tables : /\ reservations[r].tables = {t}
                                        /\ Capacity[t] \in reservations[r].guests ..
                                                           reservations[r].guests + SPARE_SEATS
    BY DEF SeatedAtRest
  <2>1. RowSuits(r)
    BY SeatInvByPart DEF RestSuits, AtRest, At, Settling
  <2> QED
    BY <2>1 DEF RowSuits, Suited, Suits
<1> QED
  BY <1>1, <1>2, DeskInitSeat, DeskIInvInvariant, PTL DEF DeskSpec
-----------------------------------------------------------------------------
(* One request at a time, no booking and nobody brought back: no double booking *)

\* Bookings are over and nothing is confirmed again.
Quiet == Earlier = Requests /\ StatusChoices \subseteq {"COMPLETED"}

Taken(m) == BookedTables(reservations, Wanted(m).start, Wanted(m).end, mover[m].target)

SlotAlone(m) ==
    /\ At(m, "tables") => Taken(m) \subseteq mover[m].booked
    /\ Busy(m) /\ mover[m].seat.given => mover[m].seat.tables \cap Taken(m) = {}
    /\ At(m, "insert") => reservations[Target(m)].tables = {}
    /\ At(m, "save") /\ mover[m].seat.given =>
         reservations[Target(m)].tables = mover[m].seat.tables

AllAnswered == \A q \in Requests : pc[q] = "answered"

\* A reservation whose table is written and whose window is not yet.
Moving(r) == \E m \in Movers : At(m, "save") /\ mover[m].seat.given /\ r \in mover[m].target
OnlyMovingClash ==
    \A p, q \in Requests \ astray : p # q /\ ~Moving(p) /\ ~Moving(q) => ~Clash(p, q)

LEMMA AloneInvByPart ==
    AloneInv <=> AllAnswered /\ OnlyMovingClash /\ \A m \in Movers : SlotAlone(m)
<1>1. ASSUME NEW p, NEW q
      PROVE  (~Moving(p) /\ ~Moving(q)) <=>
             (\A m \in Movers : At(m, "save") /\ mover[m].seat.given => {p, q} \cap mover[m].target = {})
  BY DEF Moving
<1> QED
  BY <1>1 DEF AloneInv, AllAnswered, OnlyMovingClash, SlotAlone, Taken

LEMMA AloneInvByPartNext ==
    AloneInv' <=> AllAnswered' /\ OnlyMovingClash' /\ \A m \in Movers : SlotAlone(m)'
<1>1. ASSUME NEW p, NEW q
      PROVE  (~Moving(p) /\ ~Moving(q))' <=>
             (\A m \in Movers : At(m, "save") /\ mover[m].seat.given => {p, q} \cap mover[m].target = {})'
  BY DEF Moving
<1> QED
  BY <1>1 DEF AloneInv, AllAnswered, OnlyMovingClash, SlotAlone, Taken

\* A reservation keeps its tables and window and may leave the active statuses.
Fades(r) == /\ reservations'[r].tables = reservations[r].tables
            /\ reservations'[r].start = reservations[r].start
            /\ reservations'[r].end = reservations[r].end
            /\ Active(reservations'[r]) => Active(reservations[r])

LEMMA FadesShrinks ==
    ASSUME \A r \in Requests : Fades(r)
    PROVE  /\ \A start, end, except : BookedTables(reservations', start, end, except)
                                        \subseteq BookedTables(reservations, start, end, except)
           /\ \A p, q \in Requests : Clash(p, q)' => Clash(p, q)
BY DEF Fades, BookedTables, Overlaps, Clash

\* What others hold does not depend on one's own reservation.
LEMMA OwnRowIsLeftOut ==
    ASSUME NEW r, \A o \in Requests \ {r} : reservations'[o] = reservations[o], NEW start, NEW end
    PROVE  BookedTables(reservations', start, end, {r}) = BookedTables(reservations, start, end, {r})
BY DEF BookedTables

LEMMA NextFades ==
    ASSUME TypeOK, AllAnswered, [Next]_vars
    PROVE  AllAnswered' /\ \A r \in Requests : Fades(r)
<1>1. ASSUME NEW q \in Requests, Call(q) \/ Proceed(q) \/ Fault(q) PROVE FALSE
  BY <1>1 DEF AllAnswered, Call, AcquireLock, RefuseBusy, Proceed, LockRow, EnsureReservable,
              RejectClosed, ReadBooked, PickTable, RejectFull, InsertRows, RejectCode, Commit,
              Announce, ReleaseLock, Fault, TimeOut, CommitUnacknowledged, Crash, Running,
              InTransaction
<1>2. ASSUME NEW o \in Requests, NEW status \in EndStatuses, Retire(o, status)
      PROVE  AllAnswered' /\ \A r \in Requests : Fades(r)
  <2>1. AllAnswered'
    BY <1>2 DEF Retire, callVars, AllAnswered
  <2>2. \A r \in Requests \ {o} : reservations'[r] = reservations[r]
    BY <1>2 DEF Retire, TypeOK
  <2>3. Fades(o)
    BY <1>2, EnvironmentAssumption
       DEF Retire, TypeOK, ReservationRow, Fades, Active, STATUSES, ACTIVE_STATUSES
  <2> QED
    BY <2>1, <2>2, <2>3 DEF Fades
<1>3. CASE \/ ExpireLock \/ \E t \in Switchable : SwitchTable(t)
           \/ \E starts \in HourChoices : ChangeHours(starts)
  BY <1>3 DEF ExpireLock, SwitchTable, ChangeHours, callVars, storeVars, AllAnswered, Fades
<1>4. CASE UNCHANGED vars
  BY <1>4 DEF vars, callVars, storeVars, AllAnswered, Fades
<1> QED
  BY <1>1, <1>2, <1>3, <1>4 DEF Next, Environment

\* A slot that is not written, while others' reservations fade.
LEMMA SameAlone ==
    ASSUME DeskIInv, NEW m \in Movers, SlotAlone(m), mover'[m] = mover[m],
           \A r \in Requests : Fades(r)
    PROVE  SlotAlone(m)'
<1>1. /\ Target(m)' = Target(m) /\ Wanted(m)' = Wanted(m) /\ Busy(m)' = Busy(m)
      /\ \A place : At(m, place)' = At(m, place)
  BY DEF Target, Wanted, Busy, At
<1>2. Taken(m)' \subseteq Taken(m)
  BY <1>1, FadesShrinks DEF Taken
<1>3. At(m, "insert") \/ At(m, "save") => Busy(m)
  BY DEF At, Busy
<1>4. Busy(m) => Target(m) \in Requests
  BY BusyServes
<1> QED
  BY <1>1, <1>2, <1>3, <1>4 DEF SlotAlone, Fades

LEMMA IdleAlone ==
    ASSUME NEW m \in Movers, Drops(m, "idle")
    PROVE  SlotAlone(m)' /\ ~At(m, "save")'
BY DEF Drops, SlotAlone, Busy, At

LEMMA GoingAlone ==
    ASSUME NEW m \in Movers, NEW r \in Requests, Serves(m, r), Target(m) = r,
           NEW place, NEW found, NEW seat, NEW window, Goes(m, place, found, seat, window),
           \A o \in Requests \ {r} : reservations'[o] = reservations[o],
           place = "tables" => Taken(m) \subseteq found,
           seat.given => seat.tables \cap Taken(m) = {},
           place = "insert" => reservations'[r].tables = {},
           place = "save" /\ seat.given => reservations'[r].tables = seat.tables
    PROVE  SlotAlone(m)'
<1>1. Target(m)' = r /\ Wanted(m)' = Wanted(m)
  BY GoesKeeps
<1>2. /\ mover'[m].at = place /\ mover'[m].seat = seat /\ mover'[m].booked = found
      /\ mover'[m].target = {r} /\ mover[m].target = {r}
  BY DEF Goes, Keeps, Serves
<1>3. Taken(m)' = Taken(m)
  BY <1>1, <1>2, OwnRowIsLeftOut DEF Taken
<1> QED
  BY <1>1, <1>2, <1>3 DEF SlotAlone, At

\* The one mover reads, and had not written the table of its reservation.
LEMMA ReadKeepsApart ==
    ASSUME OneMover, OnlyMovingClash, NEW m \in Movers, UNCHANGED vars, astray \subseteq astray',
           \/ ~(At(m, "save") /\ mover[m].seat.given)
           \/ mover[m].target \subseteq astray'
    PROVE  OnlyMovingClash'
<1>1. \A p, q \in Requests \ astray' : p # q => ~Clash(p, q)
  BY DEF OneMover, OnlyMovingClash, Moving
<1>2. reservations' = reservations
  BY DEF vars, storeVars
<1> QED
  BY <1>1, <1>2 DEF OnlyMovingClash, Clash

\* The one mover writes: its reservation then clashes with none, or is on its way.
LEMMA WriteKeepsApart ==
    ASSUME OneMover, OnlyMovingClash, NEW m \in Movers, NEW r \in Requests, Serves(m, r),
           \A o \in Requests \ {r} : reservations'[o] = reservations[o], astray \subseteq astray',
           \/ mover'[m].target = {r} /\ At(m, "save")' /\ mover'[m].seat.given
           \/ r \in astray \/ \A o \in (Requests \ astray) \ {r} : ~Clash(r, o)'
    PROVE  OnlyMovingClash'
<1>1. \A p, q \in (Requests \ astray) \ {r} : p # q => ~Clash(p, q)
  BY DEF OneMover, OnlyMovingClash, Moving, Serves
<1>2. \A p, q \in (Requests \ astray) \ {r} : p # q => ~Clash(p, q)'
  BY <1>1 DEF Clash
<1>3. CASE \A o \in (Requests \ astray) \ {r} : ~Clash(r, o)'
  <2>1. \A o \in (Requests \ astray) \ {r} : ~Clash(o, r)'
    BY <1>3 DEF Clash, Overlaps
  <2> QED
    BY <1>2, <1>3, <2>1 DEF OnlyMovingClash
<1>4. CASE mover'[m].target = {r} /\ At(m, "save")' /\ mover'[m].seat.given
  <2>1. Moving(r)'
    BY <1>4 DEF Moving
  <2> QED
    BY <1>2, <2>1 DEF OnlyMovingClash
<1>5. CASE r \in astray
  BY <1>2, <1>5 DEF OnlyMovingClash
<1> QED
  BY <1>3, <1>4, <1>5

\* With the window it was checked for and the table it has settled on, the reservation
\* clashes with no other.
LEMMA SavedClashesWithNone ==
    ASSUME NEW m \in Movers, NEW r \in Requests, Serves(m, r),
           \A o \in Requests \ {r} : reservations'[o] = reservations[o],
           reservations'[r].start = Wanted(m).start, reservations'[r].end = Wanted(m).end,
           reservations'[r].tables \cap Taken(m) = {}
    PROVE  \A o \in Requests \ {r} : ~Clash(r, o)'
<1> SUFFICES ASSUME NEW o \in Requests \ {r}, Clash(r, o)' PROVE FALSE
  OBVIOUS
<1>1. /\ Active(reservations[o]) /\ Overlaps(reservations[o], Wanted(m).start, Wanted(m).end)
      /\ reservations'[r].tables \cap reservations[o].tables # {}
  BY DEF Clash, Overlaps
<1>2. reservations[o].tables \subseteq Taken(m)
  BY <1>1 DEF Taken, BookedTables, Serves
<1> QED
  BY <1>1, <1>2

LEMMA ServeAlone ==
    ASSUME OneMover, DeskIInv, TimesInv, SeatInv, AloneInv, NEW m \in Movers, Serve(m),
           astray \subseteq astray'
    PROVE  SlotAlone(m)' /\ OnlyMovingClash'
<1>1. DeskTypeOK /\ SlotAlone(m) /\ OnlyMovingClash
  BY AloneInvByPart DEF DeskIInv, DeskInv
<1>2. UNCHANGED vars => reservations' = reservations
  BY DEF vars, storeVars
<1>3. ASSUME NEW k \in {"patch", "modify"}, NEW r \in Requests,
             NEW w \in PatchWishes \cup ModifyWishes, Begin(m, k, r, w)
      PROVE  SlotAlone(m)' /\ OnlyMovingClash'
  <2>1. /\ At(m, "idle") /\ UNCHANGED vars
        /\ mover'[m].at \in {"hours", "find"} /\ mover'[m].seat = Unseated
    BY <1>1, <1>3, BeginEffect DEF ReadsOnly
  <2>2. SlotAlone(m)'
    BY <2>1 DEF SlotAlone, Unseated, At
  <2>3. ~At(m, "save")
    BY <2>1 DEF At
  <2> QED
    BY <1>1, <2>1, <2>2, <2>3, ReadKeepsApart
<1>4. Busy(m) /\ mover[m].seat.given => mover[m].seat.tables \cap Taken(m) = {}
  BY <1>1 DEF SlotAlone
<1>5. ASSUME Busy(m), UNCHANGED vars, ~At(m, "save"), NEW place \in Places \ {"tables", "insert", "save"},
             NEW found, NEW seat, NEW window, Goes(m, place, found, seat, window),
             seat.given => seat.tables \cap Taken(m) = {}
      PROVE  SlotAlone(m)'
  <2>1. PICK r \in Requests : Serves(m, r) /\ Target(m) = r
    BY <1>5, BusyServes
  <2>2. \A o \in Requests \ {r} : reservations'[o] = reservations[o]
    BY <1>2, <1>5
  <2> QED
    BY <1>5, <2>1, <2>2, GoingAlone
<1>6. ASSUME Busy(m), CheckHours(m) PROVE SlotAlone(m)' /\ OnlyMovingClash'
  <2>1. At(m, "hours") /\ UNCHANGED vars /\ ~At(m, "save")
    BY <1>6 DEF CheckHours, At, ReadsOnly
  <2>2. OnlyMovingClash'
    BY <1>1, <2>1, ReadKeepsApart
  <2>3. ASSUME Goes(m, "find", mover[m].booked, [given |-> TRUE, tables |-> {}], mover[m].window)
        PROVE  SlotAlone(m)'
    <3> DEFINE seat == [given |-> TRUE, tables |-> {}]
    <3>1. seat.tables \cap Taken(m) = {}
      OBVIOUS
    <3>2. Goes(m, "find", mover[m].booked, seat, mover[m].window)
      BY <2>3
    <3> HIDE DEF seat
    <3> QED
      BY <1>5, <1>6, <2>1, <3>1, <3>2 DEF Places, Writing
  <2>4. ASSUME Goes(m, "booked", mover[m].booked, mover[m].seat, mover[m].window)
        PROVE  SlotAlone(m)'
    BY <1>4, <1>5, <1>6, <2>1, <2>4 DEF Places, Deciding
  <2> QED
    BY <1>1, <1>6, <2>2, <2>3, <2>4, CheckHoursEffect, IdleAlone
<1>7. ASSUME Busy(m), QueryBooked(m) PROVE SlotAlone(m)' /\ OnlyMovingClash'
  <2>1. /\ At(m, "booked") /\ UNCHANGED vars
        /\ Goes(m, "tables", Taken(m), mover[m].seat, mover[m].window)
    BY <1>1, <1>7, QueryBookedEffect DEF Taken, ReadsOnly
  <2>2. ~At(m, "save")
    BY <2>1 DEF At
  <2>3. PICK r \in Requests : Serves(m, r) /\ Target(m) = r
    BY <1>7, BusyServes
  <2>4. \A o \in Requests \ {r} : reservations'[o] = reservations[o]
    BY <1>2, <2>1
  <2>5. SlotAlone(m)'
    BY <1>4, <1>7, <2>1, <2>3, <2>4, GoingAlone
  <2> QED
    BY <1>1, <2>1, <2>2, <2>5, ReadKeepsApart
<1>8. ASSUME Busy(m), QueryTables(m) PROVE SlotAlone(m)' /\ OnlyMovingClash'
  <2>1. At(m, "tables") /\ UNCHANGED vars /\ ~At(m, "save")
    BY <1>8 DEF QueryTables, At, ReadsOnly
  <2>2. OnlyMovingClash'
    BY <1>1, <2>1, ReadKeepsApart
  <2>3. ASSUME NEW t \in AvailableTables(activeTables, mover[m].booked,
                                        WantedGuests(mover[m].wish, mover[m].seen)),
               Goes(m, "find", mover[m].booked, [given |-> TRUE, tables |-> {t}], mover[m].window)
        PROVE  SlotAlone(m)'
    <3> DEFINE seat == [given |-> TRUE, tables |-> {t}]
    <3>1. t \notin mover[m].booked
      BY DEF AvailableTables
    <3>2. t \notin Taken(m)
      BY <1>1, <2>1, <3>1 DEF SlotAlone
    <3>3. seat.tables \cap Taken(m) = {}
      BY <3>2
    <3>4. Goes(m, "find", mover[m].booked, seat, mover[m].window)
      BY <2>3
    <3> HIDE DEF seat
    <3> QED
      BY <1>5, <1>8, <2>1, <3>3, <3>4 DEF Places, Writing
  <2> QED
    BY <1>1, <1>8, <2>2, <2>3, QueryTablesEffect, IdleAlone
<1>9. ASSUME Busy(m), FindRow(m) PROVE SlotAlone(m)' /\ OnlyMovingClash'
  <2> DEFINE place == IF ~mover[m].seat.given THEN "save"
                      ELSE IF mover[m].seat.tables = {} THEN "delete" ELSE "findTable"
  <2>1. /\ At(m, "find") /\ UNCHANGED vars
        /\ Goes(m, place, mover[m].booked, mover[m].seat, FoundWindow(m))
    BY <1>9, FindRowEffect DEF ReadsOnly
  <2>2. place \notin {"tables", "insert"} /\ (place = "save" => ~mover[m].seat.given)
    OBVIOUS
  <2> HIDE DEF place
  <2>3. ~At(m, "save")
    BY <2>1 DEF At
  <2>4. PICK r \in Requests : Serves(m, r) /\ Target(m) = r
    BY <1>9, BusyServes
  <2>5. \A o \in Requests \ {r} : reservations'[o] = reservations[o]
    BY <1>2, <2>1
  <2>6. SlotAlone(m)'
    BY <1>4, <1>9, <2>1, <2>2, <2>4, <2>5, GoingAlone
  <2> QED
    BY <1>1, <2>1, <2>3, <2>6, ReadKeepsApart
<1>10. ASSUME Busy(m), FindTable(m) PROVE SlotAlone(m)' /\ OnlyMovingClash'
  <2>1. At(m, "findTable") /\ UNCHANGED vars /\ ~At(m, "save")
    BY <1>10 DEF FindTable, At, ReadsOnly
  <2>2. ASSUME NEW place \in {"delete", "anyway"},
               Goes(m, place, mover[m].booked, mover[m].seat, mover[m].window)
        PROVE  SlotAlone(m)'
    <3>1. place \in Places \ {"tables", "insert", "save"}
      BY DEF Places, Writing
    <3> QED
      BY <1>4, <1>5, <1>10, <2>1, <2>2, <3>1
  <2> QED
    BY <1>1, <1>10, <2>1, <2>2, FindTableEffect, IdleAlone, ReadKeepsApart
<1>11. ASSUME NEW r \in Requests, Serves(m, r), Target(m) = r, Busy(m), DeleteTables(m)
       PROVE  SlotAlone(m)' /\ OnlyMovingClash'
  <2> DEFINE place == IF mover[m].seat.tables = {} THEN "save" ELSE "insert"
  <2>1. /\ Wrote(r, {}, reservations[r].start, reservations[r].end, reservations[r].guests)
        /\ Goes(m, place, mover[m].booked, mover[m].seat, mover[m].window)
    BY <1>1, <1>11, DeleteTablesEffect
  <2>2. place # "tables" /\ (place = "save" => mover[m].seat.tables = {})
    OBVIOUS
  <2> HIDE DEF place
  <2>3. reservations'[r].tables = {} /\ \A o \in Requests \ {r} : reservations'[o] = reservations[o]
    BY <2>1 DEF Wrote
  <2>4. \A o \in Requests \ {r} : ~Clash(r, o)'
    BY <2>3 DEF Clash
  <2>5. SlotAlone(m)'
    BY <1>4, <1>11, <2>1, <2>2, <2>3, GoingAlone
  <2> QED
    BY <1>1, <1>11, <2>3, <2>4, <2>5, WriteKeepsApart
<1>12. ASSUME NEW r \in Requests, Serves(m, r), Target(m) = r, Busy(m), InsertTable(m)
       PROVE  SlotAlone(m)' /\ OnlyMovingClash'
  <2>1. /\ At(m, "insert")
        /\ Wrote(r, reservations[r].tables \cup mover[m].seat.tables, reservations[r].start,
                 reservations[r].end, reservations[r].guests)
        /\ Goes(m, "save", mover[m].booked, mover[m].seat, mover[m].window)
    BY <1>1, <1>12, InsertTableEffect
  <2>2. mover[m].seat.given /\ reservations[r].tables = {}
    BY <1>1, <1>12, <2>1 DEF At, DeskIInv, MoverInv, SlotAlone
  <2>3. /\ reservations'[r].tables = mover[m].seat.tables
        /\ \A o \in Requests \ {r} : reservations'[o] = reservations[o]
    BY <2>1, <2>2 DEF Wrote
  <2>4. SlotAlone(m)'
    BY <1>4, <1>12, <2>1, <2>3, GoingAlone
  <2>5. mover'[m].target = {r} /\ At(m, "save")' /\ mover'[m].seat.given
    BY <1>12, <2>1, <2>2 DEF Goes, Keeps, At, Serves
  <2> QED
    BY <1>1, <1>12, <2>3, <2>4, <2>5, WriteKeepsApart
<1>13. ASSUME NEW r \in Requests, Serves(m, r), Target(m) = r, Busy(m), SaveRow(m)
       PROVE  SlotAlone(m)' /\ OnlyMovingClash'
  <2>1. /\ At(m, "save")
        /\ Wrote(r, reservations[r].tables, mover[m].window.start, mover[m].window.end,
                 Given(Patched(m), reservations[r].guests))
        /\ \/ Goes(m, "guests", mover[m].booked, mover[m].seat, mover[m].window)
           \/ Drops(m, "idle")
    BY <1>1, <1>13, SaveRowEffect
  <2>2. /\ mover[m].window = Wanted(m)
        /\ reservations[r].start = mover[m].seen.start /\ reservations[r].end = mover[m].seen.end
    BY <1>13, <2>1 DEF At, TimesInv
  <2>3. /\ reservations'[r].tables = reservations[r].tables
        /\ reservations'[r].status = reservations[r].status
        /\ reservations'[r].start = Wanted(m).start /\ reservations'[r].end = Wanted(m).end
        /\ \A o \in Requests \ {r} : reservations'[o] = reservations[o]
    BY <2>1, <2>2 DEF Wrote
  <2>4. r \in astray \/ \A o \in (Requests \ astray) \ {r} : ~Clash(r, o)'
    <3>1. CASE mover[m].seat.given
      <4>1. reservations'[r].tables \cap Taken(m) = {}
        BY <1>1, <1>4, <1>13, <2>1, <2>3, <3>1 DEF SlotAlone
      <4> QED
        BY <1>13, <2>3, <4>1, SavedClashesWithNone
    <3>2. CASE ~mover[m].seat.given
      <4>1. mover[m].kind = "patch" /\ ~NeedsTable(mover[m].wish, mover[m].seen)
        BY <2>1, <3>2 DEF At, SeatInv
      <4>2. Wanted(m).start = reservations[r].start /\ Wanted(m).end = reservations[r].end
        <5>1. mover[m].wish.start \cup mover[m].wish.end = {}
          BY <4>1 DEF NeedsTable
        <5> QED
          BY <2>2, <4>1, <5>1, NoTimesNoMove DEF Wanted
      <4>3. r \in astray \/ \A o \in (Requests \ astray) \ {r} : ~Clash(r, o)
        BY <1>1, <3>2 DEF OneMover, OnlyMovingClash, Moving
      <4> QED
        BY <2>3, <4>2, <4>3 DEF Clash, Active, Overlaps
    <3> QED
      BY <3>1, <3>2
  <2>5. ASSUME Goes(m, "guests", mover[m].booked, mover[m].seat, mover[m].window)
        PROVE  SlotAlone(m)'
    BY <1>4, <1>13, <2>3, <2>5, GoingAlone
  <2> QED
    BY <1>1, <1>13, <2>1, <2>3, <2>4, <2>5, WriteKeepsApart, IdleAlone
<1>14. ASSUME NEW r \in Requests, Serves(m, r), Target(m) = r, Busy(m), SaveGuests(m)
       PROVE  SlotAlone(m)' /\ OnlyMovingClash'
  <2>1. /\ ~At(m, "save") /\ Drops(m, "idle")
        /\ Wrote(r, reservations[r].tables, reservations[r].start, reservations[r].end,
                 Given(mover[m].wish.guests, reservations[r].guests))
    BY <1>1, <1>14, SaveGuestsEffect DEF At
  <2>2. /\ reservations'[r].tables = reservations[r].tables
        /\ reservations'[r].status = reservations[r].status
        /\ reservations'[r].start = reservations[r].start
        /\ reservations'[r].end = reservations[r].end
        /\ \A o \in Requests \ {r} : reservations'[o] = reservations[o]
    BY <2>1 DEF Wrote
  <2>3. r \in astray \/ \A o \in (Requests \ astray) \ {r} : ~Clash(r, o)
    BY <1>1, <2>1 DEF OneMover, OnlyMovingClash, Moving
  <2>4. r \in astray \/ \A o \in (Requests \ astray) \ {r} : ~Clash(r, o)'
    BY <2>2, <2>3 DEF Clash, Active, Overlaps
  <2> QED
    BY <1>1, <1>14, <2>1, <2>2, <2>4, WriteKeepsApart, IdleAlone
<1>15. ASSUME InsertTwice(m) \/ MoverCrash(m) PROVE SlotAlone(m)' /\ OnlyMovingClash'
  <2>1. /\ UNCHANGED vars /\ Drops(m, "idle")
        /\ astray' = IF HalfDone(m) THEN astray \cup mover[m].target ELSE astray
    BY <1>1, <1>15, BreakEffect
  <2>2. ~(At(m, "save") /\ mover[m].seat.given) \/ mover[m].target \subseteq astray'
    BY <2>1 DEF HalfDone
  <2> QED
    BY <1>1, <2>1, <2>2, ReadKeepsApart, IdleAlone
<1> QED
  BY <1>3, <1>6, <1>7, <1>8, <1>9, <1>10, <1>11, <1>12, <1>13, <1>14, <1>15, ServeSteps

LEMMA AloneStep ==
    OneMover /\ Quiet /\ DeskIInv /\ TimesInv /\ SeatInv /\ AloneInv /\ [DeskNext]_deskVars
      => AloneInv'
<1> SUFFICES ASSUME OneMover, Quiet, DeskIInv, TimesInv, SeatInv, AloneInv,
                    [DeskNext]_deskVars
             PROVE  AloneInv'
  OBVIOUS
<1>1. /\ TypeOK /\ DeskTypeOK /\ AllAnswered /\ OnlyMovingClash
      /\ (\A m \in Movers : SlotAlone(m)) /\ astray \subseteq astray'
  BY MoverIsMover, AstrayStep, AloneInvByPart DEF DeskIInv, DeskInv
<1>2. ASSUME mover' = mover, AllAnswered', \A r \in Requests : Fades(r)
      PROVE  AloneInv'
  <2>1. \A m \in Movers : SlotAlone(m)'
    BY <1>1, <1>2, SameAlone
  <2>2. \A r \in Requests : Moving(r)' <=> Moving(r)
    BY <1>2 DEF Moving, At
  <2>3. OnlyMovingClash'
    BY <1>1, <1>2, <2>2, FadesShrinks DEF OnlyMovingClash
  <2> QED
    BY <1>2, <2>1, <2>3, AloneInvByPartNext
<1>3. ASSUME [Next]_vars, UNCHANGED mover PROVE AloneInv'
  BY <1>1, <1>2, <1>3, NextFades
<1>4. ASSUME NEW m \in Movers, Serve(m) PROVE AloneInv'
  <2>1. SlotAlone(m)' /\ OnlyMovingClash'
    BY <1>1, <1>4, ServeAlone
  <2>2. \A o \in Movers : SlotAlone(o)'
    BY <2>1 DEF OneMover
  <2>3. UNCHANGED callVars
    BY <1>4, ServeWrites DEF vars, Wrote
  <2>4. AllAnswered'
    BY <1>1, <2>3 DEF callVars, AllAnswered
  <2> QED
    BY <2>1, <2>2, <2>4, AloneInvByPartNext
<1>5. ASSUME NEW r \in Requests, NEW status \in StatusChoices, SetStatus(r, status) PROVE AloneInv'
  <2>1. UNCHANGED callVars /\ mover' = mover
    BY <1>1, <1>5, SetStatusEffect
  <2>2. status = "COMPLETED"
    BY DEF Quiet
  <2>3. \A o \in Requests : Fades(o)
    BY <1>1, <1>5, <2>2, SetStatusEffect DEF Fades, Active, ACTIVE_STATUSES
  <2>4. AllAnswered'
    BY <1>1, <2>1 DEF callVars, AllAnswered
  <2> QED
    BY <1>2, <2>1, <2>3, <2>4
<1>6. CASE UNCHANGED deskVars
  BY <1>3, <1>6 DEF deskVars
<1> QED
  BY <1>3, <1>4, <1>5, <1>6 DEF DeskNext

LEMMA DeskInitAlone == Quiet /\ DeskInit => AloneInv
<1> SUFFICES ASSUME Quiet, DeskInit PROVE AloneInv
  OBVIOUS
<1>1. AllAnswered
  BY DeskInitRows DEF Quiet, AllAnswered
<1>2. OnlyMovingClash
  BY DeskInitRows DEF OnlyMovingClash, NoDoubleBooking, Clash
<1>3. \A m \in Movers : SlotAlone(m)
  BY DeskInitRows DEF SlotAlone, Resting, Busy, At
<1> QED
  BY <1>1, <1>2, <1>3, AloneInvByPart

\* Changes served one at a time, with no booking under way and no reservation brought back,
\* book no table twice, but for the reservations that a change left half moved.
THEOREM EditsAloneDoNotOverbook ==
    ASSUME OneMover, Quiet PROVE DeskSpec => []NoOverbookingAtRest
<1>1. DeskIInv /\ TimesInv /\ [DeskNext]_deskVars => TimesInv'
  BY TimesStep
<1>2. DeskIInv /\ SeatInv /\ [DeskNext]_deskVars => SeatInv'
  BY SeatStep
<1>3. DeskIInv /\ TimesInv /\ SeatInv /\ AloneInv /\ [DeskNext]_deskVars => AloneInv'
  BY AloneStep
<1>4. DeskInit => AloneInv
  BY DeskInitAlone
<1>5. AloneInv => NoOverbookingAtRest
  BY AloneInvByPart DEF OnlyMovingClash, Moving, At, AtRest, NoOverbookingAtRest, Clash,
                        Held, HoldOf, Overlaps, Ledger!Collide
<1> QED
  BY <1>1, <1>2, <1>3, <1>4, <1>5, DeskInitTimes, DeskInitSeat, DeskIInvInvariant, PTL
     DEF DeskSpec
=============================================================================
