------------------------- MODULE CreateReservation -------------------------
(***************************************************************************)
(* CreateReservationUseCase.execute as its concurrent callers run it: a    *)
(* Redis lock with a time to live, a PostgreSQL transaction that locks the *)
(* restaurant's row FOR UPDATE, the checks, the queries for a free table,  *)
(* the insert, the commit, the event and the release of the Redis lock.    *)
(* One action per statement sent to Redis or PostgreSQL; a transaction's   *)
(* writes become visible when it commits.                                  *)
(*                                                                         *)
(* Around it: reservations that leave the active statuses, tables switched *)
(* on and off, opening hours changed by the settings transaction, lock     *)
(* expiry, transaction timeouts and process crashes.                       *)
(***************************************************************************)
EXTENDS BookingRows

CONSTANTS Nobody,        \* the holder of a lock nobody holds
          EndStatuses,   \* statuses a reservation may be retired to
          Switchable,    \* tables the floor plan may switch on and off
          HourChoices    \* what the settings may set the admitted starts to

ASSUME NobodyAssumption == Nobody \notin Requests
ASSUME EnvironmentAssumption == /\ EndStatuses \subseteq STATUSES \ ACTIVE_STATUSES
                                /\ Switchable \subseteq Tables
                                /\ HourChoices \subseteq SUBSET Starts

VARIABLES
    pc,            \* where each call of execute is
    input,         \* what it was asked for
    booked,        \* in a transaction: the answer to findAvailableTables' first query
    table,         \* in a transaction: the table it picked, in a set
    code,          \* in a transaction: the confirmation code it inserted, in a set
    outcome,       \* how it ends: "booked", or why not
    redisLock,     \* whether the key lock:restaurant:<id>:concurrency exists
    rowLock,       \* the transaction that holds the restaurant's row FOR UPDATE
    reservations,  \* committed rows, by the request that made them
    customers,     \* committed Customer rows, by phone
    codes,         \* confirmation codes of the committed rows, by request
    activeTables,  \* tables with active = true
    openStarts,    \* starts that opening hours and blocked dates admit
    announced      \* requests whose reservation_created event was emitted

callVars  == <<pc, input, booked, table, code, outcome>>
storeVars == <<reservations, customers, codes>>
floorVars == <<activeTables, openStarts>>
vars == <<callVars, redisLock, rowLock, storeVars, floorVars, announced>>

\* Stages of a call: those between BEGIN and COMMIT with the row lock granted,
\* and those at which a fault can still hit it.
InTransaction == {"inTx", "reservable", "bookedRead", "picked", "inserted"}
Running == {"locked", "committed", "releasing"} \cup InTransaction
Ended == {"answered", "crashed"}
Stages == {"idle"} \cup Running \cup Ended

Outcomes == {"none", "booked", "busy", "closed", "full", "error"}

TypeOK == /\ pc \in [Requests -> Stages]
          /\ input \in [Requests -> BookingInput]
          /\ booked \in [Requests -> SUBSET Tables]
          /\ table \in [Requests -> SUBSET Tables]
          /\ code \in [Requests -> SUBSET Codes]
          /\ outcome \in [Requests -> Outcomes]
          /\ redisLock \in BOOLEAN
          /\ rowLock \in Requests \cup {Nobody}
          /\ reservations \in [Requests -> ReservationRow]
          /\ customers \subseteq Phones
          /\ codes \in [Requests -> SUBSET Codes]
          /\ activeTables \subseteq Tables
          /\ openStarts \subseteq Starts
          /\ announced \subseteq Requests

\* A restaurant with no reservations yet; each request's input is fixed by its caller.
Init == /\ pc = [q \in Requests |-> "idle"]
        /\ input \in [Requests -> BookingInput]
        /\ booked = [q \in Requests |-> {}]
        /\ table = [q \in Requests |-> {}]
        /\ code = [q \in Requests |-> {}]
        /\ outcome = [q \in Requests |-> "none"]
        /\ redisLock = FALSE
        /\ rowLock = Nobody
        /\ reservations = [q \in Requests |-> NoRow]
        /\ customers = {}
        /\ codes = [q \in Requests |-> {}]
        /\ activeTables = Tables
        /\ openStarts = Starts
        /\ announced = {}
-----------------------------------------------------------------------------
(* execute *)

Goto(q, stage) == pc' = [pc EXCEPT ![q] = stage]

\* The locals of createInsideTransaction are gone once it returns or throws.
ForgetLocals(q) == /\ booked' = [booked EXCEPT ![q] = {}]
                   /\ table' = [table EXCEPT ![q] = {}]
                   /\ code' = [code EXCEPT ![q] = {}]

\* acquireLock finds no key: SET key locked PX 5000 NX.
AcquireLock(q) ==
    /\ pc[q] = "idle"
    /\ ~redisLock
    /\ redisLock' = TRUE
    /\ Goto(q, "locked")
    /\ UNCHANGED <<input, booked, table, code, outcome, rowLock, storeVars, floorVars, announced>>

\* acquireLock finds the key: the call is refused, outside the try, so nothing is released.
RefuseBusy(q) ==
    /\ pc[q] = "idle"
    /\ redisLock
    /\ outcome' = [outcome EXCEPT ![q] = "busy"]
    /\ Goto(q, "answered")
    /\ UNCHANGED <<input, booked, table, code, redisLock, rowLock, storeVars, floorVars, announced>>

\* Mutant of LockRow: a plain SELECT, which waits for nobody.
LockRow_NoForUpdate(q) ==
    /\ pc[q] = "locked"
    /\ rowLock' = q
    /\ Goto(q, "inTx")
    /\ UNCHANGED <<input, booked, table, code, outcome, redisLock, storeVars, floorVars, announced>>

\* The SELECT ... FOR UPDATE is granted.
LockRow(q) ==
    /\ pc[q] = "locked"
    /\ rowLock = Nobody
    /\ rowLock' = q
    /\ Goto(q, "inTx")
    /\ UNCHANGED <<input, booked, table, code, outcome, redisLock, storeVars, floorVars, announced>>

\* Mutant of Rollback: the customer's upsert runs outside the transaction and stays.
Rollback_CustomerStays(q, why) ==
    /\ outcome' = [outcome EXCEPT ![q] = why]
    /\ rowLock' = IF rowLock = q THEN Nobody ELSE rowLock
    /\ customers' = IF code[q] # {} THEN customers \cup {input[q].phone} ELSE customers
    /\ Goto(q, "releasing")
    /\ ForgetLocals(q)
    /\ UNCHANGED <<input, redisLock, reservations, codes, floorVars, announced>>

\* Mutant of Rollback: the transaction is left open, with its row lock.
Rollback_LeavesOpen(q, why) ==
    /\ outcome' = [outcome EXCEPT ![q] = why]
    /\ Goto(q, "releasing")
    /\ ForgetLocals(q)
    /\ UNCHANGED <<input, redisLock, rowLock, storeVars, floorVars, announced>>

\* A callback that throws rolls its transaction back; the caller is told why.
Rollback(q, why) ==
    /\ outcome' = [outcome EXCEPT ![q] = why]
    /\ rowLock' = IF rowLock = q THEN Nobody ELSE rowLock
    /\ Goto(q, "releasing")
    /\ ForgetLocals(q)
    /\ UNCHANGED <<input, redisLock, storeVars, floorVars, announced>>

\* ensureReservable lets the start pass, or throws.
EnsureReservable(q) ==
    /\ pc[q] = "inTx"
    /\ input[q].start \in openStarts
    /\ Goto(q, "reservable")
    /\ UNCHANGED <<input, booked, table, code, outcome, redisLock, rowLock, storeVars, floorVars, announced>>

RejectClosed(q) ==
    /\ pc[q] = "inTx"
    /\ input[q].start \notin openStarts
    /\ Rollback(q, "closed")

ReadBooked(q) ==
    /\ pc[q] = "reservable"
    /\ booked' = [booked EXCEPT ![q] = BookedTables(reservations, input[q].start,
                                                    InputEnd(input[q]), {})]
    /\ Goto(q, "bookedRead")
    /\ UNCHANGED <<input, table, code, outcome, redisLock, rowLock, storeVars, floorVars, announced>>

\* Mutant of PickTable: the tables already booked are not left out.
PickTable_IgnoresBooked(q) ==
    /\ pc[q] = "bookedRead"
    /\ \E t \in FirstTables(AvailableTables(activeTables, {}, input[q].guests)) :
         table' = [table EXCEPT ![q] = {t}]
    /\ Goto(q, "picked")
    /\ UNCHANGED <<input, booked, code, outcome, redisLock, rowLock, storeVars, floorVars, announced>>

\* The second query and availableTables[0].
PickTable(q) ==
    /\ pc[q] = "bookedRead"
    /\ \E t \in FirstTables(AvailableTables(activeTables, booked[q], input[q].guests)) :
         table' = [table EXCEPT ![q] = {t}]
    /\ Goto(q, "picked")
    /\ UNCHANGED <<input, booked, code, outcome, redisLock, rowLock, storeVars, floorVars, announced>>

\* Mutant of RejectFull: the row is inserted first, without a table, on a connection of its own.
RejectFull_RowStays(q) ==
    /\ pc[q] = "bookedRead"
    /\ AvailableTables(activeTables, booked[q], input[q].guests) = {}
    /\ reservations' = [reservations EXCEPT ![q] = [NoRow EXCEPT !.status = "CONFIRMED"]]
    /\ outcome' = [outcome EXCEPT ![q] = "full"]
    /\ rowLock' = Nobody
    /\ Goto(q, "releasing")
    /\ ForgetLocals(q)
    /\ UNCHANGED <<input, redisLock, customers, codes, floorVars, announced>>

RejectFull(q) ==
    /\ pc[q] = "bookedRead"
    /\ AvailableTables(activeTables, booked[q], input[q].guests) = {}
    /\ Rollback(q, "full")

\* The customer's upsert and the reservation's insert with a fresh random code, not yet
\* visible to others.
InsertRows(q) ==
    /\ pc[q] = "picked"
    /\ \E c \in Codes \ UNION {codes[o] : o \in Requests} : code' = [code EXCEPT ![q] = {c}]
    /\ Goto(q, "inserted")
    /\ UNCHANGED <<input, booked, table, outcome, redisLock, rowLock, storeVars, floorVars, announced>>

\* The code is one some row already has: the unique index rejects the insert.
RejectCode(q) ==
    /\ pc[q] = "picked"
    /\ \E o \in Requests : codes[o] # {}
    /\ Rollback(q, "error")

NewRow(in, tables) == [status |-> "CONFIRMED", start |-> in.start, end |-> InputEnd(in),
                       guests |-> in.guests, tables |-> tables]

Commit(q) ==
    /\ pc[q] = "inserted"
    /\ reservations' = [reservations EXCEPT ![q] = NewRow(input[q], table[q])]
    /\ customers' = customers \cup {input[q].phone}
    /\ codes' = [codes EXCEPT ![q] = code[q]]
    /\ rowLock' = Nobody
    /\ outcome' = [outcome EXCEPT ![q] = "booked"]
    /\ Goto(q, "committed")
    /\ ForgetLocals(q)
    /\ UNCHANGED <<input, redisLock, floorVars, announced>>

\* emitToRestaurant(..., 'reservation_created', ...)
Announce(q) ==
    /\ pc[q] = "committed"
    /\ announced' = announced \cup {q}
    /\ Goto(q, "releasing")
    /\ UNCHANGED <<input, booked, table, code, outcome, redisLock, rowLock, storeVars, floorVars>>

\* finally: releaseLock deletes the key, whoever set it; then the caller gets its answer.
ReleaseLock(q) ==
    /\ pc[q] = "releasing"
    /\ redisLock' = FALSE
    /\ Goto(q, "answered")
    /\ UNCHANGED <<input, booked, table, code, outcome, rowLock, storeVars, floorVars, announced>>
-----------------------------------------------------------------------------
(* Faults: Prisma gives up on a transaction after five seconds, COMMIT is  *)
(* applied but its acknowledgement lost, the process dies, the key's five  *)
(* seconds pass.                                                           *)

TimeOut(q) ==
    /\ pc[q] \in {"locked"} \cup InTransaction
    /\ Rollback(q, "error")

CommitUnacknowledged(q) ==
    /\ pc[q] = "inserted"
    /\ reservations' = [reservations EXCEPT ![q] = NewRow(input[q], table[q])]
    /\ customers' = customers \cup {input[q].phone}
    /\ codes' = [codes EXCEPT ![q] = code[q]]
    /\ rowLock' = Nobody
    /\ outcome' = [outcome EXCEPT ![q] = "error"]
    /\ Goto(q, "releasing")
    /\ ForgetLocals(q)
    /\ UNCHANGED <<input, redisLock, floorVars, announced>>

\* Mutant of Crash: the server does not notice that the client is gone.
Crash_KeepsRowLock(q) ==
    /\ pc[q] \in Running
    /\ Goto(q, "crashed")
    /\ ForgetLocals(q)
    /\ UNCHANGED <<input, outcome, redisLock, rowLock, storeVars, floorVars, announced>>

\* PostgreSQL rolls back the transaction of a client that went away; Redis keeps the key.
Crash(q) ==
    /\ pc[q] \in Running
    /\ rowLock' = IF rowLock = q THEN Nobody ELSE rowLock
    /\ Goto(q, "crashed")
    /\ ForgetLocals(q)
    /\ UNCHANGED <<input, outcome, redisLock, storeVars, floorVars, announced>>

ExpireLock ==
    /\ redisLock
    /\ redisLock' = FALSE
    /\ UNCHANGED <<callVars, rowLock, storeVars, floorVars, announced>>
-----------------------------------------------------------------------------
(* What else changes the rows while calls run *)

\* updateStatus takes a reservation out of the active statuses; times and tables stay.
\* PATCH :id/status, which may bring one back, belongs to ReservationDesk.
Retire(r, status) ==
    /\ reservations[r].status # "NONE"
    /\ reservations' = [reservations EXCEPT ![r].status = status]
    /\ UNCHANGED <<callVars, redisLock, rowLock, customers, codes, floorVars, announced>>

\* RestaurantTablesService.update and deactivate: one statement, no restaurant lock.
SwitchTable(t) ==
    /\ activeTables' = IF t \in activeTables THEN activeTables \ {t} ELSE activeTables \cup {t}
    /\ UNCHANGED <<callVars, redisLock, rowLock, storeVars, openStarts, announced>>

\* Mutant of ChangeHours: the opening hours are written without touching the restaurant's row.
ChangeHours_NoRowLock(starts) ==
    /\ openStarts' = starts
    /\ UNCHANGED <<callVars, redisLock, rowLock, storeVars, activeTables, announced>>

\* updateOperationalSettings updates the restaurant's row before the opening hours, in
\* one transaction: it waits for whoever holds that row FOR UPDATE.
ChangeHours(starts) ==
    /\ rowLock = Nobody
    /\ openStarts' = starts
    /\ UNCHANGED <<callVars, redisLock, rowLock, storeVars, activeTables, announced>>
-----------------------------------------------------------------------------
\* What a call does of its own accord once it has begun.
Proceed(q) == \/ LockRow(q)
              \/ EnsureReservable(q) \/ RejectClosed(q)
              \/ ReadBooked(q)
              \/ PickTable(q) \/ RejectFull(q)
              \/ InsertRows(q) \/ RejectCode(q)
              \/ Commit(q)
              \/ Announce(q)
              \/ ReleaseLock(q)

Call(q) == AcquireLock(q) \/ RefuseBusy(q)

Fault(q) == TimeOut(q) \/ CommitUnacknowledged(q) \/ Crash(q)

Environment == \/ ExpireLock
               \/ \E r \in Requests, status \in EndStatuses : Retire(r, status)
               \/ \E t \in Switchable : SwitchTable(t)
               \/ \E starts \in HourChoices : ChangeHours(starts)

Next == \/ \E q \in Requests : Call(q) \/ Proceed(q) \/ Fault(q)
        \/ Environment

Spec == Init /\ [][Next]_vars

\* Node runs a call's next step, and PostgreSQL grants a row lock, if they stay possible.
FairSpec == Spec /\ \A q \in Requests : WF_vars(Proceed(q))
-----------------------------------------------------------------------------
(* Properties *)

\* No two active reservations share a table at the same time: the overbooking that
\* executeConcurrentBookingTx is there to prevent, however the Redis lock expires.
NoDoubleBooking ==
    \A p, q \in Requests :
        \/ p = q
        \/ ~Active(reservations[p])
        \/ ~Active(reservations[q])
        \/ ~Overlaps(reservations[p], reservations[q].start, reservations[q].end)
        \/ reservations[p].tables \cap reservations[q].tables = {}

\* A caller told "busy", "closed" or "full" can simply try again: its call left no row, no
\* code and no event; and the customer's upsert stands or falls with the reservation's
\* insert, so no customer is left behind by a booking that was rolled back.
NoTrace(q) == reservations[q] = NoRow /\ codes[q] = {} /\ q \notin announced

CustomersHaveBooked ==
    customers = {input[q].phone : q \in {r \in Requests : reservations[r].status # "NONE"}}

RefusedLeavesNothing ==
    /\ \A q \in Requests : outcome[q] \in {"busy", "closed", "full"} => NoTrace(q)
    /\ CustomersHaveBooked

\* A step that makes a row makes it within the opening hours of that moment: settings
\* cannot change them between the check and the commit, since both need the row.
MadeWithinHours ==
    \A q \in Requests : reservations[q].status = "NONE" /\ reservations'[q].status # "NONE"
                       => input[q].start \in openStarts

BookedWithinHours == [][MadeWithinHours]_vars

\* A caller is told "full" only if each table that is on and suits the party was
\* taken, for part of the window asked for, by a reservation that exists.
FullMeansBooked ==
    [][\A q \in Requests : outcome[q] # "full" /\ outcome'[q] = "full" =>
         \A t \in AvailableTables(activeTables, {}, input[q].guests) :
             \E r \in Requests :
                 /\ t \in reservations[r].tables
                 /\ Overlaps(reservations[r], input[q].start, InputEnd(input[q]))]_vars

\* Every call that begins ends, whatever the others do: no waiting on a lost lock.
EveryCallEnds ==
    \A q \in Requests : pc[q] # "idle" ~> pc[q] \in Ended

\* The rows implement the ledger: a commit takes tables, a retirement gives them back,
\* and every other step leaves what is held alone.
HoldOf(row) == [tables |-> IF Active(row) THEN row.tables ELSE {},
                start  |-> row.start,
                end    |-> row.end]

Held == [q \in Requests |-> HoldOf(reservations[q])]

Ledger == INSTANCE TableLedger WITH Bookings <- Requests, held <- Held

ImplementsLedger == Ledger!Spec

\* "El sistema está procesando otra reserva para este restaurante": the refusal of
\* RefuseBusy takes the Redis key for the mark of the one call being processed.
OneCallAtATime ==
    \A p, q \in Requests :
        pc[p] \in Running /\ pc[q] \in Running => p = q
-----------------------------------------------------------------------------
(* The inductive invariant *)

\* The row lock is held by exactly the call inside its transaction.
RowLockInv == \A q \in Requests : pc[q] \in InTransaction <=> rowLock = q

\* What a call has learnt holds until it commits: the hours admit its start, every
\* active reservation on a table in its window is in its answer to the first query, and
\* its table is not.
ChecksHold ==
    \A q \in Requests :
        /\ pc[q] \in InTransaction \ {"inTx"} => input[q].start \in openStarts
        /\ pc[q] \in {"bookedRead", "picked", "inserted"} =>
             BookedTables(reservations, input[q].start, InputEnd(input[q]), {}) \subseteq booked[q]
        /\ pc[q] \in {"picked", "inserted"} => table[q] \cap booked[q] = {}

\* A row, its code and its event appear when its call commits and not before.
RowsFollowCommit ==
    \A q \in Requests :
        /\ pc[q] \in {"idle", "locked"} \cup InTransaction => NoTrace(q)
        /\ outcome[q] \in {"busy", "closed", "full"} =>
             pc[q] \in {"releasing"} \cup Ended /\ NoTrace(q)

IInv == TypeOK /\ RowLockInv /\ ChecksHold /\ RowsFollowCommit /\ NoDoubleBooking
=============================================================================
