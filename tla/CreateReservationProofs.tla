---------------------- MODULE CreateReservationProofs ----------------------
(***************************************************************************)
(* Theorems about CreateReservation, for every set of requests, tables,    *)
(* inputs and codes.  The argument never mentions the Redis lock: what     *)
(* excludes double bookings is the restaurant's row lock alone.            *)
(***************************************************************************)
EXTENDS CreateReservation, TLAPS

\* The end of the stay a caller asks for is an instant.
LEMMA InputEndIsInstant ==
    ASSUME NEW in \in BookingInput
    PROVE  InputEnd(in) \in Instants
BY DEF BookingInput, InputEnd, Instants

\* The query for booked tables answers with tables.
LEMMA BookedTablesAreTables ==
    ASSUME NEW rows \in [Requests -> ReservationRow], NEW start, NEW end, NEW except
    PROVE  BookedTables(rows, start, end, except) \subseteq Tables
BY DEF BookedTables, ReservationRow

\* A committed row has the type of a row.
LEMMA NewRowIsRow ==
    ASSUME NEW in \in BookingInput, NEW ts \in SUBSET Tables
    PROVE  NewRow(in, ts) \in ReservationRow
<1>1. InputEnd(in) \in Instants
  BY InputEndIsInstant
<1>2. in.start \in Instants /\ in.guests \in Parties
  BY DEF BookingInput, Instants
<1> QED
  BY <1>1, <1>2 DEF NewRow, ReservationRow, STATUSES, ACTIVE_STATUSES

LEMMA NoRowIsRow == NoRow \in ReservationRow
BY DEF NoRow, ReservationRow, Instants

\* A transaction that rolls back leaves every variable of its type.
LEMMA RollbackType ==
    ASSUME TypeOK, NEW q \in Requests, NEW why \in Outcomes, Rollback(q, why)
    PROVE  TypeOK'
BY DEF TypeOK, Rollback, Goto, ForgetLocals, Stages, Running, Ended, storeVars, floorVars

LEMMA InitType == Init => TypeOK
<1> SUFFICES ASSUME Init PROVE TypeOK
  OBVIOUS
<1>1. pc \in [Requests -> Stages] /\ outcome \in [Requests -> Outcomes]
  BY DEF Init, Stages, Outcomes
<1>2. reservations \in [Requests -> ReservationRow]
  BY NoRowIsRow DEF Init
<1>3. /\ booked \in [Requests -> SUBSET Tables]
      /\ table \in [Requests -> SUBSET Tables]
      /\ code \in [Requests -> SUBSET Codes]
      /\ codes \in [Requests -> SUBSET Codes]
  BY DEF Init
<1>4. /\ input \in [Requests -> BookingInput]
      /\ redisLock \in BOOLEAN
      /\ rowLock \in Requests \cup {Nobody}
      /\ customers \subseteq Phones
      /\ activeTables \subseteq Tables
      /\ openStarts \subseteq Starts
      /\ announced \subseteq Requests
  BY DEF Init
<1> QED
  BY <1>1, <1>2, <1>3, <1>4 DEF TypeOK

LEMMA TypeStep == TypeOK /\ [Next]_vars => TypeOK'
<1> SUFFICES ASSUME TypeOK, [Next]_vars PROVE TypeOK'
  OBVIOUS
<1> USE DEF storeVars, floorVars, Goto, Stages, Running, InTransaction, Ended, Outcomes
<1>1. ASSUME NEW q \in Requests, AcquireLock(q) PROVE TypeOK'
  BY <1>1 DEF TypeOK, AcquireLock
<1>2. ASSUME NEW q \in Requests, RefuseBusy(q) PROVE TypeOK'
  BY <1>2 DEF TypeOK, RefuseBusy
<1>3. ASSUME NEW q \in Requests, LockRow(q) PROVE TypeOK'
  BY <1>3 DEF TypeOK, LockRow
<1>4. ASSUME NEW q \in Requests, EnsureReservable(q) PROVE TypeOK'
  BY <1>4 DEF TypeOK, EnsureReservable
<1>5. ASSUME NEW q \in Requests,
             RejectClosed(q) \/ RejectFull(q) \/ RejectCode(q) \/ TimeOut(q)
      PROVE  TypeOK'
  BY <1>5, RollbackType DEF RejectClosed, RejectFull, RejectCode, TimeOut
<1>6. ASSUME NEW q \in Requests, ReadBooked(q) PROVE TypeOK'
  <2>1. BookedTables(reservations, input[q].start, InputEnd(input[q]), {}) \subseteq Tables
    BY BookedTablesAreTables DEF TypeOK
  <2> QED
    BY <1>6, <2>1 DEF TypeOK, ReadBooked
<1>7. ASSUME NEW q \in Requests, PickTable(q) PROVE TypeOK'
  BY <1>7 DEF TypeOK, PickTable, FirstTables, AvailableTables
<1>8. ASSUME NEW q \in Requests, InsertRows(q) PROVE TypeOK'
  BY <1>8 DEF TypeOK, InsertRows
<1>9. ASSUME NEW q \in Requests, Commit(q) \/ CommitUnacknowledged(q) PROVE TypeOK'
  <2>1. NewRow(input[q], table[q]) \in ReservationRow
    BY NewRowIsRow DEF TypeOK
  <2>2. input[q].phone \in Phones
    BY DEF TypeOK, BookingInput
  <2>3. CASE Commit(q)
    BY <2>1, <2>2, <2>3 DEF TypeOK, Commit, ForgetLocals
  <2>4. CASE CommitUnacknowledged(q)
    BY <2>1, <2>2, <2>4 DEF TypeOK, CommitUnacknowledged, ForgetLocals
  <2> QED
    BY <1>9, <2>3, <2>4
<1>10. ASSUME NEW q \in Requests, Announce(q) \/ ReleaseLock(q) \/ Crash(q) PROVE TypeOK'
  BY <1>10 DEF TypeOK, Announce, ReleaseLock, Crash, ForgetLocals
<1>11. CASE ExpireLock
  BY <1>11 DEF TypeOK, ExpireLock, callVars
<1>12. ASSUME NEW r \in Requests, NEW status \in EndStatuses, Retire(r, status) PROVE TypeOK'
  <2>1. [reservations[r] EXCEPT !.status = status] \in ReservationRow
    BY EnvironmentAssumption DEF TypeOK, ReservationRow
  <2> QED
    BY <1>12, <2>1 DEF TypeOK, Retire, callVars
<1>13. ASSUME NEW t \in Switchable, SwitchTable(t) PROVE TypeOK'
  BY <1>13, EnvironmentAssumption DEF TypeOK, SwitchTable, callVars
<1>14. ASSUME NEW starts \in HourChoices, ChangeHours(starts) PROVE TypeOK'
  BY <1>14, EnvironmentAssumption DEF TypeOK, ChangeHours, callVars
<1>15. CASE UNCHANGED vars
  BY <1>15 DEF TypeOK, vars, callVars
<1> QED
  BY <1>1, <1>2, <1>3, <1>4, <1>5, <1>6, <1>7, <1>8, <1>9, <1>10, <1>11, <1>12, <1>13,
     <1>14, <1>15 DEF Next, Call, Proceed, Fault, Environment

\* Type correctness of the model, for every value of the constants.
THEOREM TypeCorrect == Spec => []TypeOK
BY InitType, TypeStep, PTL DEF Spec
-----------------------------------------------------------------------------
(* Which steps touch the rows *)

\* A step leaves the rows alone, or commits a booking, or retires one.
LEMMA RowSteps ==
    ASSUME [Next]_vars
    PROVE  \/ UNCHANGED reservations
           \/ \E q \in Requests : Commit(q) \/ CommitUnacknowledged(q)
           \/ \E r \in Requests, status \in EndStatuses : Retire(r, status)
<1>1. ASSUME NEW q \in Requests, Call(q) PROVE UNCHANGED reservations
  BY <1>1 DEF Call, AcquireLock, RefuseBusy, storeVars
<1>2. ASSUME NEW q \in Requests, Proceed(q), ~Commit(q) PROVE UNCHANGED reservations
  BY <1>2 DEF Proceed, LockRow, EnsureReservable, RejectClosed, ReadBooked, PickTable,
              RejectFull, InsertRows, RejectCode, Announce, ReleaseLock, Rollback, storeVars
<1>3. ASSUME NEW q \in Requests, TimeOut(q) \/ Crash(q) PROVE UNCHANGED reservations
  BY <1>3 DEF TimeOut, Crash, Rollback, storeVars
<1>4. ASSUME Environment, ~\E r \in Requests, status \in EndStatuses : Retire(r, status)
      PROVE  UNCHANGED reservations
  BY <1>4 DEF Environment, ExpireLock, SwitchTable, ChangeHours, storeVars
<1>5. UNCHANGED vars => UNCHANGED reservations
  BY DEF vars, storeVars
<1> QED
  BY <1>1, <1>2, <1>3, <1>4, <1>5 DEF Next, Fault

\* What a caller asked for never changes.
LEMMA InputStays == [Next]_vars => UNCHANGED input
<1> SUFFICES ASSUME [Next]_vars PROVE UNCHANGED input
  OBVIOUS
<1>1. ASSUME NEW q \in Requests, Call(q) PROVE input' = input
  BY <1>1 DEF Call, AcquireLock, RefuseBusy
<1>2. ASSUME NEW q \in Requests, Proceed(q) PROVE input' = input
  BY <1>2 DEF Proceed, LockRow, EnsureReservable, RejectClosed, ReadBooked, PickTable,
              RejectFull, InsertRows, RejectCode, Announce, ReleaseLock, Rollback, Commit
<1>3. ASSUME NEW q \in Requests, Fault(q) PROVE input' = input
  BY <1>3 DEF Fault, TimeOut, Crash, CommitUnacknowledged, Rollback
<1>4. CASE Environment
  BY <1>4 DEF Environment, ExpireLock, Retire, SwitchTable, ChangeHours, callVars
<1> QED
  BY <1>1, <1>2, <1>3, <1>4 DEF Next, vars, callVars

\* A commit replaces the blank row of its request, and touches no other row.
LEMMA CommitRows ==
    ASSUME TypeOK, RowsFollowCommit, NEW q \in Requests, Commit(q) \/ CommitUnacknowledged(q)
    PROVE  /\ pc[q] = "inserted"
           /\ reservations[q] = NoRow
           /\ reservations' = [reservations EXCEPT ![q] = NewRow(input[q], table[q])]
BY DEF Commit, CommitUnacknowledged, RowsFollowCommit, NoTrace, InTransaction
-----------------------------------------------------------------------------
(* The row lock *)

\* A transaction that ends gives the row lock up, and it was its own.
LEMMA RowLockStep == TypeOK /\ RowLockInv /\ [Next]_vars => RowLockInv'
<1> SUFFICES ASSUME TypeOK, RowLockInv, [Next]_vars PROVE RowLockInv'
  OBVIOUS
<1> USE NobodyAssumption DEF TypeOK, RowLockInv, Goto, InTransaction
<1>1. ASSUME NEW q \in Requests,
             \/ AcquireLock(q) \/ RefuseBusy(q) \/ EnsureReservable(q) \/ ReadBooked(q)
             \/ PickTable(q) \/ InsertRows(q) \/ Announce(q) \/ ReleaseLock(q)
      PROVE  RowLockInv'
  BY <1>1 DEF AcquireLock, RefuseBusy, EnsureReservable, ReadBooked, PickTable, InsertRows,
              Announce, ReleaseLock
<1>2. ASSUME NEW q \in Requests, LockRow(q) PROVE RowLockInv'
  BY <1>2 DEF LockRow
<1>3. ASSUME NEW q \in Requests,
             RejectClosed(q) \/ RejectFull(q) \/ RejectCode(q) \/ TimeOut(q)
      PROVE  RowLockInv'
  BY <1>3 DEF RejectClosed, RejectFull, RejectCode, TimeOut, Rollback
<1>4. ASSUME NEW q \in Requests, Commit(q) \/ CommitUnacknowledged(q) PROVE RowLockInv'
  BY <1>4 DEF Commit, CommitUnacknowledged
<1>5. ASSUME NEW q \in Requests, Crash(q) PROVE RowLockInv'
  BY <1>5 DEF Crash, Running
<1>6. CASE Environment
  BY <1>6 DEF Environment, ExpireLock, Retire, SwitchTable, ChangeHours, callVars
<1>7. CASE UNCHANGED vars
  BY <1>7 DEF vars, callVars
<1> QED
  BY <1>1, <1>2, <1>3, <1>4, <1>5, <1>6, <1>7 DEF Next, Call, Proceed, Fault
-----------------------------------------------------------------------------
(* Rows appear at the commit *)

LEMMA RowsFollowCommitStep ==
    TypeOK /\ RowsFollowCommit /\ [Next]_vars => RowsFollowCommit'
<1> SUFFICES ASSUME TypeOK, RowsFollowCommit, [Next]_vars PROVE RowsFollowCommit'
  OBVIOUS
<1> USE DEF TypeOK, RowsFollowCommit, NoTrace, Ended, Goto, InTransaction, storeVars
<1>1. ASSUME NEW q \in Requests,
             \/ AcquireLock(q) \/ RefuseBusy(q) \/ LockRow(q) \/ EnsureReservable(q)
             \/ ReadBooked(q) \/ PickTable(q) \/ InsertRows(q) \/ Announce(q) \/ ReleaseLock(q)
      PROVE  RowsFollowCommit'
  BY <1>1 DEF AcquireLock, RefuseBusy, LockRow, EnsureReservable, ReadBooked, PickTable,
              InsertRows, Announce, ReleaseLock
<1>2. ASSUME NEW q \in Requests,
             RejectClosed(q) \/ RejectFull(q) \/ RejectCode(q) \/ TimeOut(q)
      PROVE  RowsFollowCommit'
  BY <1>2 DEF RejectClosed, RejectFull, RejectCode, TimeOut, Rollback
<1>3. ASSUME NEW q \in Requests, Commit(q) \/ CommitUnacknowledged(q)
      PROVE  RowsFollowCommit'
  BY <1>3 DEF Commit, CommitUnacknowledged
<1>4. ASSUME NEW q \in Requests, Crash(q) PROVE RowsFollowCommit'
  BY <1>4 DEF Crash, Running
<1>5. ASSUME NEW r \in Requests, NEW status \in EndStatuses, Retire(r, status)
      PROVE  RowsFollowCommit'
  <2>1. reservations[r] # NoRow
    BY <1>5 DEF Retire, NoRow
  <2>2. \A q \in Requests : q # r => reservations'[q] = reservations[q]
    BY <1>5 DEF Retire
  <2>3. UNCHANGED <<pc, outcome, codes, announced>>
    BY <1>5 DEF Retire, callVars
  <2> QED
    BY <2>1, <2>2, <2>3
<1>6. CASE \/ ExpireLock
           \/ \E t \in Switchable : SwitchTable(t)
           \/ \E starts \in HourChoices : ChangeHours(starts)
  BY <1>6 DEF ExpireLock, SwitchTable, ChangeHours, callVars
<1>7. CASE UNCHANGED vars
  BY <1>7 DEF vars, callVars
<1> QED
  BY <1>1, <1>2, <1>3, <1>4, <1>5, <1>6, <1>7 DEF Next, Call, Proceed, Fault, Environment
-----------------------------------------------------------------------------
(* What a transaction has checked stays true *)

\* Retiring a reservation only takes tables out of the answer to the first query.
LEMMA RetireShrinksBooked ==
    ASSUME TypeOK, NEW r \in Requests, NEW status \in EndStatuses, Retire(r, status),
           NEW start, NEW end, NEW except
    PROVE  BookedTables(reservations', start, end, except)
             \subseteq BookedTables(reservations, start, end, except)
<1>1. \A o \in Requests : reservations'[o].tables = reservations[o].tables
  BY DEF Retire, TypeOK, ReservationRow
<1>2. \A o \in Requests : Active(reservations'[o]) /\ Overlaps(reservations'[o], start, end)
                          => Active(reservations[o]) /\ Overlaps(reservations[o], start, end)
  BY EnvironmentAssumption
     DEF Retire, TypeOK, ReservationRow, Active, Overlaps, STATUSES, ACTIVE_STATUSES
<1> QED
  BY <1>1, <1>2 DEF BookedTables

LEMMA ChecksHoldStep ==
    TypeOK /\ RowLockInv /\ ChecksHold /\ [Next]_vars => ChecksHold'
<1> SUFFICES ASSUME TypeOK, RowLockInv, ChecksHold, [Next]_vars PROVE ChecksHold'
  OBVIOUS
<1> USE DEF TypeOK, Goto, InTransaction, storeVars, floorVars
<1>1. ASSUME NEW q \in Requests,
             AcquireLock(q) \/ RefuseBusy(q) \/ LockRow(q) \/ Announce(q) \/ ReleaseLock(q)
      PROVE  ChecksHold'
  BY <1>1 DEF ChecksHold, AcquireLock, RefuseBusy, LockRow, Announce, ReleaseLock
<1>2. ASSUME NEW q \in Requests, EnsureReservable(q) PROVE ChecksHold'
  BY <1>2 DEF ChecksHold, EnsureReservable
<1>3. ASSUME NEW q \in Requests, ReadBooked(q) PROVE ChecksHold'
  BY <1>3 DEF ChecksHold, ReadBooked
<1>4. ASSUME NEW q \in Requests, PickTable(q) PROVE ChecksHold'
  BY <1>4 DEF ChecksHold, PickTable, FirstTables, AvailableTables
<1>5. ASSUME NEW q \in Requests, InsertRows(q) PROVE ChecksHold'
  BY <1>5 DEF ChecksHold, InsertRows
<1>6. ASSUME NEW q \in Requests,
             RejectClosed(q) \/ RejectFull(q) \/ RejectCode(q) \/ TimeOut(q) \/ Crash(q)
      PROVE  ChecksHold'
  BY <1>6 DEF ChecksHold, RejectClosed, RejectFull, RejectCode, TimeOut, Crash, Rollback,
              ForgetLocals
<1>7. ASSUME NEW q \in Requests, Commit(q) \/ CommitUnacknowledged(q) PROVE ChecksHold'
  <2>1. \A o \in Requests : o # q => pc[o] \notin InTransaction
    BY <1>7 DEF RowLockInv, Commit, CommitUnacknowledged
  <2> QED
    BY <1>7, <2>1 DEF ChecksHold, Commit, CommitUnacknowledged
<1>8. ASSUME NEW r \in Requests, NEW status \in EndStatuses, Retire(r, status)
      PROVE  ChecksHold'
  <2>1. UNCHANGED <<pc, input, booked, table, openStarts>>
    BY <1>8 DEF Retire, callVars
  <2>2. ASSUME NEW q \in Requests, pc[q] \in {"bookedRead", "picked", "inserted"}
        PROVE  BookedTables(reservations', input[q].start, InputEnd(input[q]), {})
                 \subseteq booked[q]
    BY <1>8, <2>2, RetireShrinksBooked DEF ChecksHold
  <2> QED
    BY <2>1, <2>2 DEF ChecksHold
<1>9. CASE ExpireLock \/ \E t \in Switchable : SwitchTable(t)
  BY <1>9 DEF ChecksHold, ExpireLock, SwitchTable, callVars
<1>10. ASSUME NEW starts \in HourChoices, ChangeHours(starts) PROVE ChecksHold'
  <2>1. \A q \in Requests : pc[q] \notin InTransaction
    BY <1>10, NobodyAssumption DEF RowLockInv, ChangeHours
  <2> QED
    BY <1>10, <2>1 DEF ChecksHold, ChangeHours, callVars
<1>11. CASE UNCHANGED vars
  BY <1>11 DEF ChecksHold, vars, callVars
<1> QED
  BY <1>1, <1>2, <1>3, <1>4, <1>5, <1>6, <1>7, <1>8, <1>9, <1>10, <1>11
     DEF Next, Call, Proceed, Fault, Environment
-----------------------------------------------------------------------------
(* No double booking *)

\* The row a commit adds shares no table with an active reservation in its window.
LEMMA CommitTakesFreeTable ==
    ASSUME TypeOK, ChecksHold, NEW q \in Requests, pc[q] = "inserted",
           NEW o \in Requests, Active(reservations[o]),
           Overlaps(reservations[o], input[q].start, InputEnd(input[q]))
    PROVE  reservations[o].tables \cap table[q] = {}
<1>1. reservations[o].tables
        \subseteq BookedTables(reservations, input[q].start, InputEnd(input[q]), {})
  BY DEF BookedTables
<1> QED
  BY <1>1 DEF ChecksHold

LEMMA NoDoubleBookingStep ==
    TypeOK /\ ChecksHold /\ NoDoubleBooking /\ [Next]_vars => NoDoubleBooking'
<1> SUFFICES ASSUME TypeOK, ChecksHold, NoDoubleBooking, [Next]_vars
             PROVE  NoDoubleBooking'
  OBVIOUS
<1>1. CASE UNCHANGED reservations
  BY <1>1 DEF NoDoubleBooking
<1>2. ASSUME NEW q \in Requests, Commit(q) \/ CommitUnacknowledged(q)
      PROVE  NoDoubleBooking'
  <2> DEFINE row == NewRow(input[q], table[q])
  <2>1. /\ pc[q] = "inserted"
        /\ reservations'[q] = row
        /\ \A o \in Requests \ {q} : reservations'[o] = reservations[o]
    BY <1>2 DEF Commit, CommitUnacknowledged, TypeOK
  <2>2. row.start = input[q].start /\ row.end = InputEnd(input[q]) /\ row.tables = table[q]
    BY DEF NewRow
  <2>3. ASSUME NEW o \in Requests \ {q}, Active(reservations[o])
        PROVE  /\ Overlaps(reservations[o], row.start, row.end) =>
                    reservations[o].tables \cap row.tables = {}
               /\ Overlaps(row, reservations[o].start, reservations[o].end) =>
                    row.tables \cap reservations[o].tables = {}
    <3>1. Overlaps(row, reservations[o].start, reservations[o].end)
            <=> Overlaps(reservations[o], row.start, row.end)
      BY DEF Overlaps
    <3> HIDE DEF row
    <3>2. Overlaps(reservations[o], row.start, row.end) =>
            reservations[o].tables \cap row.tables = {}
      BY <2>1, <2>2, <2>3, CommitTakesFreeTable
    <3> QED
      BY <3>1, <3>2
  <2> HIDE DEF row
  <2> QED
    BY <2>1, <2>3 DEF NoDoubleBooking
<1>3. ASSUME NEW r \in Requests, NEW status \in EndStatuses, Retire(r, status)
      PROVE  NoDoubleBooking'
  <2>1. \A o \in Requests : Active(reservations'[o]) => reservations'[o] = reservations[o]
    BY <1>3, EnvironmentAssumption
       DEF Retire, TypeOK, ReservationRow, Active, STATUSES, ACTIVE_STATUSES
  <2> QED
    BY <2>1 DEF NoDoubleBooking
<1> QED
  BY <1>1, <1>2, <1>3, RowSteps
-----------------------------------------------------------------------------
LEMMA InitIInv == Init => IInv
<1> SUFFICES ASSUME Init PROVE IInv
  OBVIOUS
<1>1. RowLockInv
  BY NobodyAssumption DEF Init, RowLockInv, InTransaction
<1>2. ChecksHold /\ RowsFollowCommit
  BY DEF Init, ChecksHold, RowsFollowCommit, NoTrace, InTransaction
<1>3. NoDoubleBooking
  BY DEF Init, NoDoubleBooking, NoRow
<1> QED
  BY <1>1, <1>2, <1>3, InitType DEF IInv

\* The conjunction of the parts is inductive.
THEOREM IInvInvariant == Spec => []IInv
<1>1. IInv /\ [Next]_vars => IInv'
  BY TypeStep, RowLockStep, RowsFollowCommitStep, ChecksHoldStep, NoDoubleBookingStep DEF IInv
<1> QED
  BY <1>1, InitIInv, PTL DEF Spec

\* No overbooking: whatever the Redis lock does, no two active reservations share a table
\* at the same time, for any number of requests, tables and windows.
THEOREM NoOverbooking == Spec => []NoDoubleBooking
BY IInvInvariant, PTL DEF IInv

\* Customers appear with the first row of theirs, in the commit that makes it.
LEMMA CustomersStep == TypeOK /\ RowsFollowCommit /\ CustomersHaveBooked /\ [Next]_vars
                       => CustomersHaveBooked'
<1> SUFFICES ASSUME TypeOK, RowsFollowCommit, CustomersHaveBooked, [Next]_vars
             PROVE  CustomersHaveBooked'
  OBVIOUS
<1> DEFINE Made == {r \in Requests : reservations[r].status # "NONE"}
<1>1. input' = input
  BY InputStays
<1>2. CASE UNCHANGED <<reservations, customers>>
  BY <1>1, <1>2 DEF CustomersHaveBooked
<1>3. ASSUME NEW q \in Requests, Commit(q) \/ CommitUnacknowledged(q)
      PROVE  CustomersHaveBooked'
  <2>1. customers' = customers \cup {input[q].phone}
    BY <1>3 DEF Commit, CommitUnacknowledged
  <2>2. NewRow(input[q], table[q]).status # "NONE"
    BY DEF NewRow
  <2>3. Made' = Made \cup {q}
    BY <1>3, <2>2, CommitRows DEF TypeOK
  <2> QED
    BY <1>1, <2>1, <2>3 DEF CustomersHaveBooked
<1>4. ASSUME NEW r \in Requests, NEW status \in EndStatuses, Retire(r, status)
      PROVE  CustomersHaveBooked'
  <2>1. status # "NONE"
    BY EnvironmentAssumption DEF STATUSES
  <2>2. Made' = Made /\ customers' = customers
    BY <1>4, <2>1 DEF Retire, TypeOK, ReservationRow
  <2> QED
    BY <1>1, <2>2 DEF CustomersHaveBooked
<1>5. \/ UNCHANGED <<reservations, customers>>
      \/ \E q \in Requests : Commit(q) \/ CommitUnacknowledged(q)
      \/ \E r \in Requests, status \in EndStatuses : Retire(r, status)
  <2>1. ASSUME NEW q \in Requests, Call(q) PROVE UNCHANGED <<reservations, customers>>
    BY <2>1 DEF Call, AcquireLock, RefuseBusy, storeVars
  <2>2. ASSUME NEW q \in Requests, Proceed(q), ~Commit(q)
        PROVE  UNCHANGED <<reservations, customers>>
    BY <2>2 DEF Proceed, LockRow, EnsureReservable, RejectClosed, ReadBooked, PickTable,
                RejectFull, InsertRows, RejectCode, Announce, ReleaseLock, Rollback, storeVars
  <2>3. ASSUME NEW q \in Requests, TimeOut(q) \/ Crash(q)
        PROVE  UNCHANGED <<reservations, customers>>
    BY <2>3 DEF TimeOut, Crash, Rollback, storeVars
  <2>4. ASSUME Environment, ~\E r \in Requests, status \in EndStatuses : Retire(r, status)
        PROVE  UNCHANGED <<reservations, customers>>
    BY <2>4 DEF Environment, ExpireLock, SwitchTable, ChangeHours, storeVars
  <2> QED
    BY <2>1, <2>2, <2>3, <2>4 DEF Next, Fault, vars, storeVars
<1> QED
  BY <1>2, <1>3, <1>4, <1>5

\* A refused call rolls back to nothing: no row, no code, no event, and no customer that has
\* not booked.
THEOREM RefusalsAreClean == Spec => []RefusedLeavesNothing
<1>1. Init => CustomersHaveBooked
  BY DEF Init, CustomersHaveBooked, NoRow
<1>2. IInv /\ CustomersHaveBooked /\ [Next]_vars => CustomersHaveBooked'
  BY CustomersStep DEF IInv
<1>3. IInv /\ CustomersHaveBooked => RefusedLeavesNothing
  BY DEF IInv, RowsFollowCommit, RefusedLeavesNothing
<1> QED
  BY <1>1, <1>2, <1>3, IInvInvariant, PTL DEF Spec
-----------------------------------------------------------------------------
\* A row is only ever made for a start that the opening hours admit at that moment.
THEOREM OnlyWithinHours == Spec => BookedWithinHours
<1>1. IInv /\ [Next]_vars => MadeWithinHours
  <2> SUFFICES ASSUME IInv, [Next]_vars PROVE MadeWithinHours
    OBVIOUS
  <2>1. CASE UNCHANGED reservations
    BY <2>1 DEF MadeWithinHours
  <2>2. ASSUME NEW q \in Requests, Commit(q) \/ CommitUnacknowledged(q) PROVE MadeWithinHours
    <3>1. pc[q] = "inserted" /\ \A o \in Requests \ {q} : reservations'[o] = reservations[o]
      BY <2>2, CommitRows DEF IInv, TypeOK
    <3>2. input[q].start \in openStarts
      BY <3>1 DEF IInv, ChecksHold, InTransaction
    <3> QED
      BY <3>1, <3>2 DEF MadeWithinHours
  <2>3. ASSUME NEW r \in Requests, NEW status \in EndStatuses, Retire(r, status)
        PROVE  MadeWithinHours
    BY <2>3 DEF MadeWithinHours, Retire, IInv, TypeOK
  <2> QED
    BY <2>1, <2>2, <2>3, RowSteps
<1> QED
  BY <1>1, IInvInvariant, PTL DEF Spec, BookedWithinHours
-----------------------------------------------------------------------------
(* The use case implements the ledger *)

\* A row maps to a hold of the ledger.
LEMMA HoldOfRow ==
    ASSUME NEW row \in ReservationRow
    PROVE  HoldOf(row) \in Ledger!Hold
BY DEF ReservationRow, HoldOf, Ledger!Hold

LEMMA InitMapsToInit == Init => Ledger!Init
<1> SUFFICES ASSUME Init PROVE Ledger!Init
  OBVIOUS
<1>1. Held \in [Requests -> Ledger!Hold]
  BY InitType, HoldOfRow DEF Held, TypeOK
<1>2. \A q \in Requests : Held[q].tables = {}
  BY DEF Init, Held, HoldOf, NoRow
<1> QED
  BY <1>1, <1>2 DEF Ledger!Init, Ledger!Free

\* A commit takes the table it picked.
LEMMA CommitTakes ==
    ASSUME IInv, IInv', NEW q \in Requests, Commit(q) \/ CommitUnacknowledged(q)
    PROVE  \E h \in Ledger!Hold : Ledger!Take(q, h)
<1> DEFINE h == HoldOf(reservations'[q])
<1>1. /\ pc[q] = "inserted"
      /\ reservations[q] = NoRow
      /\ reservations' = [reservations EXCEPT ![q] = NewRow(input[q], table[q])]
  BY CommitRows DEF IInv
<1>2. h \in Ledger!Hold
  BY HoldOfRow DEF IInv, TypeOK
<1>3. Held' = [Held EXCEPT ![q] = h]
  BY <1>1 DEF Held, IInv, TypeOK
<1>4. Ledger!Free(q)
  BY <1>1 DEF Ledger!Free, Held, HoldOf, NoRow
<1>5. ASSUME NEW c \in Requests \ {q} PROVE ~Ledger!Collide(h, Held[c])
  <2>1. reservations'[c] = reservations[c]
    BY <1>1 DEF IInv, TypeOK
  <2>2. Held[c] = HoldOf(reservations'[c])
    BY <2>1 DEF Held
  <2>3. ~Ledger!Collide(HoldOf(reservations'[q]), HoldOf(reservations'[c]))
    BY DEF IInv, NoDoubleBooking, HoldOf, Overlaps, Ledger!Collide
  <2> QED
    BY <2>2, <2>3
<1> QED
  BY <1>2, <1>3, <1>4, <1>5 DEF Ledger!Take

\* A retirement gives the tables back, or changes nothing that is held.
LEMMA RetireGivesBack ==
    ASSUME TypeOK, NEW r \in Requests, NEW status \in EndStatuses, Retire(r, status)
    PROVE  Ledger!GiveBack(r) \/ UNCHANGED Held
<1>1. /\ reservations' = [reservations EXCEPT ![r] = [reservations[r] EXCEPT !.status = status]]
      /\ reservations[r] \in ReservationRow
  BY DEF Retire, TypeOK
<1>2. HoldOf(reservations'[r]) = [HoldOf(reservations[r]) EXCEPT !.tables = {}]
  <2>1. /\ ~Active(reservations'[r])
        /\ reservations'[r].start = reservations[r].start
        /\ reservations'[r].end = reservations[r].end
    BY <1>1, EnvironmentAssumption DEF Active, ACTIVE_STATUSES, TypeOK, ReservationRow
  <2>2. HoldOf(reservations'[r])
          = [tables |-> {}, start |-> reservations[r].start, end |-> reservations[r].end]
    BY <2>1 DEF HoldOf
  <2> QED
    BY <2>2 DEF HoldOf
<1> DEFINE freed == [HoldOf(reservations[r]) EXCEPT !.tables = {}]
<1>3. Held' = [Held EXCEPT ![r] = freed]
  <2> HIDE DEF freed
  <2>1. HoldOf(reservations'[r]) = freed
    BY <1>2 DEF freed
  <2>2. \A q \in Requests \ {r} : reservations'[q] = reservations[q]
    BY DEF Retire, TypeOK
  <2>3. Held' = [q \in Requests |-> HoldOf(reservations'[q])]
    BY DEF Held
  <2>4. [Held EXCEPT ![r] = freed]
          = [q \in Requests |-> IF q = r THEN freed ELSE HoldOf(reservations[q])]
    BY DEF Held
  <2>5. \A q \in Requests : HoldOf(reservations'[q])
                            = IF q = r THEN freed ELSE HoldOf(reservations[q])
    BY <2>1, <2>2
  <2> QED
    BY <2>3, <2>4, <2>5, Zenon
<1>4. Held[r] = HoldOf(reservations[r])
  BY DEF Held
<1>5. CASE Held[r].tables = {}
  <2>1. [HoldOf(reservations[r]) EXCEPT !.tables = {}] = HoldOf(reservations[r])
    BY <1>4, <1>5 DEF HoldOf
  <2> QED
    BY <1>3, <1>4, <2>1 DEF Held
<1>6. CASE Held[r].tables # {}
  <2>1. Held' = [Held EXCEPT ![r].tables = {}]
    BY <1>3, <1>4 DEF Held
  <2> QED
    BY <1>6, <2>1 DEF Ledger!GiveBack, Ledger!Free
<1> QED
  BY <1>5, <1>6

\* Every behaviour of the use case and its environment is one of the ledger: bookings
\* are atomic, exclusive, and hold what they took until they give it back.
THEOREM UseCaseImplementsLedger == Spec => ImplementsLedger
<1>1. IInv /\ IInv' /\ [Next]_vars => [Ledger!Next]_Held
  <2> SUFFICES ASSUME IInv, IInv', [Next]_vars PROVE [Ledger!Next]_Held
    OBVIOUS
  <2>1. CASE UNCHANGED reservations
    BY <2>1 DEF Held
  <2>2. ASSUME NEW q \in Requests, Commit(q) \/ CommitUnacknowledged(q) PROVE Ledger!Next
    BY <2>2, CommitTakes DEF Ledger!Next
  <2>3. ASSUME NEW r \in Requests, NEW status \in EndStatuses, Retire(r, status)
        PROVE  Ledger!Next \/ UNCHANGED Held
    BY <2>3, RetireGivesBack DEF Ledger!Next, IInv
  <2> QED
    BY <2>1, <2>2, <2>3, RowSteps
<1> QED
  BY <1>1, InitMapsToInit, IInvInvariant, PTL DEF Spec, ImplementsLedger, Ledger!Spec
-----------------------------------------------------------------------------
(* "full" means taken *)

\* Everything but the status of a reservation that exists.
RowKept(r) == reservations[r].status # "NONE" =>
                 /\ reservations'[r].tables = reservations[r].tables
                 /\ reservations'[r].guests = reservations[r].guests
                 /\ reservations'[r].start = reservations[r].start
                 /\ reservations'[r].end = reservations[r].end

LEMMA NextKeepsRows ==
    ASSUME TypeOK, RowsFollowCommit, [Next]_vars, NEW r \in Requests
    PROVE  RowKept(r)
<1>1. CASE UNCHANGED reservations
  BY <1>1 DEF RowKept
<1>2. ASSUME NEW q \in Requests, Commit(q) \/ CommitUnacknowledged(q) PROVE RowKept(r)
  BY <1>2, CommitRows DEF RowKept, TypeOK, NoRow
<1>3. ASSUME NEW o \in Requests, NEW status \in EndStatuses, Retire(o, status) PROVE RowKept(r)
  BY <1>3 DEF Retire, TypeOK, ReservationRow, RowKept
<1> QED
  BY <1>1, <1>2, <1>3, RowSteps

\* A table in the answer to a call's first query is on a reservation that exists, in the
\* window the call asks for.
HeldInWindow(q, t) ==
    \E r \in Requests : /\ reservations[r].status # "NONE" /\ t \in reservations[r].tables
                       /\ Overlaps(reservations[r], input[q].start, InputEnd(input[q]))

AnswersHold ==
    \A q \in Requests : pc[q] \in {"bookedRead", "picked", "inserted"} =>
        \A t \in booked[q] : HeldInWindow(q, t)

\* Rows never lose their tables or times, and inputs never change.
LEMMA HeldStays ==
    ASSUME IInv, [Next]_vars, UNCHANGED input, NEW q \in Requests, NEW t, HeldInWindow(q, t)
    PROVE  HeldInWindow(q, t)'
<1>1. PICK r \in Requests : /\ reservations[r].status # "NONE" /\ t \in reservations[r].tables
                            /\ Overlaps(reservations[r], input[q].start, InputEnd(input[q]))
  BY DEF HeldInWindow
<1>2. RowKept(r)
  BY NextKeepsRows DEF IInv
<1>3. reservations'[r].status # "NONE"
  <2>1. CASE UNCHANGED reservations
    BY <1>1, <2>1
  <2>2. ASSUME NEW c \in Requests, Commit(c) \/ CommitUnacknowledged(c)
        PROVE  reservations'[r].status # "NONE"
    BY <1>1, <2>2, CommitRows DEF IInv, TypeOK, NewRow
  <2>3. ASSUME NEW o \in Requests, NEW status \in EndStatuses, Retire(o, status)
        PROVE  reservations'[r].status # "NONE"
    BY <1>1, <2>3, EnvironmentAssumption DEF Retire, IInv, TypeOK, ReservationRow, STATUSES
  <2> QED
    BY <2>1, <2>2, <2>3, RowSteps
<1> QED
  BY <1>1, <1>2, <1>3 DEF HeldInWindow, RowKept, Overlaps

\* An answer is one read before, or the one that this step reads.
LEMMA AnswerStep ==
    ASSUME TypeOK, [Next]_vars, NEW q \in Requests,
           pc'[q] \in {"bookedRead", "picked", "inserted"}
    PROVE  \/ pc[q] \in {"bookedRead", "picked", "inserted"} /\ booked'[q] = booked[q]
           \/ /\ UNCHANGED reservations
              /\ booked'[q] = BookedTables(reservations, input[q].start, InputEnd(input[q]), {})
<1> USE DEF TypeOK, Goto
<1>1. ASSUME NEW c \in Requests, AcquireLock(c) \/ RefuseBusy(c) \/ LockRow(c) \/ Announce(c)
                                  \/ ReleaseLock(c) \/ EnsureReservable(c)
      PROVE  pc[q] \in {"bookedRead", "picked", "inserted"} /\ booked'[q] = booked[q]
  BY <1>1 DEF AcquireLock, RefuseBusy, LockRow, Announce, ReleaseLock, EnsureReservable
<1>2. ASSUME NEW c \in Requests, ReadBooked(c)
      PROVE  \/ pc[q] \in {"bookedRead", "picked", "inserted"} /\ booked'[q] = booked[q]
             \/ /\ UNCHANGED reservations
                /\ booked'[q] = BookedTables(reservations, input[q].start, InputEnd(input[q]), {})
  BY <1>2 DEF ReadBooked, storeVars
<1>3. ASSUME NEW c \in Requests, PickTable(c) \/ InsertRows(c)
      PROVE  pc[q] \in {"bookedRead", "picked", "inserted"} /\ booked'[q] = booked[q]
  BY <1>3 DEF PickTable, InsertRows
<1>4. ASSUME NEW c \in Requests,
             \/ RejectClosed(c) \/ RejectFull(c) \/ RejectCode(c) \/ TimeOut(c) \/ Crash(c)
             \/ Commit(c) \/ CommitUnacknowledged(c)
      PROVE  pc[q] \in {"bookedRead", "picked", "inserted"} /\ booked'[q] = booked[q]
  BY <1>4 DEF RejectClosed, RejectFull, RejectCode, TimeOut, Crash, Commit,
              CommitUnacknowledged, Rollback, ForgetLocals
<1>5. CASE Environment
  BY <1>5 DEF Environment, ExpireLock, Retire, SwitchTable, ChangeHours, callVars
<1>6. CASE UNCHANGED vars
  BY <1>6 DEF vars, callVars
<1> QED
  BY <1>1, <1>2, <1>3, <1>4, <1>5, <1>6 DEF Next, Call, Proceed, Fault

LEMMA AnswersHoldStep == IInv /\ AnswersHold /\ [Next]_vars => AnswersHold'
<1> SUFFICES ASSUME IInv, AnswersHold, [Next]_vars, NEW q \in Requests,
                    pc'[q] \in {"bookedRead", "picked", "inserted"}, NEW t \in booked'[q]
             PROVE  HeldInWindow(q, t)'
  BY DEF AnswersHold
<1>1. UNCHANGED input
  BY InputStays
<1>2. HeldInWindow(q, t)
  <2>1. CASE pc[q] \in {"bookedRead", "picked", "inserted"} /\ booked'[q] = booked[q]
    BY <2>1 DEF AnswersHold
  <2>2. CASE booked'[q] = BookedTables(reservations, input[q].start, InputEnd(input[q]), {})
    BY <2>2 DEF BookedTables, Active, ACTIVE_STATUSES, HeldInWindow
  <2> QED
    BY <2>1, <2>2, AnswerStep DEF IInv
<1> QED
  BY <1>1, <1>2, HeldStays

\* Only RejectFull says "full".
LEMMA OnlyRejectFull ==
    ASSUME TypeOK, [Next]_vars, NEW q \in Requests, outcome[q] # "full", outcome'[q] = "full"
    PROVE  RejectFull(q)
<1> USE DEF TypeOK
<1>1. ASSUME NEW c \in Requests,
             \/ AcquireLock(c) \/ RefuseBusy(c) \/ LockRow(c) \/ EnsureReservable(c)
             \/ ReadBooked(c) \/ PickTable(c) \/ InsertRows(c) \/ Announce(c) \/ ReleaseLock(c)
             \/ Commit(c) \/ CommitUnacknowledged(c) \/ Crash(c)
      PROVE  FALSE
  BY <1>1 DEF AcquireLock, RefuseBusy, LockRow, EnsureReservable, ReadBooked, PickTable,
              InsertRows, Announce, ReleaseLock, Commit, CommitUnacknowledged, Crash
<1>2. ASSUME NEW c \in Requests, RejectClosed(c) \/ RejectCode(c) \/ TimeOut(c)
      PROVE  FALSE
  BY <1>2 DEF RejectClosed, RejectCode, TimeOut, Rollback
<1>3. ASSUME NEW c \in Requests, RejectFull(c) PROVE c = q
  BY <1>3 DEF RejectFull, Rollback
<1>4. CASE Environment
  BY <1>4 DEF Environment, ExpireLock, Retire, SwitchTable, ChangeHours, callVars
<1>5. CASE UNCHANGED vars
  BY <1>5 DEF vars, callVars
<1> QED
  BY <1>1, <1>2, <1>3, <1>4, <1>5 DEF Next, Call, Proceed, Fault

\* A caller is told "full" only if each table that is on and suits the party was taken, for
\* part of the window, by a reservation that exists: no race and no fault makes a call refuse
\* a guest for a table that is free.
THEOREM FullIsTrue == Spec => FullMeansBooked
<1>1. Init => AnswersHold
  BY DEF Init, AnswersHold
<1>2. IInv /\ AnswersHold /\ [Next]_vars =>
        \A q \in Requests : outcome[q] # "full" /\ outcome'[q] = "full" =>
          \A t \in AvailableTables(activeTables, {}, input[q].guests) :
              \E r \in Requests :
                  /\ t \in reservations[r].tables
                  /\ Overlaps(reservations[r], input[q].start, InputEnd(input[q]))
  <2> SUFFICES ASSUME IInv, AnswersHold, [Next]_vars, NEW q \in Requests,
                      outcome[q] # "full", outcome'[q] = "full",
                      NEW t \in AvailableTables(activeTables, {}, input[q].guests)
               PROVE  HeldInWindow(q, t)
    BY DEF HeldInWindow
  <2>1. RejectFull(q)
    BY OnlyRejectFull DEF IInv
  <2>2. t \in booked[q]
    BY <2>1 DEF RejectFull, AvailableTables
  <2> QED
    BY <2>1, <2>2 DEF RejectFull, AnswersHold
<1> QED
  BY <1>1, <1>2, AnswersHoldStep, IInvInvariant, PTL DEF Spec, FullMeansBooked
=============================================================================
