---------------------------- MODULE AgendaProofs ----------------------------
(***************************************************************************)
(* Proofs about ReservationClosing and about the agenda above it, for any  *)
(* number of calls and pages and every fault: the pages change nothing     *)
(* that the calls could not have changed without them, the reasons on file *)
(* stay true, and a page that was told of every change shows the row as it *)
(* is once all is quiet.                                                   *)
(***************************************************************************)
EXTENDS Agenda, TLAPS

Places == {"idle", "find", "write", "audit", "log", "done", "failed"}

\* What a call has done by the time it is where it is.
CallInv ==
    \A c \in Calls :
        /\ Is(c, {"cancel"}) => call[c].target = "CANCELLED"
        /\ Is(c, {"no-show"}) => call[c].target = "NO_SHOW"
        /\ At(c, "audit") => Is(c, {"cancel", "no-show"}) /\ wrote[c] # {}
        /\ At(c, "log") => Is(c, {"no-show"}) /\ c \in noShows

ClosingInv == TypeOK /\ CallInv /\ ReasonsAreReal

\* Init and a step keep the types.
LEMMA StartTyped ==
    ASSUME Init
    PROVE  TypeOK
<1>1. PICK kind \in [Calls -> Kinds], target \in [Calls -> STATUSES] :
        call = [c \in Calls |-> [kind |-> kind[c], target |-> target[c], read |-> {},
                                 at |-> "idle"]]
  BY DEF Init
<1>2. call \in [Calls -> [kind : Kinds, target : STATUSES, read : SUBSET STATUSES, at : Places]]
  BY <1>1 DEF Places
<1>3. status \in STATUSES
  BY DEF Init, STATUSES
<1>4. QED
  BY <1>2, <1>3 DEF Init, TypeOK, Places

\* Where a call goes, the rest of it and the other calls stay.
LEMMA GoTyped ==
    ASSUME TypeOK, NEW c \in Calls, NEW place \in Places, Go(c, place)
    PROVE  /\ call' \in [Calls -> [kind : Kinds, target : STATUSES, read : SUBSET STATUSES,
                                   at : Places]]
           /\ call'[c].at = place /\ call'[c].kind = call[c].kind
           /\ call'[c].target = call[c].target
           /\ \A d \in Calls \ {c} : call'[d] = call[d]
  BY DEF TypeOK, Go, Places

LEMMA AskKeeps ==
    ASSUME ClosingInv, NEW c \in Calls, Ask(c)
    PROVE  ClosingInv'
<1>1. PICK place \in {"write", "find"} : Go(c, place)
  BY DEF Ask
<1>2. /\ call' \in [Calls -> [kind : Kinds, target : STATUSES, read : SUBSET STATUSES,
                              at : Places]]
      /\ call'[c].at = place /\ call'[c].kind = call[c].kind
      /\ call'[c].target = call[c].target
      /\ \A d \in Calls \ {c} : call'[d] = call[d]
  BY <1>1, GoTyped DEF ClosingInv, Places
<1>3. UNCHANGED <<status, stamps, audits, noShows, auditLog, wrote, last>>
  BY DEF Ask
<1>4. TypeOK'
  BY <1>2, <1>3 DEF ClosingInv, TypeOK, Places
<1>5. CallInv'
  BY <1>2, <1>3 DEF ClosingInv, CallInv, Is, At
<1>6. ReasonsAreReal'
  BY <1>2, <1>3 DEF ClosingInv, ReasonsAreReal, Is, At
<1>7. QED
  BY <1>4, <1>5, <1>6 DEF ClosingInv

LEMMA FindKeeps ==
    ASSUME ClosingInv, NEW c \in Calls, Find(c)
    PROVE  ClosingInv'
<1>1. PICK place \in {"write", "done"} :
        /\ call' = [call EXCEPT ![c].read = {status}, ![c].at = place]
        /\ place = "done" => Is(c, {"by code"})
  BY DEF Find
<1>2. /\ call' \in [Calls -> [kind : Kinds, target : STATUSES, read : SUBSET STATUSES,
                              at : Places]]
      /\ call'[c].at = place /\ call'[c].kind = call[c].kind
      /\ call'[c].target = call[c].target
      /\ \A d \in Calls \ {c} : call'[d] = call[d]
  BY <1>1 DEF ClosingInv, TypeOK, Places
<1>3. UNCHANGED <<status, stamps, audits, noShows, auditLog, wrote, last>>
  BY DEF Find
<1>4. TypeOK'
  BY <1>2, <1>3 DEF ClosingInv, TypeOK, Places
<1>5. CallInv'
  BY <1>2, <1>3 DEF ClosingInv, CallInv, Is, At
<1>6. ReasonsAreReal'
  <2>1. /\ audits' \subseteq {d \in Calls : wrote'[d] # {} /\ call'[d].target = "CANCELLED"}
        /\ noShows' \subseteq {d \in Calls : wrote'[d] # {} /\ call'[d].target = "NO_SHOW"}
    BY <1>2, <1>3 DEF ClosingInv, ReasonsAreReal
  <2>2. \A d \in Calls \ {c} : At(d, "done")' =>
            /\ Is(d, {"cancel"})' => d \in audits'
            /\ Is(d, {"no-show"})' => d \in noShows'
    BY <1>2, <1>3 DEF ClosingInv, ReasonsAreReal, Is, At
  <2>3. At(c, "done")' => call'[c].kind = "by code"
    BY <1>1, <1>2 DEF Is, At
  <2>4. QED
    BY <2>1, <2>2, <2>3 DEF ReasonsAreReal, Is
<1>7. QED
  BY <1>4, <1>5, <1>6 DEF ClosingInv

LEMMA WriteKeeps ==
    ASSUME ClosingInv, NEW c \in Calls, Write(c)
    PROVE  ClosingInv'
<1>1. PICK place \in {"audit", "done"} :
        /\ Go(c, place)
        /\ place = "audit" <=> Is(c, {"cancel", "no-show"})
  BY DEF Write
<1>2. /\ call' \in [Calls -> [kind : Kinds, target : STATUSES, read : SUBSET STATUSES,
                              at : Places]]
      /\ call'[c].at = place /\ call'[c].kind = call[c].kind
      /\ call'[c].target = call[c].target
      /\ \A d \in Calls \ {c} : call'[d] = call[d]
  BY <1>1, GoTyped DEF ClosingInv, Places
<1>3. UNCHANGED <<audits, noShows, auditLog>>
  BY DEF Write
<1>4. /\ wrote' \in [Calls -> SUBSET STATUSES] /\ wrote'[c] = {status}
      /\ \A d \in Calls \ {c} : wrote'[d] = wrote[d]
  BY DEF Write, ClosingInv, TypeOK
<1>5. TypeOK'
  <2>1. call[c].target \in STATUSES
    BY DEF ClosingInv, TypeOK
  <2>2. StampOf(call[c].target) \subseteq {"confirmedAt", "completedAt", "cancelledAt", "noShowAt"}
    BY <2>1 DEF StampOf, STATUSES
  <2>3. /\ status' \in STATUSES /\ last' \subseteq Calls
        /\ stamps' \subseteq {"confirmedAt", "completedAt", "cancelledAt", "noShowAt"}
    BY <2>1, <2>2 DEF Write, ClosingInv, TypeOK
  <2>4. /\ audits' \subseteq Calls /\ noShows' \subseteq Calls
        /\ auditLog' \in [Calls -> SUBSET STATUSES]
    BY <1>3 DEF ClosingInv, TypeOK
  <2>5. wrote' \in [Calls -> SUBSET STATUSES]
    BY <1>4
  <2>6. QED
    BY <1>2, <2>3, <2>4, <2>5 DEF TypeOK, Places
<1>6. CallInv'
  BY <1>1, <1>2, <1>3, <1>4 DEF ClosingInv, CallInv, Is, At
<1>7. ReasonsAreReal'
  BY <1>1, <1>2, <1>3, <1>4 DEF ClosingInv, ReasonsAreReal, Is, At
<1>8. QED
  BY <1>5, <1>6, <1>7 DEF ClosingInv

LEMMA AuditKeeps ==
    ASSUME ClosingInv, NEW c \in Calls, Audit(c)
    PROVE  ClosingInv'
<1>1. At(c, "audit") /\ Is(c, {"cancel", "no-show"}) /\ wrote[c] # {}
  BY DEF Audit, ClosingInv, CallInv
<1>2. PICK place \in {"done", "log"} :
        /\ Go(c, place)
        /\ IF Is(c, {"cancel"})
           THEN audits' = audits \cup {c} /\ UNCHANGED noShows /\ place = "done"
           ELSE noShows' = noShows \cup {c} /\ UNCHANGED audits /\ place = "log"
  BY DEF Audit
<1>3. /\ call' \in [Calls -> [kind : Kinds, target : STATUSES, read : SUBSET STATUSES,
                              at : Places]]
      /\ call'[c].at = place /\ call'[c].kind = call[c].kind
      /\ call'[c].target = call[c].target
      /\ \A d \in Calls \ {c} : call'[d] = call[d]
  BY <1>2, GoTyped DEF ClosingInv, Places
<1>4. UNCHANGED <<status, stamps, auditLog, wrote, last>>
  BY DEF Audit
<1>5. /\ audits \subseteq audits' /\ audits' \subseteq audits \cup {c}
      /\ noShows \subseteq noShows' /\ noShows' \subseteq noShows \cup {c}
  BY <1>2
<1>6. TypeOK'
  <2>1. audits' \subseteq Calls /\ noShows' \subseteq Calls
    BY <1>5 DEF ClosingInv, TypeOK
  <2>2. QED
    BY <1>3, <1>4, <2>1 DEF ClosingInv, TypeOK, Places
<1>7. CallInv'
  <2>1. \A d \in Calls \ {c} :
           /\ Is(d, {"cancel"})' => call'[d].target = "CANCELLED"
           /\ Is(d, {"no-show"})' => call'[d].target = "NO_SHOW"
           /\ At(d, "audit")' => Is(d, {"cancel", "no-show"})' /\ wrote'[d] # {}
           /\ At(d, "log")' => Is(d, {"no-show"})' /\ d \in noShows'
    BY <1>3, <1>4, <1>5 DEF ClosingInv, CallInv, Is, At
  <2>2. /\ Is(c, {"cancel"})' => call'[c].target = "CANCELLED"
        /\ Is(c, {"no-show"})' => call'[c].target = "NO_SHOW"
        /\ ~At(c, "audit")'
    BY <1>3 DEF ClosingInv, CallInv, Is, At
  <2>3. At(c, "log")' => Is(c, {"no-show"})' /\ c \in noShows'
    BY <1>1, <1>2, <1>3 DEF Is, At
  <2>4. QED
    BY <2>1, <2>2, <2>3 DEF CallInv
<1>8. ReasonsAreReal'
  <2>1. Is(c, {"cancel"}) \/ Is(c, {"no-show"})
    BY <1>1 DEF Is
  <2>2. audits' \subseteq {d \in Calls : wrote'[d] # {} /\ call'[d].target = "CANCELLED"}
    <3>1. c \in audits' => c \in audits \/ call[c].target = "CANCELLED"
      BY <1>2 DEF ClosingInv, CallInv
    <3>2. QED
      BY <1>1, <1>3, <1>4, <1>5, <3>1 DEF ClosingInv, ReasonsAreReal
  <2>3. noShows' \subseteq {d \in Calls : wrote'[d] # {} /\ call'[d].target = "NO_SHOW"}
    <3>1. c \in noShows' => c \in noShows \/ call[c].target = "NO_SHOW"
      BY <1>2, <2>1 DEF ClosingInv, CallInv
    <3>2. QED
      BY <1>1, <1>3, <1>4, <1>5, <3>1 DEF ClosingInv, ReasonsAreReal
  <2>4. \A d \in Calls \ {c} : At(d, "done")' =>
            /\ Is(d, {"cancel"})' => d \in audits'
            /\ Is(d, {"no-show"})' => d \in noShows'
    BY <1>3, <1>5 DEF ClosingInv, ReasonsAreReal, Is, At
  <2>5. At(c, "done")' => call'[c].kind = "cancel" /\ c \in audits'
    BY <1>2, <1>3 DEF Is, At
  <2>6. QED
    BY <2>2, <2>3, <2>4, <2>5 DEF ReasonsAreReal, Is
<1>9. QED
  BY <1>6, <1>7, <1>8 DEF ClosingInv

\* The general log and a failure end a call and touch no reason.
LEMMA EndKeeps ==
    ASSUME ClosingInv, NEW c \in Calls, Log(c) \/ Fail(c)
    PROVE  ClosingInv'
<1>1. PICK place \in {"done", "failed"} :
        /\ Go(c, place)
        /\ place = "done" => At(c, "log")
  BY DEF Log, Fail
<1>2. /\ call' \in [Calls -> [kind : Kinds, target : STATUSES, read : SUBSET STATUSES,
                              at : Places]]
      /\ call'[c].at = place /\ call'[c].kind = call[c].kind
      /\ call'[c].target = call[c].target
      /\ \A d \in Calls \ {c} : call'[d] = call[d]
  BY <1>1, GoTyped DEF ClosingInv, Places
<1>3. UNCHANGED <<status, stamps, audits, noShows, wrote, last>>
  BY DEF Log, Fail
<1>4. auditLog' \in [Calls -> SUBSET STATUSES]
  <2>1. call[c].read \in SUBSET STATUSES
    BY DEF ClosingInv, TypeOK
  <2>2. QED
    BY <2>1 DEF Log, Fail, ClosingInv, TypeOK
<1>5. TypeOK'
  BY <1>2, <1>3, <1>4 DEF ClosingInv, TypeOK, Places
<1>6. CallInv'
  BY <1>2, <1>3 DEF ClosingInv, CallInv, Is, At
<1>7. ReasonsAreReal'
  <2>1. /\ audits' \subseteq {d \in Calls : wrote'[d] # {} /\ call'[d].target = "CANCELLED"}
        /\ noShows' \subseteq {d \in Calls : wrote'[d] # {} /\ call'[d].target = "NO_SHOW"}
    BY <1>2, <1>3 DEF ClosingInv, ReasonsAreReal
  <2>2. \A d \in Calls \ {c} : At(d, "done")' =>
            /\ Is(d, {"cancel"})' => d \in audits'
            /\ Is(d, {"no-show"})' => d \in noShows'
    BY <1>2, <1>3 DEF ClosingInv, ReasonsAreReal, Is, At
  <2>3. At(c, "done")' => call'[c].kind = "no-show" /\ c \in noShows'
    <3>1. At(c, "log") => Is(c, {"no-show"}) /\ c \in noShows
      BY DEF ClosingInv, CallInv
    <3>2. QED
      BY <1>1, <1>2, <1>3, <3>1 DEF Is, At
  <2>4. QED
    BY <2>1, <2>2, <2>3 DEF ReasonsAreReal, Is
<1>8. QED
  BY <1>5, <1>6, <1>7 DEF ClosingInv
-----------------------------------------------------------------------------
\* What the calls have done is known by where they are, whatever fails or dies.
THEOREM ClosingInvariant == Spec => []ClosingInv
<1>1. Init => ClosingInv
  <2> SUFFICES ASSUME Init PROVE ClosingInv
    OBVIOUS
  <2>1. TypeOK
    BY StartTyped
  <2>2. PICK kind \in [Calls -> Kinds], target \in [Calls -> STATUSES] :
          /\ \A c \in Calls : target[c] \in Targets(kind[c])
          /\ call = [c \in Calls |-> [kind |-> kind[c], target |-> target[c], read |-> {},
                                      at |-> "idle"]]
    BY DEF Init
  <2>3. \A c \in Calls : At(c, "idle") /\ call[c].target \in Targets(call[c].kind)
    BY <2>2 DEF At
  <2>4. \A c \in Calls : /\ Is(c, {"cancel"}) => call[c].target = "CANCELLED"
                         /\ Is(c, {"no-show"}) => call[c].target = "NO_SHOW"
    BY <2>3 DEF Is, Targets
  <2>5. CallInv
    BY <2>3, <2>4 DEF CallInv, At
  <2>6. ReasonsAreReal
    BY <2>3 DEF Init, ReasonsAreReal, At
  <2>7. QED
    BY <2>1, <2>5, <2>6 DEF ClosingInv
<1>2. ClosingInv /\ [Next]_vars => ClosingInv'
  <2> SUFFICES ASSUME ClosingInv, [Next]_vars PROVE ClosingInv'
    OBVIOUS
  <2>1. CASE Next
    BY <2>1, AskKeeps, FindKeeps, WriteKeeps, AuditKeeps, EndKeeps DEF Next, Step
  <2>2. CASE UNCHANGED vars
    BY <2>2 DEF vars, ClosingInv, TypeOK, CallInv, ReasonsAreReal, Is, At
  <2>3. QED
    BY <2>1, <2>2
<1>3. QED
  BY <1>1, <1>2, PTL DEF Spec

\* The agenda is a client of the calls: whatever the pages and their events do, the rows
\* of statuses and audits behave as ReservationClosing says.
THEOREM AgendaImplementsClosing == AgendaSpec => Spec
<1>1. AgendaInit => Init
  BY DEF AgendaInit
<1>2. [AgendaNext]_<<vars, agendaVars>> => [Next]_vars
  <2> SUFFICES ASSUME [AgendaNext]_<<vars, agendaVars>> PROVE [Next]_vars
    OBVIOUS
  <2>1. ASSUME NEW t \in Tabs, PageNext(t)
        PROVE  UNCHANGED vars
    BY <2>1 DEF PageNext, Open, FindAll, LoadAnswered, HandleConnection, SocketBreaks, Leave,
                Deliver, CalendarEffect, OnDrop, Update, UpdateEmits, DropAnswered, DropVoid,
                DropFails
  <2>2. ASSUME NEW c \in Calls, CallNext(c)
        PROVE  Step(c) \/ UNCHANGED vars
    BY <2>2 DEF CallNext, AskFrom, Inside, StatusWritten, Emit, StatusAnswered, CallFails, Step
  <2>3. CASE AgendaNext
    BY <2>1, <2>2, <2>3 DEF AgendaNext, Next
  <2>4. QED
    BY <2>3
<1>3. QED
  BY <1>1, <1>2, PTL DEF AgendaSpec, Spec

\* No reason on file is invented or lost to another call's, next to any pages, moves, broken
\* connections and crashes.
THEOREM ReasonsStayReal == AgendaSpec => []ReasonsAreReal
<1>1. ClosingInv => ReasonsAreReal
  BY DEF ClosingInv
<1>2. QED
  BY <1>1, ClosingInvariant, AgendaImplementsClosing, PTL
-----------------------------------------------------------------------------
(* The pages: a page that has not gone astray since it was opened has seen one thing under  *)
(* way at a time, whichever of the calls and moves that was.                                 *)

Page == [at : {"closed", "asked", "read", "loaded", "joined"},
         list : SUBSET Rows, calendar : SUBSET Rows]
Drop == [to : Slots, old : Rows, by : {"calendar", "grid", "nobody"},
         at : {"asked", "written", "told", "refused", "nothing"}, row : SUBSET Rows]

Typed == AgendaTypeOK /\ inbox \in [Tabs -> Seq(Rows)]

\* What holds on any day: how far a call is, and who may have events on the way.
Known ==
    /\ \A c \in Calls :
         /\ call[c].at \in {"idle", "find", "write"} => result[c] = {} /\ c \notin emitted
         /\ At(c, "idle") => sender[c] = {}
         /\ result[c] # {} => wrote[c] # {}
         /\ call[c].at \in {"audit", "log"} => ~Is(c, {"by code"})
         /\ Is(c, {"by code"}) => sender[c] = {}
    /\ \A t \in Tabs : /\ page[t].at # "joined" => inbox[t] = <<>>
                       /\ \A d, e \in drop[t] : d = e

\* A change that the pages are still to be told of; a thing that has told nobody yet.
Written(c) == result[c] # {} /\ c \notin emitted /\ ~Is(c, {"by code"}) /\ ~At(c, "failed")
Pending == (\E c \in Calls : Written(c)) \/ \E t \in Tabs : DropIs(t, "written")
Unsaid == \/ \E c \in Calls : UnderWay(c) /\ c \notin emitted
          \/ \E t \in Tabs : \E d \in drop[t] : d.at # "told"

Calm == \E t \in Tabs : t \notin astray

\* One thing at a time: what it carries is the row, and it tells each page once.
OneThing ==
    /\ \A c, d \in Calls : UnderWay(c) /\ UnderWay(d) => c = d
    /\ \A t, u \in Tabs : drop[t] # {} /\ drop[u] # {} => t = u
    /\ \A c \in Calls, t \in Tabs : UnderWay(c) => drop[t] = {}
    /\ \A c \in Calls : UnderWay(c) => result[c] \subseteq {Row}
    /\ \A t \in Tabs : \A d \in drop[t] : d.at \in {"written", "told"} => d.row = {Row}
    /\ \A t \in Tabs : inbox[t] = <<>> \/ inbox[t] = <<Row>>
    /\ Unsaid => \A t \in Tabs : inbox[t] = <<>>

\* Between a change and its event a page may be behind; otherwise it shows the row, but for
\* what it drags itself, and then it knows what to put back.
PageTrue(t) ==
    /\ HasRow(t) /\ inbox[t] = <<>> /\ ~Pending =>
         /\ page[t].list = {Row}
         /\ Live(t) /\ (\A d \in drop[t] : d.by # "calendar") => page[t].calendar = {Row}
    /\ \A d \in drop[t] : d.at \in {"asked", "refused"} => d.old = Row

PagesTrue == \A t \in Tabs \ astray : PageTrue(t)

AgendaInv == Typed /\ Known /\ (Calm => OneThing) /\ PagesTrue
-----------------------------------------------------------------------------
(* Types *)

LEMMA TypedIs ==
    ASSUME ClosingInv, Typed
    PROVE  /\ start \in Slots /\ page \in [Tabs -> Page] /\ inbox \in [Tabs -> Seq(Rows)]
           /\ drop \in [Tabs -> SUBSET Drop] /\ sender \in [Calls -> SUBSET Tabs]
           /\ result \in [Calls -> SUBSET Rows] /\ emitted \subseteq Calls /\ astray \subseteq Tabs
           /\ status \in STATUSES /\ Row \in Rows /\ wrote \in [Calls -> SUBSET STATUSES]
           /\ call \in [Calls -> [kind : Kinds, target : STATUSES, read : SUBSET STATUSES,
                                  at : Places]]
BY DEF ClosingInv, TypeOK, Typed, AgendaTypeOK, Page, Drop, Row, Rows, Places

LEMMA IsTyped ==
    ASSUME start \in Slots, page \in [Tabs -> Page], inbox \in [Tabs -> Seq(Rows)],
           drop \in [Tabs -> SUBSET Drop], sender \in [Calls -> SUBSET Tabs],
           result \in [Calls -> SUBSET Rows], emitted \subseteq Calls, astray \subseteq Tabs
    PROVE  Typed
BY DEF Typed, AgendaTypeOK, Page, Drop

\* The row of a page, as it is set by what comes.
LEMMA Shown ==
    ASSUME NEW old, old \in [Tabs -> Page], NEW t \in Tabs, NEW row \in Rows, NEW new,
           new = [old EXCEPT ![t].list = {row}, ![t].calendar = {row}]
    PROVE  /\ new \in [Tabs -> Page] /\ new[t].at = old[t].at
           /\ new[t].list = {row} /\ new[t].calendar = {row}
           /\ \A u \in Tabs \ {t} : new[u] = old[u]
BY DEF Page

LEMMA ShownOnCalendar ==
    ASSUME NEW old, old \in [Tabs -> Page], NEW t \in Tabs, NEW row \in Rows, NEW new,
           new = [old EXCEPT ![t].calendar = {row}]
    PROVE  /\ new \in [Tabs -> Page] /\ new[t].at = old[t].at
           /\ new[t].list = old[t].list /\ new[t].calendar = {row}
           /\ \A u \in Tabs \ {t} : new[u] = old[u]
BY DEF Page

LEMMA Moved ==
    ASSUME NEW old, old \in [Tabs -> Page], NEW t \in Tabs, NEW new,
           NEW at \in {"closed", "asked", "read", "loaded", "joined"},
           new = [old EXCEPT ![t].at = at]
    PROVE  /\ new \in [Tabs -> Page] /\ new[t].at = at
           /\ new[t].list = old[t].list /\ new[t].calendar = old[t].calendar
           /\ \A u \in Tabs \ {t} : new[u] = old[u]
BY DEF Page

\* An event reaches those who are in the room.
LEMMA Emitted ==
    ASSUME ClosingInv, Typed, NEW row \in Rows, EmitToRestaurant(row)
    PROVE  /\ inbox' \in [Tabs -> Seq(Rows)]
           /\ \A t \in Tabs : page[t].at = "joined" => inbox'[t] = Append(inbox[t], row)
           /\ \A t \in Tabs : page[t].at # "joined" => inbox'[t] = inbox[t]
           /\ \A t \in Tabs : HasRow(t) /\ page[t].at # "joined" => t \in astray'
           /\ astray \subseteq astray' /\ astray' \subseteq Tabs
<1>1. /\ inbox' = [t \in Tabs |-> IF t \in Joined THEN Append(inbox[t], row) ELSE inbox[t]]
      /\ astray' = astray \cup {t \in Tabs \ Joined : HasRow(t)}
  BY DEF EmitToRestaurant
<1>2. inbox \in [Tabs -> Seq(Rows)] /\ astray \subseteq Tabs
  BY TypedIs
<1>3. \A t \in Tabs : Append(inbox[t], row) \in Seq(Rows)
  BY <1>2
<1>4. inbox' \in [Tabs -> Seq(Rows)]
  BY <1>1, <1>2, <1>3
<1> QED
  BY <1>1, <1>2, <1>4 DEF Joined

\* A move that goes on.
LEMMA DropGone ==
    ASSUME drop \in [Tabs -> SUBSET Drop], NEW t \in Tabs,
           NEW at \in {"asked", "written", "told", "refused", "nothing"}, DropGoes(t, at)
    PROVE  /\ drop' \in [Tabs -> SUBSET Drop]
           /\ \A u \in Tabs \ {t} : drop'[u] = drop[u]
           /\ \A e \in drop'[t] : \E d \in drop[t] :
                /\ e = [d EXCEPT !.at = at]
                /\ e.at = at /\ e.old = d.old /\ e.by = d.by /\ e.row = d.row
<1>1. drop' = [drop EXCEPT ![t] = {[d EXCEPT !.at = at] : d \in drop[t]}]
  BY DEF DropGoes
<1>2. \A d \in drop[t] : LET e == [d EXCEPT !.at = at]
                         IN  e \in Drop /\ e.at = at /\ e.old = d.old /\ e.by = d.by /\ e.row = d.row
  BY DEF Drop
<1>3. {[d EXCEPT !.at = at] : d \in drop[t]} \subseteq Drop
  BY <1>2
<1>4. drop' \in [Tabs -> SUBSET Drop]
  BY <1>1, <1>3
<1>5. drop'[t] = {[d EXCEPT !.at = at] : d \in drop[t]}
  BY <1>1
<1>6. ASSUME NEW e \in drop'[t]
      PROVE  \E d \in drop[t] :
                /\ e = [d EXCEPT !.at = at]
                /\ e.at = at /\ e.old = d.old /\ e.by = d.by /\ e.row = d.row
  <2>1. PICK d \in drop[t] : e = [d EXCEPT !.at = at]
    BY <1>5, <1>6
  <2>2. QED
    BY <2>1, <1>2
<1>7. \A u \in Tabs \ {t} : drop'[u] = drop[u]
  BY <1>1
<1> QED
  BY <1>4, <1>6, <1>7

\* A page that nothing happens to.
LEMMA SamePage ==
    ASSUME NEW u \in Tabs, PageTrue(u), page'[u] = page[u], inbox'[u] = inbox[u],
           drop'[u] = drop[u], UNCHANGED <<status, start>>, Pending => Pending'
    PROVE  PageTrue(u)'
BY DEF PageTrue, HasRow, Live, Row

\* Nobody begins anything, events are taken and answers are not waited for any more.
LEMMA Quieter ==
    ASSUME ClosingInv, AgendaInv, UNCHANGED <<vars, start, drop, result, emitted>>,
           page' \in [Tabs -> Page], inbox' \in [Tabs -> Seq(Rows)],
           \A c \in Calls : sender'[c] \subseteq sender[c],
           sender' \in [Calls -> SUBSET Tabs],
           \A u \in Tabs : page'[u].at # "joined" => inbox'[u] = <<>>,
           Calm => \A u \in Tabs : inbox'[u] = <<>> \/ inbox'[u] = inbox[u],
           astray' \subseteq Tabs
    PROVE  /\ Typed' /\ Known' /\ (Calm => OneThing') /\ (Pending <=> Pending') /\ Row' = Row
<1>1. Typed'
  BY TypedIs, IsTyped DEF AgendaInv, Typed, AgendaTypeOK, Page, Drop, Row, Rows
<1>2. /\ \A c \in Calls : call'[c] = call[c] /\ wrote'[c] = wrote[c] /\ result'[c] = result[c]
      /\ \A t \in Tabs : drop'[t] = drop[t]
      /\ emitted' = emitted /\ Row' = Row
  BY DEF vars, Row
<1>3. Known'
  <2>1. ASSUME NEW c \in Calls
        PROVE  /\ call'[c].at \in {"idle", "find", "write"} => result'[c] = {} /\ c \notin emitted'
               /\ call'[c].at = "idle" => sender'[c] = {}
               /\ result'[c] # {} => wrote'[c] # {}
               /\ call'[c].at \in {"audit", "log"} => call'[c].kind # "by code"
               /\ call'[c].kind = "by code" => sender'[c] = {}
    BY <1>2 DEF AgendaInv, Known, At, Is
  <2>2. ASSUME NEW t \in Tabs
        PROVE  /\ page'[t].at # "joined" => inbox'[t] = <<>>
               /\ \A d, e \in drop'[t] : d = e
    <3>1. \A d, e \in drop[t] : d = e
      BY DEF AgendaInv, Known
    <3>2. QED
      BY <3>1, <1>2
  <2>3. QED
    BY <2>1, <2>2 DEF Known, At, Is
<1>4. \A c \in Calls : UnderWay(c)' => UnderWay(c)
  BY <1>2 DEF UnderWay, At, Is
<1>5. Unsaid' => Unsaid
  BY <1>2, <1>4 DEF Unsaid
<1>6. Pending <=> Pending'
  BY <1>2 DEF Pending, Written, DropIs, At, Is
<1>7. ASSUME Calm
      PROVE  OneThing'
  <2>1. OneThing
    BY <1>7 DEF AgendaInv
  <2>2. \A u \in Tabs : inbox'[u] = <<>> \/ inbox'[u] = inbox[u]
    BY <1>7
  <2>3. /\ \A c, d \in Calls : UnderWay(c)' /\ UnderWay(d)' => c = d
        /\ \A t, u \in Tabs : drop'[t] # {} /\ drop'[u] # {} => t = u
        /\ \A c \in Calls, t \in Tabs : UnderWay(c)' => drop'[t] = {}
        /\ \A c \in Calls : UnderWay(c)' => result'[c] \subseteq {Row'}
        /\ \A t \in Tabs : \A d \in drop'[t] : d.at \in {"written", "told"} => d.row = {Row'}
    BY <1>2, <1>4, <2>1 DEF OneThing
  <2>4. /\ \A t \in Tabs : inbox'[t] = <<>> \/ inbox'[t] = <<Row'>>
        /\ Unsaid' => \A t \in Tabs : inbox'[t] = <<>>
    BY <1>2, <1>5, <2>1, <2>2 DEF OneThing
  <2>5. QED
    BY <2>3, <2>4 DEF OneThing
<1>8. QED
  BY <1>1, <1>2, <1>3, <1>6, <1>7

\* The other pages of a step that one page takes.
LEMMA OtherPages ==
    ASSUME PagesTrue, NEW t \in Tabs, \A u \in Tabs \ {t} : page'[u] = page[u],
           \A u \in Tabs \ {t} : inbox'[u] = inbox[u] /\ drop'[u] = drop[u],
           \A u \in Tabs \ {t} : u \in astray => u \in astray',
           UNCHANGED <<status, start>>, Pending => Pending',
           t \in Tabs \ astray' => PageTrue(t)'
    PROVE  PagesTrue'
<1>1. ASSUME NEW u \in Tabs \ astray', u # t
      PROVE  PageTrue(u)'
  <2>1. PageTrue(u)
    BY <1>1 DEF PagesTrue
  <2>2. QED
    BY <1>1, <2>1, SamePage
<1>2. QED
  BY <1>1 DEF PagesTrue

\* A thing that begins alone: nothing is under way.
LEMMA QuietMeans ==
    ASSUME ClosingInv, AgendaInv, Quiet
    PROVE  ~Pending /\ OneThing /\ ~Unsaid
<1>1. \A c \in Calls : ~UnderWay(c)
  BY DEF Quiet
<1>2. \A t \in Tabs : drop[t] = {} /\ inbox[t] = <<>>
  BY DEF Quiet
<1>3. ASSUME NEW c \in Calls
      PROVE  ~Written(c)
  <2>1. call[c].at \in Places
    BY TypedIs DEF AgendaInv
  <2>2. /\ call[c].at \notin {"find", "write", "audit", "log"}
        /\ call[c].at = "idle" => result[c] = {}
    BY <1>1 DEF UnderWay, AgendaInv, Known, At
  <2>3. call[c].at = "done" => ~Written(c)
    BY <1>1 DEF UnderWay, Written, At
  <2>4. QED
    BY <2>1, <2>2, <2>3 DEF Written, Places, At
<1>4. ~Pending
  BY <1>2, <1>3 DEF Pending, DropIs
<1>5. ~Unsaid
  BY <1>1, <1>2 DEF Unsaid
<1>6. OneThing
  BY <1>1, <1>2, <1>5 DEF OneThing
<1>7. QED
  BY <1>4, <1>5, <1>6

LEMMA OpenKeeps ==
    ASSUME ClosingInv, AgendaInv, NEW t \in Tabs, Open(t)
    PROVE  AgendaInv'
<1>1. /\ page' = [page EXCEPT ![t].at = "asked"] /\ page[t].at = "closed"
      /\ astray' = IF Quiet THEN astray \ {t} ELSE astray \cup {t}
      /\ UNCHANGED <<vars, start, inbox, drop, sender, result, emitted>>
  BY DEF Open
<1>2. /\ page \in [Tabs -> Page] /\ inbox \in [Tabs -> Seq(Rows)] /\ sender \in [Calls -> SUBSET Tabs]
      /\ astray' \subseteq Tabs
  BY <1>1, TypedIs DEF AgendaInv
<1>3. /\ page' \in [Tabs -> Page] /\ page'[t].at = "asked"
      /\ \A u \in Tabs \ {t} : page'[u] = page[u]
  BY <1>1, <1>2 DEF Page
<1>4. \A u \in Tabs : page'[u].at # "joined" => inbox'[u] = <<>>
  BY <1>1, <1>3 DEF AgendaInv, Known
<1>5. /\ Typed' /\ Known' /\ (Calm => OneThing') /\ (Pending <=> Pending') /\ Row' = Row
  BY <1>1, <1>2, <1>3, <1>4, Quieter
<1>6. Calm' => OneThing'
  <2>1. CASE Quiet
    <3>1. OneThing
      BY <2>1, QuietMeans
    <3>2. QED
      BY <3>1, <1>1 DEF OneThing, UnderWay, Unsaid, At, Is, vars, Row
  <2>2. CASE ~Quiet
    BY <2>2, <1>1, <1>5 DEF Calm
  <2>3. QED
    BY <2>1, <2>2
<1>7. ASSUME t \notin astray'
      PROVE  PageTrue(t)'
  <2>1. ~HasRow(t)'
    BY <1>3 DEF HasRow
  <2>2. drop'[t] = {}
    BY <1>1, <1>7 DEF Quiet
  <2>3. QED
    BY <2>1, <2>2 DEF PageTrue
<1>8. QED
  BY <1>1, <1>3, <1>5, <1>6, <1>7, OtherPages DEF AgendaInv, vars

LEMMA FindAllKeeps ==
    ASSUME ClosingInv, AgendaInv, NEW t \in Tabs, FindAll(t)
    PROVE  AgendaInv'
<1>1. /\ page' = [page EXCEPT ![t] = [at |-> "read", list |-> {Row}, calendar |-> {}]]
      /\ page[t].at = "asked"
      /\ UNCHANGED <<vars, start, inbox, drop, sender, result, emitted, astray>>
  BY DEF FindAll
<1>2. /\ page \in [Tabs -> Page] /\ inbox \in [Tabs -> Seq(Rows)] /\ sender \in [Calls -> SUBSET Tabs]
      /\ astray' \subseteq Tabs /\ Row \in Rows
  BY <1>1, TypedIs DEF AgendaInv
<1>3. /\ page' \in [Tabs -> Page] /\ page'[t].at = "read" /\ page'[t].list = {Row}
      /\ \A u \in Tabs \ {t} : page'[u] = page[u]
  BY <1>1, <1>2 DEF Page
<1>4. \A u \in Tabs : page'[u].at # "joined" => inbox'[u] = <<>>
  BY <1>1, <1>3 DEF AgendaInv, Known
<1>5. /\ Typed' /\ Known' /\ (Calm => OneThing') /\ (Pending <=> Pending') /\ Row' = Row
  BY <1>1, <1>2, <1>3, <1>4, Quieter
<1>6. Calm' => OneThing'
  BY <1>1, <1>5 DEF Calm
<1>7. ASSUME t \notin astray'
      PROVE  PageTrue(t)'
  <2>1. PageTrue(t)
    BY <1>1, <1>7 DEF AgendaInv, PagesTrue
  <2>2. QED
    BY <1>1, <1>3, <1>5, <2>1 DEF PageTrue, Live
<1>8. QED
  BY <1>1, <1>3, <1>5, <1>6, <1>7, OtherPages DEF AgendaInv, vars

LEMMA LoadAnsweredKeeps ==
    ASSUME ClosingInv, AgendaInv, NEW t \in Tabs, LoadAnswered(t)
    PROVE  AgendaInv'
<1>1. /\ page' = [page EXCEPT ![t].at = "loaded", ![t].calendar = page[t].list]
      /\ page[t].at = "read"
      /\ UNCHANGED <<vars, start, inbox, drop, sender, result, emitted, astray>>
  BY DEF LoadAnswered
<1>2. /\ page \in [Tabs -> Page] /\ inbox \in [Tabs -> Seq(Rows)] /\ sender \in [Calls -> SUBSET Tabs]
      /\ astray' \subseteq Tabs
  BY <1>1, TypedIs DEF AgendaInv
<1>3. /\ page' \in [Tabs -> Page] /\ page'[t].at = "loaded"
      /\ page'[t].list = page[t].list /\ page'[t].calendar = page[t].list
      /\ \A u \in Tabs \ {t} : page'[u] = page[u]
  BY <1>1, <1>2 DEF Page
<1>4. \A u \in Tabs : page'[u].at # "joined" => inbox'[u] = <<>>
  BY <1>1, <1>3 DEF AgendaInv, Known
<1>5. /\ Typed' /\ Known' /\ (Calm => OneThing') /\ (Pending <=> Pending') /\ Row' = Row
  BY <1>1, <1>2, <1>3, <1>4, Quieter
<1>6. Calm' => OneThing'
  BY <1>1, <1>5 DEF Calm
<1>7. ASSUME t \notin astray'
      PROVE  PageTrue(t)'
  <2>1. PageTrue(t)
    BY <1>1, <1>7 DEF AgendaInv, PagesTrue
  <2>2. QED
    BY <1>1, <1>3, <1>5, <2>1 DEF PageTrue, HasRow
<1>8. QED
  BY <1>1, <1>3, <1>5, <1>6, <1>7, OtherPages DEF AgendaInv, vars

LEMMA HandleConnectionKeeps ==
    ASSUME ClosingInv, AgendaInv, NEW t \in Tabs, HandleConnection(t)
    PROVE  AgendaInv'
<1>1. /\ page' = [page EXCEPT ![t].at = "joined"] /\ page[t].at = "loaded"
      /\ UNCHANGED <<vars, start, inbox, drop, sender, result, emitted, astray>>
  BY DEF HandleConnection
<1>2. /\ page \in [Tabs -> Page] /\ inbox \in [Tabs -> Seq(Rows)] /\ sender \in [Calls -> SUBSET Tabs]
      /\ astray' \subseteq Tabs
  BY <1>1, TypedIs DEF AgendaInv
<1>3. /\ page' \in [Tabs -> Page] /\ page'[t].at = "joined"
      /\ page'[t].list = page[t].list /\ page'[t].calendar = page[t].calendar
      /\ \A u \in Tabs \ {t} : page'[u] = page[u]
  BY <1>1, <1>2 DEF Page
<1>4. \A u \in Tabs : page'[u].at # "joined" => inbox'[u] = <<>>
  BY <1>1, <1>3 DEF AgendaInv, Known
<1>5. /\ Typed' /\ Known' /\ (Calm => OneThing') /\ (Pending <=> Pending') /\ Row' = Row
  BY <1>1, <1>2, <1>3, <1>4, Quieter
<1>6. Calm' => OneThing'
  BY <1>1, <1>5 DEF Calm
<1>7. ASSUME t \notin astray'
      PROVE  PageTrue(t)'
  <2>1. PageTrue(t)
    BY <1>1, <1>7 DEF AgendaInv, PagesTrue
  <2>2. QED
    BY <1>1, <1>3, <1>5, <2>1 DEF PageTrue, HasRow, Live
<1>8. QED
  BY <1>1, <1>3, <1>5, <1>6, <1>7, OtherPages DEF AgendaInv, vars

LEMMA SocketBreaksKeeps ==
    ASSUME ClosingInv, AgendaInv, NEW t \in Tabs, SocketBreaks(t)
    PROVE  AgendaInv'
<1>1. /\ page' = [page EXCEPT ![t].at = "loaded"] /\ page[t].at = "joined"
      /\ inbox' = [inbox EXCEPT ![t] = <<>>]
      /\ astray' = IF inbox[t] = <<>> THEN astray ELSE astray \cup {t}
      /\ UNCHANGED <<vars, start, drop, sender, result, emitted>>
  BY DEF SocketBreaks
<1>2. /\ page \in [Tabs -> Page] /\ inbox \in [Tabs -> Seq(Rows)] /\ sender \in [Calls -> SUBSET Tabs]
      /\ astray' \subseteq Tabs
  BY <1>1, TypedIs DEF AgendaInv
<1>3. /\ page' \in [Tabs -> Page] /\ page'[t].at = "loaded"
      /\ page'[t].list = page[t].list /\ page'[t].calendar = page[t].calendar
      /\ \A u \in Tabs \ {t} : page'[u] = page[u]
  BY <1>1, <1>2 DEF Page
<1>4. /\ inbox' \in [Tabs -> Seq(Rows)] /\ inbox'[t] = <<>>
      /\ \A u \in Tabs \ {t} : inbox'[u] = inbox[u]
  BY <1>1, <1>2
<1>5. \A u \in Tabs : page'[u].at # "joined" => inbox'[u] = <<>>
  BY <1>3, <1>4 DEF AgendaInv, Known
<1>6. /\ Typed' /\ Known' /\ (Calm => OneThing') /\ (Pending <=> Pending') /\ Row' = Row
  BY <1>1, <1>2, <1>3, <1>4, <1>5, Quieter
<1>7. Calm' => OneThing'
  BY <1>1, <1>6 DEF Calm
<1>8. ASSUME t \notin astray'
      PROVE  PageTrue(t)'
  <2>1. PageTrue(t) /\ inbox[t] = <<>>
    BY <1>1, <1>8 DEF AgendaInv, PagesTrue
  <2>2. QED
    BY <1>1, <1>3, <1>4, <1>6, <2>1 DEF PageTrue, HasRow, Live
<1>9. QED
  BY <1>1, <1>3, <1>4, <1>6, <1>7, <1>8, OtherPages DEF AgendaInv, vars

\* A page that closes: what it has moved goes on, and nobody there waits for it.
LEMMA LeaveKeeps ==
    ASSUME ClosingInv, AgendaInv, NEW t \in Tabs, Leave(t)
    PROVE  AgendaInv'
<1>1. /\ page' = [page EXCEPT ![t] = Closed]
      /\ inbox' = [inbox EXCEPT ![t] = <<>>]
      /\ sender' = [c \in Calls |-> sender[c] \ {t}]
      /\ drop' = [drop EXCEPT ![t] = {[d EXCEPT !.by = "nobody"] : d \in drop[t]}]
      /\ UNCHANGED <<vars, start, result, emitted, astray>>
  BY DEF Leave
<1>2. /\ page \in [Tabs -> Page] /\ inbox \in [Tabs -> Seq(Rows)] /\ drop \in [Tabs -> SUBSET Drop]
      /\ sender \in [Calls -> SUBSET Tabs] /\ result \in [Calls -> SUBSET Rows]
      /\ emitted \subseteq Calls /\ astray \subseteq Tabs /\ start \in Slots
  BY TypedIs DEF AgendaInv
<1>3. /\ page' \in [Tabs -> Page] /\ page'[t].at = "closed"
      /\ \A u \in Tabs \ {t} : page'[u] = page[u]
  BY <1>1, <1>2 DEF Page, Closed
<1>4. /\ inbox' \in [Tabs -> Seq(Rows)] /\ inbox'[t] = <<>>
      /\ \A u \in Tabs \ {t} : inbox'[u] = inbox[u]
  BY <1>1, <1>2
<1>5. sender' \in [Calls -> SUBSET Tabs] /\ \A c \in Calls : sender'[c] \subseteq sender[c]
  BY <1>1, <1>2
<1>6. /\ drop' \in [Tabs -> SUBSET Drop]
      /\ \A u \in Tabs \ {t} : drop'[u] = drop[u]
      /\ \A e \in drop'[t] : \E d \in drop[t] :
                e = [d EXCEPT !.by = "nobody"] /\ e.at = d.at /\ e.old = d.old /\ e.row = d.row
      /\ \A d \in drop[t] : \E e \in drop'[t] : e.at = d.at
  <2>1. \A d \in drop[t] : LET e == [d EXCEPT !.by = "nobody"]
                           IN  e \in Drop /\ e.at = d.at /\ e.old = d.old /\ e.row = d.row
    <3>1. ASSUME NEW d \in drop[t], NEW e, e = [d EXCEPT !.by = "nobody"]
          PROVE  e \in Drop /\ e.at = d.at /\ e.old = d.old /\ e.row = d.row
      <4>1. d \in Drop
        BY <1>2
      <4>2. QED
        BY <3>1, <4>1 DEF Drop
    <3>2. QED
      BY <3>1
  <2>2. drop'[t] = {[d EXCEPT !.by = "nobody"] : d \in drop[t]}
    BY <1>1, <1>2
  <2>3. {[d EXCEPT !.by = "nobody"] : d \in drop[t]} \subseteq Drop
    BY <2>1
  <2>4. drop' \in [Tabs -> SUBSET Drop] /\ \A u \in Tabs \ {t} : drop'[u] = drop[u]
    BY <1>1, <1>2, <2>3
  <2>5. ASSUME NEW e \in drop'[t]
        PROVE  \E d \in drop[t] :
                e = [d EXCEPT !.by = "nobody"] /\ e.at = d.at /\ e.old = d.old /\ e.row = d.row
    <3>1. PICK d \in drop[t] : e = [d EXCEPT !.by = "nobody"]
      BY <2>2
    <3>2. QED
      BY <2>1, <3>1
  <2>6. ASSUME NEW d \in drop[t]
        PROVE  \E e \in drop'[t] : e.at = d.at
    <3>1. [d EXCEPT !.by = "nobody"] \in drop'[t]
      BY <2>2
    <3>2. QED
      BY <2>1, <3>1
  <2>7. QED
    BY <2>4, <2>5, <2>6
<1>7. Typed' /\ Row' = Row
  BY <1>1, <1>2, <1>3, <1>4, <1>5, <1>6 DEF Typed, AgendaTypeOK, Page, Drop, Row, Rows, vars
<1>8. Known'
  <2>1. ASSUME NEW c \in Calls
        PROVE  /\ call'[c].at \in {"idle", "find", "write"} => result'[c] = {} /\ c \notin emitted'
               /\ call'[c].at = "idle" => sender'[c] = {}
               /\ result'[c] # {} => wrote'[c] # {}
               /\ call'[c].at \in {"audit", "log"} => call'[c].kind # "by code"
               /\ call'[c].kind = "by code" => sender'[c] = {}
    BY <1>1, <1>5 DEF AgendaInv, Known, At, Is, vars
  <2>2. ASSUME NEW u \in Tabs
        PROVE  /\ page'[u].at # "joined" => inbox'[u] = <<>>
               /\ \A m, e \in drop'[u] : m = e
    <3>1. \A m, e \in drop[u] : m = e
      BY DEF AgendaInv, Known
    <3>2. \A m, e \in drop'[u] : m = e
      BY <1>6, <3>1
    <3>3. page'[u].at # "joined" => inbox'[u] = <<>>
      BY <1>3, <1>4 DEF AgendaInv, Known
    <3>4. QED
      BY <3>2, <3>3
  <2>3. QED
    BY <2>1, <2>2 DEF Known, At, Is
<1>9. \A u \in Tabs : drop'[u] # {} => drop[u] # {}
  BY <1>6
<1>10. \A c \in Calls : UnderWay(c)' => UnderWay(c)
  BY <1>1, <1>5 DEF UnderWay, At, Is, vars
<1>11. Unsaid' => Unsaid
  <2>1. \A u \in Tabs : \A e \in drop'[u] : \E d \in drop[u] : e.at = d.at
    BY <1>6
  <2>2. QED
    BY <1>1, <1>10, <2>1 DEF Unsaid
<1>12. Pending => Pending'
  <2>1. \A c \in Calls : Written(c) => Written(c)'
    BY <1>1 DEF Written, At, Is, vars
  <2>2. \A u \in Tabs : DropIs(u, "written") => DropIs(u, "written")'
    BY <1>6 DEF DropIs
  <2>3. QED
    BY <2>1, <2>2 DEF Pending
<1>13. ASSUME Calm
       PROVE  OneThing'
  <2>1. OneThing
    BY <1>13 DEF AgendaInv
  <2>2. \A u \in Tabs : \A e \in drop'[u] : \E d \in drop[u] : e.at = d.at /\ e.row = d.row
    BY <1>6
  <2>3. /\ \A c, d \in Calls : UnderWay(c)' /\ UnderWay(d)' => c = d
        /\ \A c \in Calls : UnderWay(c)' => result'[c] \subseteq {Row'}
    BY <1>1, <1>7, <1>10, <2>1 DEF OneThing
  <2>4. \A u, w \in Tabs : drop'[u] # {} /\ drop'[w] # {} => u = w
    BY <1>9, <2>1 DEF OneThing
  <2>5. \A c \in Calls, u \in Tabs : UnderWay(c)' => drop'[u] = {}
    BY <1>9, <1>10, <2>1 DEF OneThing
  <2>6. \A u \in Tabs : \A e \in drop'[u] : e.at \in {"written", "told"} => e.row = {Row'}
    BY <1>7, <2>1, <2>2 DEF OneThing
  <2>7. \A u \in Tabs : inbox'[u] = <<>> \/ inbox'[u] = <<Row'>>
    BY <1>4, <1>7, <2>1 DEF OneThing
  <2>8. Unsaid' => \A u \in Tabs : inbox'[u] = <<>>
    BY <1>4, <1>11, <2>1 DEF OneThing
  <2>9. QED
    BY <2>3, <2>4, <2>5, <2>6, <2>7, <2>8 DEF OneThing
<1>14. Calm' => OneThing'
  BY <1>1, <1>13 DEF Calm
<1>15. ASSUME t \notin astray'
       PROVE  PageTrue(t)'
  <2>1. \A d \in drop[t] : d.at \in {"asked", "refused"} => d.old = Row
    BY <1>1, <1>15 DEF AgendaInv, PagesTrue, PageTrue
  <2>2. QED
    BY <1>3, <1>6, <1>7, <2>1 DEF PageTrue, HasRow
<1>16. QED
  BY <1>1, <1>3, <1>4, <1>6, <1>7, <1>8, <1>12, <1>14, <1>15, OtherPages DEF AgendaInv, vars

LEMMA DeliverKeeps ==
    ASSUME ClosingInv, AgendaInv, NEW t \in Tabs, Deliver(t)
    PROVE  AgendaInv'
<1>1. /\ inbox[t] # <<>> /\ page' = ListShows(t, Head(inbox[t]))
      /\ inbox' = [inbox EXCEPT ![t] = Tail(@)]
      /\ UNCHANGED <<vars, start, drop, sender, result, emitted, astray>>
  BY DEF Deliver
<1>2. /\ page \in [Tabs -> Page] /\ inbox \in [Tabs -> Seq(Rows)] /\ sender \in [Calls -> SUBSET Tabs]
      /\ astray' \subseteq Tabs
  BY <1>1, TypedIs DEF AgendaInv
<1>3. Head(inbox[t]) \in Rows /\ Tail(inbox[t]) \in Seq(Rows)
  <2>1. inbox[t] \in Seq(Rows) /\ inbox[t] # <<>>
    BY <1>1, <1>2
  <2>2. QED
    BY <2>1
<1>4. PICK row \in Rows : row = Head(inbox[t])
  BY <1>3
<1>5. page' = [page EXCEPT ![t].list = {row}, ![t].calendar = {row}]
  BY <1>1, <1>4 DEF ListShows
<1>6. /\ page' \in [Tabs -> Page] /\ page'[t].at = page[t].at
      /\ page'[t].list = {row} /\ page'[t].calendar = {row}
      /\ \A u \in Tabs \ {t} : page'[u] = page[u]
  BY <1>2, <1>5 DEF Page
<1>7. /\ inbox' \in [Tabs -> Seq(Rows)] /\ inbox'[t] = Tail(inbox[t])
      /\ \A u \in Tabs \ {t} : inbox'[u] = inbox[u]
  BY <1>1, <1>2, <1>3
<1>8. page[t].at = "joined"
  BY <1>1 DEF AgendaInv, Known
<1>9. \A u \in Tabs : page'[u].at # "joined" => inbox'[u] = <<>>
  BY <1>6, <1>7, <1>8 DEF AgendaInv, Known
<1>10. ASSUME Calm
       PROVE  row = Row /\ inbox'[t] = <<>> /\ ~Unsaid
  <2>1. inbox[t] = <<Row>>
    BY <1>1, <1>10 DEF AgendaInv, OneThing
  <2>2. QED
    BY <1>1, <1>4, <1>7, <1>10, <2>1 DEF AgendaInv, OneThing
<1>11. /\ Typed' /\ Known' /\ (Calm => OneThing') /\ (Pending <=> Pending') /\ Row' = Row
  <2>1. Calm => \A u \in Tabs : inbox'[u] = <<>> \/ inbox'[u] = inbox[u]
    BY <1>7, <1>10
  <2>2. \A c \in Calls : sender'[c] \subseteq sender[c]
    BY <1>1
  <2>3. QED
    BY <1>1, <1>2, <1>6, <1>7, <1>9, <2>1, <2>2, Quieter
<1>12. Calm' => OneThing'
  BY <1>1, <1>11 DEF Calm
<1>13. ASSUME t \notin astray'
       PROVE  PageTrue(t)'
  <2>1. Calm
    BY <1>1, <1>13 DEF Calm
  <2>2. \A d \in drop[t] : d.at = "told"
    BY <1>10, <2>1 DEF Unsaid
  <2>3. QED
    BY <1>1, <1>6, <1>10, <1>11, <2>1, <2>2 DEF PageTrue
<1>14. QED
  BY <1>1, <1>6, <1>7, <1>11, <1>12, <1>13, OtherPages DEF AgendaInv, vars

LEMMA CalendarEffectKeeps ==
    ASSUME ClosingInv, AgendaInv, NEW t \in Tabs, CalendarEffect(t)
    PROVE  AgendaInv'
<1>1. /\ page' = [page EXCEPT ![t].calendar = page[t].list] /\ astray' = astray \cup {t}
      /\ UNCHANGED <<vars, start, inbox, drop, sender, result, emitted>>
  BY DEF CalendarEffect
<1>2. /\ page \in [Tabs -> Page] /\ inbox \in [Tabs -> Seq(Rows)] /\ sender \in [Calls -> SUBSET Tabs]
      /\ astray' \subseteq Tabs
  BY <1>1, TypedIs DEF AgendaInv
<1>3. /\ page' \in [Tabs -> Page] /\ page'[t].at = page[t].at
      /\ \A u \in Tabs \ {t} : page'[u] = page[u]
  BY <1>1, <1>2 DEF Page
<1>4. \A u \in Tabs : page'[u].at # "joined" => inbox'[u] = <<>>
  BY <1>1, <1>3 DEF AgendaInv, Known
<1>5. /\ Typed' /\ Known' /\ (Calm => OneThing') /\ (Pending <=> Pending') /\ Row' = Row
  BY <1>1, <1>2, <1>3, <1>4, Quieter
<1>6. Calm' => OneThing'
  BY <1>1, <1>5 DEF Calm
<1>7. QED
  BY <1>1, <1>3, <1>5, <1>6, OtherPages DEF AgendaInv, vars
-----------------------------------------------------------------------------
(* The calls *)

LEMMA StatusAnsweredKeeps ==
    ASSUME ClosingInv, AgendaInv, NEW c \in Calls, StatusAnswered(c)
    PROVE  AgendaInv'
<1>1. PICK t \in sender[c], row \in result[c] : page' = ListShows(t, row)
  BY DEF StatusAnswered
<1>2. /\ c \in emitted /\ sender' = [sender EXCEPT ![c] = {}]
      /\ UNCHANGED <<vars, start, inbox, drop, result, emitted, astray>>
  BY DEF StatusAnswered
<1>3. /\ page \in [Tabs -> Page] /\ inbox \in [Tabs -> Seq(Rows)] /\ sender \in [Calls -> SUBSET Tabs]
      /\ astray' \subseteq Tabs /\ t \in Tabs /\ row \in Rows
  BY <1>1, <1>2, TypedIs DEF AgendaInv
<1>4. page' = [page EXCEPT ![t].list = {row}, ![t].calendar = {row}]
  BY <1>1 DEF ListShows
<1>5. /\ page' \in [Tabs -> Page] /\ page'[t].at = page[t].at
      /\ page'[t].list = {row} /\ page'[t].calendar = {row}
      /\ \A u \in Tabs \ {t} : page'[u] = page[u]
  BY <1>3, <1>4 DEF Page
<1>6. sender' \in [Calls -> SUBSET Tabs] /\ \A d \in Calls : sender'[d] \subseteq sender[d]
  BY <1>2, <1>3
<1>7. \A u \in Tabs : page'[u].at # "joined" => inbox'[u] = <<>>
  BY <1>2, <1>5 DEF AgendaInv, Known
<1>8. /\ Typed' /\ Known' /\ (Calm => OneThing') /\ (Pending <=> Pending') /\ Row' = Row
  BY <1>2, <1>3, <1>5, <1>6, <1>7, Quieter
<1>9. Calm' => OneThing'
  BY <1>2, <1>8 DEF Calm
<1>10. ASSUME t \notin astray'
       PROVE  PageTrue(t)'
  <2>1. OneThing
    BY <1>2, <1>3, <1>10 DEF Calm, AgendaInv
  <2>2. UnderWay(c)
    BY <1>1 DEF UnderWay
  <2>3. row = Row /\ drop[t] = {}
    BY <1>1, <1>3, <2>1, <2>2 DEF OneThing
  <2>4. QED
    BY <1>2, <1>5, <1>8, <2>3 DEF PageTrue
<1>11. QED
  BY <1>2, <1>3, <1>5, <1>8, <1>9, <1>10, OtherPages DEF AgendaInv, vars

\* A call that fails after its write has told nobody, and leaves every page astray.
LEMMA CallFailsKeeps ==
    ASSUME ClosingInv, AgendaInv, NEW c \in Calls, CallFails(c)
    PROVE  AgendaInv'
<1>1. /\ Go(c, "failed") /\ call[c].at \in {"find", "write", "audit", "log"}
      /\ UNCHANGED <<status, wrote>>
      /\ sender' = [sender EXCEPT ![c] = {}]
      /\ astray' = astray \/ astray' = astray \cup {t \in Tabs : HasRow(t)}
      /\ wrote[c] # {} => astray' = astray \cup {t \in Tabs : HasRow(t)}
      /\ UNCHANGED <<start, page, inbox, drop, result, emitted>>
  BY DEF CallFails, Fail, Untold
<1>2. /\ page \in [Tabs -> Page] /\ inbox \in [Tabs -> Seq(Rows)] /\ drop \in [Tabs -> SUBSET Drop]
      /\ sender \in [Calls -> SUBSET Tabs] /\ result \in [Calls -> SUBSET Rows]
      /\ emitted \subseteq Calls /\ astray \subseteq Tabs /\ start \in Slots
  BY TypedIs DEF AgendaInv
<1>3. /\ call'[c].at = "failed" /\ call'[c].kind = call[c].kind
      /\ \A d \in Calls \ {c} : call'[d] = call[d]
  BY <1>1, GoTyped DEF ClosingInv, Places
<1>4. /\ sender' \in [Calls -> SUBSET Tabs] /\ sender'[c] = {}
      /\ \A d \in Calls \ {c} : sender'[d] = sender[d]
  BY <1>1, <1>2
<1>5. astray' \subseteq Tabs /\ astray \subseteq astray' /\ Row' = Row
  BY <1>1, <1>2 DEF Row
<1>6. Typed'
  BY <1>1, <1>2, <1>4, <1>5 DEF Typed, AgendaTypeOK, Page, Drop, Rows
<1>7. Known'
  <2>1. ASSUME NEW d \in Calls
        PROVE  /\ call'[d].at \in {"idle", "find", "write"} => result'[d] = {} /\ d \notin emitted'
               /\ call'[d].at = "idle" => sender'[d] = {}
               /\ result'[d] # {} => wrote'[d] # {}
               /\ call'[d].at \in {"audit", "log"} => call'[d].kind # "by code"
               /\ call'[d].kind = "by code" => sender'[d] = {}
    <3>1. UNCHANGED <<result[d], wrote[d], emitted>>
      BY <1>1
    <3>2. CASE d = c
      BY <1>3, <1>4, <3>1, <3>2 DEF AgendaInv, Known
    <3>3. CASE d # c
      <4>1. call'[d] = call[d] /\ sender'[d] = sender[d]
        BY <1>3, <1>4, <3>3
      <4>2. QED
        BY <3>1, <4>1 DEF AgendaInv, Known, At, Is
    <3>4. QED
      BY <3>2, <3>3
  <2>2. \A t \in Tabs : page'[t].at # "joined" => inbox'[t] = <<>>
    BY <1>1 DEF AgendaInv, Known
  <2>3. \A t \in Tabs : \A d, e \in drop'[t] : d = e
    BY <1>1 DEF AgendaInv, Known
  <2>4. QED
    BY <2>1, <2>2, <2>3 DEF Known, At, Is
<1>8. \A d \in Calls : UnderWay(d)' => UnderWay(d)
  BY <1>1, <1>3, <1>4 DEF UnderWay, At, Is
<1>9. UnderWay(c)
  BY <1>1 DEF UnderWay
<1>10. ASSUME Calm'
       PROVE  OneThing'
  <2>1. OneThing
    BY <1>5, <1>10 DEF Calm, AgendaInv
  <2>2. Unsaid' => Unsaid
    BY <1>1, <1>8 DEF Unsaid
  <2>3. QED
    BY <1>1, <1>5, <1>8, <2>1, <2>2 DEF OneThing
<1>11. ASSUME NEW u \in Tabs \ astray'
       PROVE  PageTrue(u)'
  <2>1. OneThing /\ PageTrue(u) /\ u \in Tabs
    BY <1>5, <1>11 DEF Calm, AgendaInv, PagesTrue
  <2>2. drop'[u] = {}
    BY <1>1, <1>9, <2>1 DEF OneThing
  <2>3. CASE wrote[c] # {}
    <3>1. ~HasRow(u)'
      BY <1>1, <1>11, <2>3 DEF HasRow
    <3>2. QED
      BY <2>2, <3>1 DEF PageTrue
  <2>4. CASE wrote[c] = {}
    <3>1. ~Written(c)
      BY <2>4 DEF Written, AgendaInv, Known
    <3>2. \A d \in Calls : Written(d) => Written(d)'
      BY <1>1, <1>3, <3>1 DEF Written, At, Is
    <3>3. Pending => Pending'
      BY <1>1, <3>2 DEF Pending, DropIs
    <3>4. QED
      BY <1>1, <2>1, <3>3, SamePage
  <2>5. QED
    BY <2>3, <2>4
<1>12. QED
  BY <1>6, <1>7, <1>10, <1>11 DEF AgendaInv, PagesTrue

LEMMA AskFromKeeps ==
    ASSUME ClosingInv, AgendaInv, NEW c \in Calls, AskFrom(c)
    PROVE  AgendaInv'
<1>1. PICK place \in {"write", "find"} : Go(c, place)
  BY DEF AskFrom, Ask
<1>2. /\ At(c, "idle") /\ UNCHANGED <<status, wrote>>
      /\ astray' = IF Quiet THEN astray ELSE Tabs
      /\ UNCHANGED <<start, page, inbox, drop, result, emitted>>
  BY DEF AskFrom, Ask, Starts
<1>3. /\ page \in [Tabs -> Page] /\ inbox \in [Tabs -> Seq(Rows)] /\ drop \in [Tabs -> SUBSET Drop]
      /\ sender \in [Calls -> SUBSET Tabs] /\ result \in [Calls -> SUBSET Rows]
      /\ emitted \subseteq Calls /\ astray \subseteq Tabs /\ start \in Slots
  BY TypedIs DEF AgendaInv
<1>4. /\ call'[c].at \in {"write", "find"} /\ call'[c].kind = call[c].kind
      /\ \A d \in Calls \ {c} : call'[d] = call[d]
  BY <1>1, GoTyped DEF ClosingInv, Places
<1>5. /\ sender' \in [Calls -> SUBSET Tabs] /\ (Is(c, {"by code"}) => sender'[c] = sender[c])
      /\ \A d \in Calls \ {c} : sender'[d] = sender[d]
  BY <1>3 DEF AskFrom
<1>6. astray' \subseteq Tabs /\ Row' = Row
  BY <1>2, <1>3 DEF Row
<1>7. Typed'
  BY <1>2, <1>3, <1>5, <1>6 DEF Typed, AgendaTypeOK, Page, Drop, Rows
<1>8. Known'
  <2>1. ASSUME NEW d \in Calls
        PROVE  /\ call'[d].at \in {"idle", "find", "write"} => result'[d] = {} /\ d \notin emitted'
               /\ call'[d].at = "idle" => sender'[d] = {}
               /\ result'[d] # {} => wrote'[d] # {}
               /\ call'[d].at \in {"audit", "log"} => call'[d].kind # "by code"
               /\ call'[d].kind = "by code" => sender'[d] = {}
    <3>1. CASE d = c
      BY <1>2, <1>4, <1>5, <3>1 DEF AgendaInv, Known, At, Is
    <3>2. CASE d # c
      BY <1>2, <1>4, <1>5, <3>2 DEF AgendaInv, Known, At, Is
    <3>3. QED
      BY <3>1, <3>2
  <2>2. \A t \in Tabs : page'[t].at # "joined" => inbox'[t] = <<>>
    BY <1>2 DEF AgendaInv, Known
  <2>3. \A t \in Tabs : \A d, e \in drop'[t] : d = e
    BY <1>2 DEF AgendaInv, Known
  <2>4. QED
    BY <2>1, <2>2, <2>3 DEF Known, At, Is
<1>9. CASE Quiet
  <2>1. ~Pending /\ \A d \in Calls : ~UnderWay(d)
    BY <1>9, QuietMeans DEF Quiet
  <2>2. \A d \in Calls : UnderWay(d)' => d = c
    BY <1>2, <1>4, <1>5, <2>1 DEF UnderWay, At, Is
  <2>3. result'[c] = {}
    BY <1>2 DEF AgendaInv, Known, At
  <2>4. \A t \in Tabs : drop'[t] = {} /\ inbox'[t] = <<>>
    BY <1>2, <1>9 DEF Quiet
  <2>5. OneThing'
    BY <2>2, <2>3, <2>4 DEF OneThing
  <2>6. ASSUME NEW u \in Tabs \ astray'
        PROVE  PageTrue(u)'
    <3>1. PageTrue(u) /\ u \in Tabs
      BY <1>2, <1>9, <2>6 DEF AgendaInv, PagesTrue
    <3>2. QED
      BY <1>2, <2>1, <3>1, SamePage
  <2>7. QED
    BY <1>7, <1>8, <2>5, <2>6 DEF AgendaInv, PagesTrue
<1>10. CASE ~Quiet
  BY <1>2, <1>7, <1>8, <1>10 DEF AgendaInv, PagesTrue, Calm
<1>11. QED
  BY <1>9, <1>10

LEMMA InsideKeeps ==
    ASSUME ClosingInv, AgendaInv, NEW c \in Calls, Inside(c)
    PROVE  AgendaInv'
<1>1. UNCHANGED <<status, wrote, start, page, inbox, drop, sender, result, emitted, astray>>
  BY DEF Inside, Find, Audit, Log, agendaVars
<1>2. /\ call[c].at \in {"find", "audit", "log"} /\ call'[c].at \in {"write", "log", "done"}
      /\ call'[c].at = "write" => call[c].at = "find"
      /\ call'[c].at = "log" => call[c].at = "audit"
      /\ call'[c].kind = call[c].kind
      /\ \A d \in Calls \ {c} : call'[d] = call[d]
  <2>1. call \in [Calls -> [kind : Kinds, target : STATUSES, read : SUBSET STATUSES, at : Places]]
    BY TypedIs DEF AgendaInv
  <2>2. CASE Find(c)
    <3>1. PICK place \in {"write", "done"} :
            call' = [call EXCEPT ![c].read = {status}, ![c].at = place]
      BY <2>2 DEF Find
    <3>2. /\ call'[c].at = place /\ call'[c].kind = call[c].kind
          /\ \A d \in Calls \ {c} : call'[d] = call[d]
      BY <2>1, <3>1
    <3>3. QED
      BY <2>2, <3>2 DEF Find, At
  <2>3. CASE Audit(c)
    <3>1. PICK place \in {"done", "log"} : Go(c, place)
      BY <2>3 DEF Audit
    <3>2. /\ call'[c].at = place /\ call'[c].kind = call[c].kind
          /\ \A d \in Calls \ {c} : call'[d] = call[d]
      BY <3>1, GoTyped DEF ClosingInv, Places
    <3>3. QED
      BY <2>3, <3>2 DEF Audit, At
  <2>4. CASE Log(c)
    <3>1. /\ call'[c].at = "done" /\ call'[c].kind = call[c].kind
          /\ \A d \in Calls \ {c} : call'[d] = call[d]
      BY <2>4, GoTyped DEF ClosingInv, Places, Log
    <3>2. QED
      BY <2>4, <3>1 DEF Log, At
  <2>5. QED
    BY <2>2, <2>3, <2>4 DEF Inside
<1>3. Typed' /\ Row' = Row
  BY <1>1 DEF AgendaInv, Typed, AgendaTypeOK, Row, Rows
<1>4. Known'
  <2>1. ASSUME NEW d \in Calls
        PROVE  /\ call'[d].at \in {"idle", "find", "write"} => result'[d] = {} /\ d \notin emitted'
               /\ call'[d].at = "idle" => sender'[d] = {}
               /\ result'[d] # {} => wrote'[d] # {}
               /\ call'[d].at \in {"audit", "log"} => call'[d].kind # "by code"
               /\ call'[d].kind = "by code" => sender'[d] = {}
    <3>1. CASE d = c
      BY <1>1, <1>2, <3>1 DEF AgendaInv, Known, At, Is
    <3>2. CASE d # c
      BY <1>1, <1>2, <3>2 DEF AgendaInv, Known, At, Is
    <3>3. QED
      BY <3>1, <3>2
  <2>2. \A t \in Tabs : page'[t].at # "joined" => inbox'[t] = <<>>
    BY <1>1 DEF AgendaInv, Known
  <2>3. \A t \in Tabs : \A d, e \in drop'[t] : d = e
    BY <1>1 DEF AgendaInv, Known
  <2>4. QED
    BY <2>1, <2>2, <2>3 DEF Known, At, Is
<1>5. \A d \in Calls : UnderWay(d)' => UnderWay(d)
  BY <1>1, <1>2 DEF UnderWay, At, Is
<1>6. Calm' => OneThing'
  <2>1. Unsaid' => Unsaid
    BY <1>1, <1>5 DEF Unsaid
  <2>2. OneThing => OneThing'
    BY <1>1, <1>3, <1>5, <2>1 DEF OneThing
  <2>3. QED
    BY <1>1, <2>2 DEF Calm, AgendaInv
<1>7. Pending => Pending'
  <2>1. \A d \in Calls : Written(d) => Written(d)'
    BY <1>1, <1>2 DEF Written, At, Is
  <2>2. QED
    BY <1>1, <2>1 DEF Pending, DropIs
<1>8. \A u \in Tabs \ astray' : PageTrue(u)'
  BY <1>1, <1>7, SamePage DEF AgendaInv, PagesTrue
<1>9. QED
  BY <1>3, <1>4, <1>6, <1>8 DEF AgendaInv, PagesTrue

LEMMA StatusWrittenKeeps ==
    ASSUME ClosingInv, AgendaInv, NEW c \in Calls, StatusWritten(c)
    PROVE  AgendaInv'
<1>1. PICK place \in {"audit", "done"} : Go(c, place) /\ (place = "audit" => ~Is(c, {"by code"}))
  BY DEF StatusWritten, Write, Is
<1>2. /\ At(c, "write") /\ status' = call[c].target
      /\ wrote' = [wrote EXCEPT ![c] = {status}]
      /\ result' = [result EXCEPT ![c] = {[status |-> call[c].target, start |-> start]}]
      /\ astray' = astray \/ astray' = astray \cup {t \in Tabs : HasRow(t)}
      /\ Is(c, {"by code"}) => astray' = astray \cup {t \in Tabs : HasRow(t)}
      /\ UNCHANGED <<start, page, inbox, drop, sender, emitted>>
  BY DEF StatusWritten, Write, Untold
<1>3. /\ page \in [Tabs -> Page] /\ inbox \in [Tabs -> Seq(Rows)] /\ drop \in [Tabs -> SUBSET Drop]
      /\ sender \in [Calls -> SUBSET Tabs] /\ result \in [Calls -> SUBSET Rows]
      /\ emitted \subseteq Calls /\ astray \subseteq Tabs /\ start \in Slots
      /\ wrote \in [Calls -> SUBSET STATUSES] /\ call[c].target \in STATUSES
  BY TypedIs DEF AgendaInv
<1>4. /\ call'[c].at = place /\ call'[c].kind = call[c].kind
      /\ \A d \in Calls \ {c} : call'[d] = call[d]
  BY <1>1, GoTyped DEF ClosingInv, Places
<1>5. /\ Row' = [status |-> call[c].target, start |-> start] /\ Row' \in Rows
  BY <1>2, <1>3 DEF Row, Rows
<1>6. /\ result' \in [Calls -> SUBSET Rows] /\ result'[c] = {Row'}
      /\ \A d \in Calls \ {c} : result'[d] = result[d]
      /\ wrote'[c] # {} /\ \A d \in Calls \ {c} : wrote'[d] = wrote[d]
  BY <1>2, <1>3, <1>5
<1>7. astray' \subseteq Tabs /\ astray \subseteq astray'
  BY <1>2, <1>3
<1>8. Typed'
  BY <1>2, <1>3, <1>6, <1>7 DEF Typed, AgendaTypeOK, Page, Drop, Rows
<1>9. Known'
  <2>1. ASSUME NEW d \in Calls
        PROVE  /\ call'[d].at \in {"idle", "find", "write"} => result'[d] = {} /\ d \notin emitted'
               /\ call'[d].at = "idle" => sender'[d] = {}
               /\ result'[d] # {} => wrote'[d] # {}
               /\ call'[d].at \in {"audit", "log"} => call'[d].kind # "by code"
               /\ call'[d].kind = "by code" => sender'[d] = {}
    <3>1. CASE d = c
      BY <1>1, <1>2, <1>4, <1>6, <3>1 DEF AgendaInv, Known, At, Is
    <3>2. CASE d # c
      <4>1. UNCHANGED <<call[d], result[d], wrote[d], sender[d], emitted>>
        BY <1>2, <1>4, <1>6, <3>2
      <4>2. QED
        BY <4>1 DEF AgendaInv, Known, At, Is
    <3>3. QED
      BY <3>1, <3>2
  <2>2. \A t \in Tabs : page'[t].at # "joined" => inbox'[t] = <<>>
    BY <1>2 DEF AgendaInv, Known
  <2>3. \A t \in Tabs : \A d, e \in drop'[t] : d = e
    BY <1>2 DEF AgendaInv, Known
  <2>4. QED
    BY <2>1, <2>2, <2>3 DEF Known, At, Is
<1>10. UnderWay(c) /\ c \notin emitted
  BY <1>2 DEF UnderWay, At, AgendaInv, Known
<1>11. \A d \in Calls : UnderWay(d)' => UnderWay(d)
  BY <1>2, <1>4, <1>6, <1>10 DEF UnderWay, At, Is
<1>12. ASSUME Calm
       PROVE  /\ \A d \in Calls : UnderWay(d)' => d = c
              /\ \A t \in Tabs : drop'[t] = {} /\ inbox'[t] = <<>>
  <2>1. OneThing /\ Unsaid
    BY <1>10, <1>12 DEF AgendaInv, Unsaid
  <2>2. QED
    BY <1>2, <1>10, <1>11, <2>1 DEF OneThing
<1>13. Calm' => OneThing'
  <2>1. Calm' => Calm
    BY <1>7 DEF Calm
  <2>2. QED
    BY <1>6, <1>12, <2>1 DEF OneThing
<1>14. ASSUME NEW u \in Tabs \ astray'
       PROVE  PageTrue(u)'
  <2>1. Calm
    BY <1>7, <1>14 DEF Calm
  <2>2. drop'[u] = {}
    BY <1>12, <2>1
  <2>3. CASE Is(c, {"by code"})
    <3>1. ~HasRow(u)'
      BY <1>2, <1>14, <2>3 DEF HasRow
    <3>2. QED
      BY <2>2, <3>1 DEF PageTrue
  <2>4. CASE ~Is(c, {"by code"})
    <3>1. Written(c)'
      BY <1>2, <1>4, <1>6, <1>10, <2>4 DEF Written, Is, At
    <3>2. QED
      BY <2>2, <3>1 DEF PageTrue, Pending
  <2>5. QED
    BY <2>3, <2>4
<1>15. QED
  BY <1>8, <1>9, <1>13, <1>14 DEF AgendaInv, PagesTrue

LEMMA EmitKeeps ==
    ASSUME ClosingInv, AgendaInv, NEW c \in Calls, Emit(c)
    PROVE  AgendaInv'
<1>1. PICK row \in result[c] : EmitToRestaurant(row)
  BY DEF Emit
<1>2. /\ At(c, "done") /\ c \notin emitted /\ ~Is(c, {"by code"})
      /\ emitted' = emitted \cup {c}
      /\ UNCHANGED <<vars, start, page, drop, sender, result>>
  BY DEF Emit
<1>3. /\ page \in [Tabs -> Page] /\ inbox \in [Tabs -> Seq(Rows)] /\ drop \in [Tabs -> SUBSET Drop]
      /\ sender \in [Calls -> SUBSET Tabs] /\ result \in [Calls -> SUBSET Rows]
      /\ emitted \subseteq Calls /\ astray \subseteq Tabs /\ start \in Slots /\ row \in Rows
  BY <1>1, TypedIs DEF AgendaInv
<1>4. /\ inbox' \in [Tabs -> Seq(Rows)]
      /\ \A t \in Tabs : page[t].at = "joined" => inbox'[t] = Append(inbox[t], row)
      /\ \A t \in Tabs : page[t].at # "joined" => inbox'[t] = inbox[t]
      /\ \A t \in Tabs : HasRow(t) /\ page[t].at # "joined" => t \in astray'
      /\ astray \subseteq astray' /\ astray' \subseteq Tabs
  BY <1>1, <1>3, Emitted DEF AgendaInv
<1>5. /\ UNCHANGED <<status, wrote, call>> /\ Row' = Row
  BY <1>2 DEF vars, Row
<1>6. Typed'
  BY <1>2, <1>3, <1>4 DEF Typed, AgendaTypeOK, Page, Drop, Rows
<1>7. Known'
  <2>1. c \in Calls /\ call[c].at = "done"
    BY <1>2 DEF At
  <2>2. \A d \in Calls : call[d].at \in {"idle", "find", "write"} => d \notin emitted'
    BY <1>2, <2>1 DEF AgendaInv, Known
  <2>3. \A t \in Tabs : page'[t].at # "joined" => inbox'[t] = <<>>
    BY <1>2, <1>4 DEF AgendaInv, Known
  <2>4. UNCHANGED <<call, wrote, result, sender, drop>>
    BY <1>2, <1>5
  <2>5. QED
    BY <2>2, <2>3, <2>4 DEF AgendaInv, Known, At, Is
<1>8. UnderWay(c)
  BY <1>1, <1>2 DEF UnderWay
<1>9. \A d \in Calls : UnderWay(d)' => UnderWay(d)
  BY <1>2, <1>5 DEF UnderWay, At, Is
<1>10. ASSUME Calm
       PROVE  /\ \A d \in Calls : UnderWay(d)' => d = c
              /\ row = Row /\ result'[c] \subseteq {Row'}
              /\ \A t \in Tabs : drop'[t] = {} /\ inbox[t] = <<>>
  <2>1. OneThing /\ Unsaid
    BY <1>2, <1>8, <1>10 DEF AgendaInv, Unsaid
  <2>2. QED
    BY <1>1, <1>2, <1>5, <1>8, <1>9, <2>1 DEF OneThing
<1>11. ASSUME Calm, NEW t \in Tabs
       PROVE  inbox'[t] = IF page[t].at = "joined" THEN <<Row>> ELSE <<>>
  <2>1. inbox[t] = <<>> /\ row = Row
    BY <1>10, <1>11
  <2>2. Append(<<>>, row) = <<row>>
    OBVIOUS
  <2>3. QED
    BY <1>4, <2>1, <2>2
<1>12. Calm' => OneThing'
  <2>1. Calm' => Calm
    BY <1>4 DEF Calm
  <2>2. Calm => ~Unsaid'
    BY <1>2, <1>10 DEF Unsaid
  <2>3. ASSUME Calm PROVE OneThing'
    BY <1>5, <1>10, <1>11, <2>2, <2>3 DEF OneThing
  <2>4. QED
    BY <2>1, <2>3
<1>13. ASSUME NEW u \in Tabs \ astray'
       PROVE  PageTrue(u)'
  <2>1. Calm
    BY <1>4, <1>13 DEF Calm
  <2>2. drop'[u] = {}
    BY <1>10, <2>1
  <2>3. HasRow(u)' => inbox'[u] = <<Row>>
    BY <1>2, <1>4, <1>11, <1>13, <2>1 DEF HasRow
  <2>4. <<Row>> # <<>>
    OBVIOUS
  <2>5. HasRow(u)' => inbox'[u] # <<>>
    BY <2>3, <2>4
  <2>6. QED
    BY <2>2, <2>5 DEF PageTrue
<1>14. QED
  BY <1>6, <1>7, <1>12, <1>13 DEF AgendaInv, PagesTrue
-----------------------------------------------------------------------------
(* The moves *)

\* What is known of the calls stays so when they do nothing and the moves are single.
LEMMA KnownAfterMove ==
    ASSUME Known, UNCHANGED <<vars, sender, result, emitted>>,
           \A u \in Tabs : page'[u].at # "joined" => inbox'[u] = <<>>,
           \A u \in Tabs : \A d, e \in drop'[u] : d = e
    PROVE  Known'
<1>1. UNCHANGED <<call, wrote>>
  BY DEF vars
<1>2. ASSUME NEW d \in Calls
      PROVE  /\ call'[d].at \in {"idle", "find", "write"} => result'[d] = {} /\ d \notin emitted'
             /\ call'[d].at = "idle" => sender'[d] = {}
             /\ result'[d] # {} => wrote'[d] # {}
             /\ call'[d].at \in {"audit", "log"} => call'[d].kind # "by code"
             /\ call'[d].kind = "by code" => sender'[d] = {}
  BY <1>1 DEF Known, At, Is
<1>3. QED
  BY <1>2 DEF Known, At, Is

LEMMA OnDropKeeps ==
    ASSUME ClosingInv, AgendaInv, NEW t \in Tabs, NEW to \in Slots,
           NEW by \in {"calendar", "grid"}, OnDrop(t, to, by)
    PROVE  AgendaInv'
<1>1. PICK row \in IF by = "calendar" THEN page[t].calendar ELSE page[t].list :
        /\ drop' = [drop EXCEPT ![t] = {[to |-> to, old |-> row, by |-> by, at |-> "asked",
                                         row |-> {}]}]
        /\ page' = IF by = "calendar" THEN CalendarShows(t, [row EXCEPT !.start = to]) ELSE page
  BY DEF OnDrop
<1>2. /\ Live(t) /\ drop[t] = {} /\ astray' = IF Quiet THEN astray ELSE Tabs
      /\ UNCHANGED <<vars, start, inbox, sender, result, emitted>>
  BY DEF OnDrop, Starts
<1>3. /\ page \in [Tabs -> Page] /\ inbox \in [Tabs -> Seq(Rows)] /\ drop \in [Tabs -> SUBSET Drop]
      /\ sender \in [Calls -> SUBSET Tabs] /\ result \in [Calls -> SUBSET Rows]
      /\ emitted \subseteq Calls /\ astray \subseteq Tabs /\ start \in Slots
  BY TypedIs DEF AgendaInv
<1>4. row \in Rows
  BY <1>1, <1>3 DEF Page
<1>5. PICK move : move = [to |-> to, old |-> row, by |-> by, at |-> "asked", row |-> {}]
  OBVIOUS
<1>6. move \in Drop /\ move.old = row /\ move.by = by /\ move.at = "asked"
  BY <1>4, <1>5 DEF Drop
<1>7. /\ drop' \in [Tabs -> SUBSET Drop] /\ drop'[t] = {move}
      /\ \A u \in Tabs \ {t} : drop'[u] = drop[u]
  BY <1>1, <1>3, <1>5, <1>6
<1>8. PICK shown : shown = [row EXCEPT !.start = to]
  OBVIOUS
<1>9. shown \in Rows
  BY <1>4, <1>8 DEF Rows
<1>10. by = "calendar" => page' = [page EXCEPT ![t].calendar = {shown}]
  BY <1>1, <1>8 DEF CalendarShows
<1>11. by # "calendar" => page' = page
  BY <1>1
<1>12. /\ page' \in [Tabs -> Page] /\ page'[t].at = page[t].at /\ page'[t].list = page[t].list
       /\ by # "calendar" => page'[t].calendar = page[t].calendar
       /\ \A u \in Tabs \ {t} : page'[u] = page[u]
  <2>1. CASE by = "calendar"
    <3>1. page' = [page EXCEPT ![t].calendar = {shown}]
      BY <1>10, <2>1
    <3>2. QED
      BY <1>3, <1>9, <2>1, <3>1 DEF Page
  <2>2. CASE by # "calendar"
    BY <1>3, <1>11, <2>2
  <2>3. QED
    BY <2>1, <2>2
<1>13. Typed' /\ Row' = Row
  BY <1>2, <1>3, <1>7, <1>12 DEF Typed, AgendaTypeOK, Page, Drop, Row, Rows, vars
<1>14. Known'
  <2>1. \A u \in Tabs : page'[u].at # "joined" => inbox'[u] = <<>>
    BY <1>2, <1>12 DEF AgendaInv, Known
  <2>2. ASSUME NEW u \in Tabs
        PROVE  \A d, e \in drop'[u] : d = e
    <3>1. \A d, e \in drop[u] : d = e
      BY DEF AgendaInv, Known
    <3>2. QED
      BY <1>7, <3>1
  <2>3. QED
    BY <1>2, <2>1, <2>2, KnownAfterMove DEF AgendaInv
<1>15. CASE Quiet
  <2>1. ~Pending /\ \A d \in Calls : ~UnderWay(d)
    BY <1>15, QuietMeans DEF Quiet
  <2>2. \A d \in Calls : ~UnderWay(d)'
    BY <1>2, <2>1 DEF UnderWay, At, Is, vars
  <2>3. \A u \in Tabs : drop[u] = {} /\ inbox[u] = <<>>
    BY <1>15 DEF Quiet
  <2>4. \A u \in Tabs : drop'[u] # {} => u = t
    BY <1>7, <2>3
  <2>5. \A u \in Tabs : \A d \in drop'[u] : d.at = "asked"
    BY <1>6, <1>7, <2>4
  <2>6. OneThing'
    BY <1>2, <2>2, <2>3, <2>4, <2>5 DEF OneThing
  <2>7. ASSUME t \notin astray'
        PROVE  PageTrue(t)'
    <3>1. page[t].list = {Row} /\ page[t].calendar = {Row}
      BY <1>2, <1>15, <2>1, <2>3, <2>7 DEF AgendaInv, PagesTrue, PageTrue, HasRow, Live
    <3>2. row = Row
      BY <1>1, <3>1
    <3>3. \A d \in drop'[t] : d.old = Row' /\ d.by = by
      BY <1>6, <1>7, <1>13, <3>2
    <3>4. by # "calendar" => page'[t].calendar = {Row'}
      BY <1>12, <1>13, <3>1
    <3>5. page'[t].list = {Row'}
      BY <1>12, <1>13, <3>1
    <3>6. \E d \in drop'[t] : d.by = by
      BY <1>6, <1>7
    <3>7. QED
      BY <3>3, <3>4, <3>5, <3>6 DEF PageTrue
  <2>8. PagesTrue'
    BY <1>2, <1>7, <1>12, <1>15, <2>1, <2>7, OtherPages DEF AgendaInv, vars
  <2>9. QED
    BY <1>13, <1>14, <2>6, <2>8 DEF AgendaInv
<1>16. CASE ~Quiet
  BY <1>2, <1>13, <1>14, <1>16 DEF AgendaInv, PagesTrue, Calm
<1>17. QED
  BY <1>15, <1>16

\* A move under way is the only thing under way, and its page's only one.
LEMMA MoveAlone ==
    ASSUME AgendaInv, Calm, NEW t \in Tabs, drop[t] # {}
    PROVE  /\ \A c \in Calls : ~UnderWay(c)
           /\ \A u \in Tabs \ {t} : drop[u] = {}
           /\ (\E d \in drop[t] : d.at # "told") => \A u \in Tabs : inbox[u] = <<>>
           /\ \A d \in drop[t] : d.at \in {"written", "told"} => d.row = {Row}
BY DEF AgendaInv, OneThing, Unsaid

LEMMA UpdateWritesKeeps ==
    ASSUME ClosingInv, AgendaInv, NEW t \in Tabs, DropIs(t, "asked"), NEW d \in drop[t],
           start' = d.to,
           drop' = [drop EXCEPT ![t] = {[d EXCEPT !.at = "written",
                                                  !.row = {[status |-> status, start |-> d.to]}]}],
           UNCHANGED <<vars, page, inbox, sender, result, emitted, astray>>
    PROVE  AgendaInv'
<1>1. /\ page \in [Tabs -> Page] /\ inbox \in [Tabs -> Seq(Rows)] /\ drop \in [Tabs -> SUBSET Drop]
      /\ sender \in [Calls -> SUBSET Tabs] /\ result \in [Calls -> SUBSET Rows]
      /\ emitted \subseteq Calls /\ astray \subseteq Tabs /\ status \in STATUSES
  BY TypedIs DEF AgendaInv
<1>2. Row' = [status |-> status, start |-> d.to] /\ Row' \in Rows /\ d \in Drop /\ start' \in Slots
  BY <1>1 DEF Row, Rows, Drop, vars
<1>3. PICK move : move = [d EXCEPT !.at = "written", !.row = {Row'}]
  OBVIOUS
<1>4. move \in Drop /\ move.at = "written" /\ move.row = {Row'}
  BY <1>2, <1>3 DEF Drop
<1>5. drop' \in [Tabs -> SUBSET Drop] /\ drop'[t] = {move} /\ \A u \in Tabs \ {t} : drop'[u] = drop[u]
  BY <1>1, <1>2, <1>3, <1>4
<1>6. Typed'
  BY <1>1, <1>2, <1>5 DEF Typed, AgendaTypeOK, Page, Drop, Rows
<1>7. Known'
  <2>1. \A u \in Tabs : page'[u].at # "joined" => inbox'[u] = <<>>
    BY DEF AgendaInv, Known
  <2>2. ASSUME NEW u \in Tabs
        PROVE  \A m, e \in drop'[u] : m = e
    <3>1. \A m, e \in drop[u] : m = e
      BY DEF AgendaInv, Known
    <3>2. QED
      BY <1>5, <3>1
  <2>3. QED
    BY <2>1, <2>2, KnownAfterMove DEF AgendaInv
<1>8. ASSUME Calm
      PROVE  /\ \A c \in Calls : ~UnderWay(c)'
             /\ \A u \in Tabs : drop'[u] # {} => u = t
             /\ \A u \in Tabs : \A e \in drop'[u] : e.at = "written" /\ e.row = {Row'}
             /\ \A u \in Tabs : inbox'[u] = <<>>
  <2>1. \E e \in drop[t] : e.at # "told"
    BY DEF DropIs
  <2>2. /\ \A c \in Calls : ~UnderWay(c)
        /\ \A u \in Tabs \ {t} : drop[u] = {}
        /\ \A u \in Tabs : inbox[u] = <<>>
    BY <1>8, <2>1, MoveAlone
  <2>3. \A c \in Calls : ~UnderWay(c)'
    BY <2>2 DEF UnderWay, At, Is, vars
  <2>4. \A u \in Tabs : drop'[u] # {} => u = t
    BY <1>5, <2>2
  <2>5. \A u \in Tabs : \A e \in drop'[u] : e.at = "written" /\ e.row = {Row'}
    BY <1>4, <1>5, <2>4
  <2>6. QED
    BY <2>2, <2>3, <2>4, <2>5
<1>9. Calm' => OneThing'
  <2>1. Calm' => Calm
    BY DEF Calm
  <2>2. QED
    BY <1>8, <2>1 DEF OneThing
<1>10. Pending'
  BY <1>4, <1>5 DEF Pending, DropIs
<1>11. ASSUME NEW u \in Tabs \ astray'
       PROVE  PageTrue(u)'
  <2>1. Calm
    BY <1>11 DEF Calm
  <2>2. \A e \in drop'[u] : e.at = "written"
    BY <1>8, <2>1
  <2>3. QED
    BY <1>10, <2>2 DEF PageTrue
<1>12. QED
  BY <1>6, <1>7, <1>9, <1>11 DEF AgendaInv, PagesTrue

LEMMA UpdateRefusesKeeps ==
    ASSUME ClosingInv, AgendaInv, NEW t \in Tabs, DropIs(t, "asked"),
           NEW end \in {"refused", "nothing"}, DropGoes(t, end),
           UNCHANGED <<vars, start, page, inbox, sender, result, emitted, astray>>
    PROVE  AgendaInv'
<1>1. /\ page \in [Tabs -> Page] /\ inbox \in [Tabs -> Seq(Rows)] /\ drop \in [Tabs -> SUBSET Drop]
      /\ sender \in [Calls -> SUBSET Tabs] /\ result \in [Calls -> SUBSET Rows]
      /\ emitted \subseteq Calls /\ astray \subseteq Tabs /\ start \in Slots
  BY TypedIs DEF AgendaInv
<1>2. /\ drop' \in [Tabs -> SUBSET Drop]
      /\ \A u \in Tabs \ {t} : drop'[u] = drop[u]
      /\ \A e \in drop'[t] : \E d \in drop[t] :
                /\ e = [d EXCEPT !.at = end]
                /\ e.at = end /\ e.old = d.old /\ e.by = d.by /\ e.row = d.row
  <2>1. end \in {"asked", "written", "told", "refused", "nothing"}
    OBVIOUS
  <2>2. QED
    BY <1>1, <2>1, DropGone
<1>3. \A d, e \in drop[t] : d = e
  BY DEF AgendaInv, Known
<1>4. \A d \in drop[t] : d.at = "asked"
  BY <1>3 DEF DropIs
<1>5. Typed' /\ Row' = Row
  BY <1>1, <1>2 DEF Typed, AgendaTypeOK, Page, Drop, Row, Rows, vars
<1>6. Known'
  <2>1. \A u \in Tabs : page'[u].at # "joined" => inbox'[u] = <<>>
    BY DEF AgendaInv, Known
  <2>2. ASSUME NEW u \in Tabs
        PROVE  \A m, e \in drop'[u] : m = e
    <3>1. \A m, e \in drop[u] : m = e
      BY DEF AgendaInv, Known
    <3>2. QED
      BY <1>2, <3>1
  <2>3. QED
    BY <2>1, <2>2, KnownAfterMove DEF AgendaInv
<1>7. ASSUME Calm
      PROVE  OneThing'
  <2>1. \E e \in drop[t] : e.at # "told"
    BY DEF DropIs
  <2>2. /\ \A c \in Calls : ~UnderWay(c)
        /\ \A u \in Tabs \ {t} : drop[u] = {}
        /\ \A u \in Tabs : inbox[u] = <<>>
    BY <1>7, <2>1, MoveAlone
  <2>3. \A c \in Calls : ~UnderWay(c)'
    BY <2>2 DEF UnderWay, At, Is, vars
  <2>4. \A u \in Tabs : drop'[u] # {} => u = t
    BY <1>2, <2>2
  <2>5. \A u \in Tabs : \A e \in drop'[u] : e.at = end
    BY <1>2, <2>4
  <2>6. QED
    BY <2>2, <2>3, <2>4, <2>5 DEF OneThing
<1>8. Calm' => OneThing'
  BY <1>7 DEF Calm
<1>9. Pending => Pending'
  <2>1. \A c \in Calls : Written(c) => Written(c)'
    BY DEF Written, At, Is, vars
  <2>2. \A u \in Tabs : DropIs(u, "written") => DropIs(u, "written")'
    BY <1>2, <1>4 DEF DropIs
  <2>3. QED
    BY <2>1, <2>2 DEF Pending
<1>10. ASSUME t \notin astray'
       PROVE  PageTrue(t)'
  <2>1. PageTrue(t)
    BY <1>10 DEF AgendaInv, PagesTrue
  <2>2. \A e \in drop'[t] : e.old = Row'
    BY <1>2, <1>4, <1>5, <2>1 DEF PageTrue
  <2>3. ASSUME HasRow(t)', inbox'[t] = <<>>, ~Pending'
        PROVE  page'[t].list = {Row'}
    BY <1>5, <1>9, <2>1, <2>3 DEF PageTrue, HasRow
  <2>4. ASSUME HasRow(t)', inbox'[t] = <<>>, ~Pending', Live(t)',
               \A e \in drop'[t] : e.by # "calendar"
        PROVE  page'[t].calendar = {Row'}
    <3>1. PICK d \in drop[t] : d.at = "asked"
      BY DEF DropIs
    <3>2. PICK e \in drop'[t] : e.by = d.by
      <4>1. drop' = [drop EXCEPT ![t] = {[m EXCEPT !.at = end] : m \in drop[t]}]
        BY DEF DropGoes
      <4>2. [d EXCEPT !.at = end] \in drop'[t]
        BY <1>1, <4>1
      <4>3. PICK m : m = [d EXCEPT !.at = end]
        OBVIOUS
      <4>4. m.by = d.by
        BY <1>1, <4>3 DEF Drop
      <4>5. QED
        BY <4>2, <4>3, <4>4
    <3>3. \A m \in drop[t] : m.by # "calendar"
      BY <1>3, <2>4, <3>2
    <3>4. QED
      BY <1>5, <1>9, <2>1, <2>4, <3>3 DEF PageTrue, HasRow, Live
  <2>5. QED
    BY <2>2, <2>3, <2>4 DEF PageTrue
<1>11. QED
  BY <1>2, <1>5, <1>6, <1>8, <1>9, <1>10, OtherPages DEF AgendaInv, vars

LEMMA UpdateKeeps ==
    ASSUME ClosingInv, AgendaInv, NEW t \in Tabs, Update(t)
    PROVE  AgendaInv'
<1>1. CASE UNCHANGED start /\ \E end \in {"refused", "nothing"} : DropGoes(t, end)
  BY <1>1, UpdateRefusesKeeps DEF Update
<1>2. CASE ~(UNCHANGED start /\ \E end \in {"refused", "nothing"} : DropGoes(t, end))
  <2>1. PICK d \in drop[t] :
          /\ start' = d.to
          /\ drop' = [drop EXCEPT ![t] = {[d EXCEPT !.at = "written",
                                                    !.row = {[status |-> status, start |-> d.to]}]}]
    BY <1>2 DEF Update
  <2>2. QED
    BY <2>1, UpdateWritesKeeps DEF Update
<1>3. QED
  BY <1>1, <1>2

LEMMA UpdateEmitsKeeps ==
    ASSUME ClosingInv, AgendaInv, NEW t \in Tabs, UpdateEmits(t)
    PROVE  AgendaInv'
<1>1. PICK d \in drop[t] : \E row \in d.row : EmitToRestaurant(row)
  BY DEF UpdateEmits
<1>2. PICK row \in d.row : EmitToRestaurant(row)
  BY <1>1
<1>3. /\ DropIs(t, "written") /\ DropGoes(t, "told")
      /\ UNCHANGED <<vars, start, page, sender, result, emitted>>
  BY DEF UpdateEmits
<1>4. /\ page \in [Tabs -> Page] /\ inbox \in [Tabs -> Seq(Rows)] /\ drop \in [Tabs -> SUBSET Drop]
      /\ sender \in [Calls -> SUBSET Tabs] /\ result \in [Calls -> SUBSET Rows]
      /\ emitted \subseteq Calls /\ astray \subseteq Tabs /\ start \in Slots
  BY TypedIs DEF AgendaInv
<1>5. row \in Rows /\ d \in Drop
  BY <1>4 DEF Drop
<1>6. \A e \in drop[t] : e = d
  BY DEF AgendaInv, Known
<1>7. d.at = "written"
  BY <1>3, <1>6 DEF DropIs
<1>8. /\ inbox' \in [Tabs -> Seq(Rows)]
      /\ \A u \in Tabs : page[u].at = "joined" => inbox'[u] = Append(inbox[u], row)
      /\ \A u \in Tabs : page[u].at # "joined" => inbox'[u] = inbox[u]
      /\ \A u \in Tabs : HasRow(u) /\ page[u].at # "joined" => u \in astray'
      /\ astray \subseteq astray' /\ astray' \subseteq Tabs
  BY <1>2, <1>5, Emitted DEF AgendaInv
<1>9. /\ drop' \in [Tabs -> SUBSET Drop]
      /\ \A u \in Tabs \ {t} : drop'[u] = drop[u]
      /\ \A e \in drop'[t] : \E m \in drop[t] :
                /\ e = [m EXCEPT !.at = "told"]
                /\ e.at = "told" /\ e.old = m.old /\ e.by = m.by /\ e.row = m.row
  BY <1>3, <1>4, DropGone
<1>10. Typed' /\ Row' = Row
  BY <1>3, <1>4, <1>8, <1>9 DEF Typed, AgendaTypeOK, Page, Drop, Row, Rows, vars
<1>11. Known'
  <2>1. \A u \in Tabs : page'[u].at # "joined" => inbox'[u] = <<>>
    BY <1>3, <1>8 DEF AgendaInv, Known
  <2>2. ASSUME NEW u \in Tabs
        PROVE  \A m, e \in drop'[u] : m = e
    <3>1. \A m, e \in drop[u] : m = e
      BY DEF AgendaInv, Known
    <3>2. QED
      BY <1>9, <3>1
  <2>3. QED
    BY <1>3, <2>1, <2>2, KnownAfterMove DEF AgendaInv
<1>12. ASSUME Calm
       PROVE  /\ \A c \in Calls : ~UnderWay(c)'
              /\ \A u \in Tabs : drop'[u] # {} => u = t
              /\ \A u \in Tabs : \A e \in drop'[u] : e.at = "told" /\ e.row = {Row}
              /\ \A u \in Tabs : inbox[u] = <<>>
              /\ row = Row
  <2>1. \E e \in drop[t] : e.at # "told"
    BY <1>7
  <2>2. /\ \A c \in Calls : ~UnderWay(c)
        /\ \A u \in Tabs \ {t} : drop[u] = {}
        /\ \A u \in Tabs : inbox[u] = <<>>
        /\ d.row = {Row}
    BY <1>7, <1>12, <2>1, MoveAlone
  <2>3. \A c \in Calls : ~UnderWay(c)'
    BY <1>3, <2>2 DEF UnderWay, At, Is, vars
  <2>4. \A u \in Tabs : drop'[u] # {} => u = t
    BY <1>9, <2>2
  <2>5. \A e \in drop'[t] : e.at = "told" /\ e.row = {Row}
    BY <1>6, <1>9, <2>2
  <2>6. QED
    BY <1>2, <2>2, <2>3, <2>4, <2>5
<1>13. ASSUME Calm, NEW u \in Tabs
       PROVE  inbox'[u] = IF page[u].at = "joined" THEN <<Row>> ELSE <<>>
  <2>1. inbox[u] = <<>> /\ row = Row
    BY <1>12, <1>13
  <2>2. Append(<<>>, row) = <<row>>
    OBVIOUS
  <2>3. QED
    BY <1>8, <2>1, <2>2
<1>14. Calm' => OneThing'
  <2>1. Calm' => Calm
    BY <1>8 DEF Calm
  <2>2. Calm => ~Unsaid'
    BY <1>12 DEF Unsaid
  <2>3. QED
    BY <1>10, <1>12, <1>13, <2>1, <2>2 DEF OneThing
<1>15. ASSUME NEW u \in Tabs \ astray'
       PROVE  PageTrue(u)'
  <2>1. Calm
    BY <1>8, <1>15 DEF Calm
  <2>2. \A e \in drop'[u] : e.at = "told"
    BY <1>12, <2>1
  <2>3. HasRow(u)' => inbox'[u] = <<Row>>
    BY <1>3, <1>8, <1>13, <1>15, <2>1 DEF HasRow
  <2>4. QED
    BY <2>2, <2>3 DEF PageTrue
<1>16. QED
  BY <1>10, <1>11, <1>14, <1>15 DEF AgendaInv, PagesTrue

\* A page that is done with its move, with whatever it shows then: what remains to be shown
\* is that this page is true.
LEMMA MoveEndsKeeps ==
    ASSUME ClosingInv, AgendaInv, NEW t \in Tabs, NEW d \in drop[t], d.at # "written",
           drop' = [drop EXCEPT ![t] = {}], page' \in [Tabs -> Page], page'[t].at = page[t].at,
           \A u \in Tabs \ {t} : page'[u] = page[u],
           UNCHANGED <<vars, start, inbox, sender, result, emitted>>,
           astray' = astray \/ astray' = astray \cup {t},
           t \notin astray' /\ Calm /\ PageTrue(t) /\ HasRow(t) /\ inbox[t] = <<>> /\ ~Pending =>
               page'[t].list = {Row} /\ (Live(t) => page'[t].calendar = {Row})
    PROVE  AgendaInv'
<1>1. /\ page \in [Tabs -> Page] /\ inbox \in [Tabs -> Seq(Rows)] /\ drop \in [Tabs -> SUBSET Drop]
      /\ sender \in [Calls -> SUBSET Tabs] /\ result \in [Calls -> SUBSET Rows]
      /\ emitted \subseteq Calls /\ astray \subseteq Tabs /\ start \in Slots
  BY TypedIs DEF AgendaInv
<1>2. /\ drop' \in [Tabs -> SUBSET Drop] /\ drop'[t] = {}
      /\ \A u \in Tabs \ {t} : drop'[u] = drop[u]
  BY <1>1
<1>3. Typed' /\ Row' = Row
  BY <1>1, <1>2 DEF Typed, AgendaTypeOK, Page, Drop, Row, Rows, vars
<1>4. Known'
  <2>1. \A u \in Tabs : page'[u].at # "joined" => inbox'[u] = <<>>
    BY DEF AgendaInv, Known
  <2>2. ASSUME NEW u \in Tabs
        PROVE  \A m, e \in drop'[u] : m = e
    <3>1. \A m, e \in drop[u] : m = e
      BY DEF AgendaInv, Known
    <3>2. QED
      BY <1>2, <3>1
  <2>3. QED
    BY <2>1, <2>2, KnownAfterMove DEF AgendaInv
<1>5. ASSUME Calm
      PROVE  OneThing'
  <2>1. /\ \A c \in Calls : ~UnderWay(c)
        /\ \A u \in Tabs \ {t} : drop[u] = {}
    BY <1>5, MoveAlone
  <2>2. \A c \in Calls : ~UnderWay(c)'
    BY <2>1 DEF UnderWay, At, Is, vars
  <2>3. \A u \in Tabs : drop'[u] = {}
    BY <1>2, <2>1
  <2>4. ~Unsaid'
    BY <2>2, <2>3 DEF Unsaid
  <2>5. \A u \in Tabs : inbox'[u] = <<>> \/ inbox'[u] = <<Row'>>
    BY <1>3, <1>5 DEF AgendaInv, OneThing
  <2>6. QED
    BY <2>2, <2>3, <2>4, <2>5 DEF OneThing
<1>6. Calm' => OneThing'
  BY <1>5 DEF Calm
<1>7. Pending => Pending'
  <2>1. \A c \in Calls : Written(c) => Written(c)'
    BY DEF Written, At, Is, vars
  <2>2. \A e \in drop[t] : e = d
    BY DEF AgendaInv, Known
  <2>3. \A u \in Tabs : DropIs(u, "written") => DropIs(u, "written")'
    BY <1>2, <2>2 DEF DropIs
  <2>4. QED
    BY <2>1, <2>3 DEF Pending
<1>8. ASSUME t \notin astray'
      PROVE  PageTrue(t)'
  <2>1. Calm /\ PageTrue(t)
    BY <1>8 DEF Calm, AgendaInv, PagesTrue
  <2>2. QED
    BY <1>2, <1>3, <1>7, <1>8, <2>1 DEF PageTrue, HasRow, Live
<1>9. QED
  BY <1>2, <1>3, <1>4, <1>6, <1>7, <1>8, OtherPages DEF AgendaInv, vars

LEMMA DropAnsweredKeeps ==
    ASSUME ClosingInv, AgendaInv, NEW t \in Tabs, DropAnswered(t)
    PROVE  AgendaInv'
<1>1. PICK d \in drop[t] : \E row \in d.row :
         page' = CASE d.by = "grid"     -> ListShows(t, row)
                   [] d.by = "calendar" -> CalendarShows(t, row)
                   [] d.by = "nobody"   -> page
  BY DEF DropAnswered
<1>2. PICK row \in d.row :
         page' = CASE d.by = "grid"     -> ListShows(t, row)
                   [] d.by = "calendar" -> CalendarShows(t, row)
                   [] d.by = "nobody"   -> page
  BY <1>1
<1>3. /\ DropIs(t, "told") /\ drop' = [drop EXCEPT ![t] = {}]
      /\ UNCHANGED <<vars, start, inbox, sender, result, emitted, astray>>
  BY DEF DropAnswered
<1>4. /\ page \in [Tabs -> Page] /\ drop \in [Tabs -> SUBSET Drop]
  BY TypedIs DEF AgendaInv
<1>5. row \in Rows /\ d.by \in {"calendar", "grid", "nobody"}
  BY <1>4 DEF Drop
<1>6. d.at = "told" /\ \A e \in drop[t] : e = d
  BY <1>3 DEF DropIs, AgendaInv, Known
<1>7. /\ page' \in [Tabs -> Page] /\ page'[t].at = page[t].at
      /\ page'[t].calendar = {row} \/ (d.by = "nobody" /\ page'[t].calendar = page[t].calendar)
      /\ page'[t].list = {row} \/ page'[t].list = page[t].list
      /\ \A u \in Tabs \ {t} : page'[u] = page[u]
  <2>1. CASE d.by = "grid"
    <3>1. page' = [page EXCEPT ![t].list = {row}, ![t].calendar = {row}]
      BY <1>2, <2>1 DEF ListShows
    <3>2. QED
      BY <1>4, <1>5, <3>1 DEF Page
  <2>2. CASE d.by = "calendar"
    <3>1. page' = [page EXCEPT ![t].calendar = {row}]
      BY <1>2, <2>2 DEF CalendarShows
    <3>2. QED
      BY <1>4, <1>5, <3>1 DEF Page
  <2>3. CASE d.by = "nobody"
    BY <1>2, <1>4, <2>3
  <2>4. QED
    BY <1>5, <2>1, <2>2, <2>3
<1>8. ASSUME Calm, PageTrue(t), HasRow(t), inbox[t] = <<>>, ~Pending
      PROVE  page'[t].list = {Row} /\ (Live(t) => page'[t].calendar = {Row})
  <2>1. row = Row
    BY <1>6, <1>8, MoveAlone
  <2>2. page[t].list = {Row}
    BY <1>8 DEF PageTrue
  <2>3. d.by = "nobody" /\ Live(t) => page[t].calendar = {Row}
    BY <1>6, <1>8 DEF PageTrue
  <2>4. QED
    BY <1>7, <2>1, <2>2, <2>3
<1>9. QED
  BY <1>3, <1>6, <1>7, <1>8, MoveEndsKeeps

\* A move that was answered nothing has written nothing; only what the calendar shows is wrong.
LEMMA DropVoidKeeps ==
    ASSUME ClosingInv, AgendaInv, NEW t \in Tabs, DropVoid(t)
    PROVE  AgendaInv'
<1>1. /\ DropIs(t, "nothing") /\ drop' = [drop EXCEPT ![t] = {}]
      /\ astray' = astray \cup {u \in {t} : \E d \in drop[t] : d.by = "calendar"}
      /\ UNCHANGED <<vars, start, page, inbox, sender, result, emitted>>
  BY DEF DropVoid
<1>2. PICK d \in drop[t] : d.at = "nothing"
  BY <1>1 DEF DropIs
<1>3. \A e \in drop[t] : e = d
  BY DEF AgendaInv, Known
<1>4. /\ astray' = astray \/ astray' = astray \cup {t}
      /\ d.by = "calendar" => t \in astray'
  <2>1. CASE d.by = "calendar"
    BY <1>1, <2>1
  <2>2. CASE d.by # "calendar"
    BY <1>1, <1>3, <2>2
  <2>3. QED
    BY <2>1, <2>2
<1>5. /\ page' \in [Tabs -> Page] /\ page'[t].at = page[t].at
      /\ \A u \in Tabs \ {t} : page'[u] = page[u]
  BY <1>1, TypedIs DEF AgendaInv
<1>6. ASSUME t \notin astray', PageTrue(t), HasRow(t), inbox[t] = <<>>, ~Pending
      PROVE  page'[t].list = {Row} /\ (Live(t) => page'[t].calendar = {Row})
  BY <1>1, <1>3, <1>4, <1>6 DEF PageTrue
<1>7. QED
  BY <1>1, <1>2, <1>4, <1>5, <1>6, MoveEndsKeeps

\* A move whose request died after the write: every page that shows the row was not told.
LEMMA MoveDiesKeeps ==
    ASSUME ClosingInv, AgendaInv, NEW t \in Tabs, DropIs(t, "written"),
           drop' = [drop EXCEPT ![t] = {}], page' \in [Tabs -> Page],
           \A u \in Tabs : page'[u].at = page[u].at, Untold,
           UNCHANGED <<vars, start, inbox, sender, result, emitted>>
    PROVE  AgendaInv'
<1>1. /\ page \in [Tabs -> Page] /\ inbox \in [Tabs -> Seq(Rows)] /\ drop \in [Tabs -> SUBSET Drop]
      /\ sender \in [Calls -> SUBSET Tabs] /\ result \in [Calls -> SUBSET Rows]
      /\ emitted \subseteq Calls /\ astray \subseteq Tabs /\ start \in Slots
  BY TypedIs DEF AgendaInv
<1>2. /\ drop' \in [Tabs -> SUBSET Drop] /\ drop'[t] = {}
      /\ \A u \in Tabs \ {t} : drop'[u] = drop[u]
  BY <1>1
<1>3. astray' \subseteq Tabs /\ astray \subseteq astray' /\ \A u \in Tabs : HasRow(u) => u \in astray'
  BY <1>1 DEF Untold
<1>4. Typed' /\ Row' = Row
  BY <1>1, <1>2, <1>3 DEF Typed, AgendaTypeOK, Page, Drop, Row, Rows, vars
<1>5. Known'
  <2>1. \A u \in Tabs : page'[u].at # "joined" => inbox'[u] = <<>>
    BY DEF AgendaInv, Known
  <2>2. ASSUME NEW u \in Tabs
        PROVE  \A m, e \in drop'[u] : m = e
    <3>1. \A m, e \in drop[u] : m = e
      BY DEF AgendaInv, Known
    <3>2. QED
      BY <1>2, <3>1
  <2>3. QED
    BY <2>1, <2>2, KnownAfterMove DEF AgendaInv
<1>6. ASSUME Calm
      PROVE  /\ OneThing'
             /\ \A u \in Tabs : drop'[u] = {}
  <2>1. /\ \A c \in Calls : ~UnderWay(c)
        /\ \A u \in Tabs \ {t} : drop[u] = {}
        /\ \A u \in Tabs : inbox[u] = <<>>
    BY <1>6, MoveAlone DEF DropIs
  <2>2. \A c \in Calls : ~UnderWay(c)'
    BY <2>1 DEF UnderWay, At, Is, vars
  <2>3. \A u \in Tabs : drop'[u] = {}
    BY <1>2, <2>1
  <2>4. ~Unsaid'
    BY <2>2, <2>3 DEF Unsaid
  <2>5. QED
    BY <2>1, <2>2, <2>3, <2>4 DEF OneThing
<1>7. Calm' => Calm
  BY <1>3 DEF Calm
<1>8. ASSUME NEW u \in Tabs \ astray'
      PROVE  PageTrue(u)'
  <2>1. ~HasRow(u)'
    BY <1>3, <1>8 DEF HasRow
  <2>2. drop'[u] = {}
    BY <1>6, <1>7, <1>8 DEF Calm
  <2>3. QED
    BY <2>1, <2>2 DEF PageTrue
<1>9. QED
  BY <1>4, <1>5, <1>6, <1>7, <1>8 DEF AgendaInv, PagesTrue

\* A move that was refused has written nothing; what the calendar puts back is the row.
LEMMA DropFailsKeeps ==
    ASSUME ClosingInv, AgendaInv, "lost" \notin AgendaFaults, NEW t \in Tabs, DropFails(t)
    PROVE  AgendaInv'
<1>1. PICK d \in drop[t] : page' = IF d.by = "calendar" THEN CalendarShows(t, d.old) ELSE page
  BY DEF DropFails
<1>2. /\ DropIs(t, "refused") \/ DropIs(t, "written")
      /\ drop' = [drop EXCEPT ![t] = {}]
      /\ IF DropIs(t, "written") THEN Untold ELSE UNCHANGED astray
      /\ UNCHANGED <<vars, start, inbox, sender, result, emitted>>
  BY DEF DropFails, MoveFails
<1>3. /\ page \in [Tabs -> Page] /\ drop \in [Tabs -> SUBSET Drop]
  BY TypedIs DEF AgendaInv
<1>4. \A e \in drop[t] : e = d
  BY DEF AgendaInv, Known
<1>5. d.old \in Rows
  BY <1>3 DEF Drop
<1>6. PICK old \in Rows : old = d.old
  BY <1>5
<1>7. /\ page' \in [Tabs -> Page] /\ page'[t].at = page[t].at /\ page'[t].list = page[t].list
      /\ \A u \in Tabs \ {t} : page'[u] = page[u]
      /\ d.by = "calendar" => page'[t].calendar = {old}
      /\ d.by # "calendar" => page'[t].calendar = page[t].calendar
  <2>1. CASE d.by = "calendar"
    <3>1. page' = [page EXCEPT ![t].calendar = {old}]
      BY <1>1, <1>6, <2>1 DEF CalendarShows
    <3>2. QED
      BY <1>3, <2>1, <3>1 DEF Page
  <2>2. CASE d.by # "calendar"
    BY <1>1, <1>3, <2>2
  <2>3. QED
    BY <2>1, <2>2
<1>8. CASE DropIs(t, "written")
  BY <1>2, <1>7, <1>8, MoveDiesKeeps
<1>9. CASE ~DropIs(t, "written")
  <2>1. d.at = "refused"
    BY <1>2, <1>4, <1>9 DEF DropIs
  <2>2. ASSUME PageTrue(t), HasRow(t), inbox[t] = <<>>, ~Pending
        PROVE  page'[t].list = {Row} /\ (Live(t) => page'[t].calendar = {Row})
    <3>1. old = Row /\ page[t].list = {Row}
      BY <1>6, <2>1, <2>2 DEF PageTrue
    <3>2. d.by # "calendar" /\ Live(t) => page[t].calendar = {Row}
      BY <1>4, <2>2 DEF PageTrue
    <3>3. QED
      BY <1>7, <3>1, <3>2
  <2>3. QED
    BY <1>2, <1>7, <1>9, <2>1, <2>2, MoveEndsKeeps
<1>10. QED
  BY <1>8, <1>9

LEMMA AgendaStarts ==
    ASSUME AgendaInit
    PROVE  AgendaInv
<1>1. \E kind \in [Calls -> Kinds] : \E target \in [Calls -> STATUSES] :
         call = [c \in Calls |-> [kind |-> kind[c], target |-> target[c], read |-> {},
                                  at |-> "idle"]]
  BY DEF AgendaInit, Init
<1>2. \A c \in Calls : call[c].at = "idle"
  BY <1>1
<1>3. /\ page = [t \in Tabs |-> Closed] /\ inbox = [t \in Tabs |-> <<>>]
      /\ drop = [t \in Tabs |-> {}] /\ start \in Slots
      /\ sender = [c \in Calls |-> {}] /\ result = [c \in Calls |-> {}]
      /\ emitted = {} /\ astray = {}
  BY DEF AgendaInit
<1>4. Typed
  <2>1. page \in [Tabs -> Page]
    BY <1>3 DEF Page, Closed
  <2>2. QED
    BY <1>3, <2>1 DEF Typed, AgendaTypeOK, Page
<1>5. Known
  <2>1. ASSUME NEW c \in Calls
        PROVE  /\ call[c].at \in {"idle", "find", "write"} => result[c] = {} /\ c \notin emitted
               /\ call[c].at = "idle" => sender[c] = {}
               /\ result[c] # {} => wrote[c] # {}
               /\ call[c].at \in {"audit", "log"} => call[c].kind # "by code"
               /\ call[c].kind = "by code" => sender[c] = {}
    BY <1>2, <1>3
  <2>2. QED
    BY <1>3, <2>1 DEF Known, At, Is
<1>6. \A c \in Calls : ~UnderWay(c)
  BY <1>2, <1>3 DEF UnderWay, At
<1>7. OneThing
  BY <1>3, <1>6 DEF OneThing, Unsaid
<1>8. PagesTrue
  BY <1>3 DEF PagesTrue, PageTrue, HasRow, Closed
<1>9. QED
  BY <1>4, <1>5, <1>7, <1>8 DEF AgendaInv

\* Whatever the calls, the moves and the connections do, in any order: a page that was told of
\* every change, has seen one thing under way at a time and had no move on its calendar answered
\* with nothing, shows the row as it is once all is quiet, in its list and in its calendar.  The
\* answer of a move is not lost: the calendar would put back the row it had, after the event
\* had already told it of the move.
THEOREM AgendaStaysTrue ==
    ASSUME "lost" \notin AgendaFaults
    PROVE  AgendaSpec => []AgendaIsTrue
<1>1. AgendaInit => AgendaInv
  BY AgendaStarts
<1>2. ClosingInv /\ AgendaInv /\ [AgendaNext]_<<vars, agendaVars>> => AgendaInv'
  <2> SUFFICES ASSUME ClosingInv, AgendaInv, [AgendaNext]_<<vars, agendaVars>>
               PROVE  AgendaInv'
    OBVIOUS
  <2>1. ASSUME NEW t \in Tabs, PageNext(t)
        PROVE  AgendaInv'
    <3>1. CASE Open(t)
      BY <3>1, OpenKeeps
    <3>2. CASE FindAll(t)
      BY <3>2, FindAllKeeps
    <3>3. CASE LoadAnswered(t)
      BY <3>3, LoadAnsweredKeeps
    <3>4. CASE HandleConnection(t)
      BY <3>4, HandleConnectionKeeps
    <3>5. CASE SocketBreaks(t)
      BY <3>5, SocketBreaksKeeps
    <3>6. CASE Leave(t)
      BY <3>6, LeaveKeeps
    <3>7. CASE Deliver(t)
      BY <3>7, DeliverKeeps
    <3>8. CASE CalendarEffect(t)
      BY <3>8, CalendarEffectKeeps
    <3>9. CASE \E to \in Slots, by \in {"calendar", "grid"} : OnDrop(t, to, by)
      BY <3>9, OnDropKeeps
    <3>10. CASE Update(t)
      BY <3>10, UpdateKeeps
    <3>11. CASE UpdateEmits(t)
      BY <3>11, UpdateEmitsKeeps
    <3>12. CASE DropAnswered(t)
      BY <3>12, DropAnsweredKeeps
    <3>13. CASE DropVoid(t)
      BY <3>13, DropVoidKeeps
    <3>14. CASE DropFails(t)
      BY <3>14, DropFailsKeeps
    <3>15. QED
      BY <2>1, <3>1, <3>2, <3>3, <3>4, <3>5, <3>6, <3>7, <3>8, <3>9, <3>10, <3>11, <3>12, <3>13,
         <3>14 DEF PageNext
  <2>2. ASSUME NEW c \in Calls, CallNext(c)
        PROVE  AgendaInv'
    BY <2>2, AskFromKeeps, InsideKeeps, StatusWrittenKeeps, EmitKeeps, StatusAnsweredKeeps,
       CallFailsKeeps DEF CallNext
  <2>3. CASE UNCHANGED <<vars, agendaVars>>
    <3>1. UNCHANGED <<vars, start, page, inbox, drop, sender, result, emitted, astray>>
      BY <2>3 DEF agendaVars
    <3>2. /\ page \in [Tabs -> Page] /\ inbox \in [Tabs -> Seq(Rows)]
          /\ sender \in [Calls -> SUBSET Tabs] /\ astray \subseteq Tabs
      BY TypedIs DEF AgendaInv
    <3>3. \A u \in Tabs : page'[u].at # "joined" => inbox'[u] = <<>>
      BY <3>1 DEF AgendaInv, Known
    <3>4. Typed' /\ Known' /\ (Calm => OneThing') /\ (Pending <=> Pending')
      BY <3>1, <3>2, <3>3, Quieter
    <3>5. Calm' => OneThing'
      BY <3>1, <3>4 DEF Calm
    <3>6. \A u \in Tabs \ astray' : PageTrue(u)'
      BY <3>1, <3>4, SamePage DEF AgendaInv, PagesTrue, vars
    <3>7. QED
      BY <3>4, <3>5, <3>6 DEF AgendaInv, PagesTrue
  <2>4. QED
    BY <2>1, <2>2, <2>3 DEF AgendaNext
<1>3. ClosingInv /\ AgendaInv => AgendaIsTrue
  <2> SUFFICES ASSUME ClosingInv, AgendaInv, Quiet, NEW t \in Joined \ astray
               PROVE  page[t].list = {Row} /\ page[t].calendar = {Row}
    BY DEF AgendaIsTrue
  <2>1. t \in Tabs /\ HasRow(t) /\ Live(t)
    BY DEF Joined, HasRow, Live
  <2>2. inbox[t] = <<>> /\ drop[t] = {}
    BY <2>1 DEF Quiet
  <2>3. QED
    BY <2>1, <2>2, QuietMeans DEF AgendaInv, PagesTrue, PageTrue
<1>4. QED
  BY <1>1, <1>2, <1>3, ClosingInvariant, AgendaImplementsClosing, PTL DEF AgendaSpec
=============================================================================
