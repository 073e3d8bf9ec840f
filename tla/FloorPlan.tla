------------------------------ MODULE FloorPlan ------------------------------
(***************************************************************************)
(* The floor: the rows of zones and tables, the API's operations on them,  *)
(* the page of one manager, whose lists are two signals of a service that  *)
(* outlives the page, and other clients of the API.  A save of the page    *)
(* waits for its answer, a delete waits for nothing.                       *)
(*                                                                         *)
(* Of a row, id, name, zone and active are kept.  Rows are never removed,  *)
(* so updateMany of an id of this restaurant always finds it.              *)
(***************************************************************************)
EXTENDS Naturals, FiniteSets, Bags

CONSTANTS Tables, Zones, TableNames, ZoneNames,
          NoZone,     \* the null of zoneId
          MaxCalls,   \* bound on calls under way
          Hurry,      \* whether the page is used before its lists have come
          Others,     \* what other clients may ask for: none of it reaches the page
          FloorFaults \* "fails": a call may fail, before or after it has written

ASSUME FloorAssumption ==
    /\ NoZone \notin Zones /\ MaxCalls \in Nat /\ Hurry \in BOOLEAN
    /\ Others \subseteq {"saveTable", "deleteTable", "saveZone", "deleteZone"}
    /\ FloorFaults \subseteq {"fails"}

VARIABLES
    tables, zones,            \* the rows
    shownTables, shownZones,  \* _tables and _zones of the service: bags, their order is left out
    open,                     \* whether the page has been opened
    editTable, editZone,      \* editingTableId and editingZoneId, {} for null
    calls,
    doubt                     \* history: "lists", they have not come since a call failed half-way;
                              \*          "others", another client has asked for something

rowVars == <<tables, zones>>
shownVars == <<shownTables, shownZones>>
formVars == <<editTable, editZone>>
vars == <<rowVars, shownVars, formVars, open, calls, doubt>>

TableRow == [id : Tables, name : TableNames, zone : Zones \cup {NoZone}, active : BOOLEAN]
ZoneRow == [id : Zones, name : ZoneNames, active : BOOLEAN]
OnTables == {"saveTable", "deleteTable"}
OnZones == {"saveZone", "deleteZone"}
Loads == {"loadTables", "loadZones"}
Ops == OnTables \cup OnZones \cup Loads

\* A call: its row (ids {} for a new one), what the body carries ({} for a field left out),
\* how far it is, and what it answers.  from: the page that is open, one that was left, or
\* another client.  met (history): it was under way with another one.
Names == TableNames \cup ZoneNames
Call == [op : Ops, ids : SUBSET (Tables \cup Zones), name : SUBSET Names,
         zone : SUBSET (Zones \cup {NoZone}), active : SUBSET BOOLEAN,
         at : {"asked", "checked", "written", "done", "refused"},
         rows : SUBSET (TableRow \cup ZoneRow), from : {"page", "left", "other"}, met : BOOLEAN]

FloorTypeOK ==
    /\ tables \subseteq TableRow /\ zones \subseteq ZoneRow /\ calls \subseteq Call
    /\ IsABag(shownTables) /\ BagToSet(shownTables) \subseteq TableRow
    /\ IsABag(shownZones) /\ BagToSet(shownZones) \subseteq ZoneRow
    /\ editTable \subseteq Tables /\ editZone \subseteq Zones
    /\ open \in BOOLEAN /\ doubt \subseteq {"lists", "others"}

Init == /\ tables = {} /\ zones = {} /\ shownTables = EmptyBag /\ shownZones = EmptyBag
        /\ editTable = {} /\ editZone = {}
        /\ open = FALSE /\ calls = {} /\ doubt = {"lists"}
-----------------------------------------------------------------------------
Ids(rows) == {row.id : row \in rows}
Of(rows, i) == {row \in rows : row.id = i}
Active(rows) == {row \in rows : row.active}
Update(rows, i, new) == {IF row.id = i THEN new ELSE row : row \in rows}

\* @@unique([restaurantId, name]), inactive rows included
NameFree(rows, ids, n) == \A row \in rows : row.name = n => row.id \in ids

Without(list, i) == [row \in {r \in DOMAIN list : r.id # i} |-> list[row]]
\* Every copy of a row with the id becomes the new row.
Copies(list, i) == UNION {{row} \X (1..list[row]) : row \in Of(DOMAIN list, i)}
Mapped(list, new) == [row \in Update(DOMAIN list, new.id, new) |->
                        IF row = new THEN Cardinality(Copies(list, new.id)) ELSE list[row]]
Appended(list, new) == list (+) SetToBag({new})

\* activeTables: what the page shows of _tables
ActiveOf(list) == [row \in {r \in DOMAIN list : r.active} |-> list[row]]

Loading == \E c \in calls : c.op \in Loads /\ c.from = "page"
Saving(op) == \E c \in calls : c.op = op /\ c.from = "page"
MayClick == open /\ (Hurry \/ ~Loading)

NewCall(op, ids, name, zone) ==
    [op |-> op, ids |-> ids, name |-> name, zone |-> zone, active |-> {}, at |-> "asked",
     rows |-> {}, from |-> "page", met |-> FALSE]

Meet(set) == {[c EXCEPT !.met = Cardinality(set) > 1 \/ @] : c \in set}

Send(new) == /\ Cardinality(calls \cup new) <= MaxCalls
             /\ calls' = Meet(calls \cup new)
Moves(c, d) == calls' = (calls \ {c}) \cup {d}
-----------------------------------------------------------------------------
(* The page *)

\* ngOnInit: a new component with empty forms, and both lists asked for.
OpenPage ==
    /\ Hurry \/ \A c \in calls : c.from = "other"
    /\ Cardinality(calls) + 2 <= MaxCalls
    /\ calls' = {[c EXCEPT !.from = IF @ = "page" THEN "left" ELSE @] : c \in calls}
                 \cup {NewCall(op, {}, {}, {}) : op \in Loads}
    /\ open' = TRUE /\ editTable' = {} /\ editZone' = {}
    /\ UNCHANGED <<rowVars, shownVars, doubt>>

OnEditTable(row) == /\ MayClick /\ ~Loading
                    /\ row.zone \in Ids(BagToSet(shownZones))
                    /\ editTable' = {row.id}
                    /\ UNCHANGED <<rowVars, shownVars, open, editZone, calls, doubt>>

OnEditZone(row) == /\ MayClick /\ ~Loading
                   /\ editZone' = {row.id}
                   /\ UNCHANGED <<rowVars, shownVars, open, editTable, calls, doubt>>

\* onCancelTableEdit and onCancelZoneEdit
CancelEdit == /\ MayClick
              /\ \/ editTable # {} /\ editTable' = {} /\ UNCHANGED editZone
                 \/ editZone # {} /\ editZone' = {} /\ UNCHANGED editTable
              /\ UNCHANGED <<rowVars, shownVars, open, calls, doubt>>

\* A zone must be chosen: one of the list, or one the form has kept since it was on the list.
OnCreateOrUpdateTable(n, z) ==
    /\ MayClick /\ ~Saving("saveTable") /\ shownZones # EmptyBag
    /\ editTable # {} \/ Ids(tables) # Tables
    /\ z \in Ids(zones)
    /\ Send({NewCall("saveTable", editTable, {n}, {z})})
    /\ UNCHANGED <<rowVars, shownVars, formVars, open, doubt>>

OnCreateOrUpdateZone(n) ==
    /\ MayClick /\ ~Saving("saveZone")
    /\ editZone # {} \/ Ids(zones) # Zones
    /\ Send({NewCall("saveZone", editZone, {n}, {})})
    /\ UNCHANGED <<rowVars, shownVars, formVars, open, doubt>>

OnDeleteTable(row) ==
    /\ MayClick /\ ~Loading
    /\ row.zone \in Ids(BagToSet(shownZones))
    /\ Send({NewCall("deleteTable", {row.id}, {}, {})})
    /\ UNCHANGED <<rowVars, shownVars, formVars, open, doubt>>

\* Refused at once when the page shows an active table in the zone.
OnDeleteZone(row) ==
    /\ MayClick /\ ~Loading
    /\ \A table \in DOMAIN ActiveOf(shownTables) : table.zone # row.id
    /\ Send({NewCall("deleteZone", {row.id}, {}, {})})
    /\ UNCHANGED <<rowVars, shownVars, formVars, open, doubt>>
-----------------------------------------------------------------------------
(* Other clients: any row of the restaurant, and of a PATCH the parts of the body that the   *)
(* page never sends; a new name, which it does send, is left out.                            *)

Maybe(set) == {{}} \cup {{x} : x \in set}

Body(op, ids, name, zone, active) ==
    [NewCall(op, ids, name, zone) EXCEPT !.active = active, !.from = "other"]

Asks(c) == /\ c.op \in Others
           /\ c.op = "saveTable" /\ c.ids = {} => Ids(tables) # Tables
           /\ c.op = "saveZone" /\ c.ids = {} => Ids(zones) # Zones
           /\ Send({c})

PostTable == \E n \in TableNames, z \in Ids(zones) \cup {NoZone} :
               Asks(Body("saveTable", {}, {n}, {z}, {}))
PatchTable == \E i \in Ids(tables), z \in Maybe(Ids(zones) \cup {NoZone}), a \in Maybe(BOOLEAN) :
                Asks(Body("saveTable", {i}, {}, z, a))
PostZone == \E n \in ZoneNames : Asks(Body("saveZone", {}, {n}, {}, {}))
PatchZone == \E i \in Ids(zones), a \in Maybe(BOOLEAN) : Asks(Body("saveZone", {i}, {}, {}, a))
Deletes == \/ \E i \in Ids(tables) : Asks(Body("deleteTable", {i}, {}, {}, {}))
           \/ \E i \in Ids(zones) : Asks(Body("deleteZone", {i}, {}, {}, {}))

AskElsewhere ==
    /\ PostTable \/ PatchTable \/ PostZone \/ PatchZone \/ Deletes
    /\ doubt' = doubt \cup {"others"}
    /\ UNCHANGED <<rowVars, shownVars, formVars, open>>
-----------------------------------------------------------------------------
(* The API *)

NoPage == UNCHANGED <<shownVars, formVars, open, doubt>>

ListTables(c) == /\ c.op = "loadTables" /\ c.at = "asked"
                 /\ Moves(c, [c EXCEPT !.at = "done", !.rows = Active(tables)])
                 /\ NoPage /\ UNCHANGED rowVars

ListZones(c) == /\ c.op = "loadZones" /\ c.at = "asked"
                /\ Moves(c, [c EXCEPT !.at = "done", !.rows = Active(zones)])
                /\ NoPage /\ UNCHANGED rowVars

\* Mutant of AssertBelongsToTenant: any zone of the restaurant will do.
AssertBelongsToTenant_AnyZone(c) ==
    /\ c.op = "saveTable" /\ c.at = "asked"
    /\ Moves(c, [c EXCEPT !.at = IF c.zone \ {NoZone} \subseteq Ids(zones) THEN "checked"
                                 ELSE "refused"])
    /\ NoPage /\ UNCHANGED rowVars

\* A table is saved into an active zone, or into none.
AssertBelongsToTenant(c) ==
    /\ c.op = "saveTable" /\ c.at = "asked"
    /\ Moves(c, [c EXCEPT !.at = IF c.zone \ {NoZone} \subseteq Ids(Active(zones)) THEN "checked"
                                 ELSE "refused"])
    /\ NoPage /\ UNCHANGED rowVars

CountTables(c) ==
    /\ c.op = "deleteZone" /\ c.at = "asked"
    /\ Moves(c, [c EXCEPT !.at = IF \E row \in Active(tables) : {row.zone} = c.ids THEN "refused"
                                 ELSE "checked"])
    /\ NoPage /\ UNCHANGED rowVars

CreateTable(c) ==
    /\ c.op = "saveTable" /\ c.at = "checked" /\ c.ids = {}
    /\ \E n \in c.name, z \in c.zone, i \in Tables \ Ids(tables) :
         LET new == [id |-> i, name |-> n, zone |-> z, active |-> TRUE] IN
           IF NameFree(tables, {}, n)
           THEN tables' = tables \cup {new} /\ Moves(c, [c EXCEPT !.at = "done", !.rows = {new}])
           ELSE UNCHANGED tables /\ Moves(c, [c EXCEPT !.at = "refused"])
    /\ NoPage /\ UNCHANGED zones

\* What the body carries, or what is there.
Given(field, old) == IF field = {} THEN {old} ELSE field

UpdateTable(c) ==
    /\ c.op = "saveTable" /\ c.at = "checked"
    /\ \E i \in c.ids : \E row \in Of(tables, i) :
       \E n \in Given(c.name, row.name), z \in Given(c.zone, row.zone),
          a \in Given(c.active, row.active) :
         IF NameFree(tables, {i}, n)
         THEN /\ tables' = Update(tables, i, [row EXCEPT !.name = n, !.zone = z, !.active = a])
              /\ Moves(c, [c EXCEPT !.at = "written"])
         ELSE UNCHANGED tables /\ Moves(c, [c EXCEPT !.at = "refused"])
    /\ NoPage /\ UNCHANGED zones

DeactivateTable(c) ==
    /\ c.op = "deleteTable" /\ c.at = "asked"
    /\ \E row \in tables : /\ c.ids = {row.id}
                           /\ tables' = Update(tables, row.id, [row EXCEPT !.active = FALSE])
    /\ Moves(c, [c EXCEPT !.at = "written"])
    /\ NoPage /\ UNCHANGED zones

CreateZone(c) ==
    /\ c.op = "saveZone" /\ c.at = "asked" /\ c.ids = {}
    /\ \E n \in c.name, i \in Zones \ Ids(zones) :
         LET new == [id |-> i, name |-> n, active |-> TRUE] IN
           IF NameFree(zones, {}, n)
           THEN zones' = zones \cup {new} /\ Moves(c, [c EXCEPT !.at = "done", !.rows = {new}])
           ELSE UNCHANGED zones /\ Moves(c, [c EXCEPT !.at = "refused"])
    /\ NoPage /\ UNCHANGED tables

UpdateZone(c) ==
    /\ c.op = "saveZone" /\ c.at = "asked"
    /\ \E i \in c.ids : \E row \in Of(zones, i) :
       \E n \in Given(c.name, row.name), a \in Given(c.active, row.active) :
         IF NameFree(zones, {i}, n)
         THEN /\ zones' = Update(zones, i, [row EXCEPT !.name = n, !.active = a])
              /\ Moves(c, [c EXCEPT !.at = "written"])
         ELSE UNCHANGED zones /\ Moves(c, [c EXCEPT !.at = "refused"])
    /\ NoPage /\ UNCHANGED tables

DeactivateZone(c) ==
    /\ c.op = "deleteZone" /\ c.at = "checked"
    /\ \E row \in zones : /\ c.ids = {row.id}
                          /\ zones' = Update(zones, row.id, [row EXCEPT !.active = FALSE])
    /\ Moves(c, [c EXCEPT !.at = "written"])
    /\ NoPage /\ UNCHANGED tables

\* findFirstOrThrow: the row as it is by now.
ReadBack(c) ==
    /\ c.at = "written"
    /\ Moves(c, [c EXCEPT !.at = "done",
                          !.rows = {row \in IF c.op \in OnTables THEN tables ELSE zones :
                                      {row.id} = c.ids}])
    /\ NoPage /\ UNCHANGED rowVars
-----------------------------------------------------------------------------
(* The answers: the service's tap, then the component's next or error *)

\* With the second list the page is what it was asked for.
Settle(c) == doubt' = IF \E d \in calls \ {c} : d.op \in Loads THEN doubt ELSE doubt \ {"lists"}

TablesCome(c) ==
    /\ c.op = "loadTables" /\ c.at = "done"
    /\ shownTables' = SetToBag(c.rows) /\ calls' = calls \ {c} /\ Settle(c)
    /\ UNCHANGED <<rowVars, shownZones, formVars, open>>

ZonesCome(c) ==
    /\ c.op = "loadZones" /\ c.at = "done"
    /\ shownZones' = SetToBag(c.rows) /\ calls' = calls \ {c} /\ Settle(c)
    /\ UNCHANGED <<rowVars, shownTables, formVars, open>>

TableSaved(c) ==
    /\ c.op = "saveTable" /\ c.at = "done" /\ c.from # "other"
    /\ \E new \in c.rows :
         /\ shownTables' = IF c.ids = {} THEN Appended(shownTables, new)
                           ELSE Mapped(shownTables, new)
    /\ editTable' = IF c.from = "page" THEN {} ELSE editTable
    /\ calls' = calls \ {c}
    /\ UNCHANGED <<rowVars, shownZones, editZone, open, doubt>>

TableDeleted(c) ==
    /\ c.op = "deleteTable" /\ c.at = "done" /\ c.from # "other"
    /\ \E row \in c.rows : shownTables' = Without(shownTables, row.id)
    /\ calls' = calls \ {c}
    /\ UNCHANGED <<rowVars, shownZones, formVars, open, doubt>>

ZoneSaved(c) ==
    /\ c.op = "saveZone" /\ c.at = "done" /\ c.from # "other"
    /\ \E new \in c.rows :
         /\ shownZones' = IF c.ids = {} THEN Appended(shownZones, new) ELSE Mapped(shownZones, new)
    /\ editZone' = IF c.from = "page" THEN {} ELSE editZone
    /\ calls' = calls \ {c}
    /\ UNCHANGED <<rowVars, shownTables, editTable, open, doubt>>

\* Mutant of ZoneDeleted: the answer is put in its place, as the answer of a save.
ZoneDeleted_Mapped(c) ==
    /\ c.op = "deleteZone" /\ c.at = "done" /\ c.from # "other"
    /\ \E row \in c.rows : shownZones' = Mapped(shownZones, row)
    /\ calls' = calls \ {c}
    /\ UNCHANGED <<rowVars, shownTables, formVars, open, doubt>>

ZoneDeleted(c) ==
    /\ c.op = "deleteZone" /\ c.at = "done" /\ c.from # "other"
    /\ \E row \in c.rows : shownZones' = Without(shownZones, row.id)
    /\ calls' = calls \ {c}
    /\ UNCHANGED <<rowVars, shownTables, formVars, open, doubt>>

\* The answer of another client's call: the page hears nothing of it.
AnsweredElsewhere(c) == /\ c.from = "other" /\ c.at = "done" /\ calls' = calls \ {c}
                        /\ UNCHANGED <<rowVars, shownVars, formVars, open, doubt>>

Refused(c) == /\ c.at = "refused" /\ calls' = calls \ {c}
              /\ UNCHANGED <<rowVars, shownVars, formVars, open, doubt>>

\* A statement throws or an answer is lost: a message.  One list that fails stops the other.
Fails(c) ==
    /\ "fails" \in FloorFaults /\ c.at # "refused"
    /\ calls' = calls \ IF c.op \in Loads THEN {d \in calls : d.op \in Loads} ELSE {c}
    /\ doubt' = IF c.op \notin Loads /\ c.at \in {"written", "done"} THEN doubt \cup {"lists"}
                ELSE doubt
    /\ UNCHANGED <<rowVars, shownVars, formVars, open>>

Clicks == \/ OpenPage \/ CancelEdit
          \/ \E row \in DOMAIN ActiveOf(shownTables) : OnEditTable(row) \/ OnDeleteTable(row)
          \/ \E row \in DOMAIN shownZones : OnEditZone(row) \/ OnDeleteZone(row)
          \/ \E n \in TableNames, z \in Zones : OnCreateOrUpdateTable(n, z)
          \/ \E n \in ZoneNames : OnCreateOrUpdateZone(n)

Api(c) == \/ ListTables(c) \/ ListZones(c) \/ AssertBelongsToTenant(c) \/ CountTables(c)
          \/ CreateTable(c) \/ UpdateTable(c) \/ DeactivateTable(c)
          \/ CreateZone(c) \/ UpdateZone(c) \/ DeactivateZone(c) \/ ReadBack(c)

Answer(c) == \/ TablesCome(c) \/ ZonesCome(c) \/ TableSaved(c) \/ TableDeleted(c)
             \/ ZoneSaved(c) \/ ZoneDeleted(c) \/ AnsweredElsewhere(c) \/ Refused(c)
             \/ Fails(c)

Next == Clicks \/ AskElsewhere \/ \E c \in calls : Api(c) \/ Answer(c)

Spec == Init /\ [][Next]_vars
-----------------------------------------------------------------------------
(* Properties *)

Shows(list, rows) == list = SetToBag(rows)

\* An active table without a zone, or whose zone is not active: it is booked and is on
\* nobody's page.
Hidden(rows, places) == {row \in Active(rows) : row.zone \notin Ids(Active(places))}

\* However deletes and saves of the page overlap, once they are answered, none of them has
\* failed half-way and no other client has been there, the page shows each active row once
\* and as it is, and nothing else.
FloorIsTrue ==
    (open /\ calls = {} /\ doubt = {}) => /\ Shows(ActiveOf(shownTables), Active(tables))
                                          /\ Shows(shownZones, Active(zones))

\* Bodies that the API writes as they are: a table brought back or taken out of its zone, a
\* zone switched off without a look at its tables.
Bare(c) == \/ c.op = "saveTable" /\ (TRUE \in c.active \/ NoZone \in c.zone)
           \/ c.op = "saveZone" /\ FALSE \in c.active

\* Whatever any client asks for, a table goes out of sight only by such a body, or by a call
\* that was under way together with another: the zone's check and the count of its tables see
\* everything else, failures included.
HiddenOnlyByOverlap ==
    [][\A row \in Hidden(tables', zones') : Of(Hidden(tables, zones), row.id) = {} =>
         \E c \in calls \ calls' : c.met \/ Bare(c)]_vars
=============================================================================
