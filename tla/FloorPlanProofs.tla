-------------------------- MODULE FloorPlanProofs --------------------------
(***************************************************************************)
(* Theorems about FloorPlan, for every set of tables, zones and names and  *)
(* every number of calls.  The tables and the zones are kept in the same   *)
(* way; what is said of both is said of some rows, the list that shows     *)
(* them, the calls, and the names of the two operations on the rows.       *)
(***************************************************************************)
EXTENDS FloorPlan, FiniteSetTheorems, TLAPS

\* A call, and what its kind says of its fields.
CallOf(c) == /\ c \in Call
             /\ c.op \in OnTables \cup {"loadTables"} =>
                  c.ids \subseteq Tables /\ c.name \subseteq TableNames /\ c.rows \subseteq TableRow
             /\ c.op \in OnZones \cup {"loadZones"} =>
                  c.ids \subseteq Zones /\ c.name \subseteq ZoneNames /\ c.rows \subseteq ZoneRow
             /\ c.op \in Loads => c.at \in {"asked", "done"}

\* One row for an id.
Keyed(rows) == \A r, s \in rows : r.id = s.id => r = s

Typed == /\ tables \subseteq TableRow /\ zones \subseteq ZoneRow
         /\ Keyed(tables) /\ Keyed(zones)
         /\ DOMAIN shownTables \subseteq TableRow /\ DOMAIN shownZones \subseteq ZoneRow
         /\ editTable \subseteq Tables /\ editZone \subseteq Zones
         /\ \A c \in calls : CallOf(c)
         /\ IsFiniteSet(calls)

\* A call that met no other has seen what it goes by: the zone it saves into is active, the
\* zone it switches off has no active table.  A list that is loaded changes no row.
Seen(c) == /\ c.op = "saveTable" /\ c.at = "checked" =>
                c.zone \ {NoZone} \subseteq Ids(Active(zones))
           /\ c.op = "deleteZone" /\ c.at = "checked" =>
                \A row \in Active(tables) : {row.zone} # c.ids

Apart == \A c \in calls : ~c.met /\ c.op \notin Loads =>
            Seen(c) /\ \A d \in calls : d = c \/ d.op \in Loads

\* Only one call of a kind is under way.
Alone(cs, op) == \A c, d \in cs : c.op = op /\ d.op = op => c = d

\* A save or a delete knows its one row.  What a save answers is the row as it is by now, or
\* the row has been deleted since; the row of a delete that has written is not active.
Fits(c, rows, save) ==
    /\ c.ids \subseteq Ids(rows) /\ \A i, j \in c.ids : i = j
    /\ c.at = "written" => c.ids # {}
    /\ c.at = "done" /\ c.ids # {} => Ids(c.rows) \subseteq c.ids
    /\ c.at = "done" /\ c.ids = {} => c.op = save
    /\ c.at = "done" /\ c.op = save =>
         \A r \in rows, s \in c.rows : r.active /\ r.id = s.id => r = s
    /\ c.at \in {"written", "done"} /\ c.op # save =>
         \A r \in rows : r.id \in c.ids => ~r.active

\* The row of a creation is not shown before it is answered, and nothing else is about it.
New(c, rows, shown, cs, save, delete) ==
    \E r \in rows : /\ c.rows = {r} /\ r.active /\ r.id \notin Ids(shown)
                    /\ \A d \in cs : d.op \in {save, delete} => r.id \notin d.ids

Sound(rows, shown, cs, save, delete) ==
    /\ Keyed(shown) /\ Ids(shown) \subseteq Ids(rows)
    /\ \A c \in cs : c.op \in {save, delete} => Fits(c, rows, save)
    /\ \A c \in cs : c.op = save /\ c.at = "done" /\ c.ids = {} =>
         New(c, rows, shown, cs, save, delete)

\* An active row is shown as it is, or a save that will show it is to be answered; an
\* inactive one is not shown, or a delete that will hide it is to be answered.
WillShow(c, r, shown) ==
    \/ c.at = "done" /\ c.ids = {} /\ c.rows = {r}
    \/ /\ c.ids = {r.id} /\ r.id \in Ids(shown)
       /\ c.at = "written" \/ (c.at = "done" /\ c.rows = {r})
WillHide(c, r) == c.ids = {r.id} /\ c.at \in {"written", "done"}

Right(rows, shown, cs, save, delete) ==
    /\ \A r \in rows : r.active =>
         r \in shown \/ \E c \in cs : c.op = save /\ WillShow(c, r, shown)
    /\ \A r \in rows : ~r.active =>
         r.id \notin Ids(shown) \/ \E c \in cs : c.op = delete /\ WillHide(c, r)

\* The page waits for its lists before it is used, so nothing else is under way with them;
\* what they answer is what there is, and the list that has come is right.
Asked(op) == \E c \in calls : c.op = op

Waits == /\ \A c \in calls : c.from = "page" /\ c.active = {}
         /\ \A c, d \in calls : c.op \in Loads => d.op \in Loads
         /\ \A op \in Loads \cup {"saveTable", "saveZone"} : Alone(calls, op)
         /\ \A c \in calls : /\ c.op = "loadTables" /\ c.at = "done" => c.rows = Active(tables)
                             /\ c.op = "loadZones" /\ c.at = "done" => c.rows = Active(zones)
         /\ \A i, j \in editTable : i = j
         /\ \A i, j \in editZone : i = j
         /\ editTable \subseteq Ids(tables) /\ editZone \subseteq Ids(zones)

\* A list holds one copy of what it shows.
Once(list) == list = SetToBag(DOMAIN list)

PageIsSound ==
    /\ Once(shownTables) /\ Once(shownZones)
    /\ Sound(tables, DOMAIN shownTables, calls, "saveTable", "deleteTable")
    /\ Sound(zones, DOMAIN shownZones, calls, "saveZone", "deleteZone")

PageIsRight ==
    /\ "lists" \notin doubt \/ (Asked("loadZones") /\ ~Asked("loadTables")) =>
         Right(tables, DOMAIN shownTables, calls, "saveTable", "deleteTable")
    /\ "lists" \notin doubt \/ (Asked("loadTables") /\ ~Asked("loadZones")) =>
         Right(zones, DOMAIN shownZones, calls, "saveZone", "deleteZone")
-----------------------------------------------------------------------------
(* Types *)

Steps == {"asked", "checked", "written", "done", "refused"}

\* A call that has gone on is the call it was, further on.
LEMMA WentTo ==
    ASSUME NEW c, CallOf(c), NEW a \in Steps, NEW d, d = [c EXCEPT !.at = a],
           c.op \in Loads => a \in {"asked", "done"}
    PROVE  /\ CallOf(d) /\ d.op = c.op /\ d.ids = c.ids /\ d.name = c.name /\ d.zone = c.zone
           /\ d.at = a /\ d.rows = c.rows /\ d.active = c.active /\ d.from = c.from /\ d.met = c.met
<1>1. c \in Call
  BY DEF CallOf
<1>2. /\ d \in Call /\ d.op = c.op /\ d.ids = c.ids /\ d.name = c.name /\ d.zone = c.zone
      /\ d.at = a /\ d.rows = c.rows /\ d.active = c.active /\ d.from = c.from /\ d.met = c.met
  BY <1>1 DEF Call, Steps
<1> QED
  BY <1>2 DEF CallOf

LEMMA OnlyMet ==
    ASSUME NEW c, CallOf(c), NEW b \in BOOLEAN, NEW d, d = [c EXCEPT !.met = b]
    PROVE  /\ CallOf(d) /\ d.op = c.op /\ d.ids = c.ids /\ d.name = c.name
           /\ d.zone = c.zone /\ d.at = c.at /\ d.rows = c.rows /\ d.active = c.active
           /\ d.from = c.from
           /\ d.met = b
<1>1. c \in Call
  BY DEF CallOf
<1>2. /\ d \in Call /\ d.op = c.op /\ d.ids = c.ids /\ d.name = c.name
      /\ d.zone = c.zone /\ d.at = c.at /\ d.rows = c.rows /\ d.active = c.active
      /\ d.from = c.from /\ d.met = b
  BY <1>1 DEF Call
<1> QED
  BY <1>2 DEF CallOf

LEMMA OnlyLeft ==
    ASSUME NEW c, CallOf(c), NEW d, d = [c EXCEPT !.from = IF @ = "page" THEN "left" ELSE @]
    PROVE  /\ CallOf(d) /\ d.op = c.op /\ d.ids = c.ids /\ d.name = c.name
           /\ d.zone = c.zone /\ d.at = c.at /\ d.rows = c.rows /\ d.met = c.met
           /\ d.active = c.active
<1>1. c \in Call
  BY DEF CallOf
<1>2. /\ d \in Call /\ d.op = c.op /\ d.ids = c.ids /\ d.name = c.name
      /\ d.zone = c.zone /\ d.at = c.at /\ d.rows = c.rows /\ d.met = c.met
      /\ d.active = c.active
  BY <1>1 DEF Call
<1> QED
  BY <1>2 DEF CallOf

LEMMA PairHasTwo ==
    ASSUME NEW a, NEW b, a # b
    PROVE  Cardinality({a, b}) = 2
<1>1. IsFiniteSet({a}) /\ Cardinality({a}) = 1
  BY FS_Singleton
<1>2. b \notin {a}
  OBVIOUS
<1>3. Cardinality({a} \cup {b}) = Cardinality({a}) + 1
  BY <1>1, <1>2, FS_AddElement
<1>4. {a, b} = {a} \cup {b}
  OBVIOUS
<1> QED
  BY <1>1, <1>3, <1>4

\* A call as it is sent.
LEMMA NewCallOf ==
    ASSUME NEW op \in Ops, NEW ids, NEW name, NEW zone \in SUBSET (Zones \cup {NoZone}),
           op \in OnTables \cup {"loadTables"} => ids \subseteq Tables /\ name \subseteq TableNames,
           op \in OnZones \cup {"loadZones"} => ids \subseteq Zones /\ name \subseteq ZoneNames
    PROVE  LET d == NewCall(op, ids, name, zone)
           IN  /\ CallOf(d) /\ d.op = op /\ d.ids = ids /\ d.name = name /\ d.zone = zone
               /\ d.at = "asked" /\ d.rows = {} /\ d.active = {} /\ d.from = "page" /\ ~d.met
<1>1. ids \subseteq Tables \cup Zones /\ name \subseteq Names
  BY DEF Ops, Loads, Names
<1> DEFINE d == NewCall(op, ids, name, zone)
<1>2. /\ d \in Call /\ d.op = op /\ d.ids = ids /\ d.name = name /\ d.zone = zone
      /\ d.at = "asked" /\ d.rows = {} /\ d.active = {} /\ d.from = "page" /\ ~d.met
  BY <1>1 DEF NewCall, Call
<1> HIDE DEF d
<1>3. CallOf(d)
  BY <1>2 DEF CallOf
<1> QED
  BY <1>2, <1>3 DEF d

LEMMA FiniteImage ==
    ASSUME NEW S, IsFiniteSet(S), NEW T, NEW f \in [S -> T], T = {f[x] : x \in S}
    PROVE  IsFiniteSet(T)
<1>1. f \in Surjection(S, T)
  BY DEF Surjection
<1> QED
  BY <1>1, FS_Surjection

\* What is sent joins the calls, and those that are more than one have met.
LEMMA SendSends ==
    ASSUME Typed, NEW n, CallOf(n), ~n.met, Send({n})
    PROVE  /\ IsFiniteSet(calls') /\ \A e \in calls' : CallOf(e)
           /\ \A e \in calls' : \E c \in calls \cup {n} :
                /\ CallOf(c)
                /\ e.op = c.op /\ e.ids = c.ids /\ e.zone = c.zone /\ e.at = c.at
                /\ e.rows = c.rows /\ e.active = c.active /\ e.from = c.from /\ (c.met => e.met)
           /\ \A c \in calls \cup {n} : \E e \in calls' :
                /\ e.op = c.op /\ e.ids = c.ids /\ e.zone = c.zone /\ e.at = c.at
                /\ e.rows = c.rows /\ e.active = c.active /\ e.from = c.from
           /\ \A d, e \in calls' : d.op = e.op /\ d # e =>
                \E b, c \in calls \cup {n} : b # c /\ b.op = d.op /\ c.op = d.op
           /\ \A e \in calls' : ~e.met => calls \subseteq {n}
<1> DEFINE S == calls \cup {n}
           many == Cardinality(S) > 1
           f == [c \in S |-> [c EXCEPT !.met = many \/ c.met]]
           T == {f[c] : c \in S}
<1>1. \A c \in S : CallOf(c)
  BY DEF Typed
<1>2. IsFiniteSet(S)
  BY FS_AddElement DEF Typed
<1>3. calls' = T
  BY DEF Send, Meet
<1>4. IsFiniteSet(T)
  <2>1. f \in [S -> T]
    OBVIOUS
  <2> HIDE DEF f, S
  <2> QED
    BY <1>2, <2>1, FiniteImage
<1>5. ASSUME NEW c \in S
      PROVE  /\ CallOf(f[c]) /\ (c.met => f[c].met) /\ (many => f[c].met)
             /\ f[c].op = c.op /\ f[c].ids = c.ids /\ f[c].zone = c.zone /\ f[c].at = c.at
             /\ f[c].rows = c.rows /\ f[c].active = c.active /\ f[c].from = c.from
  <2>1. CallOf(c) /\ f[c] = [c EXCEPT !.met = many \/ c.met]
    BY <1>1
  <2>2. CASE many \/ c.met
    <3>1. f[c] = [c EXCEPT !.met = TRUE]
      BY <2>1, <2>2
    <3> HIDE DEF f, many
    <3>2. TRUE \in BOOLEAN
      OBVIOUS
    <3>3. PICK d : d = f[c]
      OBVIOUS
    <3>4. d = [c EXCEPT !.met = TRUE]
      BY <3>1, <3>3
    <3>5. /\ CallOf(d) /\ d.met = TRUE
          /\ d.op = c.op /\ d.ids = c.ids /\ d.zone = c.zone /\ d.at = c.at
          /\ d.rows = c.rows /\ d.active = c.active /\ d.from = c.from
      BY <2>1, <3>2, <3>4, OnlyMet
    <3> QED
      BY <3>3, <3>5
  <2>3. CASE ~(many \/ c.met)
    <3>1. f[c] = [c EXCEPT !.met = FALSE]
      BY <2>1, <2>3
    <3> HIDE DEF f, many
    <3>2. FALSE \in BOOLEAN
      OBVIOUS
    <3>3. PICK d : d = f[c]
      OBVIOUS
    <3>4. d = [c EXCEPT !.met = FALSE]
      BY <3>1, <3>3
    <3>5. /\ CallOf(d) /\ d.met = FALSE
          /\ d.op = c.op /\ d.ids = c.ids /\ d.zone = c.zone /\ d.at = c.at
          /\ d.rows = c.rows /\ d.active = c.active /\ d.from = c.from
      BY <2>1, <3>2, <3>4, OnlyMet
    <3> QED
      BY <2>3, <3>3, <3>5
  <2> QED
    BY <2>2, <2>3
<1> HIDE DEF f
<1>6. \A e \in calls' : \E c \in S :
        /\ CallOf(c)
        /\ e.op = c.op /\ e.ids = c.ids /\ e.zone = c.zone /\ e.at = c.at
        /\ e.rows = c.rows /\ e.active = c.active /\ e.from = c.from /\ (c.met => e.met)
  <2> HIDE DEF S
  <2> SUFFICES ASSUME NEW c \in S
               PROVE  LET e == f[c]
                      IN  /\ CallOf(c)
                          /\ e.op = c.op /\ e.ids = c.ids /\ e.zone = c.zone /\ e.at = c.at
                          /\ e.rows = c.rows /\ e.active = c.active /\ e.from = c.from
                          /\ (c.met => e.met)
    BY <1>3
  <2> HIDE DEF many
  <2> QED
    BY <1>1, <1>5
<1>7. \A c \in S : \E e \in calls' :
        /\ e.op = c.op /\ e.ids = c.ids /\ e.zone = c.zone /\ e.at = c.at
        /\ e.rows = c.rows /\ e.active = c.active /\ e.from = c.from
  <2> SUFFICES ASSUME NEW c \in S
               PROVE  LET e == f[c]
                      IN  /\ e.op = c.op /\ e.ids = c.ids /\ e.zone = c.zone /\ e.at = c.at
                          /\ e.rows = c.rows /\ e.active = c.active /\ e.from = c.from
    BY <1>3
  <2> HIDE DEF many, S
  <2> QED
    BY <1>5
<1>8. \A d, e \in calls' : d.op = e.op /\ d # e =>
        \E b, c \in S : b # c /\ b.op = d.op /\ c.op = d.op
  <2> SUFFICES ASSUME NEW b \in S, NEW c \in S, f[b].op = f[c].op, f[b] # f[c]
               PROVE  b # c /\ b.op = f[b].op /\ c.op = f[b].op
    BY <1>3
  <2> HIDE DEF many, S
  <2> QED
    BY <1>5
<1>9. \A e \in calls' : ~e.met => calls \subseteq {n}
  <2> SUFFICES ASSUME NEW c \in S, ~f[c].met, NEW b \in calls, b # n
               PROVE  FALSE
    BY <1>3
  <2>1. ~many /\ Cardinality(S) \in Nat
    BY <1>2, <1>5, FS_CardinalityType
  <2>2. {b, n} \in SUBSET S /\ Cardinality({b, n}) = 2
    BY PairHasTwo
  <2>3. Cardinality({b, n}) <= Cardinality(S)
    BY <1>2, <2>2, FS_Subset
  <2> QED
    BY <2>1, <2>2, <2>3
<1>10. \A e \in calls' : CallOf(e)
  BY <1>3, <1>5
<1> HIDE DEF many, T
<1> QED
  BY <1>3, <1>4, <1>6, <1>7, <1>8, <1>9, <1>10
-----------------------------------------------------------------------------
(* What the API does with a call, for tables and zones alike *)

\* The call goes on as d.
Goes(c, d) == /\ CallOf(d) /\ Moves(c, d)
              /\ d.op = c.op /\ d.ids = c.ids /\ d.name = c.name /\ d.zone = c.zone
              /\ d.active = c.active /\ d.from = c.from /\ d.met = c.met /\ d.at # c.at

Lists(c, d, op, rows) ==
    c.op = op /\ c.at = "asked" /\ d.at = "done" /\ d.rows = Active(rows) /\ UNCHANGED rowVars

Checks(c, d) ==
    /\ c.op \notin Loads /\ c.at \in {"asked", "checked"} /\ d.at \in {"checked", "refused"}
    /\ d.rows = c.rows /\ Seen(d) /\ UNCHANGED rowVars

Reads(c, d) ==
    /\ c.op \notin Loads /\ c.at = "written" /\ d.at = "done"
    /\ d.rows = {row \in IF c.op \in OnTables THEN tables ELSE zones : {row.id} = c.ids}
    /\ UNCHANGED rowVars

Creates(c, d, op, rows, newRows, new) ==
    /\ c.op = op /\ c.at \in {"asked", "checked"} /\ c.ids = {} /\ d.at = "done" /\ d.rows = {new}
    /\ new.id \notin Ids(rows) /\ new.active /\ newRows = rows \cup {new}

Writes(c, d, op, rows, newRows, row, new) ==
    /\ c.op = op /\ c.at \in {"asked", "checked"} /\ row.id \in c.ids
    /\ d.at = "written" /\ d.rows = c.rows
    /\ row \in rows /\ new.id = row.id /\ newRows = Update(rows, row.id, new)

\* What a save writes is what its body carries, and what is there of what it does not carry.
WhatIsDone(c, d) ==
    \/ Lists(c, d, "loadTables", tables) \/ Lists(c, d, "loadZones", zones)
    \/ Checks(c, d) \/ Reads(c, d)
    \/ /\ UNCHANGED zones /\ tables' \subseteq TableRow
       /\ \/ \E new \in TableRow :
               /\ Creates(c, d, "saveTable", tables, tables', new)
               /\ c.at = "checked" /\ new.zone \in c.zone
          \/ \E row, new \in TableRow :
               /\ Writes(c, d, "saveTable", tables, tables', row, new)
               /\ c.at = "checked" /\ new.zone \in Given(c.zone, row.zone)
               /\ new.active \in Given(c.active, row.active)
          \/ \E row, new \in TableRow :
               /\ Writes(c, d, "deleteTable", tables, tables', row, new)
               /\ c.ids = {row.id} /\ ~new.active
    \/ /\ UNCHANGED tables /\ zones' \subseteq ZoneRow
       /\ \/ \E new \in ZoneRow : Creates(c, d, "saveZone", zones, zones', new)
          \/ \E row, new \in ZoneRow :
               /\ Writes(c, d, "saveZone", zones, zones', row, new)
               /\ new.active \in Given(c.active, row.active)
          \/ \E row, new \in ZoneRow :
               /\ Writes(c, d, "deleteZone", zones, zones', row, new)
               /\ c.at = "checked" /\ c.ids = {row.id} /\ ~new.active

LEMMA UpdateTyped ==
    ASSUME NEW S, NEW rows \in SUBSET S, NEW i, NEW new \in S
    PROVE  Update(rows, i, new) \subseteq S
BY DEF Update

LEMMA ListsDone ==
    ASSUME Typed, NEW c \in calls, ListTables(c) \/ ListZones(c)
    PROVE  \E d : Goes(c, d) /\ WhatIsDone(c, d)
<1>0. CallOf(c) /\ tables \subseteq TableRow /\ zones \subseteq ZoneRow
  BY DEF Typed
<1>1. CASE ListTables(c)
  <2>0. PICK answer : answer = Active(tables)
    OBVIOUS
  <2>1. PICK d : d = [c EXCEPT !.at = "done", !.rows = answer]
    OBVIOUS
  <2>2. /\ c.op = "loadTables" /\ c.at = "asked" /\ Moves(c, d) /\ UNCHANGED rowVars
    BY <1>1, <2>0, <2>1 DEF ListTables
  <2>3. answer \subseteq TableRow
    BY <1>0, <2>0 DEF Active
  <2>4. /\ CallOf(d) /\ d.op = c.op /\ d.ids = c.ids /\ d.name = c.name /\ d.zone = c.zone
        /\ d.at = "done" /\ d.rows = answer /\ d.active = c.active /\ d.from = c.from
        /\ d.met = c.met
    <3>1. /\ d \in Call /\ d.op = c.op /\ d.ids = c.ids /\ d.name = c.name /\ d.zone = c.zone
          /\ d.at = "done" /\ d.rows = answer /\ d.active = c.active /\ d.from = c.from
          /\ d.met = c.met
      BY <1>0, <2>1, <2>3 DEF CallOf, Call
    <3>2. CallOf(d)
      BY <1>0, <2>2, <2>3, <3>1 DEF CallOf, OnTables, OnZones
    <3> QED
      BY <3>1, <3>2
  <2> QED
    BY <2>0, <2>2, <2>4 DEF Goes, WhatIsDone, Lists
<1>2. CASE ListZones(c)
  <2>0. PICK answer : answer = Active(zones)
    OBVIOUS
  <2>1. PICK d : d = [c EXCEPT !.at = "done", !.rows = answer]
    OBVIOUS
  <2>2. /\ c.op = "loadZones" /\ c.at = "asked" /\ Moves(c, d) /\ UNCHANGED rowVars
    BY <1>2, <2>0, <2>1 DEF ListZones
  <2>3. answer \subseteq ZoneRow
    BY <1>0, <2>0 DEF Active
  <2>4. /\ CallOf(d) /\ d.op = c.op /\ d.ids = c.ids /\ d.name = c.name /\ d.zone = c.zone
        /\ d.at = "done" /\ d.rows = answer /\ d.active = c.active /\ d.from = c.from
        /\ d.met = c.met
    <3>1. /\ d \in Call /\ d.op = c.op /\ d.ids = c.ids /\ d.name = c.name /\ d.zone = c.zone
          /\ d.at = "done" /\ d.rows = answer /\ d.active = c.active /\ d.from = c.from
          /\ d.met = c.met
      BY <1>0, <2>1, <2>3 DEF CallOf, Call
    <3>2. CallOf(d)
      BY <1>0, <2>2, <2>3, <3>1 DEF CallOf, OnTables, OnZones
    <3> QED
      BY <3>1, <3>2
  <2> QED
    BY <2>0, <2>2, <2>4 DEF Goes, WhatIsDone, Lists
<1> QED
  BY <1>1, <1>2

\* A check that lets a call go on has seen what it goes by; one that does not ends it.
LEMMA CheckDone ==
    ASSUME Typed, NEW c \in calls, c.op \in OnTables \cup OnZones, c.at \in {"asked", "checked"},
           NEW a \in {"checked", "refused"}, a # c.at,
           NEW d, d = [c EXCEPT !.at = a], Moves(c, d), UNCHANGED rowVars,
           a = "checked" =>
             \/ c.op = "saveTable" /\ c.zone \ {NoZone} \subseteq Ids(Active(zones))
             \/ c.op = "deleteZone" /\ \A row \in Active(tables) : {row.zone} # c.ids
    PROVE  Goes(c, d) /\ WhatIsDone(c, d)
<1>1. CallOf(c) /\ c.op \notin Loads
  BY DEF Typed, OnTables, OnZones, Loads
<1>2. /\ CallOf(d) /\ d.op = c.op /\ d.ids = c.ids /\ d.name = c.name /\ d.zone = c.zone
      /\ d.at = a /\ d.rows = c.rows /\ d.active = c.active /\ d.from = c.from /\ d.met = c.met
  BY <1>1, WentTo DEF Steps
<1>3. Seen(d)
  BY <1>2 DEF Seen
<1> QED
  BY <1>1, <1>2, <1>3 DEF Goes, WhatIsDone, Checks

LEMMA ChecksDone ==
    ASSUME Typed, NEW c \in calls, AssertBelongsToTenant(c) \/ CountTables(c)
    PROVE  \E d : Goes(c, d) /\ WhatIsDone(c, d)
<1>1. CASE AssertBelongsToTenant(c)
  <2>1. PICK a : a = IF c.zone \ {NoZone} \subseteq Ids(Active(zones)) THEN "checked"
                     ELSE "refused"
    OBVIOUS
  <2>2. PICK d : d = [c EXCEPT !.at = a]
    OBVIOUS
  <2>3. c.op = "saveTable" /\ c.at = "asked" /\ Moves(c, d) /\ UNCHANGED rowVars
    BY <1>1, <2>1, <2>2 DEF AssertBelongsToTenant
  <2> QED
    BY <2>1, <2>2, <2>3, CheckDone DEF OnTables
<1>2. CASE CountTables(c)
  <2>1. PICK a : a = IF \E row \in Active(tables) : {row.zone} = c.ids THEN "refused" ELSE "checked"
    OBVIOUS
  <2>2. PICK d : d = [c EXCEPT !.at = a]
    OBVIOUS
  <2>3. c.op = "deleteZone" /\ c.at = "asked" /\ Moves(c, d) /\ UNCHANGED rowVars
    BY <1>2, <2>1, <2>2 DEF CountTables
  <2> QED
    BY <2>1, <2>2, <2>3, CheckDone DEF OnZones
<1> QED
  BY <1>1, <1>2

LEMMA RefusalDone ==
    ASSUME Typed, NEW c \in calls, c.op \in OnTables \cup OnZones, c.at \in {"asked", "checked"},
           Moves(c, [c EXCEPT !.at = "refused"]), UNCHANGED rowVars
    PROVE  \E d : Goes(c, d) /\ WhatIsDone(c, d)
<1>1. PICK d : d = [c EXCEPT !.at = "refused"]
  OBVIOUS
<1>2. Moves(c, d)
  BY <1>1
<1> QED
  BY <1>1, <1>2, CheckDone

LEMMA TablesDone ==
    ASSUME Typed, NEW c \in calls, CreateTable(c) \/ UpdateTable(c) \/ DeactivateTable(c)
    PROVE  \E d : Goes(c, d) /\ WhatIsDone(c, d)
<1>0. /\ CallOf(c) /\ c \in Call /\ tables \subseteq TableRow /\ zones' = zones
  BY DEF Typed, CallOf, CreateTable, UpdateTable, DeactivateTable
<1>1. CASE CreateTable(c)
  <2>1. PICK n \in c.name, z \in c.zone, i \in Tables \ Ids(tables) :
          LET new == [id |-> i, name |-> n, zone |-> z, active |-> TRUE] IN
            IF NameFree(tables, {}, n)
            THEN tables' = tables \cup {new} /\ Moves(c, [c EXCEPT !.at = "done", !.rows = {new}])
            ELSE UNCHANGED tables /\ Moves(c, [c EXCEPT !.at = "refused"])
    BY <1>1 DEF CreateTable
  <2>2. c.op = "saveTable" /\ c.at = "checked" /\ c.ids = {}
    BY <1>1 DEF CreateTable
  <2>3. CASE NameFree(tables, {}, n)
    <3>1. PICK new : new = [id |-> i, name |-> n, zone |-> z, active |-> TRUE]
      OBVIOUS
    <3>2. new \in TableRow /\ new.id = i /\ new.zone = z /\ new.active
      BY <1>0, <2>2, <3>1 DEF TableRow, CallOf, Call, OnTables
    <3>0. PICK answer : answer = {new}
      OBVIOUS
    <3>3. PICK d : d = [c EXCEPT !.at = "done", !.rows = answer]
      OBVIOUS
    <3>4. tables' = tables \cup {new} /\ Moves(c, d)
      BY <2>1, <2>3, <3>1, <3>0, <3>3
    <3>5. /\ CallOf(d) /\ d.op = c.op /\ d.ids = c.ids /\ d.name = c.name /\ d.zone = c.zone
          /\ d.at = "done" /\ d.rows = answer /\ d.active = c.active /\ d.from = c.from
          /\ d.met = c.met
      <4>1. /\ d \in Call /\ d.op = c.op /\ d.ids = c.ids /\ d.name = c.name /\ d.zone = c.zone
            /\ d.at = "done" /\ d.rows = answer /\ d.active = c.active /\ d.from = c.from
            /\ d.met = c.met
        BY <1>0, <3>0, <3>2, <3>3 DEF CallOf, Call
      <4>2. CallOf(d)
        BY <1>0, <2>2, <3>0, <3>2, <4>1 DEF CallOf, OnZones, Loads
      <4> QED
        BY <4>1, <4>2
    <3>6. Goes(c, d)
      BY <2>2, <3>4, <3>5 DEF Goes
    <3>7. Creates(c, d, "saveTable", tables, tables', new) /\ tables' \subseteq TableRow
      BY <1>0, <2>1, <2>2, <3>2, <3>0, <3>4, <3>5 DEF Creates
    <3> QED
      BY <1>0, <2>1, <2>2, <3>2, <3>6, <3>7 DEF WhatIsDone
  <2>4. CASE ~NameFree(tables, {}, n)
    <3>1. Moves(c, [c EXCEPT !.at = "refused"]) /\ UNCHANGED rowVars
      BY <1>0, <2>1, <2>4 DEF rowVars
    <3> QED
      BY <2>2, <3>1, RefusalDone DEF OnTables
  <2> QED
    BY <2>3, <2>4
<1>2. CASE UpdateTable(c)
  <2>1. PICK i \in c.ids : \E row \in Of(tables, i) :
          \E n \in Given(c.name, row.name), z \in Given(c.zone, row.zone),
             a \in Given(c.active, row.active) :
            IF NameFree(tables, {i}, n)
            THEN /\ tables' = Update(tables, i, [row EXCEPT !.name = n, !.zone = z, !.active = a])
                 /\ Moves(c, [c EXCEPT !.at = "written"])
            ELSE UNCHANGED tables /\ Moves(c, [c EXCEPT !.at = "refused"])
    BY <1>2 DEF UpdateTable
  <2>0. PICK row \in Of(tables, i) :
          \E n \in Given(c.name, row.name), z \in Given(c.zone, row.zone),
             a \in Given(c.active, row.active) :
            IF NameFree(tables, {i}, n)
            THEN /\ tables' = Update(tables, i, [row EXCEPT !.name = n, !.zone = z, !.active = a])
                 /\ Moves(c, [c EXCEPT !.at = "written"])
            ELSE UNCHANGED tables /\ Moves(c, [c EXCEPT !.at = "refused"])
    BY <2>1
  <2>2. PICK n \in Given(c.name, row.name), z \in Given(c.zone, row.zone),
             a \in Given(c.active, row.active) :
          IF NameFree(tables, {i}, n)
          THEN /\ tables' = Update(tables, i, [row EXCEPT !.name = n, !.zone = z, !.active = a])
               /\ Moves(c, [c EXCEPT !.at = "written"])
          ELSE UNCHANGED tables /\ Moves(c, [c EXCEPT !.at = "refused"])
    BY <2>0
  <2>3. c.op = "saveTable" /\ c.at = "checked"
    BY <1>2 DEF UpdateTable
  <2>4. CASE NameFree(tables, {i}, n)
    <3>1. PICK new : new = [row EXCEPT !.name = n, !.zone = z, !.active = a]
      OBVIOUS
    <3>2. row \in tables /\ row.id = i /\ row \in TableRow
      BY <1>0 DEF Of
    <3>0. n \in TableNames /\ z \in Zones \cup {NoZone} /\ a \in BOOLEAN
      <4>1. c.name \subseteq TableNames /\ c.zone \subseteq Zones \cup {NoZone}
            /\ c.active \subseteq BOOLEAN
        BY <1>0, <2>3 DEF CallOf, Call, OnTables
      <4> QED
        BY <3>2, <4>1 DEF Given, TableRow
    <3>3. new \in TableRow /\ new.id = i /\ new.zone = z /\ new.active = a
      BY <3>0, <3>1, <3>2 DEF TableRow
    <3>4. PICK d : d = [c EXCEPT !.at = "written"]
      OBVIOUS
    <3>5. tables' = Update(tables, i, new) /\ Moves(c, d)
      BY <2>2, <2>4, <3>1, <3>4
    <3>6. /\ CallOf(d) /\ d.op = c.op /\ d.ids = c.ids /\ d.name = c.name /\ d.zone = c.zone
          /\ d.at = "written" /\ d.rows = c.rows /\ d.active = c.active /\ d.from = c.from
          /\ d.met = c.met
      BY <1>0, <2>3, <3>4, WentTo DEF Steps, Loads
    <3>7. Goes(c, d)
      BY <2>3, <3>5, <3>6 DEF Goes
    <3>8. Writes(c, d, "saveTable", tables, tables', row, new) /\ tables' \subseteq TableRow
      BY <1>0, <2>1, <2>3, <3>2, <3>3, <3>5, <3>6, UpdateTyped DEF Writes
    <3> QED
      BY <1>0, <2>1, <2>3, <3>2, <3>3, <3>7, <3>8 DEF WhatIsDone
  <2>5. CASE ~NameFree(tables, {i}, n)
    <3>1. Moves(c, [c EXCEPT !.at = "refused"]) /\ UNCHANGED rowVars
      BY <1>0, <2>2, <2>5 DEF rowVars
    <3> QED
      BY <2>3, <3>1, RefusalDone DEF OnTables
  <2> QED
    BY <2>4, <2>5
<1>3. CASE DeactivateTable(c)
  <2>1. PICK row \in tables : /\ c.ids = {row.id}
                              /\ tables' = Update(tables, row.id, [row EXCEPT !.active = FALSE])
    BY <1>3 DEF DeactivateTable
  <2>2. PICK new : new = [row EXCEPT !.active = FALSE]
    OBVIOUS
  <2>3. row \in TableRow /\ new \in TableRow /\ new.id = row.id /\ ~new.active
    BY <1>0, <2>2 DEF TableRow
  <2>4. PICK d : d = [c EXCEPT !.at = "written"]
    OBVIOUS
  <2>5. /\ c.op = "deleteTable" /\ c.at = "asked" /\ Moves(c, d)
        /\ tables' = Update(tables, row.id, new)
    BY <1>3, <2>1, <2>2, <2>4 DEF DeactivateTable
  <2>6. /\ CallOf(d) /\ d.op = c.op /\ d.ids = c.ids /\ d.name = c.name /\ d.zone = c.zone
        /\ d.at = "written" /\ d.rows = c.rows /\ d.active = c.active /\ d.from = c.from
        /\ d.met = c.met
    BY <1>0, <2>4, <2>5, WentTo DEF Steps, Loads
  <2>7. Goes(c, d)
    BY <2>5, <2>6 DEF Goes
  <2>8. Writes(c, d, "deleteTable", tables, tables', row, new) /\ tables' \subseteq TableRow
    BY <1>0, <2>1, <2>3, <2>5, <2>6, UpdateTyped DEF Writes
  <2> QED
    BY <1>0, <2>1, <2>3, <2>7, <2>8 DEF WhatIsDone
<1> QED
  BY <1>1, <1>2, <1>3

LEMMA ZonesDone ==
    ASSUME Typed, NEW c \in calls, CreateZone(c) \/ UpdateZone(c) \/ DeactivateZone(c)
    PROVE  \E d : Goes(c, d) /\ WhatIsDone(c, d)
<1>0. /\ CallOf(c) /\ c \in Call /\ zones \subseteq ZoneRow /\ tables' = tables
  BY DEF Typed, CallOf, CreateZone, UpdateZone, DeactivateZone
<1>1. CASE CreateZone(c)
  <2>1. PICK n \in c.name, i \in Zones \ Ids(zones) :
          LET new == [id |-> i, name |-> n, active |-> TRUE] IN
            IF NameFree(zones, {}, n)
            THEN zones' = zones \cup {new} /\ Moves(c, [c EXCEPT !.at = "done", !.rows = {new}])
            ELSE UNCHANGED zones /\ Moves(c, [c EXCEPT !.at = "refused"])
    BY <1>1 DEF CreateZone
  <2>2. c.op = "saveZone" /\ c.at = "asked" /\ c.ids = {}
    BY <1>1 DEF CreateZone
  <2>3. CASE NameFree(zones, {}, n)
    <3>1. PICK new : new = [id |-> i, name |-> n, active |-> TRUE]
      OBVIOUS
    <3>2. new \in ZoneRow /\ new.id = i /\ new.active
      BY <1>0, <2>2, <3>1 DEF ZoneRow, CallOf, Call, OnZones
    <3>0. PICK answer : answer = {new}
      OBVIOUS
    <3>3. PICK d : d = [c EXCEPT !.at = "done", !.rows = answer]
      OBVIOUS
    <3>4. zones' = zones \cup {new} /\ Moves(c, d)
      BY <2>1, <2>3, <3>1, <3>0, <3>3
    <3>5. /\ CallOf(d) /\ d.op = c.op /\ d.ids = c.ids /\ d.name = c.name /\ d.zone = c.zone
          /\ d.at = "done" /\ d.rows = answer /\ d.active = c.active /\ d.from = c.from
          /\ d.met = c.met
      <4>1. /\ d \in Call /\ d.op = c.op /\ d.ids = c.ids /\ d.name = c.name /\ d.zone = c.zone
            /\ d.at = "done" /\ d.rows = answer /\ d.active = c.active /\ d.from = c.from
            /\ d.met = c.met
        BY <1>0, <3>0, <3>2, <3>3 DEF CallOf, Call
      <4>2. CallOf(d)
        BY <1>0, <2>2, <3>0, <3>2, <4>1 DEF CallOf, OnTables, Loads
      <4> QED
        BY <4>1, <4>2
    <3>6. Goes(c, d)
      BY <2>2, <3>4, <3>5 DEF Goes
    <3>7. Creates(c, d, "saveZone", zones, zones', new) /\ zones' \subseteq ZoneRow
      BY <1>0, <2>1, <2>2, <3>2, <3>0, <3>4, <3>5 DEF Creates
    <3> QED
      BY <1>0, <2>2, <3>2, <3>6, <3>7 DEF WhatIsDone
  <2>4. CASE ~NameFree(zones, {}, n)
    <3>1. Moves(c, [c EXCEPT !.at = "refused"]) /\ UNCHANGED rowVars
      BY <1>0, <2>1, <2>4 DEF rowVars
    <3> QED
      BY <2>2, <3>1, RefusalDone DEF OnZones
  <2> QED
    BY <2>3, <2>4
<1>2. CASE UpdateZone(c)
  <2>1. PICK i \in c.ids : \E row \in Of(zones, i) :
          \E n \in Given(c.name, row.name), a \in Given(c.active, row.active) :
            IF NameFree(zones, {i}, n)
            THEN /\ zones' = Update(zones, i, [row EXCEPT !.name = n, !.active = a])
                 /\ Moves(c, [c EXCEPT !.at = "written"])
            ELSE UNCHANGED zones /\ Moves(c, [c EXCEPT !.at = "refused"])
    BY <1>2 DEF UpdateZone
  <2>0. PICK row \in Of(zones, i) :
          \E n \in Given(c.name, row.name), a \in Given(c.active, row.active) :
            IF NameFree(zones, {i}, n)
            THEN /\ zones' = Update(zones, i, [row EXCEPT !.name = n, !.active = a])
                 /\ Moves(c, [c EXCEPT !.at = "written"])
            ELSE UNCHANGED zones /\ Moves(c, [c EXCEPT !.at = "refused"])
    BY <2>1
  <2>2. PICK n \in Given(c.name, row.name), a \in Given(c.active, row.active) :
          IF NameFree(zones, {i}, n)
          THEN /\ zones' = Update(zones, i, [row EXCEPT !.name = n, !.active = a])
               /\ Moves(c, [c EXCEPT !.at = "written"])
          ELSE UNCHANGED zones /\ Moves(c, [c EXCEPT !.at = "refused"])
    BY <2>0
  <2>3. c.op = "saveZone" /\ c.at = "asked"
    BY <1>2 DEF UpdateZone
  <2>4. CASE NameFree(zones, {i}, n)
    <3>1. PICK new : new = [row EXCEPT !.name = n, !.active = a]
      OBVIOUS
    <3>2. row \in zones /\ row.id = i /\ row \in ZoneRow
      BY <1>0 DEF Of
    <3>0. n \in ZoneNames /\ a \in BOOLEAN
      <4>1. c.name \subseteq ZoneNames /\ c.active \subseteq BOOLEAN
        BY <1>0, <2>3 DEF CallOf, Call, OnZones
      <4> QED
        BY <3>2, <4>1 DEF Given, ZoneRow
    <3>3. new \in ZoneRow /\ new.id = i /\ new.active = a
      BY <3>0, <3>1, <3>2 DEF ZoneRow
    <3>4. PICK d : d = [c EXCEPT !.at = "written"]
      OBVIOUS
    <3>5. zones' = Update(zones, i, new) /\ Moves(c, d)
      BY <2>2, <2>4, <3>1, <3>4
    <3>6. /\ CallOf(d) /\ d.op = c.op /\ d.ids = c.ids /\ d.name = c.name /\ d.zone = c.zone
          /\ d.at = "written" /\ d.rows = c.rows /\ d.active = c.active /\ d.from = c.from
          /\ d.met = c.met
      BY <1>0, <2>3, <3>4, WentTo DEF Steps, Loads
    <3>7. Goes(c, d)
      BY <2>3, <3>5, <3>6 DEF Goes
    <3>8. Writes(c, d, "saveZone", zones, zones', row, new) /\ zones' \subseteq ZoneRow
      BY <1>0, <2>1, <2>3, <3>2, <3>3, <3>5, <3>6, UpdateTyped DEF Writes
    <3> QED
      BY <1>0, <2>1, <2>3, <3>2, <3>3, <3>7, <3>8 DEF WhatIsDone
  <2>5. CASE ~NameFree(zones, {i}, n)
    <3>1. Moves(c, [c EXCEPT !.at = "refused"]) /\ UNCHANGED rowVars
      BY <1>0, <2>2, <2>5 DEF rowVars
    <3> QED
      BY <2>3, <3>1, RefusalDone DEF OnZones
  <2> QED
    BY <2>4, <2>5
<1>3. CASE DeactivateZone(c)
  <2>1. PICK row \in zones : /\ c.ids = {row.id}
                             /\ zones' = Update(zones, row.id, [row EXCEPT !.active = FALSE])
    BY <1>3 DEF DeactivateZone
  <2>2. PICK new : new = [row EXCEPT !.active = FALSE]
    OBVIOUS
  <2>3. row \in ZoneRow /\ new \in ZoneRow /\ new.id = row.id /\ ~new.active
    BY <1>0, <2>2 DEF ZoneRow
  <2>4. PICK d : d = [c EXCEPT !.at = "written"]
    OBVIOUS
  <2>5. /\ c.op = "deleteZone" /\ c.at = "checked" /\ Moves(c, d)
        /\ zones' = Update(zones, row.id, new)
    BY <1>3, <2>1, <2>2, <2>4 DEF DeactivateZone
  <2>6. /\ CallOf(d) /\ d.op = c.op /\ d.ids = c.ids /\ d.name = c.name /\ d.zone = c.zone
        /\ d.at = "written" /\ d.rows = c.rows /\ d.active = c.active /\ d.from = c.from
        /\ d.met = c.met
    BY <1>0, <2>4, <2>5, WentTo DEF Steps, Loads
  <2>7. Goes(c, d)
    BY <2>5, <2>6 DEF Goes
  <2>8. Writes(c, d, "deleteZone", zones, zones', row, new) /\ zones' \subseteq ZoneRow
    BY <1>0, <2>1, <2>3, <2>5, <2>6, UpdateTyped DEF Writes
  <2> QED
    BY <1>0, <2>1, <2>3, <2>5, <2>7, <2>8 DEF WhatIsDone
<1> QED
  BY <1>1, <1>2, <1>3

LEMMA ReadsDone ==
    ASSUME Typed, NEW c \in calls, ReadBack(c)
    PROVE  \E d : Goes(c, d) /\ WhatIsDone(c, d)
<1>1. CallOf(c) /\ tables \subseteq TableRow /\ zones \subseteq ZoneRow
  BY DEF Typed
<1>2. PICK answer : answer = {row \in IF c.op \in OnTables THEN tables ELSE zones :
                               {row.id} = c.ids}
  OBVIOUS
<1>3. PICK d : d = [c EXCEPT !.at = "done", !.rows = answer]
  OBVIOUS
<1>4. c.at = "written" /\ Moves(c, d) /\ UNCHANGED rowVars
  BY <1>2, <1>3 DEF ReadBack
<1>5. c.op \notin Loads /\ c.op \in OnTables \cup OnZones
  BY <1>1, <1>4 DEF CallOf, Call, Ops
<1>6. answer \subseteq tables \/ (c.op \notin OnTables /\ answer \subseteq zones)
  BY <1>2
<1>7. answer \subseteq TableRow \cup ZoneRow
  BY <1>1, <1>6
<1>8. /\ d \in Call /\ d.op = c.op /\ d.ids = c.ids /\ d.name = c.name /\ d.zone = c.zone
      /\ d.at = "done" /\ d.rows = answer /\ d.active = c.active /\ d.from = c.from /\ d.met = c.met
  BY <1>1, <1>3, <1>7 DEF CallOf, Call
<1>9. CallOf(d)
  <2>1. c.op \in OnTables => answer \subseteq TableRow
    BY <1>1, <1>2
  <2>2. c.op \in OnZones => answer \subseteq ZoneRow
    BY <1>1, <1>2 DEF OnTables, OnZones
  <2> QED
    BY <1>1, <1>5, <1>8, <2>1, <2>2 DEF CallOf, OnTables, OnZones, Loads
<1> QED
  BY <1>2, <1>4, <1>5, <1>8, <1>9 DEF Goes, WhatIsDone, Reads

\* Everything the API does.
LEMMA ApiDone ==
    ASSUME Typed, NEW c \in calls, Api(c)
    PROVE  NoPage /\ \E d : Goes(c, d) /\ WhatIsDone(c, d)
<1>1. NoPage
  BY DEF Api, ListTables, ListZones, AssertBelongsToTenant, CountTables, CreateTable, UpdateTable,
         DeactivateTable, CreateZone, UpdateZone, DeactivateZone, ReadBack
<1>2. \E d : Goes(c, d) /\ WhatIsDone(c, d)
  <2>1. CASE ListTables(c) \/ ListZones(c)
    BY <2>1, ListsDone
  <2>2. CASE AssertBelongsToTenant(c) \/ CountTables(c)
    BY <2>2, ChecksDone
  <2>3. CASE CreateTable(c) \/ UpdateTable(c) \/ DeactivateTable(c)
    BY <2>3, TablesDone
  <2>4. CASE CreateZone(c) \/ UpdateZone(c) \/ DeactivateZone(c)
    BY <2>4, ZonesDone
  <2>5. CASE ReadBack(c)
    BY <2>5, ReadsDone
  <2> QED
    BY <2>1, <2>2, <2>3, <2>4, <2>5 DEF Api
<1> QED
  BY <1>1, <1>2
-----------------------------------------------------------------------------
(* What each kind of step does to one side: to the rows, what is shown of them, and the      *)
(* calls of the side's two operations.                                                        *)

Like(c, d) == d.op = c.op /\ d.ids = c.ids /\ d.at = c.at /\ d.rows = c.rows

\* Calls that differ in what the invariants do not look at.
LEMMA AlikeSound ==
    ASSUME NEW rows, NEW shown, NEW cs, NEW ds, NEW save, NEW delete,
           \A d \in ds : d.op \in {save, delete} => \E c \in cs : Like(c, d),
           Sound(rows, shown, cs, save, delete)
    PROVE  Sound(rows, shown, ds, save, delete)
<1>1. ASSUME NEW d \in ds, d.op \in {save, delete}
      PROVE  Fits(d, rows, save)
  <2>1. PICK c \in cs : Like(c, d)
    BY <1>1
  <2>2. Fits(c, rows, save)
    BY <1>1, <2>1 DEF Sound, Like
  <2> QED
    BY <2>1, <2>2 DEF Fits, Like
<1>2. ASSUME NEW d \in ds, d.op = save, d.at = "done", d.ids = {}
      PROVE  New(d, rows, shown, ds, save, delete)
  <2>1. PICK c \in cs : Like(c, d)
    BY <1>2
  <2>2. New(c, rows, shown, cs, save, delete)
    BY <1>2, <2>1 DEF Sound, Like
  <2>3. PICK r \in rows : /\ c.rows = {r} /\ r.active /\ r.id \notin Ids(shown)
                          /\ \A e \in cs : e.op \in {save, delete} => r.id \notin e.ids
    BY <2>2 DEF New
  <2>4. ASSUME NEW e \in ds, e.op \in {save, delete}
        PROVE  r.id \notin e.ids
    BY <2>3, <2>4 DEF Like
  <2> QED
    BY <2>1, <2>3, <2>4 DEF New, Like
<1> QED
  BY <1>1, <1>2 DEF Sound

LEMMA AlikeRight ==
    ASSUME NEW rows, NEW shown, NEW cs, NEW ds, NEW save, NEW delete,
           \A c \in cs : c.op \in {save, delete} => \E d \in ds : Like(c, d),
           Right(rows, shown, cs, save, delete)
    PROVE  Right(rows, shown, ds, save, delete)
<1>1. ASSUME NEW r \in rows, r.active, r \notin shown
      PROVE  \E d \in ds : d.op = save /\ WillShow(d, r, shown)
  <2>1. PICK c \in cs : c.op = save /\ WillShow(c, r, shown)
    BY <1>1 DEF Right
  <2>2. PICK d \in ds : Like(c, d)
    BY <2>1
  <2> QED
    BY <2>1, <2>2 DEF Like, WillShow
<1>2. ASSUME NEW r \in rows, ~r.active, r.id \in Ids(shown)
      PROVE  \E d \in ds : d.op = delete /\ WillHide(d, r)
  <2>1. PICK c \in cs : c.op = delete /\ WillHide(c, r)
    BY <1>2 DEF Right
  <2>2. PICK d \in ds : Like(c, d)
    BY <2>1
  <2> QED
    BY <2>1, <2>2 DEF Like, WillHide
<1> QED
  BY <1>1, <1>2 DEF Right

\* A save is sent while no other is under way, a delete for a row that is shown.
LEMMA SentSound ==
    ASSUME NEW rows, NEW shown, NEW cs, NEW n, NEW save, NEW delete, save # delete,
           Sound(rows, shown, cs, save, delete), n.at = "asked", \A i, j \in n.ids : i = j,
           \/ n.op \notin {save, delete}
           \/ n.op = save /\ n.ids \subseteq Ids(rows) /\ \A c \in cs : c.op # save
           \/ n.op = delete /\ n.ids \subseteq Ids(shown)
    PROVE  Sound(rows, shown, cs \cup {n}, save, delete)
<1>1. ASSUME NEW d \in cs \cup {n}, d.op \in {save, delete}
      PROVE  Fits(d, rows, save)
  <2>1. CASE d \in cs
    BY <1>1, <2>1 DEF Sound
  <2>2. CASE d = n
    <3>1. n.ids \subseteq Ids(rows)
      BY <1>1, <2>2 DEF Sound
    <3> QED
      BY <2>2, <3>1 DEF Fits
  <2> QED
    BY <2>1, <2>2
<1>2. ASSUME NEW d \in cs \cup {n}, d.op = save, d.at = "done", d.ids = {}
      PROVE  New(d, rows, shown, cs \cup {n}, save, delete)
  <2>1. d \in cs
    BY <1>2
  <2>2. PICK r \in rows : /\ d.rows = {r} /\ r.active /\ r.id \notin Ids(shown)
                          /\ \A e \in cs : e.op \in {save, delete} => r.id \notin e.ids
    BY <1>2, <2>1 DEF New, Sound
  <2>3. n.op \in {save, delete} => r.id \notin n.ids
    BY <1>2, <2>1, <2>2
  <2> QED
    BY <2>2, <2>3 DEF New
<1> QED
  BY <1>1, <1>2 DEF Sound

\* A call that has checked, or read its row, goes on.
LEMMA OnSound ==
    ASSUME NEW rows, NEW shown, NEW cs, NEW c \in cs, NEW d, NEW save, NEW delete,
           Sound(rows, shown, cs, save, delete), Keyed(rows),
           d.op = c.op, d.ids = c.ids,
           \/ c.op \notin {save, delete}
           \/ d.at \in {"checked", "refused"}
           \/ c.at = "written" /\ d.at = "done" /\ d.rows = {r \in rows : {r.id} = c.ids}
    PROVE  Sound(rows, shown, (cs \ {c}) \cup {d}, save, delete)
<1>1. ASSUME NEW e \in (cs \ {c}) \cup {d}, e.op \in {save, delete}
      PROVE  Fits(e, rows, save)
  <2>1. CASE e \in cs
    BY <1>1, <2>1 DEF Sound
  <2>2. CASE e = d
    <3>1. Fits(c, rows, save)
      BY <1>1, <2>2 DEF Sound
    <3>2. CASE d.at \in {"checked", "refused"}
      BY <2>2, <3>1, <3>2 DEF Fits
    <3>3. CASE c.at = "written" /\ d.at = "done" /\ d.rows = {r \in rows : {r.id} = c.ids}
      BY <2>2, <3>1, <3>3 DEF Fits, Ids, Keyed
    <3> QED
      BY <1>1, <2>2, <3>2, <3>3
  <2> QED
    BY <2>1, <2>2
<1>2. ASSUME NEW e \in (cs \ {c}) \cup {d}, e.op = save, e.at = "done", e.ids = {}
      PROVE  New(e, rows, shown, (cs \ {c}) \cup {d}, save, delete)
  <2>1. e # d
    <3> SUFFICES ASSUME e = d PROVE FALSE
      OBVIOUS
    <3>1. c.op \in {save, delete} /\ c.at = "written" /\ c.ids = {}
      BY <1>2
    <3> QED
      BY <3>1 DEF Sound, Fits
  <2>2. PICK r \in rows : /\ e.rows = {r} /\ r.active /\ r.id \notin Ids(shown)
                          /\ \A b \in cs : b.op \in {save, delete} => r.id \notin b.ids
    BY <1>2, <2>1 DEF New, Sound
  <2> QED
    BY <2>2 DEF New
<1> QED
  BY <1>1, <1>2 DEF Sound

LEMMA OnRight ==
    ASSUME NEW rows, NEW shown, NEW cs, NEW c \in cs, NEW d, NEW save, NEW delete,
           Right(rows, shown, cs, save, delete), Keyed(rows),
           d.op = c.op, d.ids = c.ids,
           \/ c.op \notin {save, delete}
           \/ c.at \in {"asked", "checked"}
           \/ c.at = "written" /\ d.at = "done" /\ d.rows = {r \in rows : {r.id} = c.ids}
    PROVE  Right(rows, shown, (cs \ {c}) \cup {d}, save, delete)
<1>1. ASSUME NEW r \in rows, r.active, r \notin shown
      PROVE  \E e \in (cs \ {c}) \cup {d} : e.op = save /\ WillShow(e, r, shown)
  <2>1. PICK e \in cs : e.op = save /\ WillShow(e, r, shown)
    BY <1>1 DEF Right
  <2>2. CASE e # c
    BY <2>1, <2>2
  <2>3. CASE e = c
    <3>1. /\ c.at = "written" /\ d.at = "done" /\ d.rows = {s \in rows : {s.id} = c.ids}
          /\ c.ids = {r.id} /\ r.id \in Ids(shown)
      BY <2>1, <2>3 DEF WillShow
    <3>2. d.rows = {r}
      BY <3>1 DEF Keyed
    <3> QED
      BY <2>1, <2>3, <3>1, <3>2 DEF WillShow
  <2> QED
    BY <2>2, <2>3
<1>2. ASSUME NEW r \in rows, ~r.active, r.id \in Ids(shown)
      PROVE  \E e \in (cs \ {c}) \cup {d} : e.op = delete /\ WillHide(e, r)
  <2>1. PICK e \in cs : e.op = delete /\ WillHide(e, r)
    BY <1>2 DEF Right
  <2> QED
    BY <2>1 DEF WillHide
<1> QED
  BY <1>1, <1>2 DEF Right

LEMMA CreatedSound ==
    ASSUME NEW rows, NEW rows2, NEW shown, NEW cs, NEW c \in cs, NEW d, NEW new,
           NEW save, NEW delete, save # delete,
           Sound(rows, shown, cs, save, delete), Alone(cs, save),
           d.op = c.op, d.ids = c.ids, Creates(c, d, save, rows, rows2, new)
    PROVE  Sound(rows2, shown, (cs \ {c}) \cup {d}, save, delete)
<1>1. /\ c.op = save /\ c.ids = {} /\ d.at = "done" /\ d.rows = {new}
      /\ new.id \notin Ids(rows) /\ new.active /\ rows2 = rows \cup {new}
  BY DEF Creates
<1>2. Ids(rows) \subseteq Ids(rows2) /\ new.id \notin Ids(shown)
  BY <1>1 DEF Sound, Ids
<1>3. ASSUME NEW e \in cs, e # c, e.op \in {save, delete}
      PROVE  e.op # save /\ Fits(e, rows, save) /\ new.id \notin e.ids
  BY <1>1, <1>3 DEF Sound, Alone, Fits
<1>4. ASSUME NEW e \in (cs \ {c}) \cup {d}, e.op \in {save, delete}
      PROVE  Fits(e, rows2, save)
  <2>1. CASE e = d
    BY <1>1, <2>1 DEF Fits, Ids
  <2>2. CASE e # d
    BY <1>1, <1>2, <1>3, <1>4, <2>2 DEF Fits
  <2> QED
    BY <2>1, <2>2
<1>5. ASSUME NEW e \in (cs \ {c}) \cup {d}, e.op = save, e.at = "done", e.ids = {}
      PROVE  New(e, rows2, shown, (cs \ {c}) \cup {d}, save, delete)
  BY <1>1, <1>2, <1>3, <1>5 DEF New
<1> QED
  BY <1>2, <1>4, <1>5 DEF Sound

LEMMA CreatedRight ==
    ASSUME NEW rows, NEW rows2, NEW shown, NEW cs, NEW c \in cs, NEW d, NEW new,
           NEW save, NEW delete, save # delete,
           Right(rows, shown, cs, save, delete), Alone(cs, save),
           d.op = c.op, d.ids = c.ids, Creates(c, d, save, rows, rows2, new)
    PROVE  Right(rows2, shown, (cs \ {c}) \cup {d}, save, delete)
<1>1. /\ c.op = save /\ c.ids = {} /\ d.at = "done" /\ d.rows = {new}
      /\ new.id \notin Ids(rows) /\ new.active /\ rows2 = rows \cup {new}
      /\ c.at \in {"asked", "checked"}
  BY DEF Creates
<1>2. ASSUME NEW r \in rows2, r.active, r \notin shown
      PROVE  \E e \in (cs \ {c}) \cup {d} : e.op = save /\ WillShow(e, r, shown)
  <2>1. CASE r = new
    BY <1>1, <2>1 DEF WillShow
  <2>2. CASE r \in rows
    <3>1. PICK e \in cs : e.op = save /\ WillShow(e, r, shown)
      BY <1>2, <2>2 DEF Right
    <3>2. e = c
      BY <1>1, <3>1 DEF Alone
    <3> QED
      BY <1>1, <3>1, <3>2 DEF WillShow
  <2> QED
    BY <1>1, <2>1, <2>2
<1>3. ASSUME NEW r \in rows2, ~r.active, r.id \in Ids(shown)
      PROVE  \E e \in (cs \ {c}) \cup {d} : e.op = delete /\ WillHide(e, r)
  <2>1. r \in rows
    BY <1>1, <1>3
  <2>2. PICK e \in cs : e.op = delete /\ WillHide(e, r)
    BY <1>3, <2>1 DEF Right
  <2> QED
    BY <1>1, <2>2
<1> QED
  BY <1>2, <1>3 DEF Right

\* Who is in the rows of an update.
LEMMA Updated ==
    ASSUME NEW rows, NEW row \in rows, NEW new, new.id = row.id
    PROVE  LET rows2 == Update(rows, row.id, new)
           IN  /\ \A r \in rows2 : r = new \/ (r \in rows /\ r.id # row.id)
               /\ \A r \in rows : r.id # row.id => r \in rows2
               /\ new \in rows2 /\ Ids(rows2) = Ids(rows)
               /\ Keyed(rows) => Keyed(rows2)
<1> DEFINE rows2 == Update(rows, row.id, new)
<1>1. \A r \in rows2 : r = new \/ (r \in rows /\ r.id # row.id)
  BY DEF Update
<1>2. \A r \in rows : r.id # row.id => r \in rows2
  BY DEF Update
<1>3. new \in rows2
  BY DEF Update
<1> HIDE DEF rows2
<1>4. Ids(rows2) = Ids(rows)
  BY <1>1, <1>2, <1>3 DEF Ids
<1>5. Keyed(rows) => Keyed(rows2)
  BY <1>1 DEF Keyed
<1> QED
  BY <1>1, <1>2, <1>3, <1>4, <1>5 DEF rows2

LEMMA WrittenSound ==
    ASSUME NEW rows, NEW rows2, NEW shown, NEW cs, NEW c \in cs, NEW d, NEW row, NEW new,
           NEW op, NEW save, NEW delete, save # delete,
           Sound(rows, shown, cs, save, delete), Alone(cs, save), Keyed(rows),
           d.op = c.op, d.ids = c.ids, Writes(c, d, op, rows, rows2, row, new),
           \/ op = save /\ new.active = row.active
           \/ op = delete /\ c.ids = {row.id} /\ ~new.active
    PROVE  Sound(rows2, shown, (cs \ {c}) \cup {d}, save, delete)
<1>1. /\ c.op = op /\ row.id \in c.ids /\ d.at = "written" /\ row \in rows
      /\ new.id = row.id /\ rows2 = Update(rows, row.id, new)
  BY DEF Writes
<1>2. /\ \A r \in rows2 : r = new \/ (r \in rows /\ r.id # row.id)
      /\ \A r \in rows : r.id # row.id => r \in rows2
      /\ new \in rows2 /\ Ids(rows2) = Ids(rows)
  BY <1>1, Updated
<1>3. ASSUME NEW e \in cs, e # c, e.op = save
      PROVE  op = delete /\ c.ids = {row.id} /\ ~new.active
  BY <1>1, <1>3 DEF Alone
<1>4. ASSUME NEW e \in (cs \ {c}) \cup {d}, e.op \in {save, delete}
      PROVE  Fits(e, rows2, save)
  <2>1. CASE e = d
    <3>1. Fits(c, rows, save)
      BY <1>1, <1>4, <2>1 DEF Sound
    <3>2. \A i \in c.ids : i = row.id
      BY <1>1, <3>1 DEF Fits
    <3>3. c.op # save => \A r \in rows2 : r.id \in c.ids => ~r.active
      BY <1>1, <1>2, <3>2
    <3> QED
      BY <1>1, <1>2, <2>1, <3>1, <3>3 DEF Fits
  <2>2. CASE e # d
    <3>1. Fits(e, rows, save) /\ e \in cs /\ e # c
      BY <1>4, <2>2 DEF Sound
    <3>2. e.at = "done" /\ e.op = save =>
            \A r \in rows2, s \in e.rows : r.active /\ r.id = s.id => r = s
      BY <1>2, <1>3, <3>1 DEF Fits
    <3>3. ASSUME e.at \in {"written", "done"}, e.op # save,
                 NEW r \in rows2, r.id \in e.ids
          PROVE  ~r.active
      <4>1. CASE r = new
        BY <1>1, <3>1, <3>3, <4>1 DEF Fits
      <4>2. CASE r \in rows
        BY <3>1, <3>3, <4>2 DEF Fits
      <4> QED
        BY <1>2, <4>1, <4>2
    <3> QED
      BY <1>2, <3>1, <3>2, <3>3 DEF Fits
  <2> QED
    BY <2>1, <2>2
<1>5. ASSUME NEW e \in (cs \ {c}) \cup {d}, e.op = save, e.at = "done", e.ids = {}
      PROVE  New(e, rows2, shown, (cs \ {c}) \cup {d}, save, delete)
  <2>1. e \in cs /\ e # c
    BY <1>1, <1>5
  <2>2. PICK r \in rows : /\ e.rows = {r} /\ r.active /\ r.id \notin Ids(shown)
                          /\ \A b \in cs : b.op \in {save, delete} => r.id \notin b.ids
    BY <1>5, <2>1 DEF Sound, New
  <2>3. r \in rows2
    BY <1>1, <1>2, <1>3, <1>5, <2>1, <2>2
  <2>4. \A b \in (cs \ {c}) \cup {d} : b.op \in {save, delete} => r.id \notin b.ids
    BY <2>2
  <2> QED
    BY <2>2, <2>3, <2>4 DEF New
<1> QED
  BY <1>2, <1>4, <1>5 DEF Sound

LEMMA WrittenRight ==
    ASSUME NEW rows, NEW rows2, NEW shown, NEW cs, NEW c \in cs, NEW d, NEW row, NEW new,
           NEW op, NEW save, NEW delete, save # delete,
           Sound(rows, shown, cs, save, delete), Right(rows, shown, cs, save, delete),
           Alone(cs, save), Keyed(rows),
           d.op = c.op, d.ids = c.ids, Writes(c, d, op, rows, rows2, row, new),
           \/ op = save /\ new.active = row.active
           \/ op = delete /\ c.ids = {row.id} /\ ~new.active
    PROVE  Right(rows2, shown, (cs \ {c}) \cup {d}, save, delete)
<1>1. /\ c.op = op /\ row.id \in c.ids /\ d.at = "written" /\ row \in rows
      /\ new.id = row.id /\ rows2 = Update(rows, row.id, new)
      /\ c.at \in {"asked", "checked"}
  BY DEF Writes
<1>2. \A r \in rows2 : r = new \/ (r \in rows /\ r.id # row.id)
  BY <1>1, Updated
<1>3. c.ids = {row.id}
  <2>1. Fits(c, rows, save)
    BY <1>1 DEF Sound
  <2> QED
    BY <1>1, <2>1 DEF Fits
<1>4. ASSUME NEW r \in rows, r.active, r \notin shown
      PROVE  \E e \in cs \ {c} : e.op = save /\ WillShow(e, r, shown)
  BY <1>1, <1>4 DEF Right, WillShow
<1>5. ASSUME NEW r \in rows, ~r.active, r.id \in Ids(shown)
      PROVE  \E e \in cs \ {c} : e.op = delete /\ WillHide(e, r)
  BY <1>1, <1>5 DEF Right, WillHide
<1>6. ASSUME NEW r \in rows2, r.active, r \notin shown
      PROVE  \E e \in (cs \ {c}) \cup {d} : e.op = save /\ WillShow(e, r, shown)
  <2>1. CASE r \in rows
    BY <1>4, <1>6, <2>1
  <2>2. CASE r = new
    <3>1. op = save /\ row.active
      BY <1>6, <2>2
    <3>2. row \in shown
      BY <1>1, <1>4, <3>1 DEF Alone
    <3>3. r.id \in Ids(shown)
      BY <1>1, <2>2, <3>2 DEF Ids
    <3> QED
      BY <1>1, <1>3, <2>2, <3>1, <3>3 DEF WillShow
  <2> QED
    BY <1>2, <2>1, <2>2
<1>7. ASSUME NEW r \in rows2, ~r.active, r.id \in Ids(shown)
      PROVE  \E e \in (cs \ {c}) \cup {d} : e.op = delete /\ WillHide(e, r)
  <2>1. CASE r \in rows
    BY <1>5, <1>7, <2>1
  <2>2. CASE r = new /\ op = delete
    BY <1>1, <1>3, <2>2 DEF WillHide
  <2>3. CASE r = new /\ op # delete
    <3>1. ~row.active /\ row.id \in Ids(shown)
      BY <1>1, <1>7, <2>3
    <3>2. PICK e \in cs \ {c} : e.op = delete /\ WillHide(e, row)
      BY <1>1, <1>5, <3>1
    <3> QED
      BY <1>1, <2>3, <3>2 DEF WillHide
  <2> QED
    BY <1>2, <2>1, <2>2, <2>3
<1> QED
  BY <1>6, <1>7 DEF Right

\* Calls that are over without a change to the list.
LEMMA OverSound ==
    ASSUME NEW rows, NEW shown, NEW cs, NEW ds \in SUBSET cs, NEW save, NEW delete,
           Sound(rows, shown, cs, save, delete)
    PROVE  Sound(rows, shown, ds, save, delete)
<1>1. \A d \in ds : d.op \in {save, delete} => \E c \in cs : Like(c, d)
  BY DEF Like
<1> QED
  BY <1>1, AlikeSound

LEMMA OverRight ==
    ASSUME NEW rows, NEW shown, NEW cs, NEW gone, NEW save, NEW delete,
           Right(rows, shown, cs, save, delete),
           \A c \in cs \cap gone : c.op \in {save, delete} => c.at \notin {"written", "done"}
    PROVE  Right(rows, shown, cs \ gone, save, delete)
<1>1. ASSUME NEW r \in rows, r.active, r \notin shown
      PROVE  \E e \in cs \ gone : e.op = save /\ WillShow(e, r, shown)
  <2>1. PICK e \in cs : e.op = save /\ WillShow(e, r, shown)
    BY <1>1 DEF Right
  <2>2. e \notin gone
    BY <2>1 DEF WillShow
  <2> QED
    BY <2>1, <2>2
<1>2. ASSUME NEW r \in rows, ~r.active, r.id \in Ids(shown)
      PROVE  \E e \in cs \ gone : e.op = delete /\ WillHide(e, r)
  <2>1. PICK e \in cs : e.op = delete /\ WillHide(e, r)
    BY <1>2 DEF Right
  <2>2. e \notin gone
    BY <2>1 DEF WillHide
  <2> QED
    BY <2>1, <2>2
<1> QED
  BY <1>1, <1>2 DEF Right

\* A save is answered: its row is put at the end of the list, or in its place.
LEMMA AppendedSound ==
    ASSUME NEW rows, NEW shown, NEW cs, NEW c \in cs, NEW new \in c.rows, NEW save, NEW delete,
           Sound(rows, shown, cs, save, delete), Alone(cs, save),
           c.op = save, c.at = "done", c.ids = {}
    PROVE  /\ new \notin shown
           /\ Sound(rows, shown \cup {new}, cs \ {c}, save, delete)
<1>1. PICK r \in rows : /\ c.rows = {r} /\ r.active /\ r.id \notin Ids(shown)
  BY DEF Sound, New
<1>2. new = r /\ new \in rows /\ new.id \notin Ids(shown)
  BY <1>1
<1>3. new \notin shown /\ Keyed(shown \cup {new})
  BY <1>2 DEF Sound, Keyed, Ids
<1>4. Ids(shown \cup {new}) \subseteq Ids(rows)
  BY <1>2 DEF Sound, Ids
<1>5. \A e \in cs \ {c} : e.op # save
  BY DEF Alone
<1> QED
  BY <1>3, <1>4, <1>5 DEF Sound

LEMMA AppendedRight ==
    ASSUME NEW rows, NEW shown, NEW cs, NEW c \in cs, NEW new \in c.rows, NEW save, NEW delete,
           Sound(rows, shown, cs, save, delete), Right(rows, shown, cs, save, delete),
           Alone(cs, save), Keyed(rows), save # delete,
           c.op = save, c.at = "done", c.ids = {}
    PROVE  Right(rows, shown \cup {new}, cs \ {c}, save, delete)
<1>1. PICK r0 \in rows : /\ c.rows = {r0} /\ r0.active /\ r0.id \notin Ids(shown)
  BY DEF Sound, New
<1>2. new = r0 /\ new \in rows /\ new.active
  BY <1>1
<1>3. ASSUME NEW r \in rows, r.active, r \notin shown \cup {new}
      PROVE  FALSE
  <2>1. PICK e \in cs : e.op = save /\ WillShow(e, r, shown)
    BY <1>3 DEF Right
  <2>2. e = c
    BY <2>1 DEF Alone
  <2> QED
    BY <1>1, <1>2, <1>3, <2>1, <2>2 DEF WillShow
<1>4. ASSUME NEW r \in rows, ~r.active, r.id \in Ids(shown \cup {new})
      PROVE  \E e \in cs \ {c} : e.op = delete /\ WillHide(e, r)
  <2>1. r.id \in Ids(shown)
    BY <1>2, <1>4 DEF Ids, Keyed
  <2> QED
    BY <1>4, <2>1 DEF Right
<1> QED
  BY <1>3, <1>4 DEF Right

\* Who is shown once the row has its place.
LEMMA Placed ==
    ASSUME NEW shown, NEW new
    PROVE  LET shown2 == Update(shown, new.id, new)
           IN  /\ \A s \in shown2 : s = new \/ (s \in shown /\ s.id # new.id)
               /\ \A s \in shown : s.id # new.id => s \in shown2
               /\ new.id \in Ids(shown) => new \in shown2
               /\ Ids(shown2) = Ids(shown)
               /\ Keyed(shown2)  \/ ~Keyed(shown)
<1> DEFINE shown2 == Update(shown, new.id, new)
<1>1. \A s \in shown2 : s = new \/ (s \in shown /\ s.id # new.id)
  BY DEF Update
<1>2. \A s \in shown : s.id # new.id => s \in shown2
  BY DEF Update
<1>3. new.id \in Ids(shown) => new \in shown2
  BY DEF Update, Ids
<1>4. \A s \in shown2 : s.id \in Ids(shown)
  BY DEF Update, Ids
<1> HIDE DEF shown2
<1>5. Ids(shown2) = Ids(shown)
  <2>1. Ids(shown2) \subseteq Ids(shown)
    BY <1>4 DEF Ids
  <2>2. ASSUME NEW s \in shown PROVE s.id \in Ids(shown2)
    <3>1. CASE s.id = new.id
      <4>1. new.id \in Ids(shown)
        BY <3>1 DEF Ids
      <4> QED
        BY <1>3, <3>1, <4>1 DEF Ids
    <3>2. CASE s.id # new.id
      BY <1>2, <3>2 DEF Ids
    <3> QED
      BY <3>1, <3>2
  <2> QED
    BY <2>1, <2>2 DEF Ids
<1>6. Keyed(shown) => Keyed(shown2)
  BY <1>1 DEF Keyed
<1> QED
  BY <1>1, <1>2, <1>3, <1>5, <1>6 DEF shown2

LEMMA MappedSound ==
    ASSUME NEW rows, NEW shown, NEW cs, NEW c \in cs, NEW new \in c.rows, NEW save, NEW delete,
           Sound(rows, shown, cs, save, delete), Alone(cs, save), c.op = save
    PROVE  Sound(rows, Update(shown, new.id, new), cs \ {c}, save, delete)
<1> DEFINE shown2 == Update(shown, new.id, new)
<1>1. Ids(shown2) = Ids(shown) /\ Keyed(shown2)
  BY Placed DEF Sound
<1>2. \A e \in cs \ {c} : e.op # save
  BY DEF Alone
<1> HIDE DEF shown2
<1>3. Sound(rows, shown2, cs \ {c}, save, delete)
  BY <1>1, <1>2 DEF Sound
<1> QED
  BY <1>3 DEF shown2

LEMMA MappedRight ==
    ASSUME NEW rows, NEW shown, NEW cs, NEW c \in cs, NEW new \in c.rows, NEW save, NEW delete,
           Sound(rows, shown, cs, save, delete), Right(rows, shown, cs, save, delete),
           Alone(cs, save), save # delete, c.op = save, c.at = "done", c.ids # {}
    PROVE  Right(rows, Update(shown, new.id, new), cs \ {c}, save, delete)
<1> DEFINE shown2 == Update(shown, new.id, new)
<1>1. /\ Ids(shown2) = Ids(shown)
      /\ \A s \in shown : s.id # new.id => s \in shown2
      /\ new.id \in Ids(shown) => new \in shown2
  BY Placed
<1> HIDE DEF shown2
<1>2. \A r \in rows : r.active /\ r.id = new.id => r = new
  BY DEF Sound, Fits
<1>3. ASSUME NEW r \in rows, r.active
      PROVE  r \in shown2
  <2>1. CASE r \in shown
    <3>1. CASE r.id = new.id
      <4>1. r = new /\ new.id \in Ids(shown)
        BY <1>2, <1>3, <2>1, <3>1 DEF Ids
      <4> QED
        BY <1>1, <4>1
    <3>2. CASE r.id # new.id
      BY <1>1, <2>1, <3>2
    <3> QED
      BY <3>1, <3>2
  <2>2. CASE r \notin shown
    <3>1. PICK e \in cs : e.op = save /\ WillShow(e, r, shown)
      BY <1>3, <2>2 DEF Right
    <3>2. e = c
      BY <3>1 DEF Alone
    <3> QED
      BY <1>1, <3>1, <3>2 DEF WillShow
  <2> QED
    BY <2>1, <2>2
<1>4. ASSUME NEW r \in rows, ~r.active, r.id \in Ids(shown2)
      PROVE  \E e \in cs \ {c} : e.op = delete /\ WillHide(e, r)
  BY <1>1, <1>4 DEF Right
<1>5. Right(rows, shown2, cs \ {c}, save, delete)
  BY <1>3, <1>4 DEF Right
<1> QED
  BY <1>5 DEF shown2

\* A delete is answered.
LEMMA HiddenSound ==
    ASSUME NEW rows, NEW shown, NEW cs, NEW c \in cs, NEW i, NEW shown2,
           shown2 = {s \in shown : s.id # i}, NEW save, NEW delete,
           Sound(rows, shown, cs, save, delete)
    PROVE  Sound(rows, shown2, cs \ {c}, save, delete)
<1>1. Keyed(shown2) /\ Ids(shown2) \subseteq Ids(shown)
  BY DEF Sound, Keyed, Ids
<1>2. ASSUME NEW e \in cs \ {c}, e.op = save, e.at = "done", e.ids = {}
      PROVE  New(e, rows, shown2, cs \ {c}, save, delete)
  BY <1>1, <1>2 DEF Sound, New
<1> QED
  BY <1>1, <1>2 DEF Sound

LEMMA HiddenRight ==
    ASSUME NEW rows, NEW shown, NEW cs, NEW c \in cs, NEW row \in c.rows, NEW shown2,
           shown2 = {s \in shown : s.id # row.id}, NEW save, NEW delete,
           Sound(rows, shown, cs, save, delete), Right(rows, shown, cs, save, delete),
           save # delete, c.op = delete, c.at = "done"
    PROVE  Right(rows, shown2, cs \ {c}, save, delete)
<1>1. c.ids = {row.id} /\ \A r \in rows : r.id = row.id => ~r.active
  <2>1. Fits(c, rows, save)
    BY DEF Sound
  <2>2. row.id \in c.ids
    BY <2>1 DEF Fits, Ids
  <2> QED
    BY <2>1, <2>2 DEF Fits
<1>2. Ids(shown2) = Ids(shown) \ {row.id}
  BY DEF Ids
<1>3. ASSUME NEW r \in rows, r.active, r \notin shown2
      PROVE  \E e \in cs \ {c} : e.op = save /\ WillShow(e, r, shown2)
  <2>1. r.id # row.id /\ r \notin shown
    BY <1>1, <1>3
  <2>2. PICK e \in cs : e.op = save /\ WillShow(e, r, shown)
    BY <1>3, <2>1 DEF Right
  <2> QED
    BY <1>2, <2>1, <2>2 DEF WillShow
<1>4. ASSUME NEW r \in rows, ~r.active, r.id \in Ids(shown2)
      PROVE  \E e \in cs \ {c} : e.op = delete /\ WillHide(e, r)
  <2>1. PICK e \in cs : e.op = delete /\ WillHide(e, r)
    BY <1>2, <1>4 DEF Right
  <2>2. e # c
    BY <1>1, <1>2, <1>4, <2>1 DEF WillHide
  <2> QED
    BY <2>1, <2>2
<1> QED
  BY <1>3, <1>4 DEF Right

\* A list comes while nothing else is under way.
LEMMA LoadedRight ==
    ASSUME NEW rows, NEW cs, NEW save, NEW delete, Keyed(rows),
           \A c \in cs : c.op \notin {save, delete}
    PROVE  /\ Sound(rows, Active(rows), cs, save, delete)
           /\ Right(rows, Active(rows), cs, save, delete)
<1>1. Active(rows) \subseteq rows /\ \A r \in rows : r.active <=> r \in Active(rows)
  BY DEF Active
<1>2. Keyed(Active(rows)) /\ Ids(Active(rows)) \subseteq Ids(rows)
  BY <1>1 DEF Keyed, Ids
<1>3. \A r \in rows : ~r.active => r.id \notin Ids(Active(rows))
  BY <1>1 DEF Keyed, Ids
<1> QED
  BY <1>1, <1>2, <1>3 DEF Sound, Right
-----------------------------------------------------------------------------
(* The lists as bags *)

LEMMA DomainOf ==
    ASSUME NEW S
    PROVE  DOMAIN SetToBag(S) = S /\ Once(SetToBag(S))
BY DEF SetToBag, Once

LEMMA AppendedIs ==
    ASSUME NEW list, NEW new
    PROVE  /\ DOMAIN Appended(list, new) = DOMAIN list \cup {new}
           /\ Once(list) /\ new \notin DOMAIN list =>
                Appended(list, new) = SetToBag(DOMAIN list \cup {new})
BY DEF Appended, SetToBag, (+), Once

LEMMA MappedIs ==
    ASSUME NEW list, NEW new
    PROVE  /\ DOMAIN Mapped(list, new) = Update(DOMAIN list, new.id, new)
           /\ Once(list) /\ Keyed(DOMAIN list) =>
                Mapped(list, new) = SetToBag(Update(DOMAIN list, new.id, new))
<1> DEFINE shown == DOMAIN list
           shown2 == Update(shown, new.id, new)
<1>1. DOMAIN Mapped(list, new) = shown2
  BY DEF Mapped
<1>2. ASSUME Once(list), Keyed(shown)
      PROVE  Mapped(list, new) = SetToBag(shown2)
  <2>1. \A s \in shown : list[s] = 1
    BY <1>2 DEF Once, SetToBag
  <2>2. ASSUME NEW s \in shown, s.id = new.id
        PROVE  Cardinality(Copies(list, new.id)) = 1
    <3>1. Of(shown, new.id) = {s}
      BY <1>2, <2>2 DEF Of, Keyed
    <3>2. 1..list[s] = {1}
      BY <2>1
    <3>3. Copies(list, new.id) = {<<s, 1>>}
      BY <3>1, <3>2 DEF Copies
    <3> QED
      BY <3>3, FS_Singleton
  <2>3. ASSUME NEW s \in shown2
        PROVE  (IF s = new THEN Cardinality(Copies(list, new.id)) ELSE list[s]) = 1
    <3>1. CASE s = new
      <4>1. PICK old \in shown : old.id = new.id
        BY <3>1 DEF Update
      <4> QED
        BY <2>2, <3>1, <4>1
    <3>2. CASE s # new
      <4>1. s \in shown
        BY <3>2 DEF Update
      <4> QED
        BY <2>1, <3>2, <4>1
    <3> QED
      BY <3>1, <3>2
  <2> QED
    BY <2>3 DEF Mapped, SetToBag
<1> QED
  BY <1>1, <1>2

LEMMA WithoutIs ==
    ASSUME NEW list, NEW i
    PROVE  /\ DOMAIN Without(list, i) = {s \in DOMAIN list : s.id # i}
           /\ Once(list) => Without(list, i) = SetToBag({s \in DOMAIN list : s.id # i})
BY DEF Without, SetToBag, Once
-----------------------------------------------------------------------------
(* What the manager does *)

\* A form is filled from a row or emptied.
Picks == /\ UNCHANGED <<rowVars, shownVars, open, calls, doubt>>
         /\ \/ editTable' = editTable \/ editTable' = {}
            \/ \E row \in DOMAIN shownTables : editTable' = {row.id}
         /\ \/ editZone' = editZone \/ editZone' = {}
            \/ \E row \in DOMAIN shownZones : editZone' = {row.id}

Sends(n) == /\ CallOf(n) /\ ~n.met /\ n.active = {} /\ n.from = "page" /\ n.at = "asked"
            /\ n.rows = {}
            /\ MayClick /\ Send({n}) /\ NoPage /\ UNCHANGED rowVars
            /\ \/ n.op = "saveTable" /\ n.ids = editTable /\ ~Saving("saveTable")
               \/ n.op = "saveZone" /\ n.ids = editZone /\ ~Saving("saveZone")
               \/ n.op = "deleteTable" /\ \E row \in DOMAIN shownTables : n.ids = {row.id}
               \/ n.op = "deleteZone" /\ \E row \in DOMAIN shownZones : n.ids = {row.id}

LEMMA SaveSends ==
    ASSUME Typed,
           \/ \E n \in TableNames, z \in Zones : OnCreateOrUpdateTable(n, z)
           \/ \E n \in ZoneNames : OnCreateOrUpdateZone(n)
    PROVE  \E n : Sends(n)
<1>1. ASSUME NEW n \in TableNames, NEW z \in Zones, OnCreateOrUpdateTable(n, z)
      PROVE  \E m : Sends(m)
  <2>1. PICK name, zone : name = {n} /\ zone = {z}
    OBVIOUS
  <2>2. PICK m : m = NewCall("saveTable", editTable, name, zone)
    OBVIOUS
  <2>3. editTable \subseteq Tables /\ name \subseteq TableNames /\ zone \subseteq Zones
    BY <2>1 DEF Typed
  <2>4. /\ CallOf(m) /\ m.op = "saveTable" /\ m.ids = editTable
        /\ m.at = "asked" /\ m.rows = {} /\ m.active = {} /\ m.from = "page" /\ ~m.met
    BY <2>2, <2>3, NewCallOf DEF Ops, OnTables, OnZones
  <2>5. /\ MayClick /\ Send({m}) /\ NoPage /\ UNCHANGED rowVars /\ ~Saving("saveTable")
    BY <1>1, <2>1, <2>2 DEF OnCreateOrUpdateTable, NoPage
  <2> QED
    BY <2>4, <2>5 DEF Sends
<1>2. ASSUME NEW n \in ZoneNames, OnCreateOrUpdateZone(n)
      PROVE  \E m : Sends(m)
  <2>1. PICK name, zone : name = {n} /\ zone = {}
    OBVIOUS
  <2>2. PICK m : m = NewCall("saveZone", editZone, name, zone)
    OBVIOUS
  <2>3. editZone \subseteq Zones /\ name \subseteq ZoneNames /\ zone \subseteq Zones
    BY <2>1 DEF Typed
  <2>4. /\ CallOf(m) /\ m.op = "saveZone" /\ m.ids = editZone
        /\ m.at = "asked" /\ m.rows = {} /\ m.active = {} /\ m.from = "page" /\ ~m.met
    BY <2>2, <2>3, NewCallOf DEF Ops, OnTables, OnZones
  <2>5. /\ MayClick /\ Send({m}) /\ NoPage /\ UNCHANGED rowVars /\ ~Saving("saveZone")
    BY <1>2, <2>1, <2>2 DEF OnCreateOrUpdateZone, NoPage
  <2> QED
    BY <2>4, <2>5 DEF Sends
<1> QED
  BY <1>1, <1>2

LEMMA DeleteSends ==
    ASSUME Typed,
           \/ \E row \in DOMAIN shownTables : OnDeleteTable(row)
           \/ \E row \in DOMAIN shownZones : OnDeleteZone(row)
    PROVE  \E n : Sends(n)
<1>1. ASSUME NEW row \in DOMAIN shownTables, OnDeleteTable(row)
      PROVE  \E m : Sends(m)
  <2>1. PICK ids : ids = {row.id}
    OBVIOUS
  <2>2. PICK name, zone : name = {} /\ zone = {}
    OBVIOUS
  <2>3. PICK m : m = NewCall("deleteTable", ids, name, zone)
    OBVIOUS
  <2>4. ids \subseteq Tables
    BY <2>1 DEF Typed, TableRow
  <2>5. /\ CallOf(m) /\ m.op = "deleteTable" /\ m.ids = ids
        /\ m.at = "asked" /\ m.rows = {} /\ m.active = {} /\ m.from = "page" /\ ~m.met
    BY <2>2, <2>3, <2>4, NewCallOf DEF Ops, OnTables, OnZones
  <2>6. /\ MayClick /\ Send({m}) /\ NoPage /\ UNCHANGED rowVars
    BY <1>1, <2>1, <2>2, <2>3 DEF OnDeleteTable, NoPage
  <2> QED
    BY <2>1, <2>5, <2>6 DEF Sends
<1>2. ASSUME NEW row \in DOMAIN shownZones, OnDeleteZone(row)
      PROVE  \E m : Sends(m)
  <2>1. PICK ids : ids = {row.id}
    OBVIOUS
  <2>2. PICK name, zone : name = {} /\ zone = {}
    OBVIOUS
  <2>3. PICK m : m = NewCall("deleteZone", ids, name, zone)
    OBVIOUS
  <2>4. ids \subseteq Zones
    BY <2>1 DEF Typed, ZoneRow
  <2>5. /\ CallOf(m) /\ m.op = "deleteZone" /\ m.ids = ids
        /\ m.at = "asked" /\ m.rows = {} /\ m.active = {} /\ m.from = "page" /\ ~m.met
    BY <2>2, <2>3, <2>4, NewCallOf DEF Ops, OnTables, OnZones
  <2>6. /\ MayClick /\ Send({m}) /\ NoPage /\ UNCHANGED rowVars
    BY <1>2, <2>1, <2>2, <2>3 DEF OnDeleteZone, NoPage
  <2> QED
    BY <2>1, <2>5, <2>6 DEF Sends
<1> QED
  BY <1>1, <1>2

LEMMA ClickIs ==
    ASSUME Typed, Clicks
    PROVE  OpenPage \/ Picks \/ \E n : Sends(n)
<1>1. DOMAIN ActiveOf(shownTables) \subseteq DOMAIN shownTables
  BY DEF ActiveOf
<1>2. CASE OpenPage
  BY <1>2
<1>3. CASE CancelEdit
  BY <1>3 DEF CancelEdit, Picks
<1>4. CASE \E row \in DOMAIN ActiveOf(shownTables) : OnEditTable(row)
  BY <1>1, <1>4 DEF OnEditTable, Picks
<1>5. CASE \E row \in DOMAIN shownZones : OnEditZone(row)
  BY <1>5 DEF OnEditZone, Picks
<1>6. CASE \/ \E row \in DOMAIN ActiveOf(shownTables) : OnDeleteTable(row)
           \/ \E row \in DOMAIN shownZones : OnDeleteZone(row)
  BY <1>1, <1>6, DeleteSends
<1>7. CASE \/ \E n \in TableNames, z \in Zones : OnCreateOrUpdateTable(n, z)
           \/ \E n \in ZoneNames : OnCreateOrUpdateZone(n)
  BY <1>7, SaveSends
<1> QED
  BY <1>2, <1>3, <1>4, <1>5, <1>6, <1>7 DEF Clicks
\* Another client sends a call, and nothing else changes but the history.
Elsewhere(n) == /\ CallOf(n) /\ ~n.met /\ n.at = "asked" /\ Send({n})
                /\ doubt' = doubt \cup {"others"}
                /\ UNCHANGED <<rowVars, shownVars, formVars, open>>

LEMMA AsksOf ==
    ASSUME NEW op \in Ops, NEW ids, NEW name, NEW zone \in SUBSET (Zones \cup {NoZone}),
           NEW active \in SUBSET BOOLEAN,
           op \in OnTables \cup {"loadTables"} => ids \subseteq Tables /\ name \subseteq TableNames,
           op \in OnZones \cup {"loadZones"} => ids \subseteq Zones /\ name \subseteq ZoneNames,
           Asks(Body(op, ids, name, zone, active))
    PROVE  \E d : CallOf(d) /\ ~d.met /\ d.at = "asked" /\ Send({d})
<1>1. PICK m : m = NewCall(op, ids, name, zone)
  OBVIOUS
<1>2. /\ CallOf(m) /\ m.op = op /\ m.at = "asked" /\ m.rows = {} /\ ~m.met
  BY <1>1, NewCallOf
<1>3. PICK d : d = [m EXCEPT !.active = active, !.from = "other"]
  OBVIOUS
<1>4. /\ d \in Call /\ d.op = m.op /\ d.ids = m.ids /\ d.name = m.name
      /\ d.at = "asked" /\ d.rows = m.rows /\ ~d.met
  BY <1>2, <1>3 DEF CallOf, Call
<1>5. CallOf(d)
  BY <1>2, <1>4 DEF CallOf
<1>6. Send({d})
  BY <1>1, <1>3 DEF Asks, Body
<1> QED
  BY <1>4, <1>5, <1>6

LEMMA AskIs ==
    ASSUME Typed, AskElsewhere
    PROVE  \E n : Elsewhere(n)
<1>1. Ids(tables) \subseteq Tables /\ Ids(zones) \subseteq Zones
  BY DEF Typed, Ids, TableRow, ZoneRow
<1>2. PICK none : none = {}
  OBVIOUS
<1>3. /\ none \in SUBSET (Zones \cup {NoZone}) /\ none \in SUBSET BOOLEAN
      /\ none \subseteq Tables /\ none \subseteq Zones
      /\ none \subseteq TableNames /\ none \subseteq ZoneNames
  BY <1>2
<1>4. /\ "saveTable" \in Ops /\ "saveTable" \notin OnZones \cup {"loadZones"}
      /\ "deleteTable" \in Ops /\ "deleteTable" \notin OnZones \cup {"loadZones"}
      /\ "saveZone" \in Ops /\ "saveZone" \notin OnTables \cup {"loadTables"}
      /\ "deleteZone" \in Ops /\ "deleteZone" \notin OnTables \cup {"loadTables"}
  BY DEF Ops, OnTables, OnZones
<1>5. CASE PostTable
  <2>1. PICK n \in TableNames, z \in Ids(zones) \cup {NoZone} :
          Asks(Body("saveTable", {}, {n}, {z}, {}))
    BY <1>5 DEF PostTable
  <2>2. PICK name, zone : name = {n} /\ zone = {z}
    OBVIOUS
  <2>3. Asks(Body("saveTable", none, name, zone, none))
    BY <1>2, <2>1, <2>2
  <2>4. zone \in SUBSET (Zones \cup {NoZone}) /\ name \subseteq TableNames
    BY <1>1, <2>2
  <2>5. \E d : CallOf(d) /\ ~d.met /\ d.at = "asked" /\ Send({d})
    BY <1>3, <1>4, <2>3, <2>4, AsksOf
  <2> QED
    BY <2>5 DEF AskElsewhere, Elsewhere
<1>6. CASE PatchTable
  <2>1. PICK i \in Ids(tables), z \in Maybe(Ids(zones) \cup {NoZone}), a \in Maybe(BOOLEAN) :
          Asks(Body("saveTable", {i}, {}, z, a))
    BY <1>6 DEF PatchTable
  <2>2. PICK ids : ids = {i}
    OBVIOUS
  <2>3. Asks(Body("saveTable", ids, none, z, a))
    BY <1>2, <2>1, <2>2
  <2>4. z \in SUBSET (Zones \cup {NoZone}) /\ a \in SUBSET BOOLEAN /\ ids \subseteq Tables
    BY <1>1, <2>2 DEF Maybe
  <2>5. \E d : CallOf(d) /\ ~d.met /\ d.at = "asked" /\ Send({d})
    BY <1>3, <1>4, <2>3, <2>4, AsksOf
  <2> QED
    BY <2>5 DEF AskElsewhere, Elsewhere
<1>7. CASE PostZone
  <2>1. PICK n \in ZoneNames : Asks(Body("saveZone", {}, {n}, {}, {}))
    BY <1>7 DEF PostZone
  <2>2. PICK name : name = {n}
    OBVIOUS
  <2>3. Asks(Body("saveZone", none, name, none, none)) /\ name \subseteq ZoneNames
    BY <1>2, <2>1, <2>2
  <2>4. \E d : CallOf(d) /\ ~d.met /\ d.at = "asked" /\ Send({d})
    BY <1>3, <1>4, <2>3, AsksOf
  <2> QED
    BY <2>4 DEF AskElsewhere, Elsewhere
<1>8. CASE PatchZone
  <2>1. PICK i \in Ids(zones), a \in Maybe(BOOLEAN) : Asks(Body("saveZone", {i}, {}, {}, a))
    BY <1>8 DEF PatchZone
  <2>2. PICK ids : ids = {i}
    OBVIOUS
  <2>3. Asks(Body("saveZone", ids, none, none, a))
    BY <1>2, <2>1, <2>2
  <2>4. a \in SUBSET BOOLEAN /\ ids \subseteq Zones
    BY <1>1, <2>2 DEF Maybe
  <2>5. \E d : CallOf(d) /\ ~d.met /\ d.at = "asked" /\ Send({d})
    BY <1>3, <1>4, <2>3, <2>4, AsksOf
  <2> QED
    BY <2>5 DEF AskElsewhere, Elsewhere
<1>9. CASE Deletes
  <2>1. \/ \E i \in Ids(tables) : Asks(Body("deleteTable", {i}, {}, {}, {}))
        \/ \E i \in Ids(zones) : Asks(Body("deleteZone", {i}, {}, {}, {}))
    BY <1>9 DEF Deletes
  <2>2. ASSUME NEW i \in Ids(tables), Asks(Body("deleteTable", {i}, {}, {}, {}))
        PROVE  \E d : CallOf(d) /\ ~d.met /\ d.at = "asked" /\ Send({d})
    <3>1. PICK ids : ids = {i}
      OBVIOUS
    <3>2. Asks(Body("deleteTable", ids, none, none, none)) /\ ids \subseteq Tables
      BY <1>1, <1>2, <2>2, <3>1
    <3> QED
      BY <1>3, <1>4, <3>2, AsksOf
  <2>3. ASSUME NEW i \in Ids(zones), Asks(Body("deleteZone", {i}, {}, {}, {}))
        PROVE  \E d : CallOf(d) /\ ~d.met /\ d.at = "asked" /\ Send({d})
    <3>1. PICK ids : ids = {i}
      OBVIOUS
    <3>2. Asks(Body("deleteZone", ids, none, none, none)) /\ ids \subseteq Zones
      BY <1>1, <1>2, <2>3, <3>1
    <3> QED
      BY <1>3, <1>4, <3>2, AsksOf
  <2>4. \E d : CallOf(d) /\ ~d.met /\ d.at = "asked" /\ Send({d})
    BY <2>1, <2>2, <2>3
  <2> QED
    BY <2>4 DEF AskElsewhere, Elsewhere
<1> QED
  BY <1>5, <1>6, <1>7, <1>8, <1>9 DEF AskElsewhere
-----------------------------------------------------------------------------
(* Types are kept *)

NewLoads == {NewCall(op, {}, {}, {}) : op \in Loads}

LEMMA LoadOf ==
    ASSUME NEW e \in NewLoads
    PROVE  /\ CallOf(e) /\ e = NewCall(e.op, {}, {}, {}) /\ e.op \in Loads
           /\ e.at = "asked" /\ e.from = "page" /\ e.active = {}
<1>1. PICK op \in Loads : e = NewCall(op, {}, {}, {})
  BY DEF NewLoads
<1>2. PICK none : none = {}
  OBVIOUS
<1>3. e = NewCall(op, none, none, none)
  BY <1>1, <1>2
<1>4. /\ none \subseteq Tables /\ none \subseteq Zones
      /\ none \subseteq TableNames /\ none \subseteq ZoneNames
  BY <1>2
<1>5. CallOf(e) /\ e.op = op /\ e.at = "asked" /\ e.from = "page" /\ e.active = {}
  BY <1>3, <1>4, NewCallOf DEF Ops
<1> QED
  BY <1>1, <1>5

\* A page that is opened leaves the calls of the one before to nobody, and asks for its lists.
LEMMA Opens ==
    ASSUME Typed, OpenPage
    PROVE  /\ IsFiniteSet(calls') /\ \A e \in calls' : CallOf(e)
           /\ \A e \in calls' : \/ e \in NewLoads
                                \/ \E c \in calls :
                                     /\ e = [c EXCEPT !.from = IF @ = "page" THEN "left" ELSE @]
                                     /\ Like(c, e) /\ e.zone = c.zone
                                     /\ e.met = c.met
<1> DEFINE f == [c \in calls |-> [c EXCEPT !.from = IF @ = "page" THEN "left" ELSE @]]
           left == {f[c] : c \in calls}
           g == [op \in Loads |-> NewCall(op, {}, {}, {})]
<1>1. calls' = left \cup NewLoads
  BY DEF OpenPage, NewLoads
<1>2. ASSUME NEW c \in calls, NEW e, e = f[c]
      PROVE  /\ CallOf(e) /\ e = [c EXCEPT !.from = IF @ = "page" THEN "left" ELSE @]
             /\ Like(c, e) /\ e.zone = c.zone /\ e.met = c.met
  <2>1. e = [c EXCEPT !.from = IF @ = "page" THEN "left" ELSE @]
    BY <1>2
  <2> HIDE DEF f
  <2>2. CallOf(c)
    BY DEF Typed
  <2> QED
    BY <2>1, <2>2, OnlyLeft DEF Like
<1>3. IsFiniteSet(left)
  <2>1. f \in [calls -> left]
    OBVIOUS
  <2> HIDE DEF f
  <2> QED
    BY <2>1, FiniteImage DEF Typed
<1>4. IsFiniteSet(NewLoads)
  <2>1. g \in [Loads -> NewLoads] /\ NewLoads = {g[op] : op \in Loads}
    BY DEF NewLoads
  <2>2. IsFiniteSet(Loads)
    <3>1. IsFiniteSet({"loadTables"})
      BY FS_Singleton
    <3>2. Loads = {"loadTables"} \cup {"loadZones"}
      BY DEF Loads
    <3> QED
      BY <3>1, <3>2, FS_AddElement
  <2> HIDE DEF g
  <2> QED
    BY <2>1, <2>2, FiniteImage
<1>5. IsFiniteSet(calls')
  BY <1>1, <1>3, <1>4, FS_Union
<1>6. ASSUME NEW e \in calls', e \notin NewLoads
      PROVE  /\ CallOf(e)
             /\ \E c \in calls : /\ e = [c EXCEPT !.from = IF @ = "page" THEN "left" ELSE @]
                                 /\ Like(c, e) /\ e.zone = c.zone /\ e.met = c.met
  <2>1. PICK c \in calls : e = f[c]
    BY <1>1, <1>6
  <2> HIDE DEF f
  <2> QED
    BY <1>2, <2>1
<1>7. \A e \in calls' : CallOf(e)
  BY <1>6, LoadOf
<1> QED
  BY <1>5, <1>6, <1>7

LEMMA CreatesKeyed ==
    ASSUME NEW rows, Keyed(rows), NEW new, new.id \notin Ids(rows)
    PROVE  Keyed(rows \cup {new})
BY DEF Keyed, Ids

LEMMA ApiTyped ==
    ASSUME Typed, NEW c \in calls, Api(c)
    PROVE  Typed'
<1>1. PICK d : Goes(c, d) /\ WhatIsDone(c, d)
  BY ApiDone
<1>2. NoPage
  BY ApiDone
<1>3. CallOf(d) /\ calls' = (calls \ {c}) \cup {d}
  BY <1>1 DEF Goes, Moves
<1>4. IsFiniteSet(calls') /\ \A e \in calls' : CallOf(e)
  <2>1. IsFiniteSet(calls \ {c})
    BY FS_Subset DEF Typed
  <2> QED
    BY <1>3, <2>1, FS_AddElement DEF Typed
<1>5. /\ tables' \subseteq TableRow /\ zones' \subseteq ZoneRow
      /\ Keyed(tables') /\ Keyed(zones')
  <2>1. CASE UNCHANGED rowVars
    BY <2>1 DEF Typed, rowVars
  <2>2. CASE UNCHANGED zones /\ tables' \subseteq TableRow
             /\ \E new : new.id \notin Ids(tables) /\ tables' = tables \cup {new}
    BY <2>2, CreatesKeyed DEF Typed
  <2>3. CASE UNCHANGED zones /\ tables' \subseteq TableRow
             /\ \E row \in tables : \E new : new.id = row.id
             /\ tables' = Update(tables, row.id, new)
    BY <2>3, Updated DEF Typed
  <2>4. CASE UNCHANGED tables /\ zones' \subseteq ZoneRow
             /\ \E new : new.id \notin Ids(zones) /\ zones' = zones \cup {new}
    BY <2>4, CreatesKeyed DEF Typed
  <2>5. CASE UNCHANGED tables /\ zones' \subseteq ZoneRow
             /\ \E row \in zones : \E new : new.id = row.id /\ zones' = Update(zones, row.id, new)
    BY <2>5, Updated DEF Typed
  <2> QED
    BY <1>1, <2>1, <2>2, <2>3, <2>4, <2>5 DEF WhatIsDone, Lists, Checks, Reads, Creates, Writes
<1> QED
  BY <1>2, <1>4, <1>5 DEF Typed, NoPage, shownVars, formVars

LEMMA AnswerTyped ==
    ASSUME Typed, NEW c \in calls, Answer(c)
    PROVE  /\ Typed' /\ UNCHANGED rowVars /\ calls' \in SUBSET calls
<1>0. CallOf(c)
  BY DEF Typed
<1>1. UNCHANGED rowVars /\ calls' \in SUBSET calls
  BY DEF Answer, TablesCome, ZonesCome, TableSaved, TableDeleted, ZoneSaved, ZoneDeleted,
         AnsweredElsewhere, Refused, Fails
<1>2. DOMAIN shownTables' \subseteq TableRow
  <2>1. CASE TablesCome(c)
    BY <1>0, <2>1, DomainOf DEF TablesCome, CallOf
  <2>2. CASE TableSaved(c)
    <3>1. PICK new \in c.rows : shownTables' = IF c.ids = {} THEN Appended(shownTables, new)
                                               ELSE Mapped(shownTables, new)
      BY <2>2 DEF TableSaved
    <3>2. new \in TableRow
      BY <1>0, <2>2 DEF TableSaved, CallOf, OnTables
    <3>3. CASE c.ids = {}
      <4>1. shownTables' = Appended(shownTables, new)
        BY <3>1, <3>3
      <4>2. DOMAIN shownTables' = DOMAIN shownTables \cup {new}
        BY <4>1, AppendedIs
      <4> QED
        BY <3>2, <4>2 DEF Typed
    <3>4. CASE c.ids # {}
      <4>1. shownTables' = Mapped(shownTables, new)
        BY <3>1, <3>4
      <4> QED
        BY <3>2, <4>1, MappedIs, UpdateTyped DEF Typed
    <3> QED
      BY <3>3, <3>4
  <2>3. CASE TableDeleted(c)
    <3>1. PICK row \in c.rows : shownTables' = Without(shownTables, row.id)
      BY <2>3 DEF TableDeleted
    <3>2. DOMAIN Without(shownTables, row.id) = {s \in DOMAIN shownTables : s.id # row.id}
      BY WithoutIs
    <3> QED
      BY <3>1, <3>2 DEF Typed
  <2>4. CASE UNCHANGED shownTables
    BY <2>4 DEF Typed
  <2> QED
    BY <2>1, <2>2, <2>3, <2>4
    DEF Answer, ZonesCome, ZoneSaved, ZoneDeleted, AnsweredElsewhere, Refused, Fails, shownVars
<1>3. DOMAIN shownZones' \subseteq ZoneRow
  <2>1. CASE ZonesCome(c)
    BY <1>0, <2>1, DomainOf DEF ZonesCome, CallOf
  <2>2. CASE ZoneSaved(c)
    <3>1. PICK new \in c.rows : shownZones' = IF c.ids = {} THEN Appended(shownZones, new)
                                              ELSE Mapped(shownZones, new)
      BY <2>2 DEF ZoneSaved
    <3>2. new \in ZoneRow
      BY <1>0, <2>2 DEF ZoneSaved, CallOf, OnZones
    <3>3. CASE c.ids = {}
      <4>1. shownZones' = Appended(shownZones, new)
        BY <3>1, <3>3
      <4>2. DOMAIN shownZones' = DOMAIN shownZones \cup {new}
        BY <4>1, AppendedIs
      <4> QED
        BY <3>2, <4>2 DEF Typed
    <3>4. CASE c.ids # {}
      <4>1. shownZones' = Mapped(shownZones, new)
        BY <3>1, <3>4
      <4> QED
        BY <3>2, <4>1, MappedIs, UpdateTyped DEF Typed
    <3> QED
      BY <3>3, <3>4
  <2>3. CASE ZoneDeleted(c)
    <3>1. PICK row \in c.rows : shownZones' = Without(shownZones, row.id)
      BY <2>3 DEF ZoneDeleted
    <3>2. DOMAIN Without(shownZones, row.id) = {s \in DOMAIN shownZones : s.id # row.id}
      BY WithoutIs
    <3> QED
      BY <3>1, <3>2 DEF Typed
  <2>4. CASE UNCHANGED shownZones
    BY <2>4 DEF Typed
  <2> QED
    BY <2>1, <2>2, <2>3, <2>4
    DEF Answer, TablesCome, TableSaved, TableDeleted, AnsweredElsewhere, Refused, Fails, shownVars
<1>4. editTable' \subseteq Tables /\ editZone' \subseteq Zones
  BY DEF Answer, TablesCome, ZonesCome, TableSaved, TableDeleted, ZoneSaved, ZoneDeleted,
         AnsweredElsewhere, Refused, Fails, formVars, Typed
<1>5. IsFiniteSet(calls') /\ \A e \in calls' : CallOf(e)
  BY <1>1, FS_Subset DEF Typed
<1> QED
  BY <1>1, <1>2, <1>3, <1>4, <1>5 DEF Typed, rowVars

LEMMA ClickTyped ==
    ASSUME Typed, Clicks
    PROVE  Typed'
<1>1. CASE OpenPage
  BY <1>1, Opens DEF OpenPage, Typed, rowVars, shownVars
<1>2. CASE Picks
  <2>1. editTable' \subseteq Tables /\ editZone' \subseteq Zones
    BY <1>2 DEF Picks, Typed, TableRow, ZoneRow
  <2> QED
    BY <1>2, <2>1 DEF Picks, Typed, rowVars, shownVars
<1>3. ASSUME NEW n, Sends(n) PROVE Typed'
  <2>1. IsFiniteSet(calls') /\ \A e \in calls' : CallOf(e)
    BY <1>3, SendSends DEF Sends
  <2> QED
    BY <1>3, <2>1 DEF Sends, NoPage, Typed, rowVars, shownVars, formVars
<1> QED
  BY <1>1, <1>2, <1>3, ClickIs

LEMMA NextTyped ==
    ASSUME Typed, [Next]_vars
    PROVE  Typed'
<1>1. CASE UNCHANGED vars
  BY <1>1 DEF vars, rowVars, shownVars, formVars, Typed
<1>2. ASSUME NEW n, Elsewhere(n) PROVE Typed'
  <2>1. IsFiniteSet(calls') /\ \A e \in calls' : CallOf(e)
    BY <1>2, SendSends DEF Elsewhere
  <2> QED
    BY <1>2, <2>1 DEF Elsewhere, Typed, rowVars, shownVars, formVars
<1> QED
  BY <1>1, <1>2, ClickTyped, AskIs, ApiTyped, AnswerTyped DEF Next

LEMMA InitTyped == Init => Typed
<1> SUFFICES ASSUME Init PROVE Typed
  OBVIOUS
<1>1. DOMAIN shownTables = {} /\ DOMAIN shownZones = {}
  BY DomainOf DEF Init, EmptyBag
<1>2. IsFiniteSet({})
  BY FS_EmptySet
<1> QED
  BY <1>1, <1>2 DEF Init, Typed, Keyed
-----------------------------------------------------------------------------
(* No call that met no other hides a table *)

\* No write is under way with a call that met no other, so what it has seen stays.
LEMMA NextApart ==
    ASSUME Typed, Apart, [Next]_vars
    PROVE  Apart'
<1>1. CASE UNCHANGED vars
  BY <1>1 DEF vars, rowVars, Apart, Seen
<1>2. CASE OpenPage
  <2> SUFFICES ASSUME NEW e \in calls', ~e.met, e.op \notin Loads
               PROVE  Seen(e)' /\ \A d \in calls' : d = e \/ d.op \in Loads
    BY DEF Apart
  <2>1. PICK c \in calls : /\ e = [c EXCEPT !.from = IF @ = "page" THEN "left" ELSE @]
                           /\ Like(c, e) /\ e.zone = c.zone /\ e.met = c.met
    BY <1>2, Opens, LoadOf
  <2>2. Seen(c) /\ \A d \in calls : d = c \/ d.op \in Loads
    BY <2>1 DEF Apart, Like
  <2>3. Seen(e)'
    BY <1>2, <2>1, <2>2 DEF OpenPage, rowVars, Seen, Like
  <2>4. ASSUME NEW d \in calls', d.op \notin Loads
        PROVE  d = e
    <3>1. PICK b \in calls : d = [b EXCEPT !.from = IF @ = "page" THEN "left" ELSE @] /\ Like(b, d)
      BY <1>2, <2>4, Opens, LoadOf
    <3>2. b = c
      BY <2>2, <2>4, <3>1 DEF Like
    <3> QED
      BY <2>1, <3>1, <3>2
  <2> QED
    BY <2>3, <2>4
<1>3. CASE Picks
  BY <1>3 DEF Picks, rowVars, Apart, Seen
<1>4. ASSUME NEW n, Sends(n) \/ Elsewhere(n) PROVE Apart'
  <2>1. CallOf(n) /\ ~n.met /\ n.at = "asked" /\ Send({n})
    BY <1>4 DEF Sends, Elsewhere
  <2> SUFFICES ASSUME NEW e \in calls', ~e.met, e.op \notin Loads
               PROVE  Seen(e)' /\ \A d \in calls' : d = e \/ d.op \in Loads
    BY DEF Apart
  <2>2. calls \subseteq {n}
    BY <2>1, SendSends
  <2>3. \A d \in calls' : d.op = n.op /\ d.at = n.at
    BY <2>1, <2>2, SendSends
  <2>4. \A d \in calls' : d = e
    BY <2>1, <2>2, <2>3, SendSends
  <2> QED
    BY <2>1, <2>3, <2>4 DEF Seen
<1>5. ASSUME NEW c \in calls, Api(c) PROVE Apart'
  <2>1. PICK d : Goes(c, d) /\ WhatIsDone(c, d)
    BY <1>5, ApiDone
  <2>2. calls' = (calls \ {c}) \cup {d} /\ d.op = c.op /\ d.met = c.met
    BY <2>1 DEF Goes, Moves
  <2> SUFFICES ASSUME NEW e \in calls', ~e.met, e.op \notin Loads
               PROVE  Seen(e)' /\ \A b \in calls' : b = e \/ b.op \in Loads
    BY DEF Apart
  <2>3. CASE e = d
    <3>1. \A b \in calls : b = c \/ b.op \in Loads
      BY <2>2, <2>3 DEF Apart
    <3>2. Seen(d)'
      <4>1. CASE Checks(c, d)
        BY <4>1 DEF Checks, Seen, rowVars
      <4>2. CASE d.at \in {"done", "written"}
        BY <4>2 DEF Seen
      <4> QED
        BY <2>1, <4>1, <4>2 DEF WhatIsDone, Lists, Reads, Creates, Writes
    <3> QED
      BY <2>2, <2>3, <3>1, <3>2
  <2>4. CASE e # d
    <3>1. e \in calls /\ e # c
      BY <2>2, <2>4
    <3>2. Seen(e) /\ \A b \in calls : b = e \/ b.op \in Loads
      BY <3>1 DEF Apart
    <3>3. c.op \in Loads
      BY <3>1, <3>2
    <3>4. UNCHANGED rowVars
      BY <2>1, <3>3 DEF WhatIsDone, Lists, Checks, Reads, Creates, Writes, Loads
    <3> QED
      BY <2>2, <3>2, <3>3, <3>4 DEF rowVars, Seen
  <2> QED
    BY <2>3, <2>4
<1>6. ASSUME NEW c \in calls, Answer(c) PROVE Apart'
  <2>1. UNCHANGED rowVars /\ calls' \in SUBSET calls
    BY <1>6, AnswerTyped
  <2> QED
    BY <2>1 DEF rowVars, Apart, Seen
<1> QED
  BY <1>1, <1>2, <1>3, <1>4, <1>5, <1>6, ClickIs, AskIs DEF Next

LEMMA ActiveIds ==
    ASSUME NEW rows, NEW row \in rows, row.active
    PROVE  row.id \in Ids(Active(rows))
BY DEF Ids, Active

\* A row that is hidden by a step was not hidden before, so it is new or its zone is gone.
LEMMA HiddenIs ==
    ASSUME NEW row \in Hidden(tables', zones'), Of(Hidden(tables, zones), row.id) = {}
    PROVE  /\ row \in tables' /\ row.active /\ row.zone \notin Ids(Active(zones'))
           /\ \A old \in tables : old.id = row.id /\ old.active =>
                old.zone \in Ids(Active(zones))
<1>1. row \in tables' /\ row.active /\ row.zone \notin Ids(Active(zones'))
  BY DEF Hidden, Active
<1>2. \A old \in Hidden(tables, zones) : old.id # row.id
  BY DEF Of
<1> QED
  BY <1>1, <1>2 DEF Hidden, Active

LEMMA ApiHides ==
    ASSUME Typed, Apart, NEW c \in calls, Api(c), ~c.met, ~Bare(c),
           NEW row \in Hidden(tables', zones'), Of(Hidden(tables, zones), row.id) = {}
    PROVE  FALSE
<1>1. PICK d : Goes(c, d) /\ WhatIsDone(c, d)
  BY ApiDone
<1>2. /\ row \in tables' /\ row.active /\ row.zone \notin Ids(Active(zones'))
      /\ \A old \in tables : old.id = row.id /\ old.active => old.zone \in Ids(Active(zones))
  BY HiddenIs
<1>3. c.op \notin Loads => Seen(c)
  BY DEF Apart
<1>4. CASE UNCHANGED rowVars
  BY <1>2, <1>4 DEF rowVars
<1>5. ASSUME NEW new \in TableRow, Creates(c, d, "saveTable", tables, tables', new),
             UNCHANGED zones, c.at = "checked", new.zone \in c.zone
      PROVE  FALSE
  <2>1. new.zone \in Ids(Active(zones))
    BY <1>3, <1>5 DEF Creates, Seen, Loads, Bare
  <2>2. row = new \/ row \in tables
    BY <1>2, <1>5 DEF Creates
  <2> QED
    BY <1>2, <1>5, <2>1, <2>2
<1>6. ASSUME NEW old \in TableRow, NEW new \in TableRow, NEW op,
             Writes(c, d, op, tables, tables', old, new), UNCHANGED zones,
             \/ /\ op = "saveTable" /\ c.at = "checked" /\ new.zone \in Given(c.zone, old.zone)
                /\ new.active \in Given(c.active, old.active)
             \/ ~new.active
      PROVE  FALSE
  <2>0. old \in tables /\ new.id = old.id /\ tables' = Update(tables, old.id, new) /\ c.op = op
    BY <1>6 DEF Writes
  <2>1. row = new \/ row \in tables
    BY <1>2, <2>0, Updated
  <2>2. CASE row \in tables
    BY <1>2, <1>6, <2>2
  <2>3. CASE row = new
    <3>1. /\ op = "saveTable" /\ c.at = "checked" /\ new.zone \in Given(c.zone, old.zone)
          /\ new.active \in Given(c.active, old.active)
      BY <1>2, <1>6, <2>3
    <3>2. old.active /\ NoZone \notin c.zone
      <4>1. TRUE \notin c.active /\ NoZone \notin c.zone
        BY <2>0, <3>1 DEF Bare
      <4>2. new.active = TRUE /\ old.active \in BOOLEAN
        BY <1>2, <1>6, <2>3 DEF TableRow
      <4> QED
        BY <3>1, <4>1, <4>2 DEF Given
    <3>3. old.zone \in Ids(Active(zones))
      BY <1>2, <2>0, <2>3, <3>2
    <3>4. c.zone \ {NoZone} \subseteq Ids(Active(zones))
      BY <1>3, <2>0, <3>1 DEF Seen, Loads
    <3>5. new.zone \in Ids(Active(zones))
      BY <3>1, <3>2, <3>3, <3>4 DEF Given
    <3> QED
      BY <1>2, <1>6, <2>3, <3>5
  <2> QED
    BY <2>1, <2>2, <2>3
<1>7. ASSUME NEW new \in ZoneRow, Creates(c, d, "saveZone", zones, zones', new),
             UNCHANGED tables
      PROVE  FALSE
  <2>1. zones \subseteq zones'
    BY <1>7 DEF Creates
  <2>2. Ids(Active(zones)) \subseteq Ids(Active(zones'))
    BY <2>1 DEF Ids, Active
  <2> QED
    BY <1>2, <1>7, <2>2
<1>8. ASSUME NEW old \in ZoneRow, NEW new \in ZoneRow, NEW op,
             Writes(c, d, op, zones, zones', old, new), UNCHANGED tables,
             \/ op = "saveZone" /\ new.active \in Given(c.active, old.active)
             \/ /\ op = "deleteZone" /\ c.at = "checked"
                /\ c.ids = {old.id} /\ ~new.active
      PROVE  FALSE
  <2>1. old \in zones /\ new.id = old.id /\ zones' = Update(zones, old.id, new) /\ c.op = op
    BY <1>8 DEF Writes
  <2>2. /\ \A z \in zones : z.id # old.id => z \in zones'
        /\ new \in zones'
    BY <2>1, Updated
  <2>3. row \in tables /\ row.zone \in Ids(Active(zones))
    BY <1>2, <1>8
  <2>4. PICK z \in zones : z.active /\ z.id = row.zone
    BY <2>3 DEF Ids, Active
  <2>5. z \notin zones'
    BY <1>2, <2>4, ActiveIds
  <2>6. z = old
    BY <2>1, <2>2, <2>5 DEF Typed, Keyed
  <2>7. CASE op = "saveZone" /\ new.active \in Given(c.active, old.active)
    <3>0. new.active
      <4>1. FALSE \notin c.active
        BY <2>1, <2>7 DEF Bare
      <4>2. old.active = TRUE /\ new.active \in BOOLEAN
        BY <1>8, <2>4, <2>6 DEF ZoneRow
      <4> QED
        BY <2>7, <4>1, <4>2 DEF Given
    <3>1. new.active /\ new.id = row.zone
      BY <2>1, <2>4, <2>6, <3>0
    <3> QED
      BY <1>2, <2>2, <3>1, ActiveIds
  <2>8. CASE op = "deleteZone" /\ c.at = "checked" /\ c.ids = {old.id}
    <3>1. \A t \in Active(tables) : {t.zone} # c.ids
      BY <1>3, <2>1, <2>8 DEF Seen, Loads
    <3>2. row \in Active(tables)
      BY <1>2, <2>3 DEF Active
    <3> QED
      BY <2>4, <2>6, <2>8, <3>1, <3>2
  <2> QED
    BY <1>8, <2>7, <2>8
<1> QED
  BY <1>1, <1>4, <1>5, <1>6, <1>7, <1>8 DEF WhatIsDone, Lists, Checks, Reads

\* Whatever any client asks for, a table goes out of sight only by a body that the API writes
\* as it is, or by a call that was under way with another one.
THEOREM OnlyOverlapsHide == Spec => HiddenOnlyByOverlap
<1>1. Init => Typed /\ Apart
  <2>1. Init => Apart
    BY DEF Init, Apart
  <2> QED
    BY <2>1, InitTyped
<1>2. Typed /\ Apart /\ [Next]_vars => (Typed /\ Apart)'
  BY NextTyped, NextApart
<1>3. ASSUME Typed, Apart, [Next]_vars,
             NEW row \in Hidden(tables', zones'), Of(Hidden(tables, zones), row.id) = {}
      PROVE  \E c \in calls \ calls' : c.met \/ Bare(c)
  <2>1. CASE UNCHANGED rowVars
    BY <1>3, <2>1, HiddenIs DEF rowVars
  <2>2. CASE Clicks
    <3>1. UNCHANGED rowVars
      BY <2>2, <1>3, ClickIs DEF OpenPage, Picks, Sends
    <3> QED
      BY <2>1, <3>1
  <2>3. ASSUME NEW c \in calls, Answer(c)
        PROVE  \E e \in calls \ calls' : e.met \/ Bare(e)
    BY <1>3, <2>1, <2>3, AnswerTyped
  <2>4. ASSUME NEW c \in calls, Api(c)
        PROVE  \E e \in calls \ calls' : e.met \/ Bare(e)
    <3>1. c.met \/ Bare(c)
      BY <1>3, <2>4, ApiHides
    <3>2. PICK d : Goes(c, d) /\ WhatIsDone(c, d)
      BY <1>3, <2>4, ApiDone
    <3>3. c \notin calls'
      BY <3>2 DEF Goes, Moves
    <3> QED
      BY <3>1, <3>3
  <2>5. CASE AskElsewhere
    BY <2>1, <2>5 DEF AskElsewhere
  <2> QED
    BY <1>3, <2>1, <2>2, <2>3, <2>4, <2>5 DEF Next, vars
<1>4. Typed /\ Apart /\ [Next]_vars =>
        [\A row \in Hidden(tables', zones') : Of(Hidden(tables, zones), row.id) = {} =>
           \E c \in calls \ calls' : c.met \/ Bare(c)]_vars
  BY <1>3
<1> QED
  BY <1>1, <1>2, <1>4, PTL DEF Spec, HiddenOnlyByOverlap
-----------------------------------------------------------------------------
(* What a step does to one side *)

SideGoes(c, d, rows, rows2, save, delete) ==
    \/ /\ rows2 = rows
       /\ \/ c.op \notin {save, delete}
          \/ c.at \in {"asked", "checked"} /\ d.at \in {"checked", "refused"}
          \/ c.at = "written" /\ d.at = "done" /\ d.rows = {r \in rows : {r.id} = c.ids}
    \/ \E new : Creates(c, d, save, rows, rows2, new)
    \/ \E row, new : Writes(c, d, save, rows, rows2, row, new) /\ new.active = row.active
    \/ \E row, new : /\ Writes(c, d, delete, rows, rows2, row, new)
                     /\ c.ids = {row.id} /\ ~new.active

LEMMA SideSound ==
    ASSUME NEW rows, NEW rows2, NEW shown, NEW cs, NEW c \in cs, NEW d,
           NEW save, NEW delete, save # delete,
           Sound(rows, shown, cs, save, delete), Alone(cs, save), Keyed(rows),
           d.op = c.op, d.ids = c.ids, SideGoes(c, d, rows, rows2, save, delete)
    PROVE  Sound(rows2, shown, (cs \ {c}) \cup {d}, save, delete)
<1>1. CASE rows2 = rows /\ \/ c.op \notin {save, delete}
                           \/ d.at \in {"checked", "refused"}
                           \/ /\ c.at = "written" /\ d.at = "done"
                              /\ d.rows = {r \in rows : {r.id} = c.ids}
  BY <1>1, OnSound
<1>2. ASSUME NEW new, Creates(c, d, save, rows, rows2, new)
      PROVE  Sound(rows2, shown, (cs \ {c}) \cup {d}, save, delete)
  BY <1>2, CreatedSound
<1>3. ASSUME NEW row, NEW new, NEW op, Writes(c, d, op, rows, rows2, row, new),
             \/ op = save /\ new.active = row.active
             \/ op = delete /\ c.ids = {row.id} /\ ~new.active
      PROVE  Sound(rows2, shown, (cs \ {c}) \cup {d}, save, delete)
  BY <1>3, WrittenSound
<1> QED
  BY <1>1, <1>2, <1>3 DEF SideGoes

LEMMA SideRight ==
    ASSUME NEW rows, NEW rows2, NEW shown, NEW cs, NEW c \in cs, NEW d,
           NEW save, NEW delete, save # delete,
           Sound(rows, shown, cs, save, delete), Right(rows, shown, cs, save, delete),
           Alone(cs, save), Keyed(rows),
           d.op = c.op, d.ids = c.ids, SideGoes(c, d, rows, rows2, save, delete)
    PROVE  Right(rows2, shown, (cs \ {c}) \cup {d}, save, delete)
<1>1. CASE rows2 = rows /\ \/ c.op \notin {save, delete}
                           \/ c.at \in {"asked", "checked"}
                           \/ /\ c.at = "written" /\ d.at = "done"
                              /\ d.rows = {r \in rows : {r.id} = c.ids}
  BY <1>1, OnRight
<1>2. ASSUME NEW new, Creates(c, d, save, rows, rows2, new)
      PROVE  Right(rows2, shown, (cs \ {c}) \cup {d}, save, delete)
  BY <1>2, CreatedRight
<1>3. ASSUME NEW row, NEW new, NEW op, Writes(c, d, op, rows, rows2, row, new),
             \/ op = save /\ new.active = row.active
             \/ op = delete /\ c.ids = {row.id} /\ ~new.active
      PROVE  Right(rows2, shown, (cs \ {c}) \cup {d}, save, delete)
  BY <1>3, WrittenRight
<1> QED
  BY <1>1, <1>2, <1>3 DEF SideGoes

\* What the API does, seen from each side.
LEMMA BothSides ==
    ASSUME NEW c, NEW d, WhatIsDone(c, d), c.active = {}
    PROVE  /\ SideGoes(c, d, tables, tables', "saveTable", "deleteTable")
           /\ SideGoes(c, d, zones, zones', "saveZone", "deleteZone")
<1>1. CASE Lists(c, d, "loadTables", tables) \/ Lists(c, d, "loadZones", zones)
  BY <1>1 DEF Lists, SideGoes, rowVars
<1>2. CASE Checks(c, d)
  BY <1>2 DEF Checks, SideGoes, rowVars
<1>3. CASE Reads(c, d)
  BY <1>3 DEF Reads, SideGoes, rowVars, OnTables
<1>4. ASSUME UNCHANGED zones,
             \/ \E new : Creates(c, d, "saveTable", tables, tables', new)
             \/ \E row, new : /\ Writes(c, d, "saveTable", tables, tables', row, new)
                              /\ new.active = row.active
             \/ \E row, new : /\ Writes(c, d, "deleteTable", tables, tables', row, new)
                              /\ c.ids = {row.id} /\ ~new.active
      PROVE  /\ SideGoes(c, d, tables, tables', "saveTable", "deleteTable")
             /\ SideGoes(c, d, zones, zones', "saveZone", "deleteZone")
  <2>1. c.op \in OnTables
    BY <1>4 DEF Creates, Writes, OnTables
  <2> QED
    BY <1>4, <2>1 DEF SideGoes, OnTables
<1>5. ASSUME UNCHANGED tables,
             \/ \E new : Creates(c, d, "saveZone", zones, zones', new)
             \/ \E row, new : /\ Writes(c, d, "saveZone", zones, zones', row, new)
                              /\ new.active = row.active
             \/ \E row, new : /\ Writes(c, d, "deleteZone", zones, zones', row, new)
                              /\ c.ids = {row.id} /\ ~new.active
      PROVE  /\ SideGoes(c, d, tables, tables', "saveTable", "deleteTable")
             /\ SideGoes(c, d, zones, zones', "saveZone", "deleteZone")
  <2>1. c.op \in OnZones
    BY <1>5 DEF Creates, Writes, OnZones
  <2> QED
    BY <1>5, <2>1 DEF SideGoes, OnZones
<1> QED
  BY <1>1, <1>2, <1>3, <1>4, <1>5 DEF WhatIsDone, Given
-----------------------------------------------------------------------------
(* The page waits *)

LEMMA NoLoads ==
    ASSUME Waits, MayClick, ~Hurry
    PROVE  \A c \in calls : c.op \notin Loads
BY DEF Waits, MayClick, Loading

LEMMA Sent ==
    ASSUME Typed, Waits, ~Hurry, NEW n, Sends(n)
    PROVE  /\ \A e \in calls' : e.from = "page" /\ e.active = {} /\ e.op \notin Loads
           /\ \A e \in calls' : \E c \in calls \cup {n} : Like(c, e)
           /\ \A c \in calls \cup {n} : \E e \in calls' : Like(c, e)
           /\ \A op \in {"saveTable", "saveZone"} :
                /\ n.op = op => \A c \in calls : c.op # op
                /\ Alone(calls', op)
<1>1. CallOf(n) /\ ~n.met /\ n.from = "page" /\ n.active = {} /\ MayClick /\ Send({n})
  BY DEF Sends
<1>2. n.op \notin Loads /\ \A c \in calls : c.op \notin Loads
  BY <1>1, NoLoads DEF Sends, Loads
<1>3. /\ \A e \in calls' : \E c \in calls \cup {n} :
           Like(c, e) /\ e.active = c.active /\ e.from = c.from
      /\ \A c \in calls \cup {n} : \E e \in calls' : Like(c, e)
      /\ \A d, e \in calls' : d.op = e.op /\ d # e =>
           \E b, c \in calls \cup {n} : b # c /\ b.op = d.op /\ c.op = d.op
  BY <1>1, SendSends DEF Like
<1>4. \A e \in calls' : e.from = "page" /\ e.active = {} /\ e.op \notin Loads
  BY <1>1, <1>2, <1>3 DEF Waits, Like
<1>5. ASSUME NEW op \in {"saveTable", "saveZone"}
      PROVE  /\ n.op = op => \A c \in calls : c.op # op
             /\ Alone(calls', op)
  <2>1. n.op = op => \A c \in calls : c.op # op
    BY <1>5 DEF Sends, Saving, Waits
  <2>2. \A b, c \in calls \cup {n} : b.op = op /\ c.op = op => b = c
    BY <2>1 DEF Waits, Alone
  <2> QED
    BY <1>3, <2>1, <2>2 DEF Alone
<1> QED
  BY <1>3, <1>4, <1>5

LEMMA Opened ==
    ASSUME Typed, Waits, ~Hurry, OpenPage
    PROVE  /\ calls = {} /\ calls' = NewLoads
           /\ \A e \in calls' : /\ e.from = "page" /\ e.active = {}
                                /\ e.op \in Loads /\ e.at = "asked"
           /\ \A op \in Loads : \E e \in calls' : e.op = op
           /\ \A op : Alone(calls', op)
<1>1. calls = {} /\ calls' = NewLoads
  BY DEF OpenPage, NewLoads, Waits
<1>2. \A e \in NewLoads : /\ e = NewCall(e.op, {}, {}, {})
                          /\ e.from = "page" /\ e.active = {}
                          /\ e.op \in Loads /\ e.at = "asked"
  BY LoadOf
<1>3. \A op \in Loads : \E e \in NewLoads : e.op = op
  <2> SUFFICES ASSUME NEW op \in Loads
               PROVE  NewCall(op, {}, {}, {}) \in NewLoads /\ NewCall(op, {}, {}, {}).op = op
    OBVIOUS
  <2> QED
    BY DEF NewLoads, NewCall
<1>4. \A op : Alone(NewLoads, op)
  BY <1>2 DEF Alone
<1> QED
  BY <1>1, <1>2, <1>3, <1>4

LEMMA ApiWaits ==
    ASSUME Typed, Waits, NEW c \in calls, Api(c)
    PROVE  Waits'
<1>1. PICK d : Goes(c, d) /\ WhatIsDone(c, d)
  BY ApiDone
<1>2. NoPage
  BY ApiDone
<1>3. calls' = (calls \ {c}) \cup {d} /\ d.op = c.op /\ d.active = c.active /\ d.from = c.from
  BY <1>1 DEF Goes, Moves
<1>4. /\ \A e \in calls' : e.from = "page" /\ e.active = {}
      /\ \A e, f \in calls' : e.op \in Loads => f.op \in Loads
  BY <1>3 DEF Waits
<1>5. \A op \in Loads \cup {"saveTable", "saveZone"} : Alone(calls', op)
  <2>1. \A op : Alone(calls, op) => Alone(calls', op)
    BY <1>3 DEF Alone
  <2> QED
    BY <2>1 DEF Waits
<1>6. Ids(tables) \subseteq Ids(tables') /\ Ids(zones) \subseteq Ids(zones')
  <2>1. ASSUME NEW rows, NEW rows2,
               \/ rows2 = rows \/ \E new : rows2 = rows \cup {new}
               \/ \E row \in rows : \E new : new.id = row.id /\ rows2 = Update(rows, row.id, new)
        PROVE  Ids(rows) \subseteq Ids(rows2)
    <3>1. CASE \E row \in rows : \E new : new.id = row.id /\ rows2 = Update(rows, row.id, new)
      <4>1. PICK row \in rows : \E new : new.id = row.id /\ rows2 = Update(rows, row.id, new)
        BY <3>1
      <4>2. PICK new : new.id = row.id /\ rows2 = Update(rows, row.id, new)
        BY <4>1
      <4> QED
        BY <4>2, Updated
    <3> QED
      BY <2>1, <3>1 DEF Ids
  <2>2. /\ \/ UNCHANGED tables \/ \E new : tables' = tables \cup {new}
           \/ \E row \in tables : \E new : new.id = row.id /\ tables' = Update(tables, row.id, new)
        /\ \/ UNCHANGED zones \/ \E new : zones' = zones \cup {new}
           \/ \E row \in zones : \E new : new.id = row.id /\ zones' = Update(zones, row.id, new)
    BY <1>1 DEF WhatIsDone, Lists, Checks, Reads, Creates, Writes, rowVars
  <2>3. Ids(tables) \subseteq Ids(tables')
    BY <2>1, <2>2
  <2>4. Ids(zones) \subseteq Ids(zones')
    BY <2>1, <2>2
  <2> QED
    BY <2>3, <2>4
<1>7. \A e \in calls' : /\ e.op = "loadTables" /\ e.at = "done" => e.rows = Active(tables')
                        /\ e.op = "loadZones" /\ e.at = "done" => e.rows = Active(zones')
  <2>1. CASE c.op \in Loads
    <3>1. Lists(c, d, "loadTables", tables) \/ Lists(c, d, "loadZones", zones)
      BY <1>1, <2>1 DEF WhatIsDone, Lists, Checks, Reads, Creates, Writes, Loads
    <3> QED
      BY <1>3, <3>1 DEF Lists, Waits, rowVars
  <2>2. CASE c.op \notin Loads
    BY <1>3, <2>2 DEF Waits, Loads
  <2> QED
    BY <2>1, <2>2
<1> QED
  BY <1>2, <1>4, <1>5, <1>6, <1>7 DEF Waits, NoPage, formVars

LEMMA ClickWaits ==
    ASSUME Typed, Waits, PageIsSound, ~Hurry, Clicks
    PROVE  Waits'
<1>1. CASE OpenPage
  <2>1. \A op \in {"saveTable", "saveZone"} : op \notin Loads
    BY DEF Loads
  <2> QED
    BY <1>1, <2>1, Opened DEF OpenPage, Waits
<1>2. CASE Picks
  <2>1. Ids(DOMAIN shownTables) \subseteq Ids(tables) /\ Ids(DOMAIN shownZones) \subseteq Ids(zones)
    BY DEF PageIsSound, Sound
  <2>2. /\ \A i, j \in editTable' : i = j
        /\ \A i, j \in editZone' : i = j
        /\ editTable' \subseteq Ids(tables) /\ editZone' \subseteq Ids(zones)
    BY <1>2, <2>1 DEF Picks, Waits, Ids
  <2> QED
    BY <1>2, <2>2 DEF Picks, Waits, rowVars
<1>3. ASSUME NEW n, Sends(n) PROVE Waits'
  <2>1. NoPage /\ UNCHANGED rowVars
    BY <1>3 DEF Sends
  <2>2. \A e \in calls' : e.from = "page" /\ e.active = {} /\ e.op \notin Loads
    BY <1>3, Sent
  <2>3. \A op \in Loads \cup {"saveTable", "saveZone"} : Alone(calls', op)
    BY <1>3, <2>2, Sent DEF Alone
  <2> QED
    BY <2>1, <2>2, <2>3 DEF Waits, NoPage, rowVars, formVars, Loads
<1> QED
  BY <1>1, <1>2, <1>3, ClickIs

LEMMA AnswerWaits ==
    ASSUME Typed, Waits, NEW c \in calls, Answer(c)
    PROVE  Waits'
<1>1. UNCHANGED rowVars /\ calls' \in SUBSET calls
  BY AnswerTyped
<1>2. editTable' \in {editTable, {}} /\ editZone' \in {editZone, {}}
  BY DEF Answer, TablesCome, ZonesCome, TableSaved, TableDeleted, ZoneSaved, ZoneDeleted,
         AnsweredElsewhere, Refused, Fails, formVars
<1> QED
  BY <1>1, <1>2 DEF Waits, rowVars, Alone
-----------------------------------------------------------------------------
(* The page stays sound and right *)

Ready == Typed /\ Waits /\ PageIsSound /\ PageIsRight

LEMMA ApiSound ==
    ASSUME Typed, Waits, PageIsSound, NEW c \in calls, Api(c)
    PROVE  PageIsSound'
<1>1. PICK d : Goes(c, d) /\ WhatIsDone(c, d)
  BY ApiDone
<1>2. NoPage
  BY ApiDone
<1>3. calls' = (calls \ {c}) \cup {d} /\ d.op = c.op /\ d.ids = c.ids
  BY <1>1 DEF Goes, Moves
<1>4. /\ SideGoes(c, d, tables, tables', "saveTable", "deleteTable")
      /\ SideGoes(c, d, zones, zones', "saveZone", "deleteZone")
  BY <1>1, BothSides DEF Waits
<1>5. Alone(calls, "saveTable") /\ Alone(calls, "saveZone") /\ Keyed(tables) /\ Keyed(zones)
  BY DEF Waits, Typed
<1>6. Sound(tables', DOMAIN shownTables, calls', "saveTable", "deleteTable")
  BY <1>3, <1>4, <1>5, SideSound DEF PageIsSound
<1>7. Sound(zones', DOMAIN shownZones, calls', "saveZone", "deleteZone")
  BY <1>3, <1>4, <1>5, SideSound DEF PageIsSound
<1>8. shownTables' = shownTables /\ shownZones' = shownZones
  BY <1>2 DEF NoPage, shownVars
<1> QED
  BY <1>6, <1>7, <1>8 DEF PageIsSound

LEMMA ApiRight ==
    ASSUME Ready, NEW c \in calls, Api(c)
    PROVE  PageIsRight'
<1>0. Typed /\ Waits /\ PageIsSound /\ PageIsRight
  BY DEF Ready
<1>1. PICK d : Goes(c, d) /\ WhatIsDone(c, d)
  BY <1>0, ApiDone
<1>2. NoPage
  BY <1>0, ApiDone
<1>3. calls' = (calls \ {c}) \cup {d} /\ d.op = c.op /\ d.ids = c.ids
  BY <1>1 DEF Goes, Moves
<1>4. /\ SideGoes(c, d, tables, tables', "saveTable", "deleteTable")
      /\ SideGoes(c, d, zones, zones', "saveZone", "deleteZone")
  BY <1>0, <1>1, BothSides DEF Waits
<1>5. Alone(calls, "saveTable") /\ Alone(calls, "saveZone") /\ Keyed(tables) /\ Keyed(zones)
  BY <1>0 DEF Waits, Typed
<1>6. \A op : Asked(op)' <=> Asked(op)
  BY <1>3 DEF Asked
<1>7. Right(tables, DOMAIN shownTables, calls, "saveTable", "deleteTable") =>
        Right(tables', DOMAIN shownTables, calls', "saveTable", "deleteTable")
  BY <1>0, <1>3, <1>4, <1>5, SideRight DEF PageIsSound
<1>8. Right(zones, DOMAIN shownZones, calls, "saveZone", "deleteZone") =>
        Right(zones', DOMAIN shownZones, calls', "saveZone", "deleteZone")
  BY <1>0, <1>3, <1>4, <1>5, SideRight DEF PageIsSound
<1>9. shownTables' = shownTables /\ shownZones' = shownZones /\ doubt' = doubt
  BY <1>2 DEF NoPage, shownVars
<1> QED
  BY <1>0, <1>6, <1>7, <1>8, <1>9 DEF PageIsRight

\* What a sent call is to a side.
LEMMA SentSide ==
    ASSUME Typed, Waits, PageIsSound, ~Hurry, NEW n, Sends(n)
    PROVE  /\ Sound(tables, DOMAIN shownTables, calls', "saveTable", "deleteTable")
           /\ Sound(zones, DOMAIN shownZones, calls', "saveZone", "deleteZone")
<1>1. PICK cs : cs = calls \cup {n}
  OBVIOUS
<1>2. /\ \A e \in calls' : \E c \in cs : Like(c, e)
      /\ n.op = "saveTable" => \A c \in calls : c.op # "saveTable"
      /\ n.op = "saveZone" => \A c \in calls : c.op # "saveZone"
  BY <1>1, Sent
<1>3. n.at = "asked"
  BY DEF Sends
<1>4. \A i, j \in n.ids : i = j
  BY DEF Sends, Waits
<1>5. Sound(tables, DOMAIN shownTables, cs, "saveTable", "deleteTable")
  <2>1. \/ n.op \notin {"saveTable", "deleteTable"}
        \/ n.op = "saveTable" /\ n.ids \subseteq Ids(tables)
        \/ n.op = "deleteTable" /\ n.ids \subseteq Ids(DOMAIN shownTables)
    BY DEF Sends, Waits, Ids
  <2> QED
    BY <1>1, <1>2, <1>3, <1>4, <2>1, SentSound DEF PageIsSound
<1>6. Sound(zones, DOMAIN shownZones, cs, "saveZone", "deleteZone")
  <2>1. \/ n.op \notin {"saveZone", "deleteZone"}
        \/ n.op = "saveZone" /\ n.ids \subseteq Ids(zones)
        \/ n.op = "deleteZone" /\ n.ids \subseteq Ids(DOMAIN shownZones)
    BY DEF Sends, Waits, Ids
  <2> QED
    BY <1>1, <1>2, <1>3, <1>4, <2>1, SentSound DEF PageIsSound
<1> QED
  BY <1>2, <1>5, <1>6, AlikeSound

LEMMA OpenedSide ==
    ASSUME Typed, Waits, PageIsSound, ~Hurry, OpenPage
    PROVE  /\ Sound(tables, DOMAIN shownTables, calls', "saveTable", "deleteTable")
           /\ Sound(zones, DOMAIN shownZones, calls', "saveZone", "deleteZone")
<1>1. \A e \in calls' : e.op \in Loads
  BY Opened
<1> QED
  BY <1>1 DEF Sound, PageIsSound, Loads

LEMMA ClickSound ==
    ASSUME Typed, Waits, PageIsSound, ~Hurry, Clicks
    PROVE  PageIsSound'
<1>1. UNCHANGED <<rowVars, shownVars>>
  BY ClickIs DEF OpenPage, Picks, Sends, NoPage
<1>2. CASE OpenPage
  BY <1>1, <1>2, OpenedSide DEF PageIsSound, rowVars, shownVars
<1>3. CASE Picks
  BY <1>3 DEF Picks, PageIsSound, rowVars, shownVars
<1>4. ASSUME NEW n, Sends(n) PROVE PageIsSound'
  BY <1>1, <1>4, SentSide DEF PageIsSound, rowVars, shownVars
<1> QED
  BY <1>2, <1>3, <1>4, ClickIs

LEMMA ClickRight ==
    ASSUME Ready, ~Hurry, Clicks
    PROVE  PageIsRight'
<1>0. Typed /\ Waits /\ PageIsSound /\ PageIsRight
  BY DEF Ready
<1>1. UNCHANGED <<rowVars, shownVars, doubt>>
  BY <1>0, ClickIs DEF OpenPage, Picks, Sends, NoPage
<1>2. CASE OpenPage
  <2>1. Asked("loadTables")' /\ Asked("loadZones")'
    BY <1>0, <1>2, Opened DEF Asked, Loads
  <2>2. calls = {}
    BY <1>0, <1>2, Opened
  <2>3. Right(tables, DOMAIN shownTables, calls, "saveTable", "deleteTable") =>
          Right(tables, DOMAIN shownTables, calls', "saveTable", "deleteTable")
    BY <2>2, AlikeRight
  <2>4. Right(zones, DOMAIN shownZones, calls, "saveZone", "deleteZone") =>
          Right(zones, DOMAIN shownZones, calls', "saveZone", "deleteZone")
    BY <2>2, AlikeRight
  <2> QED
    BY <1>0, <1>1, <2>1, <2>3, <2>4 DEF PageIsRight, rowVars, shownVars
<1>3. CASE Picks
  BY <1>0, <1>3 DEF Picks, PageIsRight, Asked, rowVars, shownVars
<1>4. ASSUME NEW n, Sends(n) PROVE PageIsRight'
  <2>1. /\ \A e \in calls' : e.op \notin Loads
        /\ \A c \in calls : \E e \in calls' : Like(c, e)
    BY <1>0, <1>4, Sent
  <2>2. ~Asked("loadTables")' /\ ~Asked("loadZones")'
    BY <2>1 DEF Asked, Loads
  <2>3. Right(tables, DOMAIN shownTables, calls, "saveTable", "deleteTable") =>
          Right(tables, DOMAIN shownTables, calls', "saveTable", "deleteTable")
    BY <2>1, AlikeRight
  <2>4. Right(zones, DOMAIN shownZones, calls, "saveZone", "deleteZone") =>
          Right(zones, DOMAIN shownZones, calls', "saveZone", "deleteZone")
    BY <2>1, AlikeRight
  <2> QED
    BY <1>0, <1>1, <2>2, <2>3, <2>4 DEF PageIsRight, rowVars, shownVars
<1> QED
  BY <1>0, <1>2, <1>3, <1>4, ClickIs

\* A save or a delete is answered.
SideAnswers(c, list, list2, save, delete) ==
    /\ c.at = "done"
    /\ \/ /\ c.op = save
          /\ \E new \in c.rows : list2 = IF c.ids = {} THEN Appended(list, new)
                                                 ELSE Mapped(list, new)
       \/ c.op = delete /\ \E row \in c.rows : list2 = Without(list, row.id)

LEMMA AnsweredSide ==
    ASSUME NEW rows, NEW list, NEW list2, NEW cs, NEW c \in cs, NEW save, NEW delete,
           save # delete, SideAnswers(c, list, list2, save, delete),
           Once(list), Sound(rows, DOMAIN list, cs, save, delete), Alone(cs, save), Keyed(rows)
    PROVE  /\ Once(list2) /\ Sound(rows, DOMAIN list2, cs \ {c}, save, delete)
           /\ Right(rows, DOMAIN list, cs, save, delete) =>
                Right(rows, DOMAIN list2, cs \ {c}, save, delete)
<1>1. PICK shown : shown = DOMAIN list
  OBVIOUS
<1>2. Sound(rows, shown, cs, save, delete) /\ Keyed(shown)
  BY <1>1 DEF Sound
<1>3. ASSUME NEW new \in c.rows, c.op = save, c.at = "done", c.ids = {},
             list2 = Appended(list, new)
      PROVE  /\ Once(list2) /\ Sound(rows, DOMAIN list2, cs \ {c}, save, delete)
             /\ Right(rows, shown, cs, save, delete) =>
                  Right(rows, DOMAIN list2, cs \ {c}, save, delete)
  <2>1. PICK shown2 : shown2 = shown \cup {new}
    OBVIOUS
  <2>2. new \notin shown /\ Sound(rows, shown2, cs \ {c}, save, delete)
    BY <1>2, <1>3, <2>1, AppendedSound
  <2>3. Right(rows, shown, cs, save, delete) => Right(rows, shown2, cs \ {c}, save, delete)
    BY <1>2, <1>3, <2>1, AppendedRight
  <2>4. list2 = SetToBag(shown2)
    BY <1>1, <1>3, <2>1, <2>2, AppendedIs
  <2>5. DOMAIN list2 = shown2 /\ Once(list2)
    BY <2>4, DomainOf
  <2> QED
    BY <2>2, <2>3, <2>5
<1>4. ASSUME NEW new \in c.rows, c.op = save, c.at = "done", c.ids # {},
             list2 = Mapped(list, new)
      PROVE  /\ Once(list2) /\ Sound(rows, DOMAIN list2, cs \ {c}, save, delete)
             /\ Right(rows, shown, cs, save, delete) =>
                  Right(rows, DOMAIN list2, cs \ {c}, save, delete)
  <2>1. PICK shown2 : shown2 = Update(shown, new.id, new)
    OBVIOUS
  <2>2. Sound(rows, shown2, cs \ {c}, save, delete)
    BY <1>2, <1>4, <2>1, MappedSound
  <2>3. Right(rows, shown, cs, save, delete) => Right(rows, shown2, cs \ {c}, save, delete)
    BY <1>2, <1>4, <2>1, MappedRight
  <2>4. list2 = SetToBag(shown2)
    BY <1>1, <1>2, <1>4, <2>1, MappedIs
  <2>5. DOMAIN list2 = shown2 /\ Once(list2)
    BY <2>4, DomainOf
  <2> QED
    BY <2>2, <2>3, <2>5
<1>5. ASSUME NEW row \in c.rows, c.op = delete, c.at = "done", list2 = Without(list, row.id)
      PROVE  /\ Once(list2) /\ Sound(rows, DOMAIN list2, cs \ {c}, save, delete)
             /\ Right(rows, shown, cs, save, delete) =>
                  Right(rows, DOMAIN list2, cs \ {c}, save, delete)
  <2>1. PICK shown2 : shown2 = {s \in shown : s.id # row.id}
    OBVIOUS
  <2>2. Sound(rows, shown2, cs \ {c}, save, delete)
    BY <1>2, <2>1, HiddenSound
  <2>3. Right(rows, shown, cs, save, delete) => Right(rows, shown2, cs \ {c}, save, delete)
    <3> SUFFICES ASSUME Right(rows, shown, cs, save, delete)
                 PROVE  Right(rows, shown2, cs \ {c}, save, delete)
      OBVIOUS
    <3> QED
      BY <1>2, <1>5, <2>1, HiddenRight
  <2>4. list2 = SetToBag(shown2)
    BY <1>1, <1>5, <2>1, WithoutIs
  <2>5. DOMAIN list2 = shown2 /\ Once(list2)
    BY <2>4, DomainOf
  <2> QED
    BY <2>2, <2>3, <2>5
<1> QED
  BY <1>1, <1>3, <1>4, <1>5 DEF SideAnswers

\* A side that the answer does not change.
LEMMA StillSide ==
    ASSUME NEW rows, NEW list, NEW cs, NEW gone, NEW save, NEW delete,
           Once(list), Sound(rows, DOMAIN list, cs, save, delete)
    PROVE  /\ Sound(rows, DOMAIN list, cs \ gone, save, delete)
           /\ /\ Right(rows, DOMAIN list, cs, save, delete)
              /\ \A c \in cs \cap gone : c.op \in {save, delete} => c.at \notin {"written", "done"}
              => Right(rows, DOMAIN list, cs \ gone, save, delete)
<1>1. Sound(rows, DOMAIN list, cs \ gone, save, delete)
  BY OverSound
<1> QED
  BY <1>1, OverRight

TablesFit ==
    Once(shownTables) /\ Sound(tables, DOMAIN shownTables, calls, "saveTable", "deleteTable")
TablesRight == Right(tables, DOMAIN shownTables, calls, "saveTable", "deleteTable")
ZonesFit == Once(shownZones) /\ Sound(zones, DOMAIN shownZones, calls, "saveZone", "deleteZone")
ZonesRight == Right(zones, DOMAIN shownZones, calls, "saveZone", "deleteZone")

\* A list comes: its side is right, the other one as it was.
LEMMA TablesComeSide ==
    ASSUME Ready, NEW c \in calls, TablesCome(c)
    PROVE  TablesFit' /\ TablesRight' /\ ZonesFit' /\ (ZonesRight => ZonesRight')
<1>1. Typed /\ Waits /\ PageIsSound
  BY DEF Ready
<1>2. /\ c.op = "loadTables" /\ shownTables' = SetToBag(Active(tables)) /\ calls' = calls \ {c}
      /\ UNCHANGED <<tables, zones, shownZones>>
  BY <1>1 DEF TablesCome, Waits, rowVars
<1>3. DOMAIN shownTables' = Active(tables) /\ Once(shownTables')
  BY <1>2, DomainOf
<1>4. \A d \in calls' : d.op \notin {"saveTable", "deleteTable"}
  BY <1>1, <1>2 DEF Waits, Loads
<1>5. /\ Sound(tables, Active(tables), calls', "saveTable", "deleteTable")
      /\ Right(tables, Active(tables), calls', "saveTable", "deleteTable")
  BY <1>1, <1>4, LoadedRight DEF Typed
<1>6. /\ Sound(zones, DOMAIN shownZones, calls', "saveZone", "deleteZone")
      /\ ZonesRight => Right(zones, DOMAIN shownZones, calls', "saveZone", "deleteZone")
  <2>1. c.op \notin {"saveZone", "deleteZone"}
    BY <1>2
  <2> QED
    BY <1>1, <1>2, <2>1, StillSide DEF PageIsSound, ZonesRight
<1> QED
  BY <1>1, <1>2, <1>3, <1>5, <1>6 DEF TablesFit, TablesRight, ZonesFit, ZonesRight, PageIsSound

LEMMA ZonesComeSide ==
    ASSUME Ready, NEW c \in calls, ZonesCome(c)
    PROVE  ZonesFit' /\ ZonesRight' /\ TablesFit' /\ (TablesRight => TablesRight')
<1>1. Typed /\ Waits /\ PageIsSound
  BY DEF Ready
<1>2. /\ c.op = "loadZones" /\ shownZones' = SetToBag(Active(zones)) /\ calls' = calls \ {c}
      /\ UNCHANGED <<tables, zones, shownTables>>
  BY <1>1 DEF ZonesCome, Waits, rowVars
<1>3. DOMAIN shownZones' = Active(zones) /\ Once(shownZones')
  BY <1>2, DomainOf
<1>4. \A d \in calls' : d.op \notin {"saveZone", "deleteZone"}
  BY <1>1, <1>2 DEF Waits, Loads
<1>5. /\ Sound(zones, Active(zones), calls', "saveZone", "deleteZone")
      /\ Right(zones, Active(zones), calls', "saveZone", "deleteZone")
  BY <1>1, <1>4, LoadedRight DEF Typed
<1>6. /\ Sound(tables, DOMAIN shownTables, calls', "saveTable", "deleteTable")
      /\ TablesRight => Right(tables, DOMAIN shownTables, calls', "saveTable", "deleteTable")
  <2>1. c.op \notin {"saveTable", "deleteTable"}
    BY <1>2
  <2> QED
    BY <1>1, <1>2, <2>1, StillSide DEF PageIsSound, TablesRight
<1> QED
  BY <1>1, <1>2, <1>3, <1>5, <1>6 DEF TablesFit, TablesRight, ZonesFit, ZonesRight, PageIsSound

\* A save or a delete is answered: its side goes on, the other one is as it was.
LEMMA AnswerSide ==
    ASSUME Ready, NEW c \in calls,
           TableSaved(c) \/ TableDeleted(c) \/ ZoneSaved(c) \/ ZoneDeleted(c)
    PROVE  TablesFit' /\ (TablesRight => TablesRight') /\ ZonesFit' /\ (ZonesRight => ZonesRight')
<1>1. /\ TablesFit /\ ZonesFit /\ Alone(calls, "saveTable") /\ Alone(calls, "saveZone")
      /\ Keyed(tables) /\ Keyed(zones)
  BY DEF Ready, PageIsSound, TablesFit, ZonesFit, Waits, Typed
<1>2. calls' = calls \ {c} /\ UNCHANGED <<tables, zones>> /\ c.at = "done"
  BY DEF TableSaved, TableDeleted, ZoneSaved, ZoneDeleted, rowVars
<1>3. CASE TableSaved(c) \/ TableDeleted(c)
  <2>1. /\ SideAnswers(c, shownTables, shownTables', "saveTable", "deleteTable")
        /\ shownZones' = shownZones /\ c.op \notin {"saveZone", "deleteZone"}
    BY <1>3 DEF TableSaved, TableDeleted, SideAnswers
  <2>2. /\ Once(shownTables')
        /\ Sound(tables, DOMAIN shownTables', calls', "saveTable", "deleteTable")
        /\ TablesRight => Right(tables, DOMAIN shownTables', calls', "saveTable", "deleteTable")
    BY <1>1, <1>2, <2>1, AnsweredSide DEF TablesFit, TablesRight
  <2>3. /\ Sound(zones, DOMAIN shownZones, calls', "saveZone", "deleteZone")
        /\ ZonesRight => Right(zones, DOMAIN shownZones, calls', "saveZone", "deleteZone")
    BY <1>1, <1>2, <2>1, StillSide DEF ZonesFit, ZonesRight
  <2> QED
    BY <1>1, <1>2, <2>1, <2>2, <2>3 DEF TablesFit, TablesRight, ZonesFit, ZonesRight
<1>4. CASE ZoneSaved(c) \/ ZoneDeleted(c)
  <2>1. /\ SideAnswers(c, shownZones, shownZones', "saveZone", "deleteZone")
        /\ shownTables' = shownTables /\ c.op \notin {"saveTable", "deleteTable"}
    BY <1>4 DEF ZoneSaved, ZoneDeleted, SideAnswers
  <2>2. /\ Once(shownZones')
        /\ Sound(zones, DOMAIN shownZones', calls', "saveZone", "deleteZone")
        /\ ZonesRight => Right(zones, DOMAIN shownZones', calls', "saveZone", "deleteZone")
    BY <1>1, <1>2, <2>1, AnsweredSide DEF ZonesFit, ZonesRight
  <2>3. /\ Sound(tables, DOMAIN shownTables, calls', "saveTable", "deleteTable")
        /\ TablesRight => Right(tables, DOMAIN shownTables, calls', "saveTable", "deleteTable")
    BY <1>1, <1>2, <2>1, StillSide DEF TablesFit, TablesRight
  <2> QED
    BY <1>1, <1>2, <2>1, <2>2, <2>3 DEF TablesFit, TablesRight, ZonesFit, ZonesRight
<1> QED
  BY <1>3, <1>4

\* Calls end without an answer that changes a list.
LEMMA EndSide ==
    ASSUME Ready, NEW gone, calls' = calls \ gone, UNCHANGED <<rowVars, shownVars>>
    PROVE  /\ TablesFit' /\ ZonesFit'
           /\ (\A c \in calls \cap gone : c.at \notin {"written", "done"} \/ c.op \in Loads) =>
                (TablesRight => TablesRight') /\ (ZonesRight => ZonesRight')
<1>1. TablesFit /\ ZonesFit
  BY DEF Ready, PageIsSound, TablesFit, ZonesFit
<1>2. ASSUME \A c \in calls \cap gone : c.at \notin {"written", "done"} \/ c.op \in Loads
      PROVE  (TablesRight => TablesRight') /\ (ZonesRight => ZonesRight')
  <2>1. \A c \in calls \cap gone :
          /\ c.op \in {"saveTable", "deleteTable"} => c.at \notin {"written", "done"}
          /\ c.op \in {"saveZone", "deleteZone"} => c.at \notin {"written", "done"}
    BY <1>2 DEF Loads
  <2>2. TablesRight => Right(tables, DOMAIN shownTables, calls \ gone, "saveTable", "deleteTable")
    BY <1>1, <2>1, StillSide DEF TablesFit, TablesRight
  <2>3. ZonesRight => Right(zones, DOMAIN shownZones, calls \ gone, "saveZone", "deleteZone")
    BY <1>1, <2>1, StillSide DEF ZonesFit, ZonesRight
  <2> QED
    BY <2>2, <2>3 DEF TablesRight, ZonesRight, rowVars, shownVars
<1>3. /\ Sound(tables, DOMAIN shownTables, calls \ gone, "saveTable", "deleteTable")
      /\ Sound(zones, DOMAIN shownZones, calls \ gone, "saveZone", "deleteZone")
  BY <1>1, StillSide DEF TablesFit, ZonesFit
<1>4. TablesFit' /\ ZonesFit'
  BY <1>1, <1>3 DEF TablesFit, ZonesFit, rowVars, shownVars
<1> QED
  BY <1>2, <1>4

LEMMA AnswerRight ==
    ASSUME Ready, NEW c \in calls, Answer(c)
    PROVE  PageIsSound' /\ PageIsRight'
<1>0. /\ Typed /\ Waits /\ TablesFit /\ ZonesFit /\ CallOf(c)
      /\ "lists" \notin doubt \/ (Asked("loadZones") /\ ~Asked("loadTables")) => TablesRight
      /\ "lists" \notin doubt \/ (Asked("loadTables") /\ ~Asked("loadZones")) => ZonesRight
  BY DEF Ready, PageIsSound, PageIsRight, TablesFit, TablesRight, ZonesFit, ZonesRight, Typed
<1> SUFFICES /\ TablesFit' /\ ZonesFit'
             /\ "lists" \notin doubt' \/ (Asked("loadZones")' /\ ~Asked("loadTables")') =>
                  TablesRight'
             /\ "lists" \notin doubt' \/ (Asked("loadTables")' /\ ~Asked("loadZones")') =>
                  ZonesRight'
  BY DEF PageIsSound, PageIsRight, TablesFit, TablesRight, ZonesFit, ZonesRight
<1>1. CASE TablesCome(c)
  <2>1. TablesFit' /\ TablesRight' /\ ZonesFit' /\ (ZonesRight => ZonesRight')
    BY <1>1, TablesComeSide
  <2>2. c.op = "loadTables" /\ calls' = calls \ {c} /\ Settle(c)
    BY <1>1 DEF TablesCome
  <2>3. ~Asked("loadTables")' /\ Asked("loadTables")
    BY <1>0, <2>2 DEF Asked, Waits, Alone, Loads
  <2>4. "lists" \notin doubt' => "lists" \notin doubt \/ ~Asked("loadZones")
    BY <2>2 DEF Settle, Asked, Loads
  <2> QED
    BY <1>0, <2>1, <2>3, <2>4
<1>2. CASE ZonesCome(c)
  <2>1. ZonesFit' /\ ZonesRight' /\ TablesFit' /\ (TablesRight => TablesRight')
    BY <1>2, ZonesComeSide
  <2>2. c.op = "loadZones" /\ calls' = calls \ {c} /\ Settle(c)
    BY <1>2 DEF ZonesCome
  <2>3. ~Asked("loadZones")' /\ Asked("loadZones")
    BY <1>0, <2>2 DEF Asked, Waits, Alone, Loads
  <2>4. "lists" \notin doubt' => "lists" \notin doubt \/ ~Asked("loadTables")
    BY <2>2 DEF Settle, Asked, Loads
  <2> QED
    BY <1>0, <2>1, <2>3, <2>4
<1>3. ASSUME c.op \notin Loads, calls' \in SUBSET calls
      PROVE  ~Asked("loadTables")' /\ ~Asked("loadZones")'
  BY <1>0, <1>3 DEF Waits, Asked, Loads
<1>4. CASE TableSaved(c) \/ TableDeleted(c) \/ ZoneSaved(c) \/ ZoneDeleted(c)
  <2>1. TablesFit' /\ (TablesRight => TablesRight') /\ ZonesFit' /\ (ZonesRight => ZonesRight')
    BY <1>4, AnswerSide
  <2>2. c.op \notin Loads /\ calls' \in SUBSET calls /\ doubt' = doubt
    BY <1>4 DEF TableSaved, TableDeleted, ZoneSaved, ZoneDeleted, Loads
  <2> QED
    BY <1>0, <1>3, <2>1, <2>2
<1>5. CASE Refused(c)
  <2>1. /\ c.at = "refused" /\ calls' = calls \ {c} /\ doubt' = doubt
        /\ UNCHANGED <<rowVars, shownVars>>
    BY <1>5 DEF Refused
  <2>2. c.op \notin Loads
    BY <1>0, <2>1 DEF CallOf
  <2>3. TablesFit' /\ ZonesFit' /\ (TablesRight => TablesRight') /\ (ZonesRight => ZonesRight')
    <3>1. \A b \in calls \cap {c} : b.at \notin {"written", "done"} \/ b.op \in Loads
      BY <2>1
    <3> QED
      BY <2>1, <3>1, EndSide
  <2> QED
    BY <1>0, <1>3, <2>1, <2>2, <2>3
<1>6. CASE Fails(c)
  <2>1. PICK gone : gone = IF c.op \in Loads THEN {d \in calls : d.op \in Loads} ELSE {c}
    OBVIOUS
  <2>2. /\ calls' = calls \ gone /\ UNCHANGED <<rowVars, shownVars>>
        /\ doubt' = IF c.op \notin Loads /\ c.at \in {"written", "done"}
                    THEN doubt \cup {"lists"} ELSE doubt
    BY <1>6, <2>1 DEF Fails
  <2>3. TablesFit' /\ ZonesFit'
    BY <2>2, EndSide
  <2>4. ~Asked("loadTables")' /\ ~Asked("loadZones")'
    <3>1. CASE c.op \in Loads
      BY <2>1, <2>2, <3>1 DEF Asked, Loads
    <3>2. CASE c.op \notin Loads
      BY <1>3, <2>2, <3>2
    <3> QED
      BY <3>1, <3>2
  <2>5. ASSUME "lists" \notin doubt'
        PROVE  (TablesRight => TablesRight') /\ (ZonesRight => ZonesRight')
    <3>1. \A b \in calls \cap gone : b.at \notin {"written", "done"} \/ b.op \in Loads
      BY <2>1, <2>2, <2>5
    <3> QED
      BY <2>2, <3>1, EndSide
  <2>6. "lists" \notin doubt' => "lists" \notin doubt
    BY <2>2
  <2> QED
    BY <1>0, <2>3, <2>4, <2>5, <2>6
<1>7. ~AnsweredElsewhere(c)
  BY <1>0 DEF AnsweredElsewhere, Waits
<1> QED
  BY <1>1, <1>2, <1>4, <1>5, <1>6, <1>7 DEF Answer

\* As long as no other client asks for anything.
LEMMA ReadyNext ==
    ASSUME Ready, ~Hurry, [Next]_vars, "others" \notin doubt'
    PROVE  Ready'
<1>0. Typed /\ Waits /\ PageIsSound /\ PageIsRight /\ Typed'
  BY NextTyped DEF Ready
<1>1. CASE UNCHANGED vars
  BY <1>0, <1>1
  DEF Ready, Waits, PageIsSound, PageIsRight, Asked, vars, rowVars, shownVars, formVars
<1>2. CASE Clicks
  BY <1>0, <1>2, ClickWaits, ClickSound, ClickRight DEF Ready
<1>3. ASSUME NEW c \in calls, Api(c) PROVE Ready'
  BY <1>0, <1>3, ApiWaits, ApiSound, ApiRight DEF Ready
<1>4. ASSUME NEW c \in calls, Answer(c) PROVE Ready'
  BY <1>0, <1>4, AnswerWaits, AnswerRight DEF Ready
<1>5. ~AskElsewhere
  BY DEF AskElsewhere
<1> QED
  BY <1>1, <1>2, <1>3, <1>4, <1>5 DEF Next

\* Another client is not forgotten.
LEMMA OthersStay ==
    ASSUME Typed, [Next]_vars, "others" \notin doubt'
    PROVE  "others" \notin doubt
<1>1. CASE UNCHANGED vars
  BY <1>1 DEF vars
<1>2. CASE Clicks
  BY <1>2, ClickIs DEF OpenPage, Picks, Sends, NoPage
<1>3. CASE AskElsewhere
  BY <1>3 DEF AskElsewhere
<1>4. ASSUME NEW c \in calls, Api(c) PROVE doubt' = doubt
  BY <1>4, ApiDone DEF NoPage
<1>5. ASSUME NEW c \in calls, Answer(c) PROVE "others" \in doubt => "others" \in doubt'
  BY <1>5 DEF Answer, TablesCome, ZonesCome, TableSaved, TableDeleted, ZoneSaved, ZoneDeleted,
              AnsweredElsewhere, Refused, Fails, Settle
<1> QED
  BY <1>1, <1>2, <1>3, <1>4, <1>5 DEF Next

LEMMA ReadyInit == Init => Ready
<1> SUFFICES ASSUME Init PROVE Ready
  OBVIOUS
<1>1. /\ DOMAIN shownTables = {} /\ Once(shownTables)
      /\ DOMAIN shownZones = {} /\ Once(shownZones)
  BY DomainOf DEF Init, EmptyBag
<1>2. tables = {} /\ zones = {} /\ calls = {} /\ editTable = {} /\ editZone = {}
      /\ doubt = {"lists"}
  BY DEF Init
<1>3. PageIsSound
  BY <1>1, <1>2 DEF PageIsSound, Sound, Keyed, Ids
<1>4. PageIsRight
  BY <1>2 DEF PageIsRight, Asked
<1>5. Waits
  BY <1>2 DEF Waits, Alone
<1> QED
  BY <1>3, <1>4, <1>5, InitTyped DEF Ready

LEMMA AtRest ==
    ASSUME NEW rows, NEW list, NEW save, NEW delete, Keyed(rows), Once(list),
           Sound(rows, DOMAIN list, {}, save, delete), Right(rows, DOMAIN list, {}, save, delete)
    PROVE  list = SetToBag(Active(rows)) /\ ActiveOf(list) = SetToBag(Active(rows))
<1>1. PICK shown : shown = DOMAIN list
  OBVIOUS
<1>2. \A r \in rows : r.active => r \in shown
  BY <1>1 DEF Right
<1>3. \A r \in rows : ~r.active => r.id \notin Ids(shown)
  BY <1>1 DEF Right
<1>4. ASSUME NEW s \in shown PROVE s \in Active(rows)
  <2>1. s.id \in Ids(shown) /\ Ids(shown) \subseteq Ids(rows) /\ Keyed(shown)
    BY <1>1 DEF Ids, Sound
  <2>2. PICK r \in rows : r.id = s.id
    BY <2>1 DEF Ids
  <2>3. r.active /\ r \in shown
    BY <1>2, <1>3, <2>1, <2>2
  <2>4. r = s
    BY <2>1, <2>2, <2>3 DEF Keyed
  <2> QED
    BY <2>3, <2>4 DEF Active
<1>5. shown = Active(rows)
  BY <1>2, <1>4 DEF Active
<1>6. list = SetToBag(Active(rows))
  BY <1>1, <1>5 DEF Once
<1>7. ActiveOf(list) = list
  <2>1. {r \in DOMAIN list : r.active} = DOMAIN list
    BY <1>1, <1>5 DEF Active
  <2>2. list = [r \in DOMAIN list |-> 1]
    BY DEF Once, SetToBag
  <2> QED
    BY <2>1, <2>2 DEF ActiveOf
<1> QED
  BY <1>6, <1>7

\* A page that waits for its lists before it is used shows, when nothing is under way and no
\* other client has been there, what there is, however its saves and deletes overlapped.
THEOREM FloorStaysTrue == ASSUME ~Hurry PROVE Spec => []FloorIsTrue
<1> DEFINE Inv == Typed /\ ("others" \notin doubt => Ready)
<1>1. Inv => FloorIsTrue
  <2> SUFFICES ASSUME Ready, calls = {}, doubt = {}
               PROVE  /\ ActiveOf(shownTables) = SetToBag(Active(tables))
                      /\ shownZones = SetToBag(Active(zones))
    BY DEF FloorIsTrue, Shows
  <2>1. /\ Keyed(tables) /\ Keyed(zones) /\ Once(shownTables) /\ Once(shownZones)
        /\ Sound(tables, DOMAIN shownTables, {}, "saveTable", "deleteTable")
        /\ Sound(zones, DOMAIN shownZones, {}, "saveZone", "deleteZone")
        /\ Right(tables, DOMAIN shownTables, {}, "saveTable", "deleteTable")
        /\ Right(zones, DOMAIN shownZones, {}, "saveZone", "deleteZone")
    BY DEF Ready, Typed, PageIsSound, PageIsRight
  <2> QED
    BY <2>1, AtRest
<1>2. Inv /\ [Next]_vars => Inv'
  BY NextTyped, ReadyNext, OthersStay
<1>3. Init => Inv
  BY ReadyInit, InitTyped
<1> QED
  BY <1>1, <1>2, <1>3, PTL DEF Spec
=============================================================================
