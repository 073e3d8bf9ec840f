--------------------------- MODULE PlatformPanel ---------------------------
(***************************************************************************)
(* The platform administrators' page and the API behind it: the list of    *)
(* restaurants with its totals, the detail of one restaurant, the buttons  *)
(* on it that change a status, and the form that saves the basic data, the *)
(* status of its select among them.  One restaurant is on the detail;      *)
(* TenantGate is what reads the status.                                    *)
(*                                                                         *)
(* A call is sent, done by the API and answered in steps; answers come in  *)
(* any order.  Deleting a restaurant is done nowhere, so ensureRestaurant  *)
(* always finds it.  A call may fail before the API has done it or after;  *)
(* one that fails for the page while the API still works on it is left     *)
(* out, and so is the filter of the list, which shows some rows of it.     *)
(***************************************************************************)
EXTENDS TenantGate

CONSTANTS Tabs,         \* pages that are open
          Clicks,       \* "alone": a page waits for its answers, "many": it does not
          PanelFaults   \* {"fails"} when a call of a page may fail

ASSUME PanelAssumption == /\ IsFiniteSet(Restaurants) /\ Clicks \in {"alone", "many"}
                          /\ PanelFaults \subseteq {"fails"}

VARIABLES
    shown,   \* by tab, the status of each restaurant on the list, {} while it is not loaded
    total,   \* by tab, dashboard.totals.restaurantsActive
    detail,  \* by tab, selectedRestaurant: its id and status, {} for none
    calls,   \* the calls under way
    unsure   \* history, by tab: what of it a failure or the form's select may have left behind

panelVars == <<shown, total, detail, calls, unsure>>
vars == <<gateVars, panelVars>>

Row == [id : Restaurants, status : Statuses]

\* A call: what it is for, where it is, and what it brings or has brought.
Call == [tab : Tabs, op : {"load", "detail", "status", "save"}, at : {"asked", "counted", "done"},
         row : SUBSET Row, rows : SUBSET Row, total : Nat]

Parts == {"list", "total", "form"}

PanelTypeOK == /\ shown \in [Tabs -> SUBSET Row] /\ detail \in [Tabs -> SUBSET Row]
               /\ total \in [Tabs -> Nat] /\ calls \subseteq Call
               /\ unsure \in [Tabs -> SUBSET Parts]

PanelInit == /\ shown = [t \in Tabs |-> {}] /\ detail = [t \in Tabs |-> {}]
             /\ total = [t \in Tabs |-> 0] /\ calls = {}
             /\ unsure = [t \in Tabs |-> {}]
-----------------------------------------------------------------------------
Rows == {[id |-> r, status |-> status[r]] : r \in Restaurants}
RowOf(r) == [id |-> r, status |-> status[r]]
ActiveRows == Cardinality({r \in Restaurants : status[r] = "ACTIVE"})

NewCall(t, op, row) ==
    [tab |-> t, op |-> op, at |-> "asked", row |-> row, rows |-> {}, total |-> 0]

MayClick(t) == Clicks = "many" \/ \A c \in calls : c.tab # t
Moves(c, d) == calls' = (calls \ {c}) \cup {d}
NoScreen == UNCHANGED <<shown, total, detail, unsure>>
NoGate == UNCHANGED gateVars

\* map(item => item.id === updated.id ? updated : item)
Replaced(rows, row) == {IF old.id = row.id THEN row ELSE old : old \in rows}

\* loadPlatformAdmin: on opening, on a search and on a filter
Load(t) == /\ MayClick(t)
           /\ calls' = calls \cup {NewCall(t, "load", {})}
           /\ NoScreen /\ NoGate

ViewRestaurant(t) ==
    /\ MayClick(t)
    /\ \E row \in shown[t] : calls' = calls \cup {NewCall(t, "detail", {row})}
    /\ NoScreen /\ NoGate

\* Activar and Suspender, on the detail.
UpdateTenantStatus(t) ==
    /\ MayClick(t)
    /\ \E row \in detail[t], s \in Statuses :
         calls' = calls \cup {NewCall(t, "status", {[row EXCEPT !.status = s]})}
    /\ NoScreen /\ NoGate

\* The select of the form is bound to the status of the detail itself.
ChooseStatus(t) ==
    /\ MayClick(t)
    /\ \E row \in detail[t], s \in Statuses :
         detail' = [detail EXCEPT ![t] = {[row EXCEPT !.status = s]}]
    /\ unsure' = [unsure EXCEPT ![t] = @ \cup {"form"}]
    /\ UNCHANGED <<shown, total, calls>> /\ NoGate

\* saveBasicTenantData sends everything the detail shows.
SaveBasicTenantData(t) ==
    /\ MayClick(t) /\ detail[t] # {}
    /\ calls' = calls \cup {NewCall(t, "save", detail[t])}
    /\ NoScreen /\ NoGate
-----------------------------------------------------------------------------
(* The API *)

\* getDashboard counts, listRestaurants lists: two requests of one forkJoin.
Count(c) == /\ c.op = "load" /\ c.at = "asked"
            /\ Moves(c, [c EXCEPT !.at = "counted", !.total = ActiveRows])
            /\ NoScreen /\ NoGate

List(c) == /\ c.op = "load" /\ c.at = "counted"
           /\ Moves(c, [c EXCEPT !.at = "done", !.rows = Rows])
           /\ NoScreen /\ NoGate

Get(c) == /\ c.op = "detail" /\ c.at = "asked"
          /\ Moves(c, [c EXCEPT !.at = "done", !.row = {RowOf(row.id) : row \in c.row}])
          /\ NoScreen /\ NoGate

\* updateRestaurantStatus and updateRestaurant: a write that looks at nothing.
Patch(c) == /\ c.op \in {"status", "save"} /\ c.at = "asked"
            /\ \E row \in c.row : SetStatus(row.id, row.status)
            /\ Moves(c, [c EXCEPT !.at = "done"])
            /\ NoScreen
-----------------------------------------------------------------------------
(* The answers *)

\* What is put on the page again is sure again.
LoadAnswered(c) ==
    /\ c.op = "load" /\ c.at = "done"
    /\ shown' = [shown EXCEPT ![c.tab] = c.rows]
    /\ total' = [total EXCEPT ![c.tab] = c.total]
    /\ calls' = calls \ {c}
    /\ unsure' = [unsure EXCEPT ![c.tab] = @ \ {"list", "total"}]
    /\ UNCHANGED detail /\ NoGate

DetailAnswered(c) ==
    /\ c.op = "detail" /\ c.at = "done"
    /\ detail' = [detail EXCEPT ![c.tab] = c.row]
    /\ calls' = calls \ {c}
    /\ unsure' = [unsure EXCEPT ![c.tab] = @ \ {"form"}]
    /\ UNCHANGED <<shown, total>> /\ NoGate

\* Mutant of StatusAnswered: the detail is left as it is.
StatusAnswered_KeepsDetail(c) ==
    /\ c.op = "status" /\ c.at = "done"
    /\ \E row \in c.row : shown' = [shown EXCEPT ![c.tab] = Replaced(@, row)]
    /\ calls' = (calls \ {c}) \cup {NewCall(c.tab, "load", {})}
    /\ UNCHANGED <<total, detail, unsure>> /\ NoGate

\* Mutant of StatusAnswered: the row is put on the list and the totals are left.
StatusAnswered_NoReload(c) ==
    /\ c.op = "status" /\ c.at = "done"
    /\ \E row \in c.row : shown' = [shown EXCEPT ![c.tab] = Replaced(@, row)]
    /\ calls' = calls \ {c}
    /\ UNCHANGED <<total, detail, unsure>> /\ NoGate

\* The row on the list, the detail when it is of this restaurant, and the page again.
StatusAnswered(c) ==
    /\ c.op = "status" /\ c.at = "done"
    /\ \E row \in c.row :
         /\ shown' = [shown EXCEPT ![c.tab] = Replaced(@, row)]
         /\ calls' = (calls \ {c}) \cup {NewCall(c.tab, "load", {})}
                     \cup {NewCall(c.tab, "detail", {row}) : old \in
                              {old \in detail[c.tab] : old.id = row.id}}
    /\ UNCHANGED <<total, detail, unsure>> /\ NoGate

\* The row on the list and the detail again.  The totals are not asked for again, though a
\* status that was chosen on the form has been saved with the rest.
SaveAnswered(c) ==
    /\ c.op = "save" /\ c.at = "done"
    /\ \E row \in c.row :
         /\ shown' = [shown EXCEPT ![c.tab] = Replaced(@, row)]
         /\ calls' = (calls \ {c}) \cup {NewCall(c.tab, "detail", {row})}
    /\ unsure' = [unsure EXCEPT ![c.tab] = IF "form" \in @ THEN @ \cup {"total"} ELSE @]
    /\ UNCHANGED <<total, detail>> /\ NoGate

\* What a call that fails leaves behind: everything, when it has written and nobody hears of
\* it; else what it was to load.
LeftBehind(c) == CASE c.op \in {"status", "save"} /\ c.at = "done" -> Parts
                   [] c.op = "load" -> {"list", "total"}
                   [] c.op = "detail" -> {"form"}
                   [] OTHER -> {}

\* The error branches: a message, and the page stays as it is.
Fails(c) ==
    /\ "fails" \in PanelFaults
    /\ calls' = calls \ {c}
    /\ unsure' = [unsure EXCEPT ![c.tab] = @ \cup LeftBehind(c)]
    /\ UNCHANGED <<shown, total, detail>> /\ NoGate

Api(c) == Count(c) \/ List(c) \/ Get(c) \/ Patch(c)
Answered(c) == LoadAnswered(c) \/ DetailAnswered(c) \/ StatusAnswered(c) \/ SaveAnswered(c)

PanelNext == \/ \E t \in Tabs : Load(t) \/ ViewRestaurant(t) \/ UpdateTenantStatus(t)
                                \/ ChooseStatus(t) \/ SaveBasicTenantData(t)
             \/ \E c \in calls : Api(c) \/ Answered(c) \/ Fails(c)
-----------------------------------------------------------------------------
Init == GateInit /\ PanelInit

Next == \/ PanelNext
        \/ GateNext /\ UNCHANGED panelVars

Spec == Init /\ [][Next]_vars
FairSpec == Spec /\ GateFair
-----------------------------------------------------------------------------
(* Properties *)

Chosen(c) == c.op = "status" \/ (c.op = "save" /\ "form" \in unsure[c.tab])

\* A suspended restaurant becomes active because someone chose so on a page that waits for its
\* answers: with the button, or with the form's select and Guardar.  A form on which nothing
\* was chosen sends the status along without bringing the restaurant back, unless its last
\* reload has failed.
SuspensionStands ==
    [][\A r \in Restaurants : status[r] = "SUSPENDED" /\ status'[r] = "ACTIVE" =>
         \E c \in calls : Chosen(c) /\ c.row = {[id |-> r, status |-> "ACTIVE"]}]_status

\* A page that waits for nothing shows what is in the database: the list unless a write has
\* failed for it, the totals unless a status was chosen on the form and saved, the detail unless
\* one was chosen, and each of them unless its last reload has failed.
PanelIsTrue ==
    calls = {} => \A t \in Tabs :
        /\ "list" \notin unsure[t] => shown[t] \in {{}, Rows}
        /\ "total" \notin unsure[t] /\ shown[t] # {} => total[t] = ActiveRows
        /\ "form" \notin unsure[t] => detail[t] \subseteq Rows
=============================================================================
