------------------------- MODULE ReservationClosing -------------------------
(***************************************************************************)
(* How a reservation ends, and what is kept on file about it: cancel and   *)
(* no-show with a reason from the dashboard, the plain status change, and  *)
(* the guest's cancellation by code over WhatsApp, all on one reservation. *)
(* A call is a sequence of statements with no transaction around them: the *)
(* first read, updateStatus (which reads again only to see that the row is *)
(* there), the structured audit, the general AuditLog.                     *)
(***************************************************************************)
EXTENDS Naturals, FiniteSets

CONSTANTS Calls,   \* the calls about this reservation
          Kinds,   \* which of them there are
          Faults   \* which of "crash", "throw" may happen

ASSUME ClosingAssumption ==
    /\ Kinds \subseteq {"cancel", "no-show", "status", "by code"}
    /\ Faults \subseteq {"crash", "throw"}

VARIABLES
    status,    \* Reservation.status
    stamps,    \* which of confirmedAt, completedAt, cancelledAt, noShowAt are set
    audits,    \* the calls with a ReservationCancellationAudit row
    noShows,   \* the calls with a ReservationNoShowAudit row
    auditLog,  \* the AuditLog rows: previous status, by call
    call,      \* each call: its kind, where it is, the status it read, what it was told
    wrote,     \* history: by call, the status its updateStatus replaced
    last       \* history: the call that wrote the status, none at first

vars == <<status, stamps, audits, noShows, auditLog, call, wrote, last>>

STATUSES == {"PENDING", "CONFIRMED", "COMPLETED", "CANCELLED", "NO_SHOW"}

StampOf(s) == CASE s = "CANCELLED" -> {"cancelledAt"}
                [] s = "CONFIRMED" -> {"confirmedAt"}
                [] s = "COMPLETED" -> {"completedAt"}
                [] s = "NO_SHOW"   -> {"noShowAt"}
                [] OTHER           -> {}

Targets(kind) == CASE kind = "no-show" -> {"NO_SHOW"}
                   [] kind = "status"  -> STATUSES \ {"CANCELLED", "NO_SHOW"}
                   [] OTHER            -> {"CANCELLED"}

TypeOK ==
    /\ status \in STATUSES
    /\ stamps \subseteq {"confirmedAt", "completedAt", "cancelledAt", "noShowAt"}
    /\ audits \subseteq Calls /\ noShows \subseteq Calls
    /\ auditLog \in [Calls -> SUBSET STATUSES]
    /\ call \in [Calls -> [kind : Kinds, target : STATUSES, read : SUBSET STATUSES,
                           at : {"idle", "find", "write", "audit", "log", "done", "failed"}]]
    /\ wrote \in [Calls -> SUBSET STATUSES]
    /\ last \subseteq Calls

Init ==
    /\ status = "CONFIRMED" /\ stamps = {"confirmedAt"}
    /\ audits = {} /\ noShows = {}
    /\ auditLog = [c \in Calls |-> {}]
    /\ \E kind \in [Calls -> Kinds] : \E target \in [Calls -> STATUSES] :
         /\ \A c \in Calls : target[c] \in Targets(kind[c])
         /\ call = [c \in Calls |-> [kind |-> kind[c], target |-> target[c], read |-> {},
                                     at |-> "idle"]]
    /\ wrote = [c \in Calls |-> {}]
    /\ last = {}
-----------------------------------------------------------------------------
Is(c, kinds) == call[c].kind \in kinds
At(c, place) == call[c].at = place
Go(c, place) == call' = [call EXCEPT ![c].at = place]

\* PATCH :id/status goes to updateStatus directly; the others look the row up first.
Ask(c) ==
    /\ At(c, "idle")
    /\ Go(c, IF Is(c, {"status"}) THEN "write" ELSE "find")
    /\ UNCHANGED <<status, stamps, audits, noShows, auditLog, wrote, last>>

\* Only the cancellation by code looks at the status.
Find(c) ==
    /\ At(c, "find")
    /\ call' = [call EXCEPT ![c].read = {status},
                            ![c].at = IF Is(c, {"by code"}) /\ status = "CANCELLED" THEN "done"
                                      ELSE "write"]
    /\ UNCHANGED <<status, stamps, audits, noShows, auditLog, wrote, last>>

\* updateStatus: any status becomes any other.
Write(c) ==
    /\ At(c, "write")
    /\ status' = call[c].target
    /\ stamps' = stamps \cup StampOf(call[c].target)
    /\ wrote' = [wrote EXCEPT ![c] = {status}] /\ last' = {c}
    /\ Go(c, IF Is(c, {"cancel", "no-show"}) THEN "audit" ELSE "done")
    /\ UNCHANGED <<audits, noShows, auditLog>>

\* Mutant of Audit: one row per reservation, written over.
Audit_OneRow(c) ==
    /\ At(c, "audit")
    /\ IF Is(c, {"cancel"})
       THEN audits' = {c} /\ UNCHANGED noShows /\ Go(c, "done")
       ELSE noShows' = {c} /\ UNCHANGED audits /\ Go(c, "log")
    /\ UNCHANGED <<status, stamps, auditLog, wrote, last>>

\* createCancellationAudit or createNoShowAudit: a row more, whatever is on file already.
Audit(c) ==
    /\ At(c, "audit")
    /\ IF Is(c, {"cancel"})
       THEN audits' = audits \cup {c} /\ UNCHANGED noShows /\ Go(c, "done")
       ELSE noShows' = noShows \cup {c} /\ UNCHANGED audits /\ Go(c, "log")
    /\ UNCHANGED <<status, stamps, auditLog, wrote, last>>

\* AuditLog.record, of no-shows only; what it throws is swallowed.
Log(c) ==
    /\ At(c, "log")
    /\ \/ auditLog' = [auditLog EXCEPT ![c] = call[c].read]
       \/ "throw" \in Faults /\ UNCHANGED auditLog
    /\ Go(c, "done")
    /\ UNCHANGED <<status, stamps, audits, noShows, wrote, last>>

\* A statement throws and the caller gets a 500, or the process dies: nothing is undone.
Fail(c) ==
    /\ \/ "throw" \in Faults /\ call[c].at \in {"find", "write", "audit"}
       \/ "crash" \in Faults /\ call[c].at \in {"find", "write", "audit", "log"}
    /\ Go(c, "failed")
    /\ UNCHANGED <<status, stamps, audits, noShows, auditLog, wrote, last>>

Step(c) == Ask(c) \/ Find(c) \/ Write(c) \/ Audit(c) \/ Log(c) \/ Fail(c)

Next == \E c \in Calls : Step(c)

Spec == Init /\ [][Next]_vars
-----------------------------------------------------------------------------
(* Properties *)

AtRest == \A c \in Calls : call[c].at \in {"idle", "done", "failed"}

\* "el motivo queda en reservation_cancellation_audits": once nobody is working on it, a
\* cancelled reservation has on file the reason of the call that cancelled it last, and a
\* no-show has one too.
ReasonOnFile ==
    AtRest => /\ status = "CANCELLED" => last \subseteq audits
              /\ status = "NO_SHOW" => last \subseteq noShows

\* Each reason on file belongs to a call that did write that status, and each call that
\* was answered left its own: nobody's reason is lost because another came first.
ReasonsAreReal ==
    /\ audits \subseteq {c \in Calls : wrote[c] # {} /\ call[c].target = "CANCELLED"}
    /\ noShows \subseteq {c \in Calls : wrote[c] # {} /\ call[c].target = "NO_SHOW"}
    /\ \A c \in Calls : At(c, "done") => /\ Is(c, {"cancel"}) => c \in audits
                                         /\ Is(c, {"no-show"}) => c \in noShows

\* "Valores anteriores": the status that the AuditLog says was replaced is the one that the
\* no-show replaced.
LogIsTrue == \A c \in Calls : auditLog[c] \subseteq wrote[c]
=============================================================================
