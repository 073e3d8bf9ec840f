----------------------------- MODULE MailQueue -----------------------------
(***************************************************************************)
(* The transactional mails: the BullMQ queue they are put in, the worker   *)
(* that renders and sends them over SMTP, its retries and the dead-letter  *)
(* queue.  A job is named by the random trace id of its request, so unlike *)
(* the queue of WhatsappInbound no job ever stands in the way of another.  *)
(* A mail is known here by the link it carries.                            *)
(*                                                                         *)
(* Fewer mails are under way in an instance than the worker takes at once  *)
(* (EMAIL_WORKER_CONCURRENCY), so that bound is left out.                  *)
(***************************************************************************)
EXTENDS Naturals, FiniteSets

CONSTANTS Links,         \* the links there are to mail
          MailAttempts,  \* EMAIL_QUEUE_ATTEMPTS: 5
          MaxStalled,    \* BullMQ's maxStalledCount: 1
          Faults,        \* which of "store down", "smtp", "unacknowledged", "bury fails"
          MaxCrashes     \* bound on crashes of the worker

ASSUME MailAssumption ==
    /\ MailAttempts \in Nat \ {0} /\ MaxStalled \in Nat /\ MaxCrashes \in Nat
    /\ Faults \subseteq {"store down", "smtp", "unacknowledged", "bury fails"}

VARIABLES
    mail,     \* the job of each link
    inbox,    \* the links that have arrived, once or more often
    burying,  \* worker's memory: jobs whose addDeadLetterJob is under way
    graves,   \* the dead-letter queue
    crashes

mailVars == <<mail, inbox, burying, graves, crashes>>

MailJob == [at : {"none", "waiting", "active", "accepted", "orphaned", "delayed", "failed", "done"},
            attemptsMade : 0..MailAttempts, stalled : 0..MaxStalled + 1]

MailTypeOK == /\ mail \in [Links -> MailJob]
              /\ inbox \subseteq Links /\ burying \subseteq Links /\ graves \subseteq Links
              /\ crashes \in 0..MaxCrashes

MailInit == /\ mail = [l \in Links |-> [at |-> "none", attemptsMade |-> 0, stalled |-> 0]]
            /\ inbox = {} /\ burying = {} /\ graves = {} /\ crashes = 0

MailAt(l, places) == mail[l].at \in places
-----------------------------------------------------------------------------
\* addTransactionalJob
Queue(l) == /\ mail' = [mail EXCEPT ![l].at = "waiting"]
            /\ UNCHANGED <<inbox, burying, graves, crashes>>

TakeMail(l) == /\ MailAt(l, {"waiting"})
               /\ mail' = [mail EXCEPT ![l].at = "active"]
               /\ UNCHANGED <<inbox, burying, graves, crashes>>

\* The mail server has taken it; the worker does not know yet.
Accept(l) == /\ MailAt(l, {"active"})
             /\ mail' = [mail EXCEPT ![l].at = "accepted"]
             /\ inbox' = inbox \cup {l}
             /\ UNCHANGED <<burying, graves, crashes>>

\* sendMail returns; removeOnComplete: true
Finish(l) == /\ MailAt(l, {"accepted"})
             /\ mail' = [mail EXCEPT ![l].at = "done"]
             /\ UNCHANGED <<inbox, burying, graves, crashes>>

\* The template is not found, the server refuses, or its answer does not come.
MayFail(l) == \/ MailAt(l, {"active"}) /\ "smtp" \in Faults
              \/ MailAt(l, {"accepted"}) /\ "unacknowledged" \in Faults

\* sendRenderedMail logs and throws again; the listener of "failed" starts addDeadLetterJob
\* when no attempt is left and does not wait for it.
FailMail(l) ==
    /\ MayFail(l)
    /\ mail' = [mail EXCEPT ![l].attemptsMade = @ + 1,
                            ![l].at = IF mail[l].attemptsMade + 1 < MailAttempts THEN "delayed"
                                      ELSE "failed"]
    /\ burying' = IF mail'[l].at = "failed" THEN burying \cup {l} ELSE burying
    /\ UNCHANGED <<inbox, graves, crashes>>

BackoffMail(l) == /\ MailAt(l, {"delayed"})
                  /\ mail' = [mail EXCEPT ![l].at = "waiting"]
                  /\ UNCHANGED <<inbox, burying, graves, crashes>>

BuryMail(l) == /\ l \in burying
               /\ burying' = burying \ {l}
               /\ \/ graves' = graves \cup {l}
                  \/ "bury fails" \in Faults /\ UNCHANGED graves
               /\ UNCHANGED <<mail, inbox, crashes>>

CrashWorker ==
    /\ crashes < MaxCrashes
    /\ crashes' = crashes + 1
    /\ mail' = [l \in Links |-> IF MailAt(l, {"active", "accepted"})
                                THEN [mail[l] EXCEPT !.at = "orphaned"] ELSE mail[l]]
    /\ burying' = {}
    /\ UNCHANGED <<inbox, graves>>

\* BullMQ's look for stalled jobs; one that stalled too often fails with attempts left.
RecoverMail(l) ==
    /\ MailAt(l, {"orphaned"})
    /\ mail' = [mail EXCEPT ![l].stalled = @ + 1,
                            ![l].at = IF mail[l].stalled < MaxStalled THEN "waiting" ELSE "failed"]
    /\ UNCHANGED <<inbox, burying, graves, crashes>>

MailStep(l) == \/ TakeMail(l) \/ Accept(l) \/ Finish(l) \/ FailMail(l) \/ BackoffMail(l)
               \/ BuryMail(l) \/ RecoverMail(l)

MailNext == (\E l \in Links : MailStep(l)) \/ CrashWorker

\* A worker runs, the mail server answers or not, and BullMQ's timers fire.
MailFair == \A l \in Links :
                WF_mailVars(MailStep(l))
-----------------------------------------------------------------------------
\* What is in the dead-letter queue was given up, and a mail that is done has arrived.
MailInv ==
    /\ MailTypeOK
    /\ \A l \in burying \cup graves : MailAt(l, {"failed"}) /\ mail[l].attemptsMade = MailAttempts
    /\ \A l \in Links : MailAt(l, {"accepted", "done"}) => l \in inbox
    /\ \A l \in Links : mail[l].attemptsMade = MailAttempts => MailAt(l, {"failed"})
=============================================================================
