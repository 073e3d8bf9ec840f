-------------------------- MODULE WhatsappInbound --------------------------
(***************************************************************************)
(* From Meta's webhook to a processed WhatsApp message: the controller     *)
(* that answers the webhook, the BullMQ queue with its retries, the worker *)
(* and the dead-letter queue.  What processing a message does is the       *)
(* subject of GuestConversation; here it returns or throws.                *)
(*                                                                         *)
(* Meta delivers a payload again until it sees a 2xx answer.  A payload    *)
(* holds a sequence of messages; the job made of it bears the id of the    *)
(* first one, and the first one is all that the worker reads of it.        *)
(*                                                                         *)
(* A job of a payload without messages does nothing and is left out.       *)
(***************************************************************************)
EXTENDS Naturals, Sequences, FiniteSets

CONSTANTS Payloads, Messages,
          Carried,       \* the sequence of messages in each payload
          Kind,          \* what the controller makes of it
          Attempts,      \* attempts: 3
          Concurrency,   \* concurrency: 5
          MaxStalled,    \* BullMQ's maxStalledCount: 1, as the worker sets none
          Faults,        \* which of "lost answer", "store down", "bury fails" may happen
          MaxDeliveries, \* bound on Meta's deliveries of each payload
          MaxCrashes     \* bound on crashes of the worker's process

Kinds == {"message", "delivery failed", "bad phone", "malformed"}

ASSUME InboundAssumption ==
    /\ Carried \in [Payloads -> Seq(Messages)]
    /\ Kind \in [Payloads -> Kinds]
    /\ \A p \in Payloads : Kind[p] \in {"message", "bad phone"} => Carried[p] # <<>>
    /\ Attempts \in Nat \ {0} /\ Concurrency \in Nat \ {0}
    /\ MaxDeliveries \in [Payloads -> Nat]
    /\ MaxStalled \in Nat /\ MaxCrashes \in Nat
    /\ Faults \subseteq {"lost answer", "store down", "bury fails"}

VARIABLES
    delivered,  \* how often Meta has sent each payload
    answered,   \* payloads Meta has seen a 200 for
    logged,     \* payloads with a row in WhatsappInboundLog
    job,        \* the queue, by job id
    burying,    \* worker's memory: jobs whose addDeadLetterJob is under way
    dlq,        \* jobs in the dead-letter queue
    handled,    \* history: how often the processing of each message has returned
    crashes

vars == <<delivered, answered, logged, job, burying, dlq, handled, crashes>>

Job == [at : {"none", "waiting", "active", "orphaned", "delayed", "failed"},
        payload : Payloads, attemptsMade : 0..Attempts, stalled : 0..MaxStalled + 1]

\* Mutant of JobId: the job is named after the webhook call, not after the message.
JobId_OfPayload(p) == p

\* messages[0].id
JobId(p) == Carried[p][1]

First(p) == Carried[p][1]
Ids == {JobId(p) : p \in {q \in Payloads : Kind[q] = "message"}}

Init == /\ delivered = [p \in Payloads |-> 0]
        /\ answered = {} /\ logged = {}
        /\ job \in [Ids -> [at : {"none"}, payload : {CHOOSE p \in Payloads : TRUE},
                            attemptsMade : {0}, stalled : {0}]]
        /\ burying = {} /\ dlq = {}
        /\ handled = [m \in Messages |-> 0]
        /\ crashes = 0
-----------------------------------------------------------------------------
(* The controller *)

Deliver(p) == /\ p \notin answered /\ delivered[p] < MaxDeliveries[p]
              /\ delivered' = [delivered EXCEPT ![p] = @ + 1]

\* The 200 may not reach Meta.
Answer(p) == \/ answered' = answered \cup {p}
             \/ "lost answer" \in Faults /\ UNCHANGED answered

\* Mutant of Receive: the webhook is answered first, and what follows may fail.
Receive_AnswersFirst(p) ==
    /\ Kind[p] = "message" /\ Deliver(p)
    /\ \/ job' = [job EXCEPT ![JobId(p)] =
              IF @.at # "none" THEN @
              ELSE [at |-> "waiting", payload |-> p, attemptsMade |-> 0, stalled |-> 0]]
       \/ "store down" \in Faults /\ UNCHANGED job
    /\ Answer(p)
    /\ UNCHANGED <<logged, burying, dlq, handled, crashes>>

\* Mutant of Receive: a job that has failed is replaced.
Receive_ReplacesFailed(p) ==
    /\ Kind[p] = "message" /\ Deliver(p)
    /\ job' = [job EXCEPT ![JobId(p)] =
           IF @.at \notin {"none", "failed"} THEN @
           ELSE [at |-> "waiting", payload |-> p, attemptsMade |-> 0, stalled |-> 0]]
    /\ Answer(p)
    /\ UNCHANGED <<logged, burying, dlq, handled, crashes>>

\* A job is added unless there is one by its id, whatever its state; then the answer.
Receive(p) ==
    /\ Kind[p] = "message" /\ Deliver(p)
    /\ job' = [job EXCEPT ![JobId(p)] =
           IF @.at # "none" THEN @
           ELSE [at |-> "waiting", payload |-> p, attemptsMade |-> 0, stalled |-> 0]]
    /\ Answer(p)
    /\ UNCHANGED <<logged, burying, dlq, handled, crashes>>

\* A failed delivery status or a phone number that is not one: logged, and not queued.
LogOnly(p) ==
    /\ Kind[p] \in {"delivery failed", "bad phone"} /\ Deliver(p)
    /\ logged' = logged \cup {p}
    /\ Answer(p)
    /\ UNCHANGED <<job, burying, dlq, handled, crashes>>

\* A wrong signature or schema is a 4xx; Redis or PostgreSQL not answering is a 5xx.
Refuse(p) ==
    /\ Kind[p] = "malformed" \/ "store down" \in Faults
    /\ Deliver(p)
    /\ UNCHANGED <<answered, logged, job, burying, dlq, handled, crashes>>
-----------------------------------------------------------------------------
(* The queue and the worker *)

At(id, place) == job[id].at = place
Active == {id \in Ids : At(id, "active")}
KeepsIntake == UNCHANGED <<delivered, answered, logged>>

Take(id) ==
    /\ At(id, "waiting") /\ Cardinality(Active) < Concurrency
    /\ job' = [job EXCEPT ![id].at = "active"]
    /\ KeepsIntake /\ UNCHANGED <<burying, dlq, handled, crashes>>

\* removeOnComplete: true
Complete(id) ==
    /\ At(id, "active")
    /\ job' = [job EXCEPT ![id].at = "none"]
    /\ handled' = [handled EXCEPT ![First(job[id].payload)] = @ + 1]
    /\ KeepsIntake /\ UNCHANGED <<burying, dlq, crashes>>

\* Mutant of Fail: the listener buries the job at every failure.
Fail_BuriesAlways(id) ==
    /\ At(id, "active")
    /\ job' = [job EXCEPT ![id].attemptsMade = @ + 1,
                          ![id].at = IF job[id].attemptsMade + 1 < Attempts THEN "delayed"
                                     ELSE "failed"]
    /\ burying' = burying \cup {id}
    /\ KeepsIntake /\ UNCHANGED <<dlq, handled, crashes>>

\* handleIncoming throws: again after a backoff, or never.  "failed" is emitted each time;
\* its listener starts addDeadLetterJob when no attempt is left and does not wait for it.
Fail(id) ==
    /\ At(id, "active")
    /\ job' = [job EXCEPT ![id].attemptsMade = @ + 1,
                          ![id].at = IF job[id].attemptsMade + 1 < Attempts THEN "delayed"
                                     ELSE "failed"]
    /\ burying' = IF job'[id].attemptsMade >= Attempts THEN burying \cup {id} ELSE burying
    /\ KeepsIntake /\ UNCHANGED <<dlq, handled, crashes>>

Backoff(id) ==
    /\ At(id, "delayed")
    /\ job' = [job EXCEPT ![id].at = "waiting"]
    /\ KeepsIntake /\ UNCHANGED <<burying, dlq, handled, crashes>>

\* addDeadLetterJob returns, or rejects and nobody hears it.
Bury(id) ==
    /\ id \in burying
    /\ burying' = burying \ {id}
    /\ \/ dlq' = dlq \cup {id}
       \/ "bury fails" \in Faults /\ UNCHANGED dlq
    /\ KeepsIntake /\ UNCHANGED <<job, handled, crashes>>

\* The process dies with what it was doing; its jobs are still active to Redis.
Crash ==
    /\ crashes < MaxCrashes
    /\ crashes' = crashes + 1
    /\ job' = [id \in Ids |-> IF At(id, "active") THEN [job[id] EXCEPT !.at = "orphaned"]
                              ELSE job[id]]
    /\ burying' = {}
    /\ KeepsIntake /\ UNCHANGED <<dlq, handled>>

\* Mutant of Recover: nobody looks for stalled jobs until Meta delivers again.
Recover_WaitsForMeta(id) ==
    /\ At(id, "orphaned")
    /\ \E p \in Payloads \ answered : Kind[p] = "message" /\ JobId(p) = id
    /\ job' = [job EXCEPT ![id].at = "waiting", ![id].stalled = @ + 1]
    /\ KeepsIntake /\ UNCHANGED <<burying, dlq, handled, crashes>>

\* BullMQ's look for stalled jobs: back to the queue, or failed when stalled too often.
\* "failed" is emitted for those too, but their attempts are not used up.
Recover(id) ==
    /\ At(id, "orphaned")
    /\ job' = [job EXCEPT ![id].stalled = @ + 1,
                          ![id].at = IF job[id].stalled < MaxStalled THEN "waiting" ELSE "failed"]
    /\ burying' = IF job'[id].at = "failed" /\ job[id].attemptsMade >= Attempts
                  THEN burying \cup {id} ELSE burying
    /\ KeepsIntake /\ UNCHANGED <<dlq, handled, crashes>>
-----------------------------------------------------------------------------
Work(id) == \/ Complete(id) \/ Fail(id)
            \/ Backoff(id)
            \/ Bury(id)
            \/ Recover(id)

Next == \/ \E p \in Payloads : Receive(p) \/ LogOnly(p) \/ Refuse(p)
        \/ \E id \in Ids : Take(id) \/ Work(id)
        \/ Crash

Spec == Init /\ [][Next]_vars

\* A worker process runs; processing a message ends; BullMQ's timers fire.
FairSpec == Spec /\ \A id \in Ids : WF_vars(Work(id)) /\ SF_vars(Take(id))
-----------------------------------------------------------------------------
(* Properties *)

TypeOK == /\ delivered \in [Payloads -> Nat]
          /\ answered \subseteq Payloads /\ logged \subseteq Payloads
          /\ job \in [Ids -> Job]
          /\ burying \subseteq Ids /\ dlq \subseteq Ids
          /\ handled \in [Messages -> Nat]
          /\ crashes \in 0..MaxCrashes

Present(id) == ~At(id, "none")

\* "Mensaje encolado de forma segura en Redis": once a payload with a message has been
\* answered, its first message has been handled or still has its job, whatever crashed.
AnsweredIsKept ==
    \A p \in answered : Kind[p] = "message" =>
        handled[First(p)] > 0 \/ \E id \in Ids : Present(id) /\ First(job[id].payload) = First(p)

\* The job id keeps two deliveries of a message from being handled at the same time.
NotTwiceAtOnce ==
    \A a, b \in Active : First(job[a].payload) = First(job[b].payload) => a = b

\* "ha fallado de forma definitiva": what is in the dead-letter queue was given up for good.
BuriedWasGivenUp == \A id \in dlq : At(id, "failed") /\ job[id].attemptsMade = Attempts

\* A job is named after the message it is about.
NamedAfterMessage ==
    \A id \in Ids : Present(id) =>
        Kind[job[id].payload] = "message" /\ JobId(job[id].payload) = id

\* An answered message has been handled or has the job of its own name.
KeptByName ==
    \A p \in answered : Kind[p] = "message" => handled[First(p)] > 0 \/ Present(JobId(p))

\* A job that is still to be worked on has an attempt left, and may stall again.
AttemptsLeft ==
    \A id \in Ids : job[id].at \in {"waiting", "active", "orphaned", "delayed"} =>
        job[id].attemptsMade < Attempts /\ job[id].stalled <= MaxStalled

\* Nothing takes a job out of "failed" again, so the dead-letter queue stays true.
BuriedForGood ==
    \A id \in burying \cup dlq : At(id, "failed") /\ job[id].attemptsMade = Attempts

\* What keeps the three properties above from one step to the next: an id stands for its
\* message for as long as the job exists, which is what removeOnFail: false is for.
InboundInv == TypeOK /\ NamedAfterMessage /\ KeptByName /\ AttemptsLeft /\ BuriedForGood

\* "Mantener DLQ para payloads fallidos": a job that was given up is in the dead-letter
\* queue or about to be.
FailedIsBuried ==
    \A id \in Ids : At(id, "failed") => id \in burying \cup dlq

\* "Recepcion de mensajes inbound": of a payload that was answered and whose job has
\* completed, every message has been handled.
EveryMessageHandled ==
    \A p \in answered : Kind[p] = "message" /\ ~Present(JobId(p)) =>
        \A i \in DOMAIN Carried[p] : handled[Carried[p][i]] > 0

\* A queued message is handled, or given up, however the worker crashes.
QueuedSettles ==
    \A id \in Ids : At(id, "waiting") ~> At(id, "none") \/ At(id, "failed")
=============================================================================
