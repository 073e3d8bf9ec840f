----------------------- MODULE WhatsappInboundProofs -----------------------
(***************************************************************************)
(* Theorems about WhatsappInbound, for every set of payloads and messages  *)
(* and every number of attempts, crashes and jobs at once.                 *)
(***************************************************************************)
EXTENDS WhatsappInbound, SequenceTheorems, TLAPS

\* The constants the invariant counts with are numbers, and a job may be tried once.
LEMMA Numbers == /\ Attempts \in Nat /\ Attempts > 0 /\ MaxStalled \in Nat
                 /\ MaxCrashes \in Nat
<1>1. Attempts \in Nat \ {0} /\ MaxStalled \in Nat /\ MaxCrashes \in Nat
  BY InboundAssumption
<1> QED
  BY <1>1

\* The id of a payload's job is its first message.
LEMMA JobIdIsMessage ==
    ASSUME NEW p \in Payloads, Kind[p] = "message"
    PROVE  JobId(p) \in Ids /\ JobId(p) = First(p) /\ First(p) \in Messages
<1>1. Carried[p] \in Seq(Messages) /\ Carried[p] # <<>>
  BY InboundAssumption
<1>2. Len(Carried[p]) \in Nat \ {0}
  BY <1>1, EmptySeq
<1>3. Carried[p][1] \in Messages
  BY <1>1, <1>2, ElementOfSeq
<1> QED
  BY <1>3 DEF JobId, First, Ids

\* The fields of a job, and how a job with a new place keeps its type.
LEMMA JobFields ==
    ASSUME NEW j \in Job
    PROVE  /\ j.at \in {"none", "waiting", "active", "orphaned", "delayed", "failed"}
           /\ j.payload \in Payloads /\ j.attemptsMade \in 0..Attempts
           /\ j.stalled \in 0..MaxStalled + 1
BY DEF Job

\* A delivery is counted.
LEMMA DeliverType ==
    ASSUME TypeOK, NEW p \in Payloads, Deliver(p)
    PROVE  delivered' \in [Payloads -> Nat]
<1>1. delivered \in [Payloads -> Nat]
  BY DEF TypeOK
<1>2. delivered' = [delivered EXCEPT ![p] = delivered[p] + 1]
  BY DEF Deliver
<1> QED
  BY <1>1, <1>2

LEMMA InitInv == Init => InboundInv
<1> SUFFICES ASSUME Init PROVE InboundInv
  OBVIOUS
<1>1. ASSUME NEW id \in Ids
      PROVE  (CHOOSE p \in Payloads : TRUE) \in Payloads
  BY DEF Ids
<1>2. job \in [Ids -> Job]
  BY <1>1, Numbers DEF Init, Job
<1>3. TypeOK
  BY <1>2, Numbers DEF Init, TypeOK
<1>4. \A id \in Ids : job[id].at = "none"
  BY DEF Init
<1> QED
  BY <1>3, <1>4 DEF InboundInv, NamedAfterMessage, KeptByName, AttemptsLeft, BuriedForGood,
                    Present, At, Init

\* A step of the controller that touches no job keeps the invariant.
LEMMA AnswerOnly ==
    ASSUME InboundInv, NEW p \in Payloads, Deliver(p), Kind[p] # "message",
           Answer(p) \/ UNCHANGED answered, logged' \subseteq logged \cup {p},
           UNCHANGED <<job, burying, dlq, handled, crashes>>
    PROVE  InboundInv'
<1>1. TypeOK'
  <2>1. delivered' \in [Payloads -> Nat]
    BY DeliverType DEF InboundInv
  <2> QED
    BY <2>1 DEF InboundInv, TypeOK, Answer
<1>2. KeptByName'
  BY DEF InboundInv, KeptByName, Answer, Present, At
<1> QED
  BY <1>1, <1>2 DEF InboundInv, NamedAfterMessage, AttemptsLeft, BuriedForGood, Present, At

LEMMA ReceiveInv ==
    ASSUME InboundInv, NEW p \in Payloads, Receive(p)
    PROVE  InboundInv'
<1> DEFINE fresh == [at |-> "waiting", payload |-> p, attemptsMade |-> 0, stalled |-> 0]
<1>1. Kind[p] = "message" /\ JobId(p) \in Ids /\ JobId(p) = First(p)
  BY JobIdIsMessage DEF Receive
<1>2. fresh \in Job
  BY Numbers DEF Job
<1>3. \A id \in Ids : job'[id] = IF id = JobId(p) /\ job[id].at = "none" THEN fresh ELSE job[id]
  BY <1>1 DEF Receive, InboundInv, TypeOK
<1>4. job' \in [Ids -> Job]
  BY <1>1, <1>2 DEF Receive, InboundInv, TypeOK
<1>5. TypeOK'
  <2>1. delivered' \in [Payloads -> Nat]
    BY DeliverType DEF Receive, InboundInv
  <2>2. answered' \subseteq Payloads
    BY DEF Receive, Answer, InboundInv, TypeOK
  <2> QED
    BY <1>4, <2>1, <2>2 DEF Receive, InboundInv, TypeOK
<1>6. NamedAfterMessage'
  BY <1>1, <1>3 DEF InboundInv, NamedAfterMessage, Present, At
<1>7. KeptByName'
  <2>1. Present(JobId(p))'
    BY <1>1, <1>3 DEF Present, At
  <2>2. \A id \in Ids : Present(id) => Present(id)'
    BY <1>3 DEF Present, At
  <2>3. \A q \in Payloads : Kind[q] = "message" => JobId(q) \in Ids
    BY JobIdIsMessage
  <2>4. answered' \subseteq answered \cup {p} /\ answered \subseteq Payloads /\ handled' = handled
    BY DEF Receive, Answer, InboundInv, TypeOK
  <2> QED
    BY <2>1, <2>2, <2>3, <2>4 DEF InboundInv, KeptByName
<1>8. AttemptsLeft'
  BY <1>3, Numbers DEF InboundInv, AttemptsLeft
<1>9. BuriedForGood'
  BY <1>3 DEF Receive, InboundInv, BuriedForGood, At, TypeOK
<1> QED
  BY <1>5, <1>6, <1>7, <1>8, <1>9 DEF InboundInv

\* A job that is not in the dead-letter queue's care moves on, with what the places it can
\* be in ask of it: the invariant is kept.
LEMMA MoveInv ==
    ASSUME InboundInv, NEW id \in Ids, NEW j \in Job,
           Present(id), ~At(id, "failed"),
           j.payload = job[id].payload, j.at # "none",
           j.at # "failed" => j.attemptsMade < Attempts /\ j.stalled <= MaxStalled,
           job' = [job EXCEPT ![id] = j],
           burying' \subseteq burying \cup {id},
           id \in burying' => j.at = "failed" /\ j.attemptsMade = Attempts,
           UNCHANGED <<delivered, answered, logged, dlq, handled, crashes>>
    PROVE  InboundInv'
<1>1. \A i \in Ids : job'[i] = IF i = id THEN j ELSE job[i]
  BY DEF InboundInv, TypeOK
<1>2. TypeOK'
  BY DEF InboundInv, TypeOK
<1>3. NamedAfterMessage'
  BY <1>1 DEF InboundInv, NamedAfterMessage, Present, At
<1>4. KeptByName'
  <2>1. \A p \in Payloads : Kind[p] = "message" => JobId(p) \in Ids
    BY JobIdIsMessage
  <2> QED
    BY <1>1, <2>1 DEF InboundInv, KeptByName, TypeOK, Present, At
<1>5. AttemptsLeft'
  BY <1>1 DEF InboundInv, AttemptsLeft
<1>6. BuriedForGood'
  <2>1. burying \cup dlq \subseteq Ids /\ id \notin burying \cup dlq
    BY DEF InboundInv, TypeOK, BuriedForGood, At
  <2> QED
    BY <1>1, <2>1 DEF InboundInv, BuriedForGood, At
<1> QED
  BY <1>2, <1>3, <1>4, <1>5, <1>6 DEF InboundInv

LEMMA TakeInv ==
    ASSUME InboundInv, NEW id \in Ids, Take(id)
    PROVE  InboundInv'
<1> DEFINE j == [job[id] EXCEPT !.at = "active"]
<1>1. job[id] \in Job
  BY DEF InboundInv, TypeOK
<1>2. /\ j \in Job /\ j.at = "active" /\ j.payload = job[id].payload
      /\ j.attemptsMade = job[id].attemptsMade /\ j.stalled = job[id].stalled
  BY <1>1 DEF Job
<1>3. job[id].at = "waiting" /\ job[id].attemptsMade < Attempts /\ job[id].stalled <= MaxStalled
  BY DEF Take, At, InboundInv, AttemptsLeft
<1>4. id \notin burying
  BY <1>3 DEF InboundInv, BuriedForGood, At
<1>5. job' = [job EXCEPT ![id] = j]
  BY DEF Take
<1> HIDE DEF j
<1> QED
  BY <1>2, <1>3, <1>4, <1>5, MoveInv DEF Take, KeepsIntake, Present, At

LEMMA BackoffInv ==
    ASSUME InboundInv, NEW id \in Ids, Backoff(id)
    PROVE  InboundInv'
<1> DEFINE j == [job[id] EXCEPT !.at = "waiting"]
<1>1. job[id] \in Job
  BY DEF InboundInv, TypeOK
<1>2. /\ j \in Job /\ j.at = "waiting" /\ j.payload = job[id].payload
      /\ j.attemptsMade = job[id].attemptsMade /\ j.stalled = job[id].stalled
  BY <1>1 DEF Job
<1>3. job[id].at = "delayed" /\ job[id].attemptsMade < Attempts /\ job[id].stalled <= MaxStalled
  BY DEF Backoff, At, InboundInv, AttemptsLeft
<1>4. id \notin burying
  BY <1>3 DEF InboundInv, BuriedForGood, At
<1>5. job' = [job EXCEPT ![id] = j]
  BY DEF Backoff
<1> HIDE DEF j
<1> QED
  BY <1>2, <1>3, <1>4, <1>5, MoveInv DEF Backoff, KeepsIntake, Present, At

\* The attempt after which a job is given up is the one that uses up its attempts.
LEMMA FailInv ==
    ASSUME InboundInv, NEW id \in Ids, Fail(id)
    PROVE  InboundInv'
<1> DEFINE n == job[id].attemptsMade + 1
           j == [job[id] EXCEPT !.attemptsMade = n,
                                !.at = IF n < Attempts THEN "delayed" ELSE "failed"]
<1>1. job[id] \in Job
  BY DEF InboundInv, TypeOK
<1>2. job[id].at = "active" /\ job[id].attemptsMade < Attempts /\ job[id].stalled <= MaxStalled
  BY DEF Fail, At, InboundInv, AttemptsLeft
<1>3. n \in 0..Attempts /\ (n < Attempts \/ n = Attempts)
  BY <1>1, <1>2, Numbers, JobFields
<1>4. /\ j \in Job /\ j.at = (IF n < Attempts THEN "delayed" ELSE "failed")
      /\ j.payload = job[id].payload /\ j.attemptsMade = n /\ j.stalled = job[id].stalled
  BY <1>1, <1>3 DEF Job
<1>5. id \notin burying
  BY <1>2 DEF InboundInv, BuriedForGood, At
<1>6. job' = [job EXCEPT ![id] = j]
  BY <1>1 DEF Fail, InboundInv, TypeOK, Job
<1>7. job'[id].attemptsMade = n
  BY <1>4, <1>6 DEF InboundInv, TypeOK
<1>8. /\ burying' \subseteq burying \cup {id}
      /\ id \in burying' => n >= Attempts
  BY <1>5, <1>7 DEF Fail
<1> HIDE DEF j, n
<1>9. id \in burying' => j.at = "failed" /\ j.attemptsMade = Attempts
  BY <1>3, <1>4, <1>8, Numbers
<1>10. j.at # "failed" => j.attemptsMade < Attempts /\ j.stalled <= MaxStalled
  BY <1>2, <1>4
<1> QED
  BY <1>2, <1>4, <1>6, <1>8, <1>9, <1>10, MoveInv DEF Fail, KeepsIntake, Present, At

\* A job that stalls too often is given up with attempts left: it is not buried.
LEMMA RecoverInv ==
    ASSUME InboundInv, NEW id \in Ids, Recover(id)
    PROVE  InboundInv'
<1> DEFINE n == job[id].stalled + 1
           j == [job[id] EXCEPT !.stalled = n,
                                !.at = IF job[id].stalled < MaxStalled THEN "waiting" ELSE "failed"]
<1>1. job[id] \in Job
  BY DEF InboundInv, TypeOK
<1>2. job[id].at = "orphaned" /\ job[id].attemptsMade < Attempts /\ job[id].stalled <= MaxStalled
  BY DEF Recover, At, InboundInv, AttemptsLeft
<1>3. n \in 0..MaxStalled + 1 /\ (job[id].stalled < MaxStalled => n <= MaxStalled)
  BY <1>1, <1>2, Numbers, JobFields
<1>4. /\ j \in Job /\ j.payload = job[id].payload /\ j.stalled = n
      /\ j.at = (IF job[id].stalled < MaxStalled THEN "waiting" ELSE "failed")
      /\ j.attemptsMade = job[id].attemptsMade
  BY <1>1, <1>3 DEF Job
<1>5. job' = [job EXCEPT ![id] = j]
  BY <1>1 DEF Recover, InboundInv, TypeOK, Job
<1>6. ~(job[id].attemptsMade >= Attempts)
  BY <1>1, <1>2, Numbers, JobFields
<1>7. burying' = burying
  BY <1>6 DEF Recover
<1>8. id \notin burying
  BY <1>2 DEF InboundInv, BuriedForGood, At
<1> HIDE DEF j, n
<1>9. j.at # "failed" => j.attemptsMade < Attempts /\ j.stalled <= MaxStalled
  BY <1>2, <1>3, <1>4
<1> QED
  BY <1>2, <1>4, <1>5, <1>7, <1>8, <1>9, MoveInv DEF Recover, KeepsIntake, Present, At

\* A job that completes goes, and so may its id: the message it was named after is handled.
LEMMA CompleteInv ==
    ASSUME InboundInv, NEW id \in Ids, Complete(id)
    PROVE  InboundInv'
<1> DEFINE j == [job[id] EXCEPT !.at = "none"]
           m == First(job[id].payload)
<1>1. job[id] \in Job /\ job[id].at = "active"
  BY DEF InboundInv, TypeOK, Complete, At
<1>2. j \in Job /\ j.at = "none"
  BY <1>1 DEF Job
<1>3. job' = [job EXCEPT ![id] = j]
  BY DEF Complete
<1>4. m = id /\ m \in Messages
  BY <1>1, JobIdIsMessage, JobFields DEF InboundInv, NamedAfterMessage, Present, At
<1>5. handled' = [handled EXCEPT ![m] = @ + 1]
  BY DEF Complete
<1>6. id \notin burying \cup dlq
  BY <1>1 DEF InboundInv, BuriedForGood, At
<1> HIDE DEF j, m
<1>7. \A i \in Ids : job'[i] = IF i = id THEN j ELSE job[i]
  BY <1>3 DEF InboundInv, TypeOK
<1>8. \A i \in Messages : handled'[i] >= handled[i] /\ (i = id => handled'[i] > 0)
  BY <1>4, <1>5 DEF InboundInv, TypeOK
<1>9. handled \in [Messages -> Nat] /\ handled' \in [Messages -> Nat]
  BY <1>4, <1>5 DEF InboundInv, TypeOK
<1>10. TypeOK'
  <2>1. job' \in [Ids -> Job]
    BY <1>2, <1>3 DEF InboundInv, TypeOK
  <2> QED
    BY <2>1, <1>9 DEF InboundInv, TypeOK, Complete, KeepsIntake
<1>11. NamedAfterMessage'
  BY <1>2, <1>7 DEF InboundInv, NamedAfterMessage, Present, At
<1>12. KeptByName'
  <2> SUFFICES ASSUME NEW p \in answered, Kind[p] = "message"
               PROVE  handled'[First(p)] > 0 \/ Present(JobId(p))'
    BY DEF KeptByName, Complete, KeepsIntake
  <2>1. JobId(p) \in Ids /\ JobId(p) = First(p) /\ First(p) \in Messages
    BY JobIdIsMessage DEF InboundInv, TypeOK
  <2>2. handled[First(p)] > 0 \/ Present(JobId(p))
    BY DEF InboundInv, KeptByName
  <2>3. CASE First(p) = id
    BY <2>1, <2>3, <1>8
  <2>4. CASE First(p) # id
    <3>1. Present(JobId(p)) => Present(JobId(p))'
      BY <2>1, <2>4, <1>7 DEF Present, At
    <3>2. handled[First(p)] > 0 => handled'[First(p)] > 0
      BY <2>1, <1>8, <1>9
    <3> QED
      BY <2>2, <3>1, <3>2
  <2> QED
    BY <2>3, <2>4
<1>13. AttemptsLeft'
  BY <1>2, <1>7 DEF InboundInv, AttemptsLeft
<1>14. BuriedForGood'
  BY <1>6, <1>7 DEF InboundInv, TypeOK, BuriedForGood, At, Complete
<1> QED
  BY <1>10, <1>11, <1>12, <1>13, <1>14 DEF InboundInv

LEMMA BuryInv ==
    ASSUME InboundInv, NEW id \in Ids, Bury(id)
    PROVE  InboundInv'
<1>1. burying' \cup dlq' \subseteq burying \cup dlq
  BY DEF Bury
<1>2. TypeOK'
  BY <1>1 DEF InboundInv, TypeOK, Bury, KeepsIntake
<1> QED
  BY <1>1, <1>2 DEF InboundInv, NamedAfterMessage, KeptByName, AttemptsLeft, BuriedForGood,
                    Present, At, Bury, KeepsIntake

\* What the process was doing is lost; the jobs are not.
LEMMA CrashInv ==
    ASSUME InboundInv, Crash
    PROVE  InboundInv'
<1>1. job \in [Ids -> Job]
  BY DEF InboundInv, TypeOK
<1>2. \A id \in Ids : job'[id] = IF job[id].at = "active" THEN [job[id] EXCEPT !.at = "orphaned"]
                                ELSE job[id]
  BY DEF Crash, At
<1>3. \A id \in Ids : /\ job'[id] \in Job /\ job'[id].payload = job[id].payload
                     /\ job'[id].attemptsMade = job[id].attemptsMade
                     /\ job'[id].stalled = job[id].stalled
                     /\ job'[id].at = IF job[id].at = "active" THEN "orphaned" ELSE job[id].at
  BY <1>1, <1>2 DEF Job
<1>4. job' \in [Ids -> Job]
  BY <1>3 DEF Crash
<1>5. crashes' \in 0..MaxCrashes
  BY Numbers DEF InboundInv, TypeOK, Crash
<1>6. TypeOK'
  BY <1>4, <1>5 DEF InboundInv, TypeOK, Crash, KeepsIntake
<1>7. NamedAfterMessage'
  BY <1>3 DEF InboundInv, NamedAfterMessage, Present, At
<1>8. KeptByName'
  <2>1. \A p \in Payloads : Kind[p] = "message" => JobId(p) \in Ids
    BY JobIdIsMessage
  <2> QED
    BY <1>3, <2>1 DEF InboundInv, KeptByName, TypeOK, Present, At, Crash, KeepsIntake
<1>9. AttemptsLeft'
  BY <1>3 DEF InboundInv, AttemptsLeft
<1>10. BuriedForGood'
  BY <1>3 DEF InboundInv, TypeOK, BuriedForGood, At, Crash
<1> QED
  BY <1>6, <1>7, <1>8, <1>9, <1>10 DEF InboundInv

LEMMA NextInv == InboundInv /\ [Next]_vars => InboundInv'
<1> SUFFICES ASSUME InboundInv, [Next]_vars PROVE InboundInv'
  OBVIOUS
<1>1. CASE \E p \in Payloads : Receive(p)
  BY <1>1, ReceiveInv
<1>2. CASE \E p \in Payloads : LogOnly(p)
  <2> PICK p \in Payloads : LogOnly(p)
    BY <1>2
  <2>1. Kind[p] # "message" /\ logged' = logged \cup {p}
    BY DEF LogOnly
  <2> QED
    BY <2>1, AnswerOnly DEF LogOnly
<1>3. CASE \E p \in Payloads : Refuse(p)
  <2> PICK p \in Payloads : Refuse(p)
    BY <1>3
  <2>1. delivered' \in [Payloads -> Nat]
    BY DeliverType DEF Refuse, InboundInv
  <2>2. UNCHANGED <<answered, logged, job, burying, dlq, handled, crashes>>
    BY DEF Refuse
  <2>3. TypeOK'
    BY <2>1, <2>2 DEF InboundInv, TypeOK
  <2> QED
    BY <2>2, <2>3 DEF InboundInv, NamedAfterMessage, KeptByName, AttemptsLeft, BuriedForGood,
                Present, At
<1>4. CASE \E id \in Ids : Take(id)
  BY <1>4, TakeInv
<1>5. CASE \E id \in Ids : Work(id)
  BY <1>5, CompleteInv, FailInv, BackoffInv, BuryInv, RecoverInv DEF Work
<1>6. CASE Crash
  BY <1>6, CrashInv
<1>7. CASE UNCHANGED vars
  BY <1>7 DEF vars, InboundInv, TypeOK, NamedAfterMessage, KeptByName, AttemptsLeft,
              BuriedForGood, Present, At
<1> QED
  BY <1>1, <1>2, <1>3, <1>4, <1>5, <1>6, <1>7 DEF Next

\* The invariant of the queue: a job's id stands for its message for as long as the job
\* exists, whichever webhooks arrive and wherever the worker dies.
THEOREM InboundInvariant == Spec => []InboundInv
<1> QED
  BY InitInv, NextInv, PTL DEF Spec

\* A message whose webhook was answered with 200 has been handled or has its job.
THEOREM AnsweredMessagesAreKept == Spec => []AnsweredIsKept
<1>1. InboundInv => AnsweredIsKept
  <2> SUFFICES ASSUME InboundInv, NEW p \in answered, Kind[p] = "message",
                      ~(handled[First(p)] > 0)
               PROVE  \E id \in Ids : Present(id) /\ First(job[id].payload) = First(p)
    BY DEF AnsweredIsKept
  <2>1. JobId(p) \in Ids /\ JobId(p) = First(p)
    BY JobIdIsMessage DEF InboundInv, TypeOK
  <2>2. Present(JobId(p))
    BY DEF InboundInv, KeptByName
  <2>3. First(job[JobId(p)].payload) = JobId(p)
    BY <2>1, <2>2 DEF InboundInv, NamedAfterMessage, First, JobId
  <2> QED
    BY <2>1, <2>2, <2>3
<1> QED
  BY InboundInvariant, <1>1, PTL

\* Two deliveries of one message are never handled at the same time.
THEOREM OneHandlingAtATime == Spec => []NotTwiceAtOnce
<1>1. InboundInv => NotTwiceAtOnce
  BY DEF InboundInv, NamedAfterMessage, NotTwiceAtOnce, Active, Present, At, First, JobId
<1> QED
  BY InboundInvariant, <1>1, PTL

\* The dead-letter queue holds only jobs that failed as often as they may.
THEOREM DeadLettersAreDead == Spec => []BuriedWasGivenUp
<1>1. InboundInv => BuriedWasGivenUp
  BY DEF InboundInv, BuriedForGood, BuriedWasGivenUp
<1> QED
  BY InboundInvariant, <1>1, PTL
=============================================================================
