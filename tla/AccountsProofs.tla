--------------------------- MODULE AccountsProofs ---------------------------
(***************************************************************************)
(* Theorems about Accounts, for every set of users, links and calls, every *)
(* threshold and every number of crashes.                                  *)
(***************************************************************************)
EXTENDS Accounts, SequenceTheorems, TLAPS

\* What a request under way looks like.
LoginCall == [op : {"login"}, at : {"compare"}, of : Users, right : BOOLEAN, read : Nat]
MailCall == [op : {"mail"}, at : {"queue"}, of : Users, link : Links]
ResetCall == [op : {"reset"}, at : {"history", "write"}, of : Users, link : Links,
              pwd : {{p} : p \in Passwords}, replaces : SUBSET Passwords]
EditCall == [op : {"edit"}, of : Users, edit : Edits, pwd : SUBSET Passwords,
             replaces : SUBSET Passwords, at : {"history", "write"}]

LinkRow == [of : SUBSET Users, used : BOOLEAN, live : BOOLEAN]

\* The rows and the requests; the counters have no bound here.
Typed == /\ user \in [Users -> Rows]
         /\ link \in [Links -> LinkRow]
         /\ call \in [Calls -> {Idle} \cup LoginCall \cup MailCall \cup ResetCall \cup EditCall]
         /\ uses \in [Links -> Nat]

\* The constants that are counted with.
LEMMA Constants ==
    /\ LockAfter \in Nat /\ LockAfter > 0 /\ MailAttempts \in Nat /\ MailAttempts > 0
    /\ MaxStalled \in Nat /\ MaxCrashes \in Nat
    /\ NewRoles \subseteq Roles
    /\ Edits \subseteq [role : SUBSET Roles, active : SUBSET BOOLEAN, pwd : SUBSET Passwords]
<1>1. /\ LockAfter \in Nat \ {0} /\ NewRoles \subseteq Roles
      /\ Edits \subseteq [role : SUBSET Roles, active : SUBSET BOOLEAN, pwd : SUBSET Passwords]
  BY AccountsAssumption
<1>2. MailAttempts \in Nat \ {0} /\ MaxStalled \in Nat /\ MaxCrashes \in Nat
  BY MailAssumption
<1> QED
  BY <1>1, <1>2

\* A field that was given is of its kind.
LEMMA GivenType ==
    ASSUME NEW S, NEW asked \in SUBSET S, NEW x \in S
    PROVE  Given(asked, x) \in S
BY DEF Given

LEMMA InitTyped == Init => Typed
BY DEF Init, Typed, NoAccount, Rows, LinkRow, Roles

\* A request begins or ends, and the rest of the rows stays.
LEMMA BeginTyped ==
    ASSUME Typed, NEW c \in Calls, NEW r \in LoginCall \cup MailCall \cup ResetCall \cup EditCall,
           Begin(c, r)
    PROVE  call' \in [Calls -> {Idle} \cup LoginCall \cup MailCall \cup ResetCall \cup EditCall]
BY DEF Typed, Begin

LEMMA EndTyped ==
    ASSUME Typed, NEW c \in Calls, End(c)
    PROVE  call' \in [Calls -> {Idle} \cup LoginCall \cup MailCall \cup ResetCall \cup EditCall]
BY DEF Typed, End

\* Which kind of request it is, by its op.
LEMMA OpTells ==
    ASSUME Typed, NEW c \in Calls
    PROVE  /\ call[c].op = "login" => call[c] \in LoginCall
           /\ call[c].op = "mail" => call[c] \in MailCall
           /\ call[c].op = "reset" => call[c] \in ResetCall
           /\ call[c].op = "edit" => call[c] \in EditCall
           /\ call[c] # Idle /\ call[c].at = "history" => call[c] \in ResetCall \cup EditCall
BY DEF Typed, Idle, LoginCall, MailCall, ResetCall, EditCall

LEMMA LoginTyped ==
    ASSUME Typed, NEW c \in Calls,
           \/ \E u \in Users, p \in Passwords : Login(c, u, p)
           \/ LoginWrong(c) \/ LoginRight(c)
    PROVE  Typed'
<1>1. ASSUME NEW u \in Users, NEW p \in Passwords, Login(c, u, p)
      PROVE  Typed'
  <2>1. [op |-> "login", at |-> "compare", of |-> u, right |-> p \in user[u].pwd,
         read |-> user[u].fails] \in LoginCall
    BY DEF LoginCall, Typed, Rows
  <2> QED
    BY <1>1, <2>1, BeginTyped DEF Login, Typed
<1>2. CASE LoginWrong(c)
  <2>1. call[c] \in LoginCall
    BY <1>2, OpTells DEF LoginWrong, Is
  <2>2. user' \in [Users -> Rows]
    BY <1>2, <2>1, Constants DEF LoginWrong, LoginCall, Typed, Rows
  <2> QED
    BY <1>2, <2>2, EndTyped DEF LoginWrong, Typed
<1>3. CASE LoginRight(c)
  <2>0. call[c] \in LoginCall
    BY <1>3, OpTells DEF LoginRight, Is
  <2>1. user' \in [Users -> Rows]
    BY <1>3, <2>0 DEF LoginRight, LoginCall, Typed, Rows
  <2> QED
    BY <1>3, <2>1, EndTyped DEF LoginRight, Typed
<1> QED
  BY <1>1, <1>2, <1>3

LEMMA MailTyped ==
    ASSUME Typed, NEW c \in Calls,
           \/ \E u \in Users, l \in Links : Forgot(c, u, l)
           \/ Mail(c) \/ MailFails(c)
    PROVE  Typed'
<1>1. ASSUME NEW u \in Users, NEW l \in Links, Forgot(c, u, l)
      PROVE  Typed'
  <2>1. [op |-> "mail", at |-> "queue", of |-> u, link |-> l] \in MailCall
    BY DEF MailCall
  <2>2. link' \in [Links -> LinkRow]
    BY <1>1 DEF Forgot, Born, Typed, LinkRow
  <2> QED
    BY <1>1, <2>1, <2>2, BeginTyped DEF Forgot, Typed
<1>2. CASE Mail(c) \/ MailFails(c)
  BY <1>2, EndTyped DEF Mail, MailFails, Typed
<1> QED
  BY <1>1, <1>2

LEMMA ResetTyped ==
    ASSUME Typed, NEW c \in Calls,
           \/ \E l \in Links, p \in Passwords : Reset(c, l, p)
           \/ CheckHistory(c) \/ ResetWrite(c)
    PROVE  Typed'
<1>1. ASSUME NEW l \in Links, NEW p \in Passwords, Reset(c, l, p)
      PROVE  Typed'
  <2>1. PICK u \in Users :
          Begin(c, [op |-> "reset", at |-> "history", of |-> u, link |-> l, pwd |-> {p},
                    replaces |-> user[u].pwd])
    BY <1>1 DEF Reset, Typed, LinkRow
  <2>2. [op |-> "reset", at |-> "history", of |-> u, link |-> l, pwd |-> {p},
         replaces |-> user[u].pwd] \in ResetCall
    BY DEF ResetCall, Typed, Rows
  <2> QED
    BY <1>1, <2>1, <2>2, BeginTyped DEF Reset, Typed
<1>2. CASE CheckHistory(c)
  <2>1. call[c] \in ResetCall \cup EditCall
    BY <1>2, OpTells DEF CheckHistory
  <2>2. [call[c] EXCEPT !.at = "write"] \in ResetCall \cup EditCall
    BY <2>1 DEF ResetCall, EditCall
  <2>3. Go(c, "write") => call' \in [Calls -> {Idle} \cup LoginCall \cup MailCall
                                              \cup ResetCall \cup EditCall]
    BY <2>2 DEF Go, Typed
  <2>4. call' \in [Calls -> {Idle} \cup LoginCall \cup MailCall \cup ResetCall \cup EditCall]
    BY <1>2, <2>3, EndTyped DEF CheckHistory
  <2>5. UNCHANGED <<user, history, link, answered, uses, lapsed, mailVars>>
    BY <1>2 DEF CheckHistory
  <2> QED
    BY <2>4, <2>5 DEF Typed
<1>3. CASE ResetWrite(c)
  <2>1. call[c] \in ResetCall
    BY <1>3, OpTells DEF ResetWrite, Is
  <2>2. user' \in [Users -> Rows]
    BY <1>3, <2>1 DEF ResetWrite, ResetCall, Typed, Rows
  <2>3. link' \in [Links -> LinkRow]
    <3>1. /\ call[c].link \in Links /\ link \in [Links -> LinkRow]
          /\ link' = [link EXCEPT ![call[c].link].used = TRUE]
      BY <1>3, <2>1 DEF ResetWrite, ResetCall, Typed
    <3> QED
      BY <3>1 DEF LinkRow
  <2>4. uses' \in [Links -> Nat]
    <3>1. /\ call[c].link \in Links /\ uses \in [Links -> Nat]
          /\ uses' = [uses EXCEPT ![call[c].link] = uses[call[c].link] + 1]
      BY <1>3, <2>1 DEF ResetWrite, ResetCall, Typed
    <3> QED
      BY <3>1
  <2> QED
    BY <1>3, <2>2, <2>3, <2>4, EndTyped DEF ResetWrite, Typed
<1> QED
  BY <1>1, <1>2, <1>3

\* An account as it is made.
LEMMA AccountType ==
    ASSUME NEW role \in Roles, NEW p \in Passwords, NEW temporary \in BOOLEAN
    PROVE  Account(role, p, temporary) \in Rows
BY DEF Account, Rows

LEMMA TeamTyped ==
    ASSUME Typed, NEW c \in Calls, NEW u \in Users,
           \/ \E actor \in Actors, role \in NewRoles, p \in Passwords :
                \E ls \in {{}} \cup {{l} : l \in Links} : Create(c, u, actor, role, p, ls)
           \/ \E actor \in Actors : \E e \in Edits : Edit(c, u, actor, e)
           \/ EditWrite(c)
    PROVE  Typed'
<1>1. ASSUME NEW actor \in Actors, NEW role \in NewRoles, NEW p \in Passwords,
             NEW ls \in {{}} \cup {{l} : l \in Links}, Create(c, u, actor, role, p, ls)
      PROVE  Typed'
  <2>1. user' \in [Users -> Rows] /\ uses' = uses
    BY <1>1, AccountType, Constants DEF Create, Typed
  <2>2. CASE UNCHANGED <<link, call>>
    BY <2>1, <2>2 DEF Typed
  <2>3. CASE ~UNCHANGED <<link, call>>
    <3>1. PICK l \in ls : /\ link' = [link EXCEPT ![l] = Born(u)]
                          /\ Begin(c, [op |-> "mail", at |-> "queue", of |-> u, link |-> l])
      BY <1>1, <2>3 DEF Create
    <3>2. l \in Links
      OBVIOUS
    <3>3. [op |-> "mail", at |-> "queue", of |-> u, link |-> l] \in MailCall
      BY <3>2 DEF MailCall
    <3>4. link' \in [Links -> LinkRow]
      BY <3>1 DEF Born, Typed, LinkRow
    <3> QED
      BY <2>1, <3>1, <3>3, <3>4, BeginTyped DEF Typed
  <2> QED
    BY <2>2, <2>3
<1>2. ASSUME NEW actor \in Actors, NEW e \in Edits, Edit(c, u, actor, e)
      PROVE  Typed'
  <2>1. [op |-> "edit", of |-> u, edit |-> e, pwd |-> e.pwd, replaces |-> user[u].pwd,
         at |-> IF e.pwd = {} THEN "write" ELSE "history"] \in EditCall
    BY Constants DEF EditCall, Typed, Rows
  <2> QED
    BY <1>2, <2>1, BeginTyped DEF Edit, Typed
<1>3. CASE EditWrite(c)
  <2>1. call[c] \in EditCall
    BY <1>3, OpTells DEF EditWrite, Is
  <2> DEFINE v == call[c].of  e == call[c].edit
  <2>2. v \in Users /\ e \in [role : SUBSET Roles, active : SUBSET BOOLEAN, pwd : SUBSET Passwords]
    BY <2>1, Constants DEF EditCall
  <2>3. user[v] \in Rows
    BY <2>2 DEF Typed
  <2>4. Given(e.role, user[v].role) \in Roles /\ Given(e.active, user[v].active) \in BOOLEAN
    BY <2>2, <2>3, GivenType DEF Rows
  <2>5. user' \in [Users -> Rows]
    BY <1>3, <2>2, <2>3, <2>4 DEF EditWrite, Typed, Rows
  <2> QED
    BY <1>3, <2>5, EndTyped DEF EditWrite, Typed
<1> QED
  BY <1>1, <1>2, <1>3

LEMMA OtherTyped ==
    ASSUME Typed,
           \/ \E u \in Users : \/ LockLapses(u) \/ TemporaryExpires(u)
                             \/ \E p \in Passwords : ProvisionTenant(u, p)
           \/ \E u \in Users, actor \in Actors, role \in NewRoles, p \in Passwords :
                 CreateStaff(u, actor, role, p)
           \/ \E l \in Links : LinkExpires(l)
           \/ \E c \in Calls : Abandon(c)
    PROVE  Typed'
<1>1. ASSUME NEW u \in Users, LockLapses(u) \/ TemporaryExpires(u)
      PROVE  Typed'
  <2>1. \/ user' = [user EXCEPT ![u].lock = FALSE]
        \/ user' = [user EXCEPT ![u].temp = "expired"]
    BY <1>1 DEF LockLapses, TemporaryExpires
  <2>2. /\ [user[u] EXCEPT !.lock = FALSE] \in Rows
        /\ [user[u] EXCEPT !.temp = "expired"] \in Rows
    <3>1. user[u] \in Rows
      BY DEF Typed
    <3>2. [user[u] EXCEPT !.lock = FALSE] \in Rows
      BY <3>1 DEF Rows
    <3>3. [user[u] EXCEPT !.temp = "expired"] \in Rows
      BY <3>1 DEF Rows
    <3> QED
      BY <3>2, <3>3
  <2>3. user' \in [Users -> Rows]
    BY <2>1, <2>2 DEF Typed
  <2>4. UNCHANGED <<link, call, uses>>
    BY <1>1 DEF LockLapses, TemporaryExpires
  <2> QED
    BY <2>3, <2>4 DEF Typed
<1>2. ASSUME NEW u \in Users, NEW p \in Passwords, ProvisionTenant(u, p)
      PROVE  Typed'
  BY <1>2, AccountType DEF ProvisionTenant, Typed, Roles
<1>3. ASSUME NEW u \in Users, NEW actor \in Actors, NEW role \in NewRoles, NEW p \in Passwords,
             CreateStaff(u, actor, role, p)
      PROVE  Typed'
  BY <1>3, AccountType, Constants DEF CreateStaff, Typed
<1>4. ASSUME NEW l \in Links, LinkExpires(l)
      PROVE  Typed'
  BY <1>4 DEF LinkExpires, Typed, LinkRow
<1>5. ASSUME NEW c \in Calls, Abandon(c)
      PROVE  Typed'
  BY <1>5, EndTyped DEF Abandon, Typed
<1> QED
  BY <1>1, <1>2, <1>3, <1>4, <1>5

LEMMA NextTyped == Typed /\ [Next]_vars => Typed'
<1> SUFFICES ASSUME Typed, [Next]_vars PROVE Typed'
  OBVIOUS
<1>1. ASSUME NEW c \in Calls, Statement(c)
      PROVE  Typed'
  <2>1. CASE LoginWrong(c) \/ LoginRight(c)
    BY <2>1, LoginTyped
  <2>2. CASE Mail(c) \/ MailFails(c)
    BY <2>2, MailTyped
  <2>3. CASE CheckHistory(c) \/ ResetWrite(c)
    BY <2>3, ResetTyped
  <2>4. CASE EditWrite(c)
    <3>1. call[c].of \in Users
      BY <2>4, OpTells DEF EditWrite, Is, EditCall
    <3> QED
      BY <2>4, <3>1, TeamTyped
  <2> QED
    BY <1>1, <2>1, <2>2, <2>3, <2>4 DEF Statement
<1>4. ASSUME NEW c \in Calls, Request(c)
      PROVE  Typed'
  BY <1>4, LoginTyped, MailTyped, ResetTyped, TeamTyped DEF Request
<1>2. CASE MailNext /\ UNCHANGED accountVars
  BY <1>2 DEF accountVars, Typed
<1>3. CASE UNCHANGED vars
  BY <1>3 DEF vars, accountVars, Typed
<1> QED
  BY <1>1, <1>2, <1>3, <1>4, OtherTyped DEF Next
-----------------------------------------------------------------------------
(* The lock *)

\* A login under way has read at least what the row counts, being the only one about it.
LockSound ==
    /\ \A c \in Calls : call[c].op = "login" =>
         user[call[c].of].fails <= call[c].read /\ call[c].read < MaxFails
    /\ \A c, d \in Calls : call[c].op = "login" /\ call[d].op = "login" /\ c # d =>
         call[c].of # call[d].of
    /\ \A u \in Users : user[u].fails <= MaxFails
    /\ FailuresLock

\* What is enough for the lock to hold: no login begins, and an account counts no more than
\* it did, with its lock or without it because that ran out.
LEMMA LockStays ==
    ASSUME Typed, LockSound, MaxFails \in Nat,
           \A u \in Users : \/ user'[u].fails = 0
                            \/ /\ user'[u].fails = user[u].fails
                               /\ user'[u].lock = user[u].lock \/ u \in lapsed'
                               /\ u \in lapsed => u \in lapsed',
           \A c \in Calls : call'[c].op = "login" => call'[c] = call[c]
    PROVE  LockSound'
<1>1. \A c \in Calls : call[c].op = "login" => call[c].of \in Users /\ call[c].read \in Nat
  BY OpTells DEF LoginCall
<1>2. \A u \in Users : user[u].fails \in Nat
  BY DEF Typed, Rows
<1>3. \A u \in Users : user'[u].fails <= user[u].fails
  BY <1>2
<1>4. \A c \in Calls : call'[c].op = "login" =>
         user'[call'[c].of].fails <= call'[c].read /\ call'[c].read < MaxFails
  <2> SUFFICES ASSUME NEW c \in Calls, call'[c].op = "login"
               PROVE  user'[call'[c].of].fails <= call'[c].read /\ call'[c].read < MaxFails
    OBVIOUS
  <2>1. call'[c] = call[c] /\ call[c].op = "login"
    OBVIOUS
  <2>2. user[call[c].of].fails <= call[c].read /\ call[c].read < MaxFails
    BY <2>1 DEF LockSound
  <2>3. user'[call[c].of].fails \in Nat
    BY <1>1, <1>2, <2>1
  <2> QED
    BY <1>1, <1>2, <1>3, <2>1, <2>2, <2>3
<1>5. \A c, d \in Calls : call'[c].op = "login" /\ call'[d].op = "login" /\ c # d =>
         call'[c].of # call'[d].of
  BY DEF LockSound
<1>6. \A u \in Users : user'[u].fails <= MaxFails
  BY <1>2 DEF LockSound
<1>7. FailuresLock'
  BY <1>2, Constants DEF LockSound, FailuresLock
<1> QED
  BY <1>4, <1>5, <1>6, <1>7 DEF LockSound

LEMMA LoginLocks ==
    ASSUME Typed, LockSound, MaxFails \in Nat, "logins" \notin Overlaps,
           NEW c \in Calls, NEW u \in Users, NEW p \in Passwords, Login(c, u, p)
    PROVE  LockSound'
<1> DEFINE r == [op |-> "login", at |-> "compare", of |-> u, right |-> p \in user[u].pwd,
                 read |-> user[u].fails]
<1>1. \A d \in Calls : call'[d] = IF d = c THEN r ELSE call[d]
  BY DEF Login, Begin, Typed
<1>2. \A d \in Calls : call[d].op = "login" => call[d].of # u
  BY DEF Login, OneAtATime, About
<1>3. user[u].fails \in Nat /\ user[u].fails < MaxFails
  BY DEF Login, Typed, Rows
<1>4. UNCHANGED <<user, lapsed>>
  BY DEF Login
<1>5. \A d \in Calls : call'[d].op = "login" =>
         user'[call'[d].of].fails <= call'[d].read /\ call'[d].read < MaxFails
  BY <1>1, <1>3, <1>4 DEF LockSound
<1>6. \A d, e \in Calls : call'[d].op = "login" /\ call'[e].op = "login" /\ d # e =>
         call'[d].of # call'[e].of
  BY <1>1, <1>2 DEF LockSound
<1> QED
  BY <1>4, <1>5, <1>6 DEF LockSound, FailuresLock

\* The failure that reaches the threshold has read a count that locks.
LEMMA WrongLocks ==
    ASSUME Typed, LockSound, MaxFails \in Nat, NEW c \in Calls, LoginWrong(c)
    PROVE  LockSound'
<1> DEFINE u == call[c].of
<1>1. call[c] \in LoginCall /\ call[c].op = "login"
  BY OpTells DEF LoginWrong, Is
<1>2. u \in Users /\ call[c].read \in Nat /\ user[u].fails \in Nat
  BY <1>1 DEF LoginCall, Typed, Rows
<1>3. user[u].fails <= call[c].read /\ call[c].read < MaxFails
  BY <1>1 DEF LockSound
<1>4. \A d \in Calls : call'[d] = IF d = c THEN Idle ELSE call[d]
  BY DEF LoginWrong, End, Typed
<1>5. \A d \in Calls : call[d].op = "login" => d = c \/ call[d].of # u
  BY <1>1 DEF LockSound
<1>6. \A v \in Users : v # u => user'[v] = user[v]
  BY <1>2 DEF LoginWrong, Typed
<1>7. /\ user'[u].fails = user[u].fails + 1
      /\ user'[u].lock = (call[c].read >= LockAfter - 1)
  BY <1>2 DEF LoginWrong, Typed, Rows
<1>8. lapsed' = lapsed \ {u}
  BY DEF LoginWrong
<1>9. \A d \in Calls : call'[d].op = "login" =>
         user'[call'[d].of].fails <= call'[d].read /\ call'[d].read < MaxFails
  <2> SUFFICES ASSUME NEW d \in Calls, call'[d].op = "login"
               PROVE  user'[call'[d].of].fails <= call'[d].read /\ call'[d].read < MaxFails
    OBVIOUS
  <2>1. d # c /\ call'[d] = call[d] /\ call[d].op = "login"
    BY <1>4 DEF Idle
  <2>2. call[d].of \in Users /\ call[d].of # u
    BY <1>5, <2>1, OpTells DEF LoginCall
  <2> QED
    BY <1>6, <2>1, <2>2 DEF LockSound
<1>10. \A d, e \in Calls : call'[d].op = "login" /\ call'[e].op = "login" /\ d # e =>
         call'[d].of # call'[e].of
  BY <1>4 DEF LockSound, Idle
<1>11. \A v \in Users : user'[v].fails <= MaxFails
  BY <1>2, <1>3, <1>6, <1>7 DEF LockSound
<1>12. FailuresLock'
  <2>1. user'[u].fails >= LockAfter => call[c].read >= LockAfter - 1
    <3> HIDE DEF u
    <3> QED
      BY <1>2, <1>3, <1>7, Constants
  <2>2. user'[u].fails >= LockAfter => user'[u].lock
    BY <1>7, <2>1
  <2> QED
    BY <1>6, <1>8, <2>2 DEF LockSound, FailuresLock
<1> QED
  BY <1>9, <1>10, <1>11, <1>12 DEF LockSound

\* Every other step is one LockStays speaks of: those that leave the users alone,
LEMMA LockUntouched ==
    ASSUME Typed, LockSound, MaxFails \in Nat, UNCHANGED <<user, lapsed>>,
           \A c \in Calls : call'[c].op = "login" => call'[c] = call[c]
    PROVE  LockSound'
BY LockStays

\* ... and those that write one of them, at the end of a request or outside of any.
LEMMA LockWritten ==
    ASSUME Typed, LockSound, MaxFails \in Nat, NEW u \in Users, NEW row,
           user' = [user EXCEPT ![u] = row],
           \/ row.fails = 0 /\ lapsed \ {u} \subseteq lapsed'
           \/ /\ row.fails = user[u].fails /\ lapsed \subseteq lapsed'
              /\ row.lock = user[u].lock \/ u \in lapsed',
           \A c \in Calls : call'[c].op = "login" => call'[c] = call[c]
    PROVE  LockSound'
<1>1. user'[u] = row /\ \A v \in Users : v # u => user'[v] = user[v]
  BY DEF Typed
<1>2. \A v \in Users : \/ user'[v].fails = 0
                       \/ /\ user'[v].fails = user[v].fails
                          /\ user'[v].lock = user[v].lock \/ v \in lapsed'
                          /\ v \in lapsed => v \in lapsed'
  BY <1>1
<1> QED
  BY <1>2, LockStays

LEMMA EndsNoLogin ==
    ASSUME Typed, NEW c \in Calls, End(c)
    PROVE  \A d \in Calls : call'[d].op = "login" => call'[d] = call[d]
BY DEF Typed, End, Idle

LEMMA BeginsNoLogin ==
    ASSUME Typed, NEW c \in Calls, NEW r, r.op # "login", Begin(c, r)
    PROVE  \A d \in Calls : call'[d].op = "login" => call'[d] = call[d]
BY DEF Typed, Begin

LEMMA StatementLocks ==
    ASSUME Typed, LockSound, MaxFails \in Nat, NEW c \in Calls, Statement(c)
    PROVE  LockSound'
<1>1. CASE LoginWrong(c)
  BY <1>1, WrongLocks
<1>2. CASE LoginRight(c)
  <2> DEFINE u == call[c].of  row == [user[u] EXCEPT !.fails = 0, !.lock = FALSE]
  <2>1. u \in Users /\ user[u] \in Rows
    BY <1>2, OpTells DEF LoginRight, Is, LoginCall, Typed
  <2>2. user' = [user EXCEPT ![u] = row] /\ lapsed' = lapsed \ {u} /\ End(c)
    BY <1>2 DEF LoginRight
  <2>3. row.fails = 0
    BY <2>1 DEF Rows
  <2> HIDE DEF row
  <2> QED
    BY <2>1, <2>2, <2>3, LockWritten, EndsNoLogin
<1>3. CASE Mail(c) \/ MailFails(c)
  <2>1. UNCHANGED <<user, lapsed>> /\ End(c)
    BY <1>3 DEF Mail, MailFails
  <2> QED
    BY <2>1, LockUntouched, EndsNoLogin
<1>4. CASE CheckHistory(c)
  <2>1. UNCHANGED <<user, lapsed>> /\ (End(c) \/ Go(c, "write"))
    BY <1>4 DEF CheckHistory
  <2>2. call[c] \in ResetCall \cup EditCall
    BY <1>4, OpTells DEF CheckHistory
  <2>3. Go(c, "write") => \A d \in Calls : call'[d].op = "login" => call'[d] = call[d]
    BY <2>2 DEF Go, Typed, ResetCall, EditCall
  <2> QED
    BY <2>1, <2>3, LockUntouched, EndsNoLogin
<1>5. CASE ResetWrite(c)
  <2> DEFINE u == call[c].of
             row == [user[u] EXCEPT !.pwd = call[c].pwd, !.fails = 0, !.lock = FALSE,
                                    !.temp = "none", !.must = FALSE]
  <2>1. u \in Users /\ user[u] \in Rows
    BY <1>5, OpTells DEF ResetWrite, Is, ResetCall, Typed
  <2>2. user' = [user EXCEPT ![u] = row] /\ lapsed' = lapsed \ {u} /\ End(c)
    BY <1>5 DEF ResetWrite
  <2>3. row.fails = 0
    BY <2>1 DEF Rows
  <2> HIDE DEF row
  <2> QED
    BY <2>1, <2>2, <2>3, LockWritten, EndsNoLogin
<1>6. CASE EditWrite(c)
  <2> DEFINE u == call[c].of  e == call[c].edit
             row == [user[u] EXCEPT !.role = Given(e.role, user[u].role),
                                    !.active = Given(e.active, user[u].active),
                                    !.pwd = IF e.pwd = {} THEN user[u].pwd ELSE e.pwd,
                                    !.temp = IF e.pwd = {} THEN user[u].temp ELSE "live",
                                    !.must = IF e.pwd = {} THEN user[u].must ELSE TRUE]
  <2>1. u \in Users /\ user[u] \in Rows
    BY <1>6, OpTells DEF EditWrite, Is, EditCall, Typed
  <2>2. user' = [user EXCEPT ![u] = row] /\ lapsed' = lapsed /\ End(c)
    BY <1>6, <2>1 DEF EditWrite, Typed, Rows
  <2>3. row.fails = user[u].fails /\ row.lock = user[u].lock
    BY <2>1 DEF Rows
  <2> HIDE DEF row
  <2> QED
    BY <2>1, <2>2, <2>3, LockWritten, EndsNoLogin
<1> QED
  BY <1>1, <1>2, <1>3, <1>4, <1>5, <1>6 DEF Statement

LEMMA RequestLocks ==
    ASSUME Typed, LockSound, MaxFails \in Nat, "logins" \notin Overlaps,
           NEW c \in Calls, Request(c)
    PROVE  LockSound'
<1>1. ASSUME NEW u \in Users, NEW p \in Passwords, Login(c, u, p)
      PROVE  LockSound'
  BY <1>1, LoginLocks
<1>2. ASSUME NEW r, r.op # "login", Begin(c, r), UNCHANGED <<user, lapsed>>
      PROVE  LockSound'
  BY <1>2, BeginsNoLogin, LockUntouched
<1>3. ASSUME NEW u \in Users, NEW l \in Links, Forgot(c, u, l)
      PROVE  LockSound'
  BY <1>2, <1>3 DEF Forgot
<1>4. ASSUME NEW u \in Users, NEW actor \in Actors, NEW e \in Edits, Edit(c, u, actor, e)
      PROVE  LockSound'
  BY <1>2, <1>4 DEF Edit
<1>5. ASSUME NEW l \in Links, NEW p \in Passwords, Reset(c, l, p)
      PROVE  LockSound'
  BY <1>2, <1>5 DEF Reset
<1>6. ASSUME NEW u \in Users, NEW actor \in Actors, NEW role \in NewRoles, NEW p \in Passwords,
             NEW ls \in {{}} \cup {{l} : l \in Links}, Create(c, u, actor, role, p, ls)
      PROVE  LockSound'
  <2>1. /\ user' = [user EXCEPT ![u] = Account(role, p, TRUE)] /\ lapsed' = lapsed
        /\ \/ UNCHANGED call
           \/ \E l \in ls : Begin(c, [op |-> "mail", at |-> "queue", of |-> u, link |-> l])
    BY <1>6 DEF Create
  <2>2. \A d \in Calls : call'[d].op = "login" => call'[d] = call[d]
    BY <2>1, BeginsNoLogin
  <2>3. Account(role, p, TRUE).fails = 0
    BY DEF Account
  <2> QED
    BY <2>1, <2>2, <2>3, LockWritten
<1> QED
  BY <1>1, <1>3, <1>4, <1>5, <1>6 DEF Request

LEMMA OtherLocks ==
    ASSUME Typed, LockSound, MaxFails \in Nat,
           \/ \E u \in Users : \/ LockLapses(u) \/ TemporaryExpires(u)
                             \/ \E p \in Passwords : ProvisionTenant(u, p)
           \/ \E u \in Users, actor \in Actors, role \in NewRoles, p \in Passwords :
                 CreateStaff(u, actor, role, p)
           \/ \E l \in Links : LinkExpires(l)
           \/ \E c \in Calls : Abandon(c)
    PROVE  LockSound'
<1>1. ASSUME NEW u \in Users, LockLapses(u)
      PROVE  LockSound'
  <2> DEFINE row == [user[u] EXCEPT !.lock = FALSE]
  <2>1. user' = [user EXCEPT ![u] = row] /\ lapsed' = lapsed \cup {u} /\ call' = call
    BY <1>1 DEF LockLapses
  <2>2. row.fails = user[u].fails
    BY DEF Typed, Rows
  <2> HIDE DEF row
  <2> QED
    BY <2>1, <2>2, LockWritten
<1>2. ASSUME NEW u \in Users, TemporaryExpires(u)
      PROVE  LockSound'
  <2> DEFINE row == [user[u] EXCEPT !.temp = "expired"]
  <2>1. user' = [user EXCEPT ![u] = row] /\ lapsed' = lapsed /\ call' = call
    BY <1>2 DEF TemporaryExpires
  <2>2. row.fails = user[u].fails /\ row.lock = user[u].lock
    BY DEF Typed, Rows
  <2> HIDE DEF row
  <2> QED
    BY <2>1, <2>2, LockWritten
<1>3. ASSUME NEW u \in Users, NEW role, NEW p, NEW temporary,
             user' = [user EXCEPT ![u] = Account(role, p, temporary)],
             UNCHANGED <<call, lapsed>>
      PROVE  LockSound'
  <2>1. Account(role, p, temporary).fails = 0
    BY DEF Account
  <2> QED
    BY <1>3, <2>1, LockWritten
<1>4. ASSUME NEW u \in Users, NEW p \in Passwords, ProvisionTenant(u, p)
      PROVE  LockSound'
  BY <1>3, <1>4 DEF ProvisionTenant
<1>5. ASSUME NEW u \in Users, NEW actor \in Actors, NEW role \in NewRoles, NEW p \in Passwords,
             CreateStaff(u, actor, role, p)
      PROVE  LockSound'
  BY <1>3, <1>5 DEF CreateStaff
<1>6. ASSUME NEW l \in Links, LinkExpires(l)
      PROVE  LockSound'
  BY <1>6, LockUntouched DEF LinkExpires
<1>7. ASSUME NEW c \in Calls, Abandon(c)
      PROVE  LockSound'
  BY <1>7, LockUntouched, EndsNoLogin DEF Abandon
<1> QED
  BY <1>1, <1>2, <1>4, <1>5, <1>6, <1>7

\* FailuresLock for every number of users and calls and every threshold: "Bloqueo temporal
\* por intentos fallidos" holds of auth.service.ts:253 as long as logins of one account do
\* not overlap, whatever else runs beside them.
THEOREM FailedLoginsLock ==
    ASSUME "logins" \notin Overlaps
    PROVE  Spec => []FailuresLock
<1>1. MaxFails \in Nat
  BY AccountsAssumption
<1>2. Init => Typed /\ LockSound
  <2> SUFFICES ASSUME Init PROVE LockSound
    BY InitTyped
  <2>1. \A u \in Users : user[u].fails = 0
    BY DEF Init, NoAccount
  <2>2. \A c \in Calls : call[c].op # "login"
    BY DEF Init, Idle
  <2> QED
    BY <1>1, <2>1, <2>2, Constants DEF LockSound, FailuresLock
<1>3. Typed /\ LockSound /\ [Next]_vars => (Typed /\ LockSound)'
  <2> SUFFICES ASSUME Typed, LockSound, [Next]_vars PROVE LockSound'
    BY NextTyped
  <2>1. ASSUME NEW c \in Calls, Statement(c) \/ Request(c)
        PROVE  LockSound'
    BY <1>1, <2>1, StatementLocks, RequestLocks
  <2>2. CASE UNCHANGED vars \/ (MailNext /\ UNCHANGED accountVars)
    BY <1>1, <2>2, LockUntouched DEF vars, accountVars
  <2> QED
    BY <1>1, <2>1, <2>2, OtherLocks DEF Next
<1>4. LockSound => FailuresLock
  BY DEF LockSound
<1> QED
  BY <1>2, <1>3, <1>4, PTL DEF Spec
-----------------------------------------------------------------------------
(* The links *)

\* A link that has changed a password is marked as used, and a reset under way holds one that
\* has changed none: no other change of the account it is for is under way.
LinkSound ==
    /\ \A l \in Links : uses[l] = 0 \/ (uses[l] = 1 /\ link[l].used)
    /\ \A l \in Links : Unborn(l) => uses[l] = 0
    /\ \A l \in Links : \A u, v \in link[l].of : u = v
    /\ \A c \in Calls : call[c].op = "reset" =>
         link[call[c].link].of = {call[c].of} /\ uses[call[c].link] = 0
    /\ \A c, d \in Calls : call[c].op \in {"reset", "edit"} /\ call[d].op \in {"reset", "edit"}
                           /\ c # d => call[c].of # call[d].of

\* A request that goes on is about what it was about.
GoesOn(c) == /\ call'[c].op = call[c].op /\ call'[c].of = call[c].of
             /\ call[c].op = "reset" => call'[c].link = call[c].link

LEMMA LinksStay ==
    ASSUME Typed, LinkSound, uses' = uses,
           \A l \in Links : link'[l].of = link[l].of /\ link'[l].used = link[l].used,
           \A c \in Calls : call'[c].op \in {"reset", "edit"} => GoesOn(c)
    PROVE  LinkSound'
<1>1. \A c \in Calls : call[c].op = "reset" => call[c].link \in Links
  BY OpTells DEF ResetCall
<1>2. /\ \A l \in Links : uses'[l] = 0 \/ (uses'[l] = 1 /\ link'[l].used)
      /\ \A l \in Links : Unborn(l)' => uses'[l] = 0
      /\ \A l \in Links : \A u, v \in link'[l].of : u = v
  BY DEF LinkSound, Unborn
<1>3. \A c \in Calls : call'[c].op = "reset" =>
         link'[call'[c].link].of = {call'[c].of} /\ uses'[call'[c].link] = 0
  <2> SUFFICES ASSUME NEW c \in Calls, call'[c].op = "reset"
               PROVE  link'[call'[c].link].of = {call'[c].of} /\ uses'[call'[c].link] = 0
    OBVIOUS
  <2>1. /\ call[c].op = "reset" /\ call'[c].of = call[c].of /\ call'[c].link = call[c].link
    BY DEF GoesOn
  <2> QED
    BY <1>1, <2>1 DEF LinkSound
<1>4. \A c, d \in Calls : call'[c].op \in {"reset", "edit"} /\ call'[d].op \in {"reset", "edit"}
                          /\ c # d => call'[c].of # call'[d].of
  BY DEF LinkSound, GoesOn
<1> QED
  BY <1>2, <1>3, <1>4 DEF LinkSound

\* The ends and the beginnings of requests that change no password.
LEMMA EndsAndBegins ==
    ASSUME Typed, NEW c \in Calls,
           \/ End(c)
           \/ \E r \in LoginCall \cup MailCall : Begin(c, r)
    PROVE  \A d \in Calls : call'[d].op \in {"reset", "edit"} => GoesOn(d)
<1>1. CASE End(c)
  BY <1>1 DEF End, Typed, GoesOn, Idle
<1>2. ASSUME NEW r \in LoginCall \cup MailCall, Begin(c, r)
      PROVE  \A d \in Calls : call'[d].op \in {"reset", "edit"} => GoesOn(d)
  <2>1. \A d \in Calls : call'[d] = IF d = c THEN r ELSE call[d]
    BY <1>2 DEF Begin, Typed
  <2>2. r.op \notin {"reset", "edit"}
    BY DEF LoginCall, MailCall
  <2> QED
    BY <2>1, <2>2 DEF GoesOn
<1> QED
  BY <1>1, <1>2

\* A link is stored: it was none before, so nothing has it in hand.
LEMMA LinkBorn ==
    ASSUME Typed, LinkSound, NEW c \in Calls, NEW u \in Users, NEW l \in Links,
           Unborn(l), link' = [link EXCEPT ![l] = Born(u)], uses' = uses,
           Begin(c, [op |-> "mail", at |-> "queue", of |-> u, link |-> l])
    PROVE  LinkSound'
<1>1. [op |-> "mail", at |-> "queue", of |-> u, link |-> l] \in MailCall
  BY DEF MailCall
<1>2. \A d \in Calls : call'[d].op \in {"reset", "edit"} => GoesOn(d)
  BY <1>1, EndsAndBegins
<1>3. \A k \in Links : link'[k] = IF k = l THEN Born(u) ELSE link[k]
  BY DEF Typed
<1>4. uses'[l] = 0 /\ Born(u).of = {u}
  BY DEF LinkSound, Born
<1>5. /\ \A k \in Links : uses'[k] = 0 \/ (uses'[k] = 1 /\ link'[k].used)
      /\ \A k \in Links : Unborn(k)' => uses'[k] = 0
      /\ \A k \in Links : \A v, w \in link'[k].of : v = w
  BY <1>3, <1>4 DEF LinkSound, Unborn
<1>6. \A d \in Calls : call'[d].op = "reset" =>
         link'[call'[d].link].of = {call'[d].of} /\ uses'[call'[d].link] = 0
  <2> SUFFICES ASSUME NEW d \in Calls, call'[d].op = "reset"
               PROVE  link'[call'[d].link].of = {call'[d].of} /\ uses'[call'[d].link] = 0
    OBVIOUS
  <2>1. /\ call[d].op = "reset" /\ call'[d].of = call[d].of /\ call'[d].link = call[d].link
    BY <1>2 DEF GoesOn
  <2>2. link[call[d].link].of = {call[d].of} /\ uses[call[d].link] = 0 /\ call[d].link \in Links
    BY <2>1, OpTells DEF LinkSound, ResetCall
  <2>3. call[d].link # l
    BY <2>2 DEF Unborn
  <2> QED
    BY <1>3, <2>1, <2>2, <2>3
<1>7. \A d, e \in Calls : call'[d].op \in {"reset", "edit"} /\ call'[e].op \in {"reset", "edit"}
                          /\ d # e => call'[d].of # call'[e].of
  BY <1>2 DEF LinkSound, GoesOn
<1> QED
  BY <1>5, <1>6, <1>7 DEF LinkSound

\* A change of a password begins, when no other of that account is under way.
LEMMA ChangeBegins ==
    ASSUME Typed, LinkSound, NEW c \in Calls, NEW r \in ResetCall \cup EditCall, Begin(c, r),
           UNCHANGED <<link, uses>>,
           \A d \in Calls : ~About(d, {"reset", "edit"}, r.of),
           r.op = "reset" => link[r.link].of = {r.of} /\ ~link[r.link].used
    PROVE  LinkSound'
<1>1. \A d \in Calls : call'[d] = IF d = c THEN r ELSE call[d]
  BY DEF Begin, Typed
<1>2. r.op = "reset" => r.link \in Links
  BY DEF ResetCall, EditCall
<1>3. \A d \in Calls : call'[d].op = "reset" =>
         link'[call'[d].link].of = {call'[d].of} /\ uses'[call'[d].link] = 0
  BY <1>1, <1>2 DEF LinkSound
<1>4. \A d, e \in Calls : call'[d].op \in {"reset", "edit"} /\ call'[e].op \in {"reset", "edit"}
                          /\ d # e => call'[d].of # call'[e].of
  BY <1>1 DEF LinkSound, About
<1> QED
  BY <1>3, <1>4 DEF LinkSound, Unborn

\* The link of a reset is marked as it changes the password.
LEMMA ResetUses ==
    ASSUME Typed, LinkSound, NEW c \in Calls, ResetWrite(c)
    PROVE  LinkSound'
<1> DEFINE k == call[c].link
<1>1. /\ call[c].op = "reset" /\ k \in Links
      /\ link[k].of = {call[c].of} /\ uses[k] = 0
  BY OpTells DEF ResetWrite, Is, ResetCall, LinkSound
<1>2. \A d \in Calls : call'[d] = IF d = c THEN Idle ELSE call[d]
  BY DEF ResetWrite, End, Typed
<1>3. \A l \in Links : /\ uses'[l] = IF l = k THEN 1 ELSE uses[l]
                       /\ link'[l].of = link[l].of
                       /\ link'[l].used = IF l = k THEN TRUE ELSE link[l].used
  <2>1. /\ uses' = [uses EXCEPT ![k] = uses[k] + 1] /\ link' = [link EXCEPT ![k].used = TRUE]
        /\ uses \in [Links -> Nat] /\ link \in [Links -> LinkRow]
    BY DEF ResetWrite, Typed
  <2>2. uses' = [uses EXCEPT ![k] = 1]
    BY <1>1, <2>1
  <2> HIDE DEF k
  <2> QED
    BY <1>1, <2>1, <2>2 DEF LinkRow
<1>4. \A d \in Calls : call[d].op = "reset" /\ d # c => call[d].link \in Links /\ call[d].link # k
  BY <1>1, OpTells DEF LinkSound, ResetCall
<1>5. \A l \in Links : uses'[l] = 0 \/ (uses'[l] = 1 /\ link'[l].used)
  BY <1>3 DEF LinkSound
<1>6. \A l \in Links : Unborn(l)' => uses'[l] = 0
  <2> SUFFICES ASSUME NEW l \in Links, link'[l].of = {}
               PROVE  uses'[l] = 0
    BY DEF Unborn
  <2>1. link[l].of = {} /\ l # k
    <3>1. link'[l].of = link[l].of
      BY <1>3
    <3>2. link[k].of # {}
      BY <1>1
    <3> QED
      BY <3>1, <3>2
  <2>2. uses[l] = 0
    BY <2>1 DEF LinkSound, Unborn
  <2> QED
    BY <1>3, <2>1, <2>2
<1>7. \A d \in Calls : call'[d].op = "reset" =>
         link'[call'[d].link].of = {call'[d].of} /\ uses'[call'[d].link] = 0
  <2> SUFFICES ASSUME NEW d \in Calls, call'[d].op = "reset"
               PROVE  link'[call'[d].link].of = {call'[d].of} /\ uses'[call'[d].link] = 0
    OBVIOUS
  <2>1. d # c /\ call'[d] = call[d] /\ call[d].op = "reset"
    BY <1>2 DEF Idle
  <2>2. call[d].link \in Links /\ call[d].link # k
    BY <1>4, <2>1
  <2>3. link[call[d].link].of = {call[d].of} /\ uses[call[d].link] = 0
    BY <2>1 DEF LinkSound
  <2> HIDE DEF k
  <2> QED
    BY <1>3, <2>1, <2>2, <2>3
<1>8. \A d, e \in Calls : call'[d].op \in {"reset", "edit"} /\ call'[e].op \in {"reset", "edit"}
                          /\ d # e => call'[d].of # call'[e].of
  BY <1>2 DEF LinkSound, Idle
<1>9. \A l \in Links : \A u, v \in link'[l].of : u = v
  <2>1. \A l \in Links : link'[l].of = link[l].of
    BY <1>3
  <2> QED
    BY <2>1 DEF LinkSound
<1> QED
  <2> HIDE DEF k
  <2> QED
    BY <1>5, <1>6, <1>7, <1>8, <1>9 DEF LinkSound

LEMMA StatementUses ==
    ASSUME Typed, LinkSound, NEW c \in Calls, Statement(c)
    PROVE  LinkSound'
<1>1. CASE LoginWrong(c) \/ LoginRight(c) \/ Mail(c) \/ MailFails(c) \/ EditWrite(c)
  <2>1. UNCHANGED <<link, uses>> /\ End(c)
    BY <1>1 DEF LoginWrong, LoginRight, Mail, MailFails, EditWrite
  <2> QED
    BY <2>1, EndsAndBegins, LinksStay
<1>2. CASE CheckHistory(c)
  <2>1. UNCHANGED <<link, uses>> /\ (End(c) \/ Go(c, "write"))
    BY <1>2 DEF CheckHistory
  <2>2. call[c] \in ResetCall \cup EditCall
    BY <1>2, OpTells DEF CheckHistory
  <2>3. Go(c, "write") => \A d \in Calls : call'[d].op \in {"reset", "edit"} => GoesOn(d)
    BY <2>2 DEF Go, Typed, ResetCall, EditCall, GoesOn
  <2> QED
    BY <2>1, <2>3, EndsAndBegins, LinksStay
<1> QED
  BY <1>1, <1>2, ResetUses DEF Statement

LEMMA RequestUses ==
    ASSUME Typed, LinkSound, "changes" \notin Overlaps, NEW c \in Calls, Request(c)
    PROVE  LinkSound'
<1>1. ASSUME NEW u \in Users, NEW p \in Passwords, Login(c, u, p)
      PROVE  LinkSound'
  <2>1. [op |-> "login", at |-> "compare", of |-> u, right |-> p \in user[u].pwd,
         read |-> user[u].fails] \in LoginCall
    BY DEF LoginCall, Typed, Rows
  <2>2. \A d \in Calls : call'[d].op \in {"reset", "edit"} => GoesOn(d)
    BY <1>1, <2>1, EndsAndBegins DEF Login
  <2> QED
    BY <1>1, <2>2, LinksStay DEF Login
<1>2. ASSUME NEW u \in Users, NEW l \in Links, Forgot(c, u, l)
      PROVE  LinkSound'
  BY <1>2, LinkBorn DEF Forgot
<1>3. ASSUME NEW u \in Users, NEW actor \in Actors, NEW e \in Edits, Edit(c, u, actor, e)
      PROVE  LinkSound'
  <2> DEFINE r == [op |-> "edit", of |-> u, edit |-> e, pwd |-> e.pwd,
                   replaces |-> user[u].pwd, at |-> IF e.pwd = {} THEN "write" ELSE "history"]
  <2>1. r \in EditCall
    BY Constants DEF EditCall, Typed, Rows
  <2>2. r.op = "edit" /\ r.of = u
    OBVIOUS
  <2>3. /\ Begin(c, r) /\ UNCHANGED <<link, uses>>
        /\ \A d \in Calls : ~About(d, {"reset", "edit"}, u)
    BY <1>3 DEF Edit, OneAtATime
  <2> HIDE DEF r
  <2> QED
    BY <2>1, <2>2, <2>3, ChangeBegins
<1>4. ASSUME NEW l \in Links, NEW p \in Passwords, Reset(c, l, p)
      PROVE  LinkSound'
  <2>1. PICK u \in link[l].of :
          /\ \A d \in Calls : ~About(d, {"reset", "edit"}, u)
          /\ Begin(c, [op |-> "reset", at |-> "history", of |-> u, link |-> l, pwd |-> {p},
                       replaces |-> user[u].pwd])
    BY <1>4 DEF Reset, OneAtATime
  <2> DEFINE r == [op |-> "reset", at |-> "history", of |-> u, link |-> l, pwd |-> {p},
                   replaces |-> user[u].pwd]
  <2>2. u \in Users /\ link[l].of = {u}
    BY DEF Typed, LinkRow, LinkSound
  <2>3. r \in ResetCall
    BY <2>2 DEF ResetCall, Typed, Rows
  <2>4. r.op = "reset" /\ r.of = u /\ r.link = l
    OBVIOUS
  <2>5. ~link[l].used /\ UNCHANGED <<link, uses>>
    BY <1>4 DEF Reset
  <2> HIDE DEF r
  <2>6. Begin(c, r)
    BY <2>1 DEF r
  <2> QED
    BY <2>1, <2>2, <2>3, <2>4, <2>5, <2>6, ChangeBegins
<1>5. ASSUME NEW u \in Users, NEW actor \in Actors, NEW role \in NewRoles, NEW p \in Passwords,
             NEW ls \in {{}} \cup {{l} : l \in Links}, Create(c, u, actor, role, p, ls)
      PROVE  LinkSound'
  <2>1. CASE UNCHANGED <<link, call>>
    BY <1>5, <2>1, LinksStay DEF Create, GoesOn
  <2>2. CASE ~UNCHANGED <<link, call>>
    <3>1. PICK l \in ls : /\ Unborn(l)
                          /\ link' = [link EXCEPT ![l] = Born(u)]
                          /\ Begin(c, [op |-> "mail", at |-> "queue", of |-> u, link |-> l])
      BY <1>5, <2>2 DEF Create
    <3>2. l \in Links /\ uses' = uses
      BY <1>5 DEF Create
    <3> QED
      BY <3>1, <3>2, LinkBorn
  <2> QED
    BY <2>1, <2>2
<1> QED
  BY <1>1, <1>2, <1>3, <1>4, <1>5 DEF Request

LEMMA OtherUses ==
    ASSUME Typed, LinkSound,
           \/ \E u \in Users : \/ LockLapses(u) \/ TemporaryExpires(u)
                             \/ \E p \in Passwords : ProvisionTenant(u, p)
           \/ \E u \in Users, actor \in Actors, role \in NewRoles, p \in Passwords :
                 CreateStaff(u, actor, role, p)
           \/ \E l \in Links : LinkExpires(l)
           \/ \E c \in Calls : Abandon(c)
           \/ UNCHANGED <<link, call, uses>>
    PROVE  LinkSound'
<1>1. CASE UNCHANGED <<link, call, uses>>
  BY <1>1, LinksStay DEF GoesOn
<1>2. ASSUME NEW l \in Links, LinkExpires(l)
      PROVE  LinkSound'
  <2>1. \A k \in Links : link'[k].of = link[k].of /\ link'[k].used = link[k].used
    BY <1>2 DEF LinkExpires, Typed, LinkRow
  <2> QED
    BY <1>2, <2>1, LinksStay DEF LinkExpires, GoesOn
<1>3. ASSUME NEW c \in Calls, Abandon(c)
      PROVE  LinkSound'
  BY <1>3, EndsAndBegins, LinksStay DEF Abandon
<1> QED
  BY <1>1, <1>2, <1>3 DEF LockLapses, TemporaryExpires, ProvisionTenant, CreateStaff

\* Every step keeps the links sound when changes of one account do not overlap.
LEMMA NextUses ==
    ASSUME Typed, LinkSound, "changes" \notin Overlaps, [Next]_vars
    PROVE  LinkSound'
<1>1. ASSUME NEW c \in Calls, Statement(c) \/ Request(c)
      PROVE  LinkSound'
  BY <1>1, StatementUses, RequestUses
<1>2. CASE UNCHANGED vars \/ (MailNext /\ UNCHANGED accountVars)
  BY <1>2, OtherUses DEF vars, accountVars
<1> QED
  BY <1>1, <1>2, OtherUses DEF Next

LEMMA InitLinks == Init => LinkSound
<1> SUFFICES ASSUME Init PROVE LinkSound
  OBVIOUS
<1>1. \A l \in Links : uses[l] = 0 /\ link[l].of = {}
  BY DEF Init
<1>2. \A c \in Calls : call[c].op = "idle"
  BY DEF Init, Idle
<1> QED
  BY <1>1, <1>2 DEF LinkSound
-----------------------------------------------------------------------------
(* What is on file *)

\* The newest password is put before those that are kept.
LEMMA OnFileIs ==
    ASSUME NEW u, NEW p \in Passwords, history[u] \in Seq(Passwords)
    PROVE  LET k == IF Len(history[u]) < HistoryLimit - 1 THEN Len(history[u])
                    ELSE HistoryLimit - 1
           IN  /\ OnFile(u, p) \in Seq(Passwords)
               /\ Len(OnFile(u, p)) = k + 1
               /\ OnFile(u, p)[1] = p
               /\ \A i \in 2..k + 1 : OnFile(u, p)[i] = history[u][i - 1]
<1> DEFINE k == IF Len(history[u]) < HistoryLimit - 1 THEN Len(history[u])
                ELSE HistoryLimit - 1
           kept == SubSeq(history[u], 1, k)
<1>1. HistoryLimit \in Nat /\ HistoryLimit > 0 /\ Len(history[u]) \in Nat
  BY AccountsAssumption
<1>2. k \in Nat /\ k <= Len(history[u]) /\ k < HistoryLimit
  BY <1>1
<1>3. Min({Len(history[u]), HistoryLimit - 1}) = k
  BY <1>1 DEF Min
<1>4. OnFile(u, p) = <<p>> \o kept
  BY <1>3 DEF OnFile
<1>5. \A i \in 1..k : history[u][i] \in Passwords
  BY <1>2
<1> HIDE DEF k
<1>6. /\ kept \in Seq(Passwords) /\ Len(kept) = k
      /\ \A i \in 1..k : kept[i] = history[u][i]
  BY <1>2, <1>5, SubSeqProperties
<1> HIDE DEF kept
<1>7. /\ <<p>> \o kept \in Seq(Passwords) /\ Len(<<p>> \o kept) = k + 1
      /\ (<<p>> \o kept)[1] = p
      /\ \A i \in 2..k + 1 : (<<p>> \o kept)[i] = kept[i - 1]
  BY <1>2, <1>6
<1>8. \A i \in 2..k + 1 : i - 1 \in 1..k
  BY <1>2
<1>9. /\ OnFile(u, p) \in Seq(Passwords) /\ Len(OnFile(u, p)) = k + 1 /\ OnFile(u, p)[1] = p
      /\ \A i \in 2..k + 1 : OnFile(u, p)[i] = history[u][i - 1]
  BY <1>4, <1>6, <1>7, <1>8
<1> QED
  BY <1>9 DEF k

\* The password of a request that gives one.
\* Wherever its createdAt puts the new password, the file is one of passwords, of which no more
\* are read than the limit.
LEMMA FiledIs ==
    ASSUME NEW u, NEW p \in Passwords, history[u] \in Seq(Passwords), NEW f \in Filed(u, p)
    PROVE  /\ f \in Seq(Passwords) /\ Len(f) <= HistoryLimit
           /\ "changes" \notin Overlaps => f = OnFile(u, p) /\ f[1] = p
<1>1. HistoryLimit \in Nat /\ HistoryLimit > 0 /\ Len(history[u]) \in Nat
  BY AccountsAssumption
<1>2. CASE "changes" \notin Overlaps
  <2>1. f = OnFile(u, p)
    BY <1>2 DEF Filed
  <2> QED
    BY <1>1, <2>1, OnFileIs
<1>3. CASE "changes" \in Overlaps
  <2> DEFINE h == history[u]
  <2>1. PICK i \in 1..Len(h) + 1 :
          f = SubSeq(InsertAt(h, i, p), 1, Min({Len(h) + 1, HistoryLimit}))
    BY <1>3 DEF Filed
  <2>2. i \in Int /\ i - 1 \in Int /\ 1 <= i /\ i <= Len(h) + 1
    BY <1>1
  <2> HIDE DEF h
  <2>3. h \in Seq(Passwords) /\ Len(h) \in Nat
    BY <1>1 DEF h
  <2>4. PICK m \in Nat : /\ m = Min({Len(h) + 1, HistoryLimit})
                         /\ m <= Len(h) + 1 /\ m <= HistoryLimit
    BY <1>1, <2>3 DEF Min
  <2>5. PICK a \in Seq(Passwords) : a = SubSeq(h, 1, i - 1) /\ Len(a) = i - 1
    <3>1. \A k \in 1..i - 1 : h[k] \in Passwords
      BY <2>2, <2>3
    <3>2. SubSeq(h, 1, i - 1) \in Seq(Passwords) /\ Len(SubSeq(h, 1, i - 1)) = i - 1
      BY <2>2, <3>1, SubSeqProperties
    <3> QED
      BY <3>2
  <2>6. PICK b \in Seq(Passwords) : b = SubSeq(h, i, Len(h)) /\ Len(b) = Len(h) - i + 1
    <3>1. \A k \in i..Len(h) : h[k] \in Passwords
      BY <2>2, <2>3
    <3>2. /\ SubSeq(h, i, Len(h)) \in Seq(Passwords)
          /\ Len(SubSeq(h, i, Len(h))) = Len(h) - i + 1
      BY <2>2, <2>3, <3>1, SubSeqProperties
    <3> QED
      BY <3>2
  <2>7. InsertAt(h, i, p) = a \o <<p>> \o b
    BY <2>5, <2>6 DEF InsertAt
  <2>8. PICK g \in Seq(Passwords) : g = InsertAt(h, i, p) /\ Len(g) = Len(h) + 1
    <3>1. a \o <<p>> \in Seq(Passwords) /\ Len(a \o <<p>>) = i
      BY <2>2, <2>5
    <3>2. a \o <<p>> \o b \in Seq(Passwords) /\ Len(a \o <<p>> \o b) = i + Len(b)
      BY <3>1, ConcatProperties
    <3>3. Len(h) + 1 = i + Len(b)
      BY <2>2, <2>3, <2>6
    <3> QED
      BY <2>7, <3>2, <3>3
  <2>9. \A k \in 1..m : g[k] \in Passwords
    BY <2>3, <2>4, <2>8
  <2>10. SubSeq(g, 1, m) \in Seq(Passwords) /\ Len(SubSeq(g, 1, m)) = m
    <3>1. /\ SubSeq(g, 1, m) \in Seq(Passwords)
          /\ Len(SubSeq(g, 1, m)) = IF 1 <= m THEN m - 1 + 1 ELSE 0
      BY <2>9, SubSeqProperties
    <3> QED
      BY <3>1
  <2>11. f = SubSeq(g, 1, m)
    BY <2>1, <2>4, <2>8
  <2> QED
    BY <1>3, <2>4, <2>10, <2>11
<1> QED
  BY <1>2, <1>3

LEMMA GivenPassword ==
    ASSUME NEW p
    PROVE  Given({p}, {}) = p
BY DEF Given

\* What is on file of one account: no more than is kept, nothing of one that is none, and
\* the newest is the one in use if changes do not overlap.
KeptOf(u) ==
    /\ history[u] \in Seq(Passwords) /\ Len(history[u]) <= HistoryLimit
    /\ user[u].must <=> user[u].temp # "none"
    /\ user[u].pwd = {} => history[u] = <<>>
    /\ "changes" \notin Overlaps /\ history[u] # <<>> => user[u].pwd = {history[u][1]}

\* ... and of all; a request to edit an account asks for the password it was begun with.
Kept == /\ DOMAIN history = Users
        /\ \A u \in Users : KeptOf(u)
        /\ \A c \in Calls : call[c].op = "edit" => call[c].pwd = call[c].edit.pwd
        /\ lapsed \subseteq Users

\* Where the rows and the files stay.
LEMMA KeptUntouched ==
    ASSUME Typed, Kept, UNCHANGED <<history, user>>, lapsed' \subseteq Users,
           \A c \in Calls : call'[c].op = "edit" =>
              \/ call'[c].pwd = call'[c].edit.pwd
              \/ call[c].op = "edit" /\ call'[c].pwd = call[c].pwd /\ call'[c].edit = call[c].edit
    PROVE  Kept'
BY DEF Kept, KeptOf

\* A row is written, and on file is what belongs to it.
LEMMA KeptWritten ==
    ASSUME Typed, Kept, NEW u \in Users, NEW row,
           user' = [user EXCEPT ![u] = row], row.must <=> row.temp # "none",
           \/ history' = history /\ (row.pwd = user[u].pwd \/ history[u] = <<>>)
           \/ \E p \in Passwords : /\ row.pwd = {p}
                                   /\ \/ history' = [history EXCEPT ![u] = <<p>>]
                                      \/ \E f \in Filed(u, p) :
                                           history' = [history EXCEPT ![u] = f],
           lapsed' \subseteq Users,
           \A c \in Calls : call'[c].op = "edit" => call'[c] = call[c]
    PROVE  Kept'
<1>1. user'[u] = row /\ \A v \in Users : v # u => user'[v] = user[v]
  BY DEF Typed
<1>2. DOMAIN history' = Users /\ \A v \in Users : v # u => history'[v] = history[v]
  BY DEF Kept
<1>3. KeptOf(u)
  BY DEF Kept
<1>4. KeptOf(u)'
  <2>1. CASE history' = history /\ (row.pwd = user[u].pwd \/ history[u] = <<>>)
    BY <1>1, <1>3, <2>1 DEF KeptOf
  <2>2. ASSUME NEW p \in Passwords, row.pwd = {p}, history' = [history EXCEPT ![u] = <<p>>]
        PROVE  KeptOf(u)'
    <3>1. history'[u] = <<p>>
      BY <2>2 DEF Kept
    <3>2. <<p>> \in Seq(Passwords) /\ Len(<<p>>) = 1 /\ <<p>>[1] = p
      OBVIOUS
    <3>3. HistoryLimit \in Nat /\ HistoryLimit > 0
      BY AccountsAssumption
    <3>4. history'[u] \in Seq(Passwords) /\ Len(history'[u]) <= HistoryLimit
      <4>1. 1 <= HistoryLimit
        BY <3>3
      <4> QED
        BY <3>1, <3>2, <4>1
    <3>5. user'[u].pwd = {history'[u][1]} /\ (user'[u].must <=> user'[u].temp # "none")
      BY <1>1, <2>2, <3>1, <3>2
    <3> QED
      BY <3>4, <3>5 DEF KeptOf
  <2>3. ASSUME NEW p \in Passwords, row.pwd = {p}, NEW f \in Filed(u, p),
               history' = [history EXCEPT ![u] = f]
        PROVE  KeptOf(u)'
    <3>1. history'[u] = f
      BY <2>3 DEF Kept
    <3>2. /\ f \in Seq(Passwords) /\ Len(f) <= HistoryLimit
          /\ "changes" \notin Overlaps => f[1] = p
      BY <1>3, FiledIs DEF KeptOf
    <3> QED
      BY <1>1, <2>3, <3>1, <3>2 DEF KeptOf
  <2> QED
    BY <2>1, <2>2, <2>3
<1>5. \A v \in Users : v # u => KeptOf(v)'
  BY <1>1, <1>2 DEF Kept, KeptOf
<1>6. \A c \in Calls : call'[c].op = "edit" => call'[c].pwd = call'[c].edit.pwd
  BY DEF Kept
<1> QED
  BY <1>2, <1>4, <1>5, <1>6 DEF Kept

\* A request that ends, or begins and is no edit, leaves the edits as they are.
LEMMA EditsStay ==
    ASSUME Typed, NEW c \in Calls,
           \/ End(c)
           \/ \E r : r.op # "edit" /\ Begin(c, r)
    PROVE  \A d \in Calls : call'[d].op = "edit" => call'[d] = call[d]
<1>1. CASE End(c)
  BY <1>1 DEF Typed, End, Idle
<1>2. ASSUME NEW r, r.op # "edit", Begin(c, r)
      PROVE  \A d \in Calls : call'[d].op = "edit" => call'[d] = call[d]
  BY <1>2 DEF Typed, Begin
<1> QED
  BY <1>1, <1>2

\* What an edit writes: all of a new password or nothing of it.
EditedRow(u, e) ==
    [user[u] EXCEPT !.role = Given(e.role, user[u].role),
                    !.active = Given(e.active, user[u].active),
                    !.pwd = IF e.pwd = {} THEN user[u].pwd ELSE e.pwd,
                    !.temp = IF e.pwd = {} THEN user[u].temp ELSE "live",
                    !.must = IF e.pwd = {} THEN user[u].must ELSE TRUE]

LEMMA EditWrites ==
    ASSUME Typed, NEW c \in Calls, EditWrite(c)
    PROVE  LET u == call[c].of  e == call[c].edit  row == EditedRow(u, e)
           IN  /\ u \in Users /\ e \in Edits /\ call[c].op = "edit"
               /\ user' = [user EXCEPT ![u] = row]
               /\ row.role = Given(e.role, user[u].role)
               /\ row.active = Given(e.active, user[u].active)
               /\ row.pwd = IF e.pwd = {} THEN user[u].pwd ELSE e.pwd
               /\ row.temp = IF e.pwd = {} THEN user[u].temp ELSE "live"
               /\ row.must = IF e.pwd = {} THEN user[u].must ELSE TRUE
               /\ row.fails = user[u].fails /\ row.lock = user[u].lock
               /\ e.pwd = {} => history' = history
               /\ e.pwd # {} => \E p \in Passwords :
                    /\ e.pwd = {p}
                    /\ \E f \in Filed(u, p) : history' = [history EXCEPT ![u] = f]
<1> DEFINE u == call[c].of  e == call[c].edit  row == EditedRow(u, e)
<1>1. u \in Users /\ e \in Edits /\ call[c].op = "edit" /\ user[u] \in Rows
  BY OpTells DEF EditWrite, Is, EditCall, Typed
<1>2. user' = [user EXCEPT ![u] = row]
  BY <1>1 DEF EditWrite, Typed, Rows, EditedRow
<1>3. /\ row.role = Given(e.role, user[u].role)
      /\ row.active = Given(e.active, user[u].active)
      /\ row.pwd = IF e.pwd = {} THEN user[u].pwd ELSE e.pwd
      /\ row.temp = IF e.pwd = {} THEN user[u].temp ELSE "live"
      /\ row.must = IF e.pwd = {} THEN user[u].must ELSE TRUE
      /\ row.fails = user[u].fails /\ row.lock = user[u].lock
  BY <1>1 DEF Rows, EditedRow
<1>4. \/ e.pwd = {} /\ history' = history
      \/ /\ e.pwd # {}
         /\ \E f \in Filed(u, Given(e.pwd, {})) : history' = [history EXCEPT ![u] = f]
  BY DEF EditWrite
<1>5. /\ e.pwd \subseteq Passwords
      /\ \A p, q \in e.pwd : p = q
  <2>1. /\ Edits \subseteq [role : SUBSET Roles, active : SUBSET BOOLEAN, pwd : SUBSET Passwords]
        /\ \A f \in Edits : \A p, q \in f.pwd : p = q
    BY AccountsAssumption
  <2> QED
    BY <1>1, <2>1
<1>6. e.pwd # {} => \E p \in Passwords :
                      /\ e.pwd = {p}
                      /\ \E f \in Filed(u, p) : history' = [history EXCEPT ![u] = f]
  <2> SUFFICES ASSUME e.pwd # {}
               PROVE  \E p \in Passwords :
                        /\ e.pwd = {p}
                        /\ \E f \in Filed(u, p) : history' = [history EXCEPT ![u] = f]
    OBVIOUS
  <2>1. PICK p \in e.pwd : TRUE
    OBVIOUS
  <2>2. p \in Passwords /\ e.pwd = {p}
    BY <1>5, <2>1
  <2>3. Given(e.pwd, {}) = p
    BY <2>2, GivenPassword
  <2> QED
    BY <1>4, <2>2, <2>3
<1> HIDE DEF row
<1> QED
  BY <1>1, <1>2, <1>3, <1>4, <1>6 DEF row

\* A reset writes all of a new password.
ResetRow(u, p) == [user[u] EXCEPT !.pwd = {p}, !.fails = 0, !.lock = FALSE,
                                  !.temp = "none", !.must = FALSE]

LEMMA ResetWrites ==
    ASSUME Typed, NEW c \in Calls, ResetWrite(c)
    PROVE  /\ call[c] \in ResetCall /\ call[c].op = "reset" /\ call[c].of \in Users
           /\ \E p \in Passwords :
                /\ call[c].pwd = {p}
                /\ user' = [user EXCEPT ![call[c].of] = ResetRow(call[c].of, p)]
                /\ \E f \in Filed(call[c].of, p) :
                     history' = [history EXCEPT ![call[c].of] = f]
                /\ ResetRow(call[c].of, p).pwd = {p}
                /\ ResetRow(call[c].of, p).temp = "none" /\ ~ResetRow(call[c].of, p).must
                /\ ResetRow(call[c].of, p).active = user[call[c].of].active
<1> DEFINE u == call[c].of
<1>1. call[c] \in ResetCall /\ call[c].op = "reset" /\ u \in Users /\ user[u] \in Rows
  BY OpTells DEF ResetWrite, Is, ResetCall, Typed
<1>2. PICK p \in Passwords : call[c].pwd = {p}
  BY <1>1 DEF ResetCall
<1>3. Given(call[c].pwd, {}) = p
  BY <1>2, GivenPassword
<1>4. /\ user' = [user EXCEPT ![u] = ResetRow(u, p)]
      /\ \E f \in Filed(u, p) : history' = [history EXCEPT ![u] = f]
  BY <1>2, <1>3 DEF ResetWrite, ResetRow
<1>5. /\ ResetRow(u, p).pwd = {p} /\ ResetRow(u, p).temp = "none" /\ ~ResetRow(u, p).must
      /\ ResetRow(u, p).active = user[u].active
  BY <1>1 DEF ResetRow, Rows
<1> QED
  BY <1>1, <1>2, <1>4, <1>5

LEMMA StatementKeeps ==
    ASSUME Typed, Kept, NEW c \in Calls, Statement(c)
    PROVE  Kept'
<1>0. lapsed \subseteq Users
  BY DEF Kept
<1>1. CASE LoginWrong(c)
  <2> DEFINE u == call[c].of
             row == [user[u] EXCEPT !.fails = user[u].fails + 1,
                                    !.lock = call[c].read >= LockAfter - 1]
  <2>1. u \in Users /\ user[u] \in Rows
    BY <1>1, OpTells DEF LoginWrong, Is, LoginCall, Typed
  <2>2. user' = [user EXCEPT ![u] = row] /\ lapsed' \subseteq Users /\ End(c) /\ history' = history
    BY <1>0, <1>1, <2>1 DEF LoginWrong, Typed, Rows
  <2>3. row.pwd = user[u].pwd /\ row.must = user[u].must /\ row.temp = user[u].temp
    BY <2>1 DEF Rows
  <2>4. row.must <=> row.temp # "none"
    BY <2>1, <2>3 DEF Kept, KeptOf
  <2> HIDE DEF row
  <2> QED
    BY <2>1, <2>2, <2>3, <2>4, KeptWritten, EditsStay
<1>2. CASE LoginRight(c)
  <2> DEFINE u == call[c].of  row == [user[u] EXCEPT !.fails = 0, !.lock = FALSE]
  <2>1. u \in Users /\ user[u] \in Rows
    BY <1>2, OpTells DEF LoginRight, Is, LoginCall, Typed
  <2>2. user' = [user EXCEPT ![u] = row] /\ lapsed' \subseteq Users /\ End(c) /\ history' = history
    BY <1>0, <1>2 DEF LoginRight
  <2>3. row.pwd = user[u].pwd /\ row.must = user[u].must /\ row.temp = user[u].temp
    BY <2>1 DEF Rows
  <2>4. row.must <=> row.temp # "none"
    BY <2>1, <2>3 DEF Kept, KeptOf
  <2> HIDE DEF row
  <2> QED
    BY <2>1, <2>2, <2>3, <2>4, KeptWritten, EditsStay
<1>3. CASE Mail(c) \/ MailFails(c)
  <2>1. UNCHANGED <<history, user, lapsed>> /\ End(c)
    BY <1>3 DEF Mail, MailFails
  <2> QED
    BY <1>0, <2>1, KeptUntouched, EditsStay
<1>4. CASE CheckHistory(c)
  <2>1. UNCHANGED <<history, user, lapsed>> /\ (End(c) \/ Go(c, "write"))
    BY <1>4 DEF CheckHistory
  <2>2. call[c] \in ResetCall \cup EditCall
    BY <1>4, OpTells DEF CheckHistory
  <2>3. Go(c, "write") => \A d \in Calls : call'[d].op = "edit" =>
          call[d].op = "edit" /\ call'[d].pwd = call[d].pwd /\ call'[d].edit = call[d].edit
    BY <2>2 DEF Go, Typed, ResetCall, EditCall
  <2> QED
    BY <1>0, <2>1, <2>3, KeptUntouched, EditsStay
<1>5. CASE ResetWrite(c)
  <2> DEFINE u == call[c].of
  <2>1. u \in Users /\ End(c) /\ lapsed' \subseteq Users
    BY <1>0, <1>5, ResetWrites DEF ResetWrite
  <2>2. PICK p \in Passwords :
          /\ user' = [user EXCEPT ![u] = ResetRow(u, p)]
          /\ \E f \in Filed(u, p) : history' = [history EXCEPT ![u] = f]
          /\ ResetRow(u, p).pwd = {p}
          /\ ResetRow(u, p).must <=> ResetRow(u, p).temp # "none"
    BY <1>5, ResetWrites
  <2> QED
    BY <2>1, <2>2, KeptWritten, EditsStay
<1>6. CASE EditWrite(c)
  <2> DEFINE u == call[c].of  e == call[c].edit  row == EditedRow(u, e)
  <2>1. /\ u \in Users /\ user' = [user EXCEPT ![u] = row]
        /\ row.pwd = IF e.pwd = {} THEN user[u].pwd ELSE e.pwd
        /\ row.temp = IF e.pwd = {} THEN user[u].temp ELSE "live"
        /\ row.must = IF e.pwd = {} THEN user[u].must ELSE TRUE
        /\ e.pwd = {} => history' = history
        /\ e.pwd # {} => \E p \in Passwords :
             e.pwd = {p} /\ \E f \in Filed(u, p) : history' = [history EXCEPT ![u] = f]
    BY <1>6, EditWrites
  <2>2. End(c) /\ lapsed' \subseteq Users
    BY <1>0, <1>6 DEF EditWrite
  <2> HIDE DEF row
  <2>3. row.must <=> row.temp # "none"
    <3>1. user[u].must <=> user[u].temp # "none"
      BY <2>1 DEF Kept, KeptOf
    <3> QED
      BY <2>1, <3>1
  <2>4. \A d \in Calls : call'[d].op = "edit" => call'[d] = call[d]
    BY <2>2, EditsStay
  <2>5. CASE e.pwd = {}
    BY <2>1, <2>2, <2>3, <2>4, <2>5, KeptWritten
  <2>6. CASE e.pwd # {}
    <3>1. PICK p \in Passwords :
            e.pwd = {p} /\ \E f \in Filed(u, p) : history' = [history EXCEPT ![u] = f]
      BY <2>1, <2>6
    <3>2. row.pwd = {p}
      BY <2>1, <2>6, <3>1
    <3> QED
      BY <2>1, <2>2, <2>3, <2>4, <3>1, <3>2, KeptWritten
  <2> QED
    BY <2>5, <2>6
<1> QED
  BY <1>1, <1>2, <1>3, <1>4, <1>5, <1>6 DEF Statement

\* There is nothing on file of one who has no account.
LEMMA NothingOnFile ==
    ASSUME Kept, NEW u \in Users, ~Exists(u)
    PROVE  history[u] = <<>>
BY DEF Kept, KeptOf, Exists

LEMMA RequestKeeps ==
    ASSUME Typed, Kept, NEW c \in Calls, Request(c)
    PROVE  Kept'
<1>0. lapsed \subseteq Users
  BY DEF Kept
<1>1. ASSUME NEW r, Begin(c, r), UNCHANGED <<history, user, lapsed>>,
             r.op = "edit" => r.pwd = r.edit.pwd
      PROVE  Kept'
  <2>1. \A d \in Calls : call'[d] = IF d = c THEN r ELSE call[d]
    BY <1>1 DEF Begin, Typed
  <2> QED
    BY <1>0, <1>1, <2>1, KeptUntouched
<1>2. ASSUME NEW u \in Users, NEW p \in Passwords, Login(c, u, p)
      PROVE  Kept'
  <2> DEFINE r == [op |-> "login", at |-> "compare", of |-> u, right |-> p \in user[u].pwd,
                   read |-> user[u].fails]
  <2>1. Begin(c, r) /\ UNCHANGED <<history, user, lapsed>> /\ r.op # "edit"
    BY <1>2 DEF Login
  <2> HIDE DEF r
  <2> QED
    BY <1>1, <2>1
<1>3. ASSUME NEW u \in Users, NEW l \in Links, Forgot(c, u, l)
      PROVE  Kept'
  <2> DEFINE r == [op |-> "mail", at |-> "queue", of |-> u, link |-> l]
  <2>1. Begin(c, r) /\ UNCHANGED <<history, user, lapsed>> /\ r.op # "edit"
    BY <1>3 DEF Forgot
  <2> HIDE DEF r
  <2> QED
    BY <1>1, <2>1
<1>4. ASSUME NEW u \in Users, NEW actor \in Actors, NEW e \in Edits, Edit(c, u, actor, e)
      PROVE  Kept'
  <2> DEFINE r == [op |-> "edit", of |-> u, edit |-> e, pwd |-> e.pwd,
                   replaces |-> user[u].pwd, at |-> IF e.pwd = {} THEN "write" ELSE "history"]
  <2>1. Begin(c, r) /\ UNCHANGED <<history, user, lapsed>> /\ r.pwd = r.edit.pwd
    BY <1>4 DEF Edit
  <2> HIDE DEF r
  <2> QED
    BY <1>1, <2>1
<1>5. ASSUME NEW l \in Links, NEW p \in Passwords, Reset(c, l, p)
      PROVE  Kept'
  <2>1. PICK u \in link[l].of :
          Begin(c, [op |-> "reset", at |-> "history", of |-> u, link |-> l, pwd |-> {p},
                    replaces |-> user[u].pwd])
    BY <1>5 DEF Reset
  <2> DEFINE r == [op |-> "reset", at |-> "history", of |-> u, link |-> l, pwd |-> {p},
                   replaces |-> user[u].pwd]
  <2>2. Begin(c, r) /\ UNCHANGED <<history, user, lapsed>> /\ r.op # "edit"
    BY <1>5, <2>1 DEF Reset
  <2> HIDE DEF r
  <2> QED
    BY <1>1, <2>2
<1>6. ASSUME NEW u \in Users, NEW actor \in Actors, NEW role \in NewRoles, NEW p \in Passwords,
             NEW ls \in {{}} \cup {{l} : l \in Links}, Create(c, u, actor, role, p, ls)
      PROVE  Kept'
  <2>1. /\ user' = [user EXCEPT ![u] = Account(role, p, TRUE)] /\ lapsed' = lapsed
        /\ history' = [history EXCEPT ![u] = <<p>>]
        /\ \/ UNCHANGED call
           \/ \E l \in ls : Begin(c, [op |-> "mail", at |-> "queue", of |-> u, link |-> l])
    BY <1>6 DEF Create
  <2>2. \A d \in Calls : call'[d].op = "edit" => call'[d] = call[d]
    BY <2>1, EditsStay
  <2>3. /\ Account(role, p, TRUE).must <=> Account(role, p, TRUE).temp # "none"
        /\ Account(role, p, TRUE).pwd = {p}
    BY DEF Account
  <2> QED
    BY <1>0, <2>1, <2>2, <2>3, KeptWritten
<1> QED
  BY <1>2, <1>3, <1>4, <1>5, <1>6 DEF Request

LEMMA OtherKeeps ==
    ASSUME Typed, Kept,
           \/ \E u \in Users : \/ LockLapses(u) \/ TemporaryExpires(u)
                             \/ \E p \in Passwords : ProvisionTenant(u, p)
           \/ \E u \in Users, actor \in Actors, role \in NewRoles, p \in Passwords :
                 CreateStaff(u, actor, role, p)
           \/ \E l \in Links : LinkExpires(l)
           \/ \E c \in Calls : Abandon(c)
           \/ UNCHANGED <<user, history, call, lapsed>>
    PROVE  Kept'
<1>0. lapsed \subseteq Users
  BY DEF Kept
<1>1. ASSUME NEW u \in Users, LockLapses(u)
      PROVE  Kept'
  <2> DEFINE row == [user[u] EXCEPT !.lock = FALSE]
  <2>1. /\ user' = [user EXCEPT ![u] = row] /\ lapsed' \subseteq Users
        /\ call' = call /\ history' = history
    BY <1>0, <1>1 DEF LockLapses
  <2>2. row.pwd = user[u].pwd /\ row.must = user[u].must /\ row.temp = user[u].temp
    BY DEF Typed, Rows
  <2>3. row.must <=> row.temp # "none"
    BY <2>2 DEF Kept, KeptOf
  <2> HIDE DEF row
  <2> QED
    BY <2>1, <2>2, <2>3, KeptWritten
<1>2. ASSUME NEW u \in Users, TemporaryExpires(u)
      PROVE  Kept'
  <2> DEFINE row == [user[u] EXCEPT !.temp = "expired"]
  <2>1. /\ user' = [user EXCEPT ![u] = row] /\ lapsed' = lapsed
        /\ call' = call /\ history' = history /\ user[u].temp = "live"
    BY <1>2 DEF TemporaryExpires
  <2>2. row.pwd = user[u].pwd /\ row.must = user[u].must /\ row.temp = "expired"
    BY DEF Typed, Rows
  <2>3. row.must <=> row.temp # "none"
    BY <2>1, <2>2 DEF Kept, KeptOf
  <2> HIDE DEF row
  <2> QED
    BY <1>0, <2>1, <2>2, <2>3, KeptWritten
<1>3. ASSUME NEW u \in Users, NEW role, NEW p, NEW temporary \in BOOLEAN, ~Exists(u),
             user' = [user EXCEPT ![u] = Account(role, p, temporary)],
             UNCHANGED <<call, lapsed, history>>
      PROVE  Kept'
  <2>1. Account(role, p, temporary).must <=> Account(role, p, temporary).temp # "none"
    BY DEF Account
  <2> QED
    BY <1>0, <1>3, <2>1, NothingOnFile, KeptWritten
<1>4. ASSUME NEW u \in Users, NEW p \in Passwords, ProvisionTenant(u, p)
      PROVE  Kept'
  BY <1>3, <1>4 DEF ProvisionTenant
<1>5. ASSUME NEW u \in Users, NEW actor \in Actors, NEW role \in NewRoles, NEW p \in Passwords,
             CreateStaff(u, actor, role, p)
      PROVE  Kept'
  BY <1>3, <1>5 DEF CreateStaff
<1>6. CASE UNCHANGED <<user, history, call, lapsed>>
  BY <1>0, <1>6, KeptUntouched
<1>7. ASSUME NEW c \in Calls, Abandon(c)
      PROVE  Kept'
  <2>1. UNCHANGED <<history, user, lapsed>> /\ End(c)
    BY <1>7 DEF Abandon
  <2> QED
    BY <1>0, <2>1, KeptUntouched, EditsStay
<1> QED
  BY <1>1, <1>2, <1>4, <1>5, <1>6, <1>7 DEF LinkExpires

LEMMA NextKeeps ==
    ASSUME Typed, Kept, [Next]_vars
    PROVE  Kept'
<1>1. ASSUME NEW c \in Calls, Statement(c) \/ Request(c)
      PROVE  Kept'
  BY <1>1, StatementKeeps, RequestKeeps
<1>2. CASE UNCHANGED vars \/ (MailNext /\ UNCHANGED accountVars)
  BY <1>2, OtherKeeps DEF vars, accountVars
<1> QED
  BY <1>1, <1>2, OtherKeeps DEF Next

LEMMA InitKept == Init => Kept
<1> SUFFICES ASSUME Init PROVE Kept
  OBVIOUS
<1>1. HistoryLimit \in Nat /\ <<>> \in Seq(Passwords) /\ Len(<<>>) = 0
  BY AccountsAssumption
<1>2. ASSUME NEW u \in Users PROVE KeptOf(u)
  BY <1>1 DEF Init, NoAccount, KeptOf
<1> QED
  BY <1>2 DEF Init, Kept, Idle
-----------------------------------------------------------------------------
(* The mails *)

\* The job of one link: BullMQ counts no attempt and no stall of one that is given up.
MailOf(l) ==
    /\ mail[l] \in MailJob
    /\ l \in burying \cup graves => MailAt(l, {"failed"}) /\ mail[l].attemptsMade = MailAttempts
    /\ MailAt(l, {"accepted", "done"}) => l \in inbox
    /\ mail[l].attemptsMade = MailAttempts => MailAt(l, {"failed"})
    /\ mail[l].stalled > MaxStalled => MailAt(l, {"failed"})
    /\ l \in answered =>
         l \in inbox \/ MailAt(l, {"waiting", "active", "orphaned", "delayed", "failed"})

\* A link is queued by the one request that made it, and not before there is one.
Mailed ==
    /\ mail \in [Links -> MailJob] /\ crashes \in 0..MaxCrashes
    /\ inbox \subseteq Links /\ burying \subseteq Links /\ graves \subseteq Links
    /\ answered \subseteq Links
    /\ \A l \in Links : MailOf(l)
    /\ \A l \in Links : ~MailAt(l, {"none"}) => ~Unborn(l)
    /\ \A c \in Calls : call[c].op = "mail" =>
         MailAt(call[c].link, {"none"}) /\ ~Unborn(call[c].link)
    /\ \A c, d \in Calls : call[c].op = "mail" /\ call[d].op = "mail" /\ c # d =>
         call[c].link # call[d].link

\* What the worker, the mail server and BullMQ do with one job.
LEMMA MailStepOf ==
    ASSUME Mailed, NEW l \in Links, MailStep(l), answered' = answered
    PROVE  /\ mail' \in [Links -> MailJob] /\ MailOf(l)'
           /\ MailAt(l, {"none"})' = MailAt(l, {"none"})
           /\ \A k \in Links : k # l =>
                /\ mail'[k] = mail[k] /\ (k \in inbox') = (k \in inbox)
                /\ (k \in burying') = (k \in burying) /\ (k \in graves') = (k \in graves)
           /\ inbox' \subseteq Links /\ burying' \subseteq Links /\ graves' \subseteq Links
           /\ crashes' = crashes
<1>0. /\ MailAttempts \in Nat /\ MailAttempts > 0 /\ MaxStalled \in Nat
      /\ mail \in [Links -> MailJob] /\ mail[l] \in MailJob /\ MailOf(l)
      /\ inbox \subseteq Links /\ burying \subseteq Links /\ graves \subseteq Links
  BY Constants DEF Mailed
<1>1. ASSUME NEW at \in {"waiting", "active", "accepted", "done"},
             mail' = [mail EXCEPT ![l].at = at]
      PROVE  /\ mail' \in [Links -> MailJob] /\ mail'[l] \in MailJob
             /\ \A k \in Links : k # l => mail'[k] = mail[k]
             /\ mail'[l].at = at /\ mail'[l].attemptsMade = mail[l].attemptsMade
             /\ mail'[l].stalled = mail[l].stalled
  BY <1>0, <1>1 DEF MailJob
<1>2. CASE TakeMail(l)
  <2>1. /\ mail' = [mail EXCEPT ![l].at = "active"] /\ mail[l].at = "waiting"
        /\ UNCHANGED <<inbox, burying, graves, crashes>>
    BY <1>2 DEF TakeMail, MailAt
  <2> QED
    BY <1>0, <1>1, <2>1 DEF MailOf, MailAt
<1>3. CASE Accept(l)
  <2>1. /\ mail' = [mail EXCEPT ![l].at = "accepted"] /\ mail[l].at = "active"
        /\ inbox' = inbox \cup {l} /\ UNCHANGED <<burying, graves, crashes>>
    BY <1>3 DEF Accept, MailAt
  <2> QED
    BY <1>0, <1>1, <2>1 DEF MailOf, MailAt
<1>4. CASE Finish(l)
  <2>1. /\ mail' = [mail EXCEPT ![l].at = "done"] /\ mail[l].at = "accepted"
        /\ UNCHANGED <<inbox, burying, graves, crashes>>
    BY <1>4 DEF Finish, MailAt
  <2> QED
    BY <1>0, <1>1, <2>1 DEF MailOf, MailAt
<1>5. CASE FailMail(l)
  <2> DEFINE tries == mail[l].attemptsMade + 1
             at == IF tries < MailAttempts THEN "delayed" ELSE "failed"
  <2>1. /\ mail' = [mail EXCEPT ![l] = [mail[l] EXCEPT !.attemptsMade = tries, !.at = at]]
        /\ mail[l].at \in {"active", "accepted"}
        /\ burying' = IF mail'[l].at = "failed" THEN burying \cup {l} ELSE burying
        /\ UNCHANGED <<inbox, graves, crashes>>
    BY <1>0, <1>5 DEF FailMail, MayFail, MailAt, MailJob
  <2>2. mail[l].attemptsMade \in 0..MailAttempts /\ mail[l].attemptsMade # MailAttempts
    BY <1>0, <2>1 DEF MailOf, MailAt, MailJob
  <2>3. tries \in 0..MailAttempts /\ (at = "failed" <=> tries = MailAttempts)
    BY <1>0, <2>2
  <2>4. /\ mail' \in [Links -> MailJob] /\ mail'[l] \in MailJob
        /\ \A k \in Links : k # l => mail'[k] = mail[k]
        /\ mail'[l].at = at /\ mail'[l].attemptsMade = tries
        /\ mail'[l].stalled = mail[l].stalled
    <3>1. at \in {"delayed", "failed"}
      OBVIOUS
    <3> HIDE DEF tries, at
    <3> QED
      BY <1>0, <2>1, <2>3, <3>1 DEF MailJob
  <2>5. at \in {"delayed", "failed"}
    OBVIOUS
  <2>6. l \notin graves
    BY <1>0, <2>1 DEF MailOf, MailAt
  <2> HIDE DEF tries, at
  <2>7. MailOf(l)'
    BY <1>0, <2>1, <2>3, <2>4, <2>5, <2>6 DEF MailOf, MailAt
  <2> QED
    BY <1>0, <2>1, <2>4, <2>5, <2>7 DEF MailAt
<1>6. CASE BackoffMail(l)
  <2>1. /\ mail' = [mail EXCEPT ![l].at = "waiting"] /\ mail[l].at = "delayed"
        /\ UNCHANGED <<inbox, burying, graves, crashes>>
    BY <1>6 DEF BackoffMail, MailAt
  <2> QED
    BY <1>0, <1>1, <2>1 DEF MailOf, MailAt
<1>7. CASE BuryMail(l)
  <2>1. /\ l \in burying /\ burying' = burying \ {l} /\ mail' = mail
        /\ graves' = graves \cup {l} \/ graves' = graves
        /\ UNCHANGED <<inbox, crashes>>
    BY <1>7 DEF BuryMail
  <2>2. MailOf(l)'
    BY <1>0, <2>1 DEF MailOf, MailAt
  <2> QED
    BY <1>0, <2>1, <2>2 DEF MailAt
<1>8. CASE RecoverMail(l)
  <2> DEFINE stalls == mail[l].stalled + 1
             at == IF mail[l].stalled < MaxStalled THEN "waiting" ELSE "failed"
  <2>1. /\ mail' = [mail EXCEPT ![l] = [mail[l] EXCEPT !.stalled = stalls, !.at = at]]
        /\ mail[l].at = "orphaned"
        /\ UNCHANGED <<inbox, burying, graves, crashes>>
    BY <1>0, <1>8 DEF RecoverMail, MailAt, MailJob
  <2>2. mail[l].stalled \in 0..MaxStalled + 1 /\ ~(mail[l].stalled > MaxStalled)
    BY <1>0, <2>1 DEF MailOf, MailAt, MailJob
  <2>3. stalls \in 0..MaxStalled + 1 /\ (stalls > MaxStalled => at = "failed")
    BY <1>0, <2>2
  <2>4. at \in {"waiting", "failed"}
    OBVIOUS
  <2> HIDE DEF stalls, at
  <2>5. /\ mail' \in [Links -> MailJob] /\ mail'[l] \in MailJob
        /\ \A k \in Links : k # l => mail'[k] = mail[k]
        /\ mail'[l].at = at /\ mail'[l].attemptsMade = mail[l].attemptsMade
        /\ mail'[l].stalled = stalls
    BY <1>0, <2>1, <2>3, <2>4 DEF MailJob
  <2>6. MailOf(l)'
    BY <1>0, <2>1, <2>3, <2>4, <2>5 DEF MailOf, MailAt
  <2> QED
    BY <1>0, <2>1, <2>4, <2>5, <2>6 DEF MailAt
<1> QED
  BY <1>2, <1>3, <1>4, <1>5, <1>6, <1>7, <1>8 DEF MailStep

LEMMA MailNextMails ==
    ASSUME Typed, Mailed, MailNext, UNCHANGED accountVars
    PROVE  Mailed'
<1>0. UNCHANGED <<link, call, answered>>
  BY DEF accountVars
<1>1. \A c \in Calls : call[c].op = "mail" => call[c].link \in Links
  BY OpTells DEF MailCall
<1>2. ASSUME NEW l \in Links, MailStep(l)
      PROVE  Mailed'
  <2>1. /\ mail' \in [Links -> MailJob] /\ MailOf(l)'
        /\ MailAt(l, {"none"})' = MailAt(l, {"none"})
        /\ \A k \in Links : k # l =>
             /\ mail'[k] = mail[k] /\ (k \in inbox') = (k \in inbox)
             /\ (k \in burying') = (k \in burying) /\ (k \in graves') = (k \in graves)
        /\ inbox' \subseteq Links /\ burying' \subseteq Links /\ graves' \subseteq Links
        /\ crashes' = crashes
    BY <1>0, <1>2, MailStepOf
  <2>2. ASSUME NEW k \in Links, k # l PROVE MailOf(k)'
    <3>1. MailOf(k)
      BY DEF Mailed
    <3> QED
      BY <1>0, <2>1, <2>2, <3>1 DEF MailOf, MailAt
  <2>3. \A k \in Links : MailAt(k, {"none"})' = MailAt(k, {"none"})
    BY <2>1 DEF MailAt
  <2>4. \A k \in Links : Unborn(k)' = Unborn(k)
    BY <1>0 DEF Unborn
  <2>5. /\ \A k \in Links : ~MailAt(k, {"none"})' => ~Unborn(k)'
        /\ \A c \in Calls : call'[c].op = "mail" =>
             mail'[call'[c].link].at \in {"none"} /\ link'[call'[c].link].of # {}
    BY <1>0, <1>1, <2>3, <2>4 DEF Mailed, MailAt, Unborn
  <2> QED
    BY <1>0, <2>1, <2>2, <2>5 DEF Mailed, MailAt, Unborn
<1>3. CASE CrashWorker
  <2>1. /\ crashes' \in 0..MaxCrashes /\ burying' = {} /\ UNCHANGED <<inbox, graves>>
    BY <1>3, Constants DEF CrashWorker, Mailed
  <2>2. mail' = [l \in Links |-> IF MailAt(l, {"active", "accepted"})
                                 THEN [mail[l] EXCEPT !.at = "orphaned"] ELSE mail[l]]
    BY <1>3 DEF CrashWorker
  <2>3. ASSUME NEW l \in Links
        PROVE  /\ mail'[l] \in MailJob /\ MailOf(l)'
               /\ MailAt(l, {"none"})' = MailAt(l, {"none"})
    <3>1. MailOf(l) /\ mail[l] \in MailJob
      BY DEF Mailed
    <3>2. /\ mail'[l].at = IF mail[l].at \in {"active", "accepted"} THEN "orphaned" ELSE mail[l].at
          /\ mail'[l].attemptsMade = mail[l].attemptsMade /\ mail'[l].stalled = mail[l].stalled
          /\ mail'[l] \in MailJob
      BY <2>2, <3>1 DEF MailAt, MailJob
    <3> QED
      BY <1>0, <2>1, <3>1, <3>2 DEF MailOf, MailAt
  <2>4. mail' \in [Links -> MailJob]
    BY <2>2, <2>3
  <2>5. /\ \A k \in Links : ~MailAt(k, {"none"})' => ~Unborn(k)'
        /\ \A c \in Calls : call'[c].op = "mail" =>
             mail'[call'[c].link].at \in {"none"} /\ link'[call'[c].link].of # {}
    BY <1>0, <1>1, <2>3 DEF Mailed, MailAt, Unborn
  <2> QED
    BY <1>0, <2>1, <2>3, <2>4, <2>5 DEF Mailed, MailAt, Unborn
<1> QED
  BY <1>2, <1>3 DEF MailNext

\* Where the queue stays: links are only added, and no request to mail one begins.
LEMMA MailsUntouched ==
    ASSUME Typed, Mailed, UNCHANGED <<mail, inbox, burying, graves, answered>>,
           crashes' \in 0..MaxCrashes,
           \A l \in Links : ~Unborn(l) => ~Unborn(l)',
           \A c \in Calls : call'[c].op = "mail" =>
             call[c].op = "mail" /\ call'[c].link = call[c].link
    PROVE  Mailed'
<1>1. \A c \in Calls : call[c].op = "mail" => call[c].link \in Links
  BY OpTells DEF MailCall
<1>2. \A l \in Links : MailOf(l)'
  BY DEF Mailed, MailOf, MailAt
<1>3. /\ \A l \in Links : ~MailAt(l, {"none"})' => ~Unborn(l)'
      /\ \A c \in Calls : call'[c].op = "mail" =>
           mail'[call'[c].link].at \in {"none"} /\ link'[call'[c].link].of # {}
  BY <1>1 DEF Mailed, MailAt, Unborn
<1> QED
  BY <1>2, <1>3 DEF Mailed, MailAt, Unborn

\* A link is made, and with it the request that will queue it.
LEMMA LinkMade ==
    ASSUME Typed, Mailed, NEW c \in Calls, NEW u \in Users, NEW l \in Links,
           Unborn(l), link' = [link EXCEPT ![l] = Born(u)], UNCHANGED <<mailVars, answered>>,
           Begin(c, [op |-> "mail", at |-> "queue", of |-> u, link |-> l])
    PROVE  Mailed'
<1> DEFINE r == [op |-> "mail", at |-> "queue", of |-> u, link |-> l]
<1>1. \A d \in Calls : call'[d] = IF d = c THEN r ELSE call[d]
  BY DEF Begin, Typed
<1>2. \A k \in Links : link'[k] = IF k = l THEN Born(u) ELSE link[k]
  BY DEF Typed
<1>3. Born(u).of # {} /\ r.op = "mail" /\ r.link = l
  BY DEF Born
<1>4. \A d \in Calls : call[d].op = "mail" => call[d].link \in Links /\ call[d].link # l
  BY OpTells DEF MailCall, Mailed
<1>5. MailAt(l, {"none"})
  BY DEF Mailed
<1> HIDE DEF r
<1>6. UNCHANGED <<mail, inbox, burying, graves, crashes, answered>>
  BY DEF mailVars
<1>7. \A k \in Links : MailOf(k)'
  BY <1>6 DEF Mailed, MailOf, MailAt
<1>8. /\ \A k \in Links : ~MailAt(k, {"none"})' => ~Unborn(k)'
      /\ \A d \in Calls : call'[d].op = "mail" =>
           mail'[call'[d].link].at \in {"none"} /\ link'[call'[d].link].of # {}
      /\ \A d, e \in Calls : call'[d].op = "mail" /\ call'[e].op = "mail" /\ d # e =>
           call'[d].link # call'[e].link
  <2>1. \A k \in Links : ~MailAt(k, {"none"})' => ~Unborn(k)'
    BY <1>2, <1>3, <1>6 DEF Mailed, MailAt, Unborn
  <2>2. \A d \in Calls : call'[d].op = "mail" =>
           mail'[call'[d].link].at \in {"none"} /\ link'[call'[d].link].of # {}
    BY <1>1, <1>2, <1>3, <1>4, <1>5, <1>6 DEF Mailed, MailAt, Unborn
  <2>3. \A d, e \in Calls : call'[d].op = "mail" /\ call'[e].op = "mail" /\ d # e =>
           call'[d].link # call'[e].link
    BY <1>1, <1>3, <1>4 DEF Mailed
  <2> QED
    BY <2>1, <2>2, <2>3
<1> QED
  BY <1>6, <1>7, <1>8 DEF Mailed, MailAt, Unborn

\* The request puts it in the queue, where it was not, and is answered.
LEMMA MailQueues ==
    ASSUME Typed, Mailed, NEW c \in Calls, Mail(c)
    PROVE  Mailed'
<1>0. call[c].op = "mail" /\ call[c].link \in Links
  BY OpTells DEF Mail, Is, MailCall
<1>. PICK l \in Links : l = call[c].link
  BY <1>0
<1>1. call[c].op = "mail" /\ l = call[c].link /\ MailAt(l, {"none"}) /\ ~Unborn(l)
  BY <1>0 DEF Mailed
<1>2. /\ mail' = [mail EXCEPT ![l].at = "waiting"] /\ answered' = answered \cup {l}
      /\ UNCHANGED <<inbox, burying, graves, crashes, link>>
  BY DEF Mail, Queue
<1>3. \A d \in Calls : call'[d] = IF d = c THEN Idle ELSE call[d]
  BY DEF Mail, End, Typed
<1>4. \A d \in Calls : call[d].op = "mail" /\ d # c => call[d].link \in Links /\ call[d].link # l
  BY <1>1, OpTells DEF MailCall, Mailed
<1>5. mail \in [Links -> MailJob]
  BY DEF Mailed
<1>6. /\ mail' \in [Links -> MailJob] /\ mail'[l] \in MailJob /\ mail'[l].at = "waiting"
      /\ mail'[l].attemptsMade = mail[l].attemptsMade /\ mail'[l].stalled = mail[l].stalled
      /\ \A k \in Links : k # l => mail'[k] = mail[k]
  BY <1>1, <1>2, <1>5 DEF MailJob
<1>7. MailOf(l)'
  <2>1. MailOf(l)
    BY <1>1 DEF Mailed
  <2>2. /\ mail[l].at = "none" /\ mail[l].attemptsMade # MailAttempts
        /\ ~(mail[l].stalled > MaxStalled) /\ l \notin burying \cup graves
    BY <1>1, <2>1 DEF MailOf, MailAt
  <2> QED
    BY <1>2, <1>6, <2>2 DEF MailOf, MailAt
<1>8. ASSUME NEW k \in Links, k # l PROVE MailOf(k)'
  <2>1. MailOf(k)
    BY DEF Mailed
  <2> QED
    BY <1>2, <1>6, <1>8, <2>1 DEF MailOf, MailAt
<1>9. /\ \A k \in Links : ~MailAt(k, {"none"})' => ~Unborn(k)'
      /\ \A d \in Calls : call'[d].op = "mail" =>
           mail'[call'[d].link].at \in {"none"} /\ link'[call'[d].link].of # {}
      /\ \A d, e \in Calls : call'[d].op = "mail" /\ call'[e].op = "mail" /\ d # e =>
           call'[d].link # call'[e].link
  <2>1. \A k \in Links : ~MailAt(k, {"none"})' => ~Unborn(k)'
    BY <1>1, <1>2, <1>6 DEF Mailed, MailAt, Unborn
  <2>2. \A d \in Calls : call'[d].op = "mail" =>
          d # c /\ call'[d] = call[d] /\ call[d].op = "mail"
    BY <1>3 DEF Idle
  <2>3. \A d \in Calls : call'[d].op = "mail" =>
           mail'[call'[d].link].at \in {"none"} /\ link'[call'[d].link].of # {}
    <3> SUFFICES ASSUME NEW d \in Calls, call'[d].op = "mail"
                 PROVE  mail'[call'[d].link].at \in {"none"} /\ link'[call'[d].link].of # {}
      OBVIOUS
    <3>1. /\ call'[d] = call[d] /\ call[d].op = "mail"
          /\ call[d].link \in Links /\ call[d].link # l
      BY <1>4, <2>2
    <3>2. mail[call[d].link].at \in {"none"} /\ link[call[d].link].of # {}
      BY <3>1 DEF Mailed, MailAt, Unborn
    <3> QED
      BY <1>2, <1>6, <3>1, <3>2
  <2>4. \A d, e \in Calls : call'[d].op = "mail" /\ call'[e].op = "mail" /\ d # e =>
           call'[d].link # call'[e].link
    BY <2>2 DEF Mailed
  <2> QED
    BY <2>1, <2>3, <2>4
<1>10. /\ crashes' \in 0..MaxCrashes /\ answered' \subseteq Links
       /\ inbox' \subseteq Links /\ burying' \subseteq Links /\ graves' \subseteq Links
  BY <1>1, <1>2 DEF Mailed
<1> QED
  <2>1. \A k \in Links : MailOf(k)'
    BY <1>7, <1>8
  <2> QED
    BY <1>6, <1>9, <1>10, <2>1 DEF Mailed, MailAt, Unborn

\* What else a request, or its end, does to the requests that mail.
LEMMA NoMailBegins ==
    ASSUME Typed, NEW c \in Calls,
           \/ End(c)
           \/ \E r : r.op # "mail" /\ Begin(c, r)
           \/ call[c] \in ResetCall \cup EditCall /\ Go(c, "write")
           \/ UNCHANGED call
    PROVE  \A d \in Calls : call'[d].op = "mail" =>
              call[d].op = "mail" /\ call'[d].link = call[d].link
<1>1. CASE End(c)
  BY <1>1 DEF Typed, End, Idle
<1>2. ASSUME NEW r, r.op # "mail", Begin(c, r)
      PROVE  \A d \in Calls : call'[d].op = "mail" =>
                call[d].op = "mail" /\ call'[d].link = call[d].link
  BY <1>2 DEF Typed, Begin
<1>3. CASE call[c] \in ResetCall \cup EditCall /\ Go(c, "write")
  BY <1>3 DEF Go, Typed, ResetCall, EditCall
<1> QED
  BY <1>1, <1>2, <1>3

LEMMA StatementMails ==
    ASSUME Typed, Mailed, NEW c \in Calls, Statement(c)
    PROVE  Mailed'
<1>0. crashes \in 0..MaxCrashes
  BY DEF Mailed
<1>1. ASSUME UNCHANGED mailVars, answered' = answered,
             \A l \in Links : link'[l].of = link[l].of,
             End(c) \/ (call[c] \in ResetCall \cup EditCall /\ Go(c, "write"))
      PROVE  Mailed'
  <2>1. \A d \in Calls : call'[d].op = "mail" =>
           call[d].op = "mail" /\ call'[d].link = call[d].link
    BY <1>1, NoMailBegins
  <2> QED
    BY <1>0, <1>1, <2>1, MailsUntouched DEF mailVars, Unborn
<1>2. CASE LoginWrong(c) \/ LoginRight(c) \/ MailFails(c) \/ EditWrite(c)
  BY <1>1, <1>2 DEF LoginWrong, LoginRight, MailFails, EditWrite
<1>3. CASE CheckHistory(c)
  <2>1. call[c] \in ResetCall \cup EditCall
    BY <1>3, OpTells DEF CheckHistory
  <2> QED
    BY <1>1, <1>3, <2>1 DEF CheckHistory
<1>4. CASE ResetWrite(c)
  <2>1. \A l \in Links : link'[l].of = link[l].of
    BY <1>4 DEF ResetWrite, Typed, LinkRow
  <2> QED
    BY <1>1, <1>4, <2>1 DEF ResetWrite
<1> QED
  BY <1>2, <1>3, <1>4, MailQueues DEF Statement

LEMMA RequestMails ==
    ASSUME Typed, Mailed, NEW c \in Calls, Request(c)
    PROVE  Mailed'
<1>0. crashes \in 0..MaxCrashes
  BY DEF Mailed
<1>1. ASSUME NEW r, r.op # "mail", Begin(c, r), UNCHANGED <<link, answered, mailVars>>
      PROVE  Mailed'
  <2>1. \A d \in Calls : call'[d].op = "mail" =>
           call[d].op = "mail" /\ call'[d].link = call[d].link
    BY <1>1, NoMailBegins
  <2> QED
    BY <1>0, <1>1, <2>1, MailsUntouched DEF mailVars, Unborn
<1>2. ASSUME NEW u \in Users, NEW p \in Passwords, Login(c, u, p)
      PROVE  Mailed'
  <2> DEFINE r == [op |-> "login", at |-> "compare", of |-> u, right |-> p \in user[u].pwd,
                   read |-> user[u].fails]
  <2>1. Begin(c, r) /\ UNCHANGED <<link, answered, mailVars>> /\ r.op # "mail"
    BY <1>2 DEF Login
  <2> HIDE DEF r
  <2> QED
    BY <1>1, <2>1
<1>3. ASSUME NEW u \in Users, NEW l \in Links, Forgot(c, u, l)
      PROVE  Mailed'
  BY <1>3, LinkMade DEF Forgot
<1>4. ASSUME NEW u \in Users, NEW actor \in Actors, NEW e \in Edits, Edit(c, u, actor, e)
      PROVE  Mailed'
  <2> DEFINE r == [op |-> "edit", of |-> u, edit |-> e, pwd |-> e.pwd,
                   replaces |-> user[u].pwd, at |-> IF e.pwd = {} THEN "write" ELSE "history"]
  <2>1. Begin(c, r) /\ UNCHANGED <<link, answered, mailVars>> /\ r.op # "mail"
    BY <1>4 DEF Edit
  <2> HIDE DEF r
  <2> QED
    BY <1>1, <2>1
<1>5. ASSUME NEW l \in Links, NEW p \in Passwords, Reset(c, l, p)
      PROVE  Mailed'
  <2>1. PICK u \in link[l].of :
          Begin(c, [op |-> "reset", at |-> "history", of |-> u, link |-> l, pwd |-> {p},
                    replaces |-> user[u].pwd])
    BY <1>5 DEF Reset
  <2> DEFINE r == [op |-> "reset", at |-> "history", of |-> u, link |-> l, pwd |-> {p},
                   replaces |-> user[u].pwd]
  <2>2. Begin(c, r) /\ UNCHANGED <<link, answered, mailVars>> /\ r.op # "mail"
    BY <1>5, <2>1 DEF Reset
  <2> HIDE DEF r
  <2> QED
    BY <1>1, <2>2
<1>6. ASSUME NEW u \in Users, NEW actor \in Actors, NEW role \in NewRoles, NEW p \in Passwords,
             NEW ls \in {{}} \cup {{l} : l \in Links}, Create(c, u, actor, role, p, ls)
      PROVE  Mailed'
  <2>1. UNCHANGED <<answered, mailVars>>
    BY <1>6 DEF Create
  <2>2. CASE UNCHANGED <<link, call>>
    BY <1>0, <2>1, <2>2, MailsUntouched DEF mailVars, Unborn
  <2>3. CASE ~UNCHANGED <<link, call>>
    <3>1. PICK l \in ls : /\ Unborn(l)
                          /\ link' = [link EXCEPT ![l] = Born(u)]
                          /\ Begin(c, [op |-> "mail", at |-> "queue", of |-> u, link |-> l])
      BY <1>6, <2>3 DEF Create
    <3>2. l \in Links
      OBVIOUS
    <3> QED
      BY <2>1, <3>1, <3>2, LinkMade
  <2> QED
    BY <2>2, <2>3
<1> QED
  BY <1>2, <1>3, <1>4, <1>5, <1>6 DEF Request

LEMMA OtherMails ==
    ASSUME Typed, Mailed,
           \/ \E u \in Users : \/ LockLapses(u) \/ TemporaryExpires(u)
                             \/ \E p \in Passwords : ProvisionTenant(u, p)
           \/ \E u \in Users, actor \in Actors, role \in NewRoles, p \in Passwords :
                 CreateStaff(u, actor, role, p)
           \/ \E l \in Links : LinkExpires(l)
           \/ \E c \in Calls : Abandon(c)
           \/ UNCHANGED <<link, call, answered, mailVars>>
    PROVE  Mailed'
<1>0. crashes \in 0..MaxCrashes
  BY DEF Mailed
<1>1. CASE UNCHANGED <<link, call, answered, mailVars>>
  BY <1>0, <1>1, MailsUntouched DEF mailVars, Unborn
<1>2. ASSUME NEW l \in Links, LinkExpires(l)
      PROVE  Mailed'
  <2>1. \A k \in Links : link'[k].of = link[k].of
    BY <1>2 DEF LinkExpires, Typed, LinkRow
  <2>2. UNCHANGED <<call, answered, mailVars>>
    BY <1>2 DEF LinkExpires
  <2> QED
    BY <1>0, <2>1, <2>2, MailsUntouched DEF mailVars, Unborn
<1>3. ASSUME NEW c \in Calls, Abandon(c)
      PROVE  Mailed'
  <2>1. /\ End(c) /\ crashes' \in 0..MaxCrashes
        /\ UNCHANGED <<link, answered, mail, inbox, burying, graves>>
    BY <1>0, <1>3, Constants DEF Abandon
  <2>2. \A d \in Calls : call'[d].op = "mail" =>
           call[d].op = "mail" /\ call'[d].link = call[d].link
    BY <2>1, NoMailBegins
  <2> QED
    BY <2>1, <2>2, MailsUntouched DEF Unborn
<1> QED
  BY <1>1, <1>2, <1>3 DEF LockLapses, TemporaryExpires, ProvisionTenant, CreateStaff

LEMMA NextMails ==
    ASSUME Typed, Mailed, [Next]_vars
    PROVE  Mailed'
<1>1. ASSUME NEW c \in Calls, Statement(c) \/ Request(c)
      PROVE  Mailed'
  BY <1>1, StatementMails, RequestMails
<1>2. CASE UNCHANGED vars
  BY <1>2, OtherMails DEF vars, accountVars
<1> QED
  BY <1>1, <1>2, MailNextMails, OtherMails DEF Next

LEMMA InitMailed == Init => Mailed
<1> SUFFICES ASSUME Init PROVE Mailed
  OBVIOUS
<1>1. MailInit /\ answered = {} /\ \A c \in Calls : call[c].op # "mail"
  BY DEF Init, Idle
<1>2. /\ MailAttempts \in Nat /\ MailAttempts > 0 /\ MaxStalled \in Nat /\ MaxCrashes \in Nat
  BY Constants
<1>3. mail \in [Links -> MailJob] /\ crashes \in 0..MaxCrashes
  BY <1>1, <1>2 DEF MailInit, MailJob
<1>4. ASSUME NEW l \in Links PROVE MailOf(l) /\ MailAt(l, {"none"})
  BY <1>1, <1>2, <1>3 DEF MailInit, MailOf, MailAt
<1> QED
  BY <1>1, <1>3, <1>4 DEF MailInit, Mailed

\* AccountsInv for every number of users, links and calls, with any requests overlapping and
\* any of them dying: the password in use is the newest on file (users.service.ts:209,
\* auth.service.ts:81) if no two changes of one account overlap, every mail carries a link that was stored, and a link whose request
\* was answered is never lost from the queue.
THEOREM AccountsStaySound == Spec => []AccountsInv
<1>1. Init => Typed /\ Kept /\ Mailed
  BY InitTyped, InitKept, InitMailed
<1>2. Typed /\ Kept /\ Mailed /\ [Next]_vars => (Typed /\ Kept /\ Mailed)'
  BY NextTyped, NextKeeps, NextMails
<1>3. Typed /\ Kept /\ Mailed => AccountsInv
  <2> SUFFICES ASSUME Typed, Kept, Mailed PROVE AccountsInv
    OBVIOUS
  <2>1. \A c \in Calls : call[c].op \in {"idle", "login", "mail", "reset", "edit"}
    BY DEF Typed, Idle, LoginCall, MailCall, ResetCall, EditCall
  <2>2. \A u \in Users : Len(history[u]) <= HistoryLimit
    BY DEF Kept, KeptOf
  <2>3. TypeOK
    BY <2>1, <2>2 DEF TypeOK, Typed, Kept, Mailed, LinkRow
  <2>4. \A l \in burying \cup graves : MailAt(l, {"failed"}) /\ mail[l].attemptsMade = MailAttempts
    BY DEF Mailed, MailOf
  <2>5. MailInv
    BY <2>4 DEF MailInv, MailTypeOK, Mailed, MailOf
  <2>6. \A u \in Users :
           /\ user[u].must <=> user[u].temp # "none"
           /\ "changes" \notin Overlaps /\ history[u] # <<>> => user[u].pwd = {history[u][1]}
    BY DEF Kept, KeptOf
  <2>7. /\ \A l \in Links : ~MailAt(l, {"none"}) => link[l].of # {}
        /\ \A l \in answered :
              l \in inbox \/ MailAt(l, {"waiting", "active", "orphaned", "delayed", "failed"})
    BY DEF Mailed, MailOf, Unborn
  <2> QED
    BY <2>3, <2>5, <2>6, <2>7 DEF AccountsInv
<1> QED
  BY <1>1, <1>2, <1>3, PTL DEF Spec
-----------------------------------------------------------------------------
(* The history of passwords *)

\* A change under way knows the password in use, and has looked at what is on file before it
\* writes.
FreshCall(c) ==
    LET u == call[c].of
    IN  /\ Exists(u) /\ call[c].replaces = user[u].pwd
        /\ call[c].at = "write" =>
             call[c].pwd \cap Recent(call[c].replaces, u, Take(call[c].op)) = {}

\* The passwords on file that both paths compare are different ones.
Differ(f) == \A i, j \in DOMAIN f \cap 1..Window : f[i] = f[j] => i = j

\* What both paths compare is within what each of them does.
LEMMA WindowIs ==
    /\ Window \in Nat /\ Window > 0 /\ Window <= HistoryLimit
    /\ \A op : /\ Min({Take(op), HistoryLimit - 1}) \in Nat
               /\ Min({Take(op), HistoryLimit - 1}) >= Window - 1
<1>1. HistoryLimit \in Nat /\ HistoryLimit > 0 /\ TeamTake \in Nat
  BY AccountsAssumption
<1>2. Window = IF HistoryLimit < TeamTake + 1 THEN HistoryLimit ELSE TeamTake + 1
  BY <1>1 DEF Window, Min
<1>3. ASSUME NEW op
      PROVE  /\ Min({Take(op), HistoryLimit - 1}) \in Nat
             /\ Min({Take(op), HistoryLimit - 1}) >= Window - 1
  <2>1. Take(op) \in Nat /\ (Take(op) = TeamTake \/ Take(op) = HistoryLimit)
    BY <1>1 DEF Take
  <2>2. Min({Take(op), HistoryLimit - 1})
          = IF Take(op) < HistoryLimit - 1 THEN Take(op) ELSE HistoryLimit - 1
    BY <1>1, <2>1 DEF Min
  <2> QED
    BY <1>1, <1>2, <2>1, <2>2
<1> QED
  BY <1>1, <1>2, <1>3

Fresh == /\ \A u \in Users : Differ(history[u])
         /\ \A u \in Users : user[u].active => Exists(u)
         /\ \A c \in Calls : call[c].op \in {"reset", "edit"} => FreshCall(c)

\* The calls that change a password, by the user they are about.
LEMMA ChangesTyped ==
    ASSUME Typed, NEW c \in Calls, call[c].op \in {"reset", "edit"}
    PROVE  call[c] \in ResetCall \cup EditCall /\ call[c].of \in Users
BY OpTells DEF ResetCall, EditCall

\* A new password that is none of those that were compared keeps the ones on file different.
LEMMA OnFileDiffer ==
    ASSUME NEW u, NEW p \in Passwords, NEW r, NEW op, history[u] \in Seq(Passwords),
           Differ(history[u]), p \notin Recent(r, u, Take(op))
    PROVE  Differ(OnFile(u, p))
<1> DEFINE k == IF Len(history[u]) < HistoryLimit - 1 THEN Len(history[u])
                ELSE HistoryLimit - 1
           f == OnFile(u, p)
           n == Min({Take(op), HistoryLimit - 1})
<1>0. HistoryLimit \in Nat /\ HistoryLimit > 0 /\ Len(history[u]) \in Nat
  BY AccountsAssumption
<1>1. /\ f \in Seq(Passwords) /\ Len(f) = k + 1 /\ f[1] = p
      /\ \A i \in 2..k + 1 : f[i] = history[u][i - 1]
  BY OnFileIs
<1>2. k \in Nat /\ k <= Len(history[u]) /\ DOMAIN history[u] = 1..Len(history[u])
  BY <1>0
<1>3. Window \in Nat /\ Window > 0 /\ n \in Nat /\ n >= Window - 1
  BY WindowIs
<1>4. \A i \in 1..n : i \in DOMAIN history[u] => history[u][i] # p
  BY DEF Recent
<1> HIDE DEF f, k, n
<1>5. DOMAIN f = 1..k + 1
  BY <1>1, <1>2
<1>6. ASSUME NEW i \in (1..k + 1) \cap (1..Window), NEW j \in (1..k + 1) \cap (1..Window),
             f[i] = f[j]
      PROVE  i = j
  <2>1. ASSUME NEW h \in (1..k + 1) \cap (1..Window), h # 1
        PROVE  /\ f[h] = history[u][h - 1] /\ f[h] # p
               /\ h - 1 \in DOMAIN history[u] \cap 1..Window
    <3>1. h \in 2..k + 1
      BY <1>2, <1>3, <2>1
    <3>2. h - 1 \in 1..n /\ h - 1 \in 1..Len(history[u]) /\ h - 1 \in 1..Window
      BY <1>0, <1>2, <1>3, <2>1
    <3> QED
      BY <1>1, <1>2, <1>4, <3>1, <3>2
  <2>2. CASE i = 1 \/ j = 1
    BY <1>1, <1>6, <2>1, <2>2
  <2>3. CASE i # 1 /\ j # 1
    <3>1. i - 1 = j - 1
      BY <1>6, <2>1, <2>3 DEF Differ
    <3> QED
      BY <1>2, <1>3, <3>1
  <2> QED
    BY <2>2, <2>3
<1> QED
  BY <1>5, <1>6 DEF Differ, f

\* A call that is what it was, about an account that is, has compared what it had.
LEMMA FreshStays ==
    ASSUME NEW c, FreshCall(c), call'[c] = call[c],
           user'[call[c].of].pwd = user[call[c].of].pwd, history'[call[c].of] = history[call[c].of]
    PROVE  FreshCall(c)'
<1> DEFINE n == Min({Take(call[c].op), HistoryLimit - 1})
<1>1. n' = n
  BY DEF Take, Min
<1> QED
  BY <1>1 DEF FreshCall, Exists, Recent

\* Where no password changes.
LEMMA FreshUntouched ==
    ASSUME Typed, Fresh, history' = history,
           \A u \in Users : /\ user'[u].pwd = user[u].pwd
                            /\ user'[u].active => user[u].active,
           \A c \in Calls : call'[c].op \in {"reset", "edit"} => call'[c] = call[c]
    PROVE  Fresh'
<1>1. ASSUME NEW c \in Calls, call'[c].op \in {"reset", "edit"}
      PROVE  FreshCall(c)'
  <2>1. call'[c] = call[c] /\ call[c].of \in Users /\ FreshCall(c)
    BY <1>1, ChangesTyped DEF Fresh
  <2> QED
    BY <2>1, FreshStays
<1> QED
  BY <1>1 DEF Fresh, Exists

\* Where the password of one account does, with no change of it left under way.
LEMMA FreshWritten ==
    ASSUME Typed, Fresh, NEW u \in Users, NEW row, user' = [user EXCEPT ![u] = row],
           row.active => row.pwd # {},
           \A v \in Users : v # u => history'[v] = history[v],
           Differ(history'[u]),
           \A c \in Calls : call'[c].op \in {"reset", "edit"} =>
             call'[c] = call[c] /\ call[c].of # u
    PROVE  Fresh'
<1>1. user'[u] = row /\ \A v \in Users : v # u => user'[v] = user[v]
  BY DEF Typed
<1>2. ASSUME NEW c \in Calls, call'[c].op \in {"reset", "edit"}
      PROVE  FreshCall(c)'
  <2>1. call'[c] = call[c] /\ call[c].of \in Users /\ call[c].of # u /\ FreshCall(c)
    BY <1>2, ChangesTyped DEF Fresh
  <2> QED
    BY <1>1, <2>1, FreshStays
<1>3. \A v \in Users : Differ(history'[v])
  BY DEF Fresh
<1>4. \A v \in Users : user'[v].active => user'[v].pwd # {}
  BY <1>1 DEF Fresh, Exists
<1> QED
  BY <1>2, <1>3, <1>4 DEF Fresh, Exists

LEMMA ChangesStay ==
    ASSUME Typed, NEW c \in Calls,
           \/ End(c)
           \/ \E r : r.op \notin {"reset", "edit"} /\ Begin(c, r)
    PROVE  \A d \in Calls : call'[d].op \in {"reset", "edit"} => call'[d] = call[d]
<1>1. CASE End(c)
  BY <1>1 DEF Typed, End, Idle
<1>2. ASSUME NEW r, r.op \notin {"reset", "edit"}, Begin(c, r)
      PROVE  \A d \in Calls : call'[d].op \in {"reset", "edit"} => call'[d] = call[d]
  BY <1>2 DEF Typed, Begin
<1> QED
  BY <1>1, <1>2

\* An account is made: nobody is changing its password, there being none.
LEMMA FreshMade ==
    ASSUME Typed, Kept, Fresh, NEW u \in Users, ~Exists(u), NEW row, row.pwd # {},
           user' = [user EXCEPT ![u] = row],
           history' = history \/ \E p : history' = [history EXCEPT ![u] = <<p>>],
           \A c \in Calls : call'[c].op \in {"reset", "edit"} => call'[c] = call[c]
    PROVE  Fresh'
<1>1. \A c \in Calls : call'[c].op \in {"reset", "edit"} => call[c].of # u
  BY DEF Fresh, FreshCall
<1>2. /\ \A v \in Users : v # u => history'[v] = history[v]
      /\ history'[u] = history[u] \/ \E p : history'[u] = <<p>>
  BY DEF Kept
<1>3. \A p : Differ(<<p>>)
  BY DEF Differ
<1>4. Differ(history'[u])
  BY <1>2, <1>3 DEF Fresh
<1> QED
  BY <1>1, <1>2, <1>4, FreshWritten

\* The change that writes is the only one of its account.
LEMMA ChangeWrites ==
    ASSUME Typed, LinkSound, NEW c \in Calls, call[c].op \in {"reset", "edit"}, End(c)
    PROVE  \A d \in Calls : call'[d].op \in {"reset", "edit"} =>
             call'[d] = call[d] /\ call[d].of # call[c].of
<1>1. \A d \in Calls : call'[d] = IF d = c THEN Idle ELSE call[d]
  BY DEF End, Typed
<1> QED
  BY <1>1 DEF LinkSound, Idle

LEMMA StatementFresh ==
    ASSUME Typed, Kept, LinkSound, Fresh, "changes" \notin Overlaps, NEW c \in Calls, Statement(c)
    PROVE  Fresh'
<1>1. CASE LoginWrong(c) \/ LoginRight(c)
  <2> DEFINE u == call[c].of
  <2>1. u \in Users /\ user[u] \in Rows
    BY <1>1, OpTells DEF LoginWrong, LoginRight, Is, LoginCall, Typed
  <2>2. \A v \in Users : user'[v].pwd = user[v].pwd /\ user'[v].active = user[v].active
    BY <1>1, <2>1 DEF LoginWrong, LoginRight, Typed, Rows
  <2>3. history' = history /\ End(c)
    BY <1>1 DEF LoginWrong, LoginRight
  <2> QED
    BY <2>2, <2>3, ChangesStay, FreshUntouched
<1>2. CASE Mail(c) \/ MailFails(c)
  <2>1. UNCHANGED <<history, user>> /\ End(c)
    BY <1>2 DEF Mail, MailFails
  <2> QED
    BY <2>1, ChangesStay, FreshUntouched
<1>3. CASE CheckHistory(c)
  <2>1. UNCHANGED <<history, user>>
    BY <1>3 DEF CheckHistory
  <2>2. CASE End(c)
    BY <2>1, <2>2, ChangesStay, FreshUntouched
  <2>3. CASE ~End(c)
    <3>1. /\ call[c].pwd \cap Recent(call[c].replaces, call[c].of, Take(call[c].op)) = {}
          /\ Go(c, "write")
      BY <1>3, <2>3 DEF CheckHistory
    <3>2. call[c] \in ResetCall \cup EditCall
      BY <1>3, OpTells DEF CheckHistory
    <3>3. /\ call'[c].op = call[c].op /\ call'[c].of = call[c].of /\ call'[c].pwd = call[c].pwd
          /\ call'[c].replaces = call[c].replaces
          /\ \A d \in Calls : d # c => call'[d] = call[d]
      BY <3>1, <3>2 DEF Go, Typed, ResetCall, EditCall
    <3>4. call[c].op \in {"reset", "edit"}
      BY <3>2 DEF ResetCall, EditCall
    <3>5. FreshCall(c)'
      <4>1. FreshCall(c) /\ call'[c].at = "write"
        BY <3>1, <3>2, <3>4 DEF Fresh, Go, Typed, ResetCall, EditCall
      <4> DEFINE n == Min({Take(call[c].op), HistoryLimit - 1})
      <4>2. n' = n
        BY <3>3 DEF Take, Min
      <4>3. Recent(call[c].replaces, call[c].of, Take(call[c].op))'
              = Recent(call[c].replaces, call[c].of, Take(call[c].op))
        BY <2>1, <3>3, <4>2 DEF Recent
      <4> HIDE DEF n
      <4> QED
        BY <2>1, <3>1, <3>3, <4>1, <4>3 DEF FreshCall, Exists
    <3>6. ASSUME NEW d \in Calls, d # c, call'[d].op \in {"reset", "edit"}
          PROVE  FreshCall(d)'
      BY <2>1, <3>3, <3>6, FreshStays DEF Fresh
    <3> QED
      BY <2>1, <3>5, <3>6 DEF Fresh, Exists
  <2> QED
    BY <2>2, <2>3
<1>4. CASE ResetWrite(c)
  <2>1. /\ call[c].op = "reset" /\ call[c].of \in Users /\ End(c)
        /\ call[c].at = "write"
    BY <1>4, ResetWrites DEF ResetWrite, Is
  <2> PICK u \in Users : u = call[c].of
    BY <2>1
  <2>2. PICK p \in Passwords :
          /\ call[c].pwd = {p} /\ user' = [user EXCEPT ![u] = ResetRow(u, p)]
          /\ history' = [history EXCEPT ![u] = OnFile(u, p)] /\ ResetRow(u, p).pwd = {p}
    BY <1>4, ResetWrites DEF Filed
  <2>3. p \notin Recent(call[c].replaces, u, Take(call[c].op))
    BY <2>1, <2>2 DEF Fresh, FreshCall
  <2>4. /\ history'[u] = OnFile(u, p) /\ \A v \in Users : v # u => history'[v] = history[v]
        /\ history[u] \in Seq(Passwords) /\ Differ(history[u])
    BY <2>2 DEF Kept, KeptOf, Fresh
  <2>5. Differ(history'[u])
    BY <2>3, <2>4, OnFileDiffer
  <2>6. \A d \in Calls : call'[d].op \in {"reset", "edit"} =>
           call'[d] = call[d] /\ call[d].of # u
    BY <2>1, ChangeWrites
  <2> QED
    BY <2>2, <2>4, <2>5, <2>6, FreshWritten
<1>5. CASE EditWrite(c)
  <2>1. /\ call[c].op = "edit" /\ call[c].of \in Users /\ End(c) /\ call[c].at = "write"
    BY <1>5, EditWrites DEF EditWrite, Is
  <2> PICK u \in Users : u = call[c].of
    BY <2>1
  <2> DEFINE e == call[c].edit  row == EditedRow(u, e)
  <2>2. /\ user' = [user EXCEPT ![u] = row]
        /\ row.pwd = IF e.pwd = {} THEN user[u].pwd ELSE e.pwd
        /\ e.pwd = {} => history' = history
        /\ e.pwd # {} => \E p \in Passwords :
             e.pwd = {p} /\ history' = [history EXCEPT ![u] = OnFile(u, p)]
    <3>1. /\ user' = [user EXCEPT ![u] = row]
          /\ row.pwd = IF e.pwd = {} THEN user[u].pwd ELSE e.pwd
          /\ e.pwd = {} => history' = history
          /\ e.pwd # {} => \E p \in Passwords :
               e.pwd = {p} /\ \E f \in Filed(u, p) : history' = [history EXCEPT ![u] = f]
      <4> DEFINE v == call[c].of
      <4>1. /\ user' = [user EXCEPT ![v] = EditedRow(v, e)]
            /\ EditedRow(v, e).pwd = IF e.pwd = {} THEN user[v].pwd ELSE e.pwd
            /\ e.pwd = {} => history' = history
            /\ e.pwd # {} => \E p \in Passwords :
                 e.pwd = {p} /\ \E f \in Filed(v, p) : history' = [history EXCEPT ![v] = f]
        BY <1>5, EditWrites
      <4>2. u = v
        OBVIOUS
      <4> HIDE DEF v
      <4> QED
        BY <4>1, <4>2
    <3>2. \A p : Filed(u, p) = {OnFile(u, p)}
      BY DEF Filed
    <3>3. ASSUME e.pwd # {}
          PROVE  \E p \in Passwords :
                   e.pwd = {p} /\ history' = [history EXCEPT ![u] = OnFile(u, p)]
      <4>1. PICK p \in Passwords :
              e.pwd = {p} /\ \E f \in Filed(u, p) : history' = [history EXCEPT ![u] = f]
        BY <3>1, <3>3
      <4>2. PICK f \in Filed(u, p) : history' = [history EXCEPT ![u] = f]
        BY <4>1
      <4>3. f = OnFile(u, p)
        BY <3>2
      <4> QED
        BY <4>1, <4>2, <4>3
    <3> HIDE DEF row
    <3> QED
      BY <3>1, <3>3
  <2>3. FreshCall(c) /\ user[u].pwd # {} /\ e.pwd = call[c].pwd
    BY <2>1 DEF Fresh, FreshCall, Exists, Kept
  <2>4. Differ(history'[u]) /\ \A v \in Users : v # u => history'[v] = history[v]
    <3>1. CASE e.pwd = {}
      BY <2>2, <3>1 DEF Fresh
    <3>2. CASE e.pwd # {}
      <4>1. PICK p \in Passwords : e.pwd = {p} /\ history' = [history EXCEPT ![u] = OnFile(u, p)]
        BY <2>2, <3>2
      <4>2. p \notin Recent(call[c].replaces, u, Take(call[c].op))
        BY <2>1, <2>3, <4>1 DEF FreshCall
      <4>3. /\ history'[u] = OnFile(u, p) /\ \A v \in Users : v # u => history'[v] = history[v]
            /\ history[u] \in Seq(Passwords) /\ Differ(history[u])
        BY <4>1 DEF Kept, KeptOf, Fresh
      <4> QED
        BY <4>2, <4>3, OnFileDiffer
    <3> QED
      BY <3>1, <3>2
  <2> HIDE DEF row
  <2>5. row.pwd # {}
    BY <2>2, <2>3
  <2>6. \A d \in Calls : call'[d].op \in {"reset", "edit"} =>
           call'[d] = call[d] /\ call[d].of # u
    BY <2>1, ChangeWrites
  <2> QED
    BY <2>2, <2>4, <2>5, <2>6, FreshWritten
<1> QED
  BY <1>1, <1>2, <1>3, <1>4, <1>5 DEF Statement

\* A change begins with the row it read.
LEMMA FreshBegins ==
    ASSUME Typed, Fresh, NEW c \in Calls, NEW r \in ResetCall \cup EditCall, Begin(c, r),
           UNCHANGED <<history, user>>, Exists(r.of), r.replaces = user[r.of].pwd,
           r.at = "write" => r.pwd = {}
    PROVE  Fresh'
<1>1. \A d \in Calls : call'[d] = IF d = c THEN r ELSE call[d]
  BY DEF Begin, Typed
<1>2. FreshCall(c)'
  <2>1. call'[c].at = "write" => call'[c].pwd = {}
    BY <1>1
  <2>2. call'[c].replaces = user'[call'[c].of].pwd /\ user'[call'[c].of].pwd # {}
    BY <1>1 DEF Exists
  <2> QED
    BY <2>1, <2>2 DEF FreshCall, Exists
<1>3. ASSUME NEW d \in Calls, d # c, call'[d].op \in {"reset", "edit"}
      PROVE  FreshCall(d)'
  BY <1>1, <1>3, FreshStays DEF Fresh
<1> QED
  BY <1>2, <1>3 DEF Fresh, Exists

LEMMA RequestFresh ==
    ASSUME Typed, Kept, Fresh, NEW c \in Calls, Request(c)
    PROVE  Fresh'
<1>1. ASSUME NEW r, r.op \notin {"reset", "edit"}, Begin(c, r), UNCHANGED <<history, user>>
      PROVE  Fresh'
  BY <1>1, ChangesStay, FreshUntouched
<1>2. ASSUME NEW u \in Users, NEW p \in Passwords, Login(c, u, p)
      PROVE  Fresh'
  <2> DEFINE r == [op |-> "login", at |-> "compare", of |-> u, right |-> p \in user[u].pwd,
                   read |-> user[u].fails]
  <2>1. Begin(c, r) /\ UNCHANGED <<history, user>> /\ r.op \notin {"reset", "edit"}
    BY <1>2 DEF Login
  <2> HIDE DEF r
  <2> QED
    BY <1>1, <2>1
<1>3. ASSUME NEW u \in Users, NEW l \in Links, Forgot(c, u, l)
      PROVE  Fresh'
  <2> DEFINE r == [op |-> "mail", at |-> "queue", of |-> u, link |-> l]
  <2>1. Begin(c, r) /\ UNCHANGED <<history, user>> /\ r.op \notin {"reset", "edit"}
    BY <1>3 DEF Forgot
  <2> HIDE DEF r
  <2> QED
    BY <1>1, <2>1
<1>4. ASSUME NEW u \in Users, NEW actor \in Actors, NEW e \in Edits, Edit(c, u, actor, e)
      PROVE  Fresh'
  <2> DEFINE r == [op |-> "edit", of |-> u, edit |-> e, pwd |-> e.pwd,
                   replaces |-> user[u].pwd, at |-> IF e.pwd = {} THEN "write" ELSE "history"]
  <2>1. r \in EditCall
    BY Constants DEF EditCall, Typed, Rows
  <2>2. /\ Begin(c, r) /\ UNCHANGED <<history, user>> /\ Exists(u)
        /\ r.of = u /\ r.replaces = user[u].pwd /\ (r.at = "write" => r.pwd = {})
    BY <1>4 DEF Edit
  <2> HIDE DEF r
  <2> QED
    BY <2>1, <2>2, FreshBegins
<1>5. ASSUME NEW l \in Links, NEW p \in Passwords, Reset(c, l, p)
      PROVE  Fresh'
  <2>1. PICK u \in link[l].of :
          /\ user[u].active
          /\ Begin(c, [op |-> "reset", at |-> "history", of |-> u, link |-> l, pwd |-> {p},
                       replaces |-> user[u].pwd])
    BY <1>5 DEF Reset
  <2> DEFINE r == [op |-> "reset", at |-> "history", of |-> u, link |-> l, pwd |-> {p},
                   replaces |-> user[u].pwd]
  <2>2. u \in Users /\ Exists(u)
    BY <2>1 DEF Typed, LinkRow, Fresh
  <2>3. r \in ResetCall
    BY <2>2 DEF ResetCall, Typed, Rows
  <2>4. /\ Begin(c, r) /\ UNCHANGED <<history, user>>
        /\ r.of = u /\ r.replaces = user[u].pwd /\ r.at # "write"
    BY <1>5, <2>1 DEF Reset
  <2> HIDE DEF r
  <2> QED
    BY <2>2, <2>3, <2>4, FreshBegins
<1>6. ASSUME NEW u \in Users, NEW actor \in Actors, NEW role \in NewRoles, NEW p \in Passwords,
             NEW ls \in {{}} \cup {{l} : l \in Links}, Create(c, u, actor, role, p, ls)
      PROVE  Fresh'
  <2>1. /\ user' = [user EXCEPT ![u] = Account(role, p, TRUE)] /\ ~Exists(u)
        /\ history' = [history EXCEPT ![u] = <<p>>]
        /\ \/ UNCHANGED call
           \/ \E l \in ls : Begin(c, [op |-> "mail", at |-> "queue", of |-> u, link |-> l])
    BY <1>6 DEF Create
  <2>2. \A d \in Calls : call'[d].op \in {"reset", "edit"} => call'[d] = call[d]
    BY <2>1, ChangesStay
  <2>3. Account(role, p, TRUE).pwd # {}
    BY DEF Account
  <2> QED
    BY <2>1, <2>2, <2>3, FreshMade
<1> QED
  BY <1>2, <1>3, <1>4, <1>5, <1>6 DEF Request

LEMMA OtherFresh ==
    ASSUME Typed, Kept, Fresh,
           \/ \E u \in Users : \/ LockLapses(u) \/ TemporaryExpires(u)
                             \/ \E p \in Passwords : ProvisionTenant(u, p)
           \/ \E u \in Users, actor \in Actors, role \in NewRoles, p \in Passwords :
                 CreateStaff(u, actor, role, p)
           \/ \E l \in Links : LinkExpires(l)
           \/ \E c \in Calls : Abandon(c)
           \/ UNCHANGED <<user, history, call>>
    PROVE  Fresh'
<1>1. ASSUME NEW u \in Users, LockLapses(u) \/ TemporaryExpires(u)
      PROVE  Fresh'
  <2>1. \A v \in Users : user'[v].pwd = user[v].pwd /\ user'[v].active = user[v].active
    BY <1>1 DEF LockLapses, TemporaryExpires, Typed, Rows
  <2>2. UNCHANGED <<history, call>>
    BY <1>1 DEF LockLapses, TemporaryExpires
  <2> QED
    BY <2>1, <2>2, FreshUntouched
<1>2. ASSUME NEW u \in Users, NEW role, NEW p, NEW temporary, ~Exists(u),
             user' = [user EXCEPT ![u] = Account(role, p, temporary)],
             UNCHANGED <<call, history>>
      PROVE  Fresh'
  <2>1. Account(role, p, temporary).pwd # {}
    BY DEF Account
  <2> QED
    BY <1>2, <2>1, FreshMade
<1>3. ASSUME NEW u \in Users, NEW p \in Passwords, ProvisionTenant(u, p)
      PROVE  Fresh'
  BY <1>2, <1>3 DEF ProvisionTenant
<1>4. ASSUME NEW u \in Users, NEW actor \in Actors, NEW role \in NewRoles, NEW p \in Passwords,
             CreateStaff(u, actor, role, p)
      PROVE  Fresh'
  BY <1>2, <1>4 DEF CreateStaff
<1>5. CASE UNCHANGED <<user, history, call>>
  BY <1>5, FreshUntouched
<1>6. ASSUME NEW c \in Calls, Abandon(c)
      PROVE  Fresh'
  BY <1>6, ChangesStay, FreshUntouched DEF Abandon
<1> QED
  BY <1>1, <1>3, <1>4, <1>5, <1>6 DEF LinkExpires

\* RecentDiffer for every number of users and calls, every limit and every number of rows that
\* the team page takes: "Historial de passwords" (auth.service.ts:56, users.service.ts:192)
\* holds as far back as both paths compare, as long as changes of one account do not overlap,
\* though the transaction that writes does not look at the history again.
THEOREM RecentPasswordsDiffer ==
    ASSUME "changes" \notin Overlaps
    PROVE  Spec => []RecentDiffer
<1>1. Init => Typed /\ Kept /\ LinkSound /\ Fresh
  <2> SUFFICES ASSUME Init PROVE Fresh
    BY InitTyped, InitKept, InitLinks
  <2>1. \A u \in Users : Differ(history[u])
    BY DEF Init, Differ
  <2> QED
    BY <2>1 DEF Init, NoAccount, Idle, Fresh
<1>2. Typed /\ Kept /\ LinkSound /\ Fresh /\ [Next]_vars => (Typed /\ Kept /\ LinkSound /\ Fresh)'
  <2> SUFFICES ASSUME Typed, Kept, LinkSound, Fresh, [Next]_vars PROVE Fresh'
    BY NextTyped, NextKeeps, NextUses
  <2>1. ASSUME NEW c \in Calls, Statement(c) \/ Request(c)
        PROVE  Fresh'
    BY <2>1, StatementFresh, RequestFresh
  <2>2. CASE UNCHANGED vars \/ (MailNext /\ UNCHANGED accountVars)
    BY <2>2, OtherFresh DEF vars, accountVars
  <2> QED
    BY <2>1, <2>2, OtherFresh DEF Next
<1>3. Fresh => RecentDiffer
  BY DEF Fresh, Differ, RecentDiffer
<1> QED
  BY <1>1, <1>2, <1>3, PTL DEF Spec
=============================================================================
