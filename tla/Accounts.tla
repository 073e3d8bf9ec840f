------------------------------ MODULE Accounts ------------------------------
(***************************************************************************)
(* The accounts of one restaurant: login with its lock-out, the reset link *)
(* by mail, invitations, the team page's changes, and how an account comes *)
(* to be.  A request is a few statements with awaits between them (bcrypt  *)
(* takes a tenth of a second); each statement is a step.                   *)
(*                                                                         *)
(* Time is in the three expiries, which may come at any moment.  A request *)
(* that is refused before it has written anything changes nothing and is   *)
(* not a step; audit rows are left out.  lockedUntil in the past is read   *)
(* by nothing as different from none.                                      *)
(***************************************************************************)
EXTENDS MailQueue, Sequences, SequencesExt, Functions

CONSTANTS Users, Passwords, Calls,
          Edits,         \* the changes that are asked of update()
          Actors,        \* roles of those who ask
          NewRoles,      \* roles that accounts are made with
          HistoryLimit,  \* PASSWORD_HISTORY_LIMIT: 5
          TeamTake,      \* rows that the team page reads of the history: 5
          LockAfter,     \* failed logins that lock: 5
          Ops,           \* which requests there are
          Overlaps,      \* which of "logins", "changes" of one account may overlap
          MaxFails       \* bound on failed logins

Roles == {"OWNER", "MANAGER", "STAFF"}
ManagementRoles == {"OWNER", "MANAGER", "ADMIN", "PLATFORM_ADMIN"}

ASSUME AccountsAssumption ==
    /\ HistoryLimit \in Nat \ {0} /\ LockAfter \in Nat \ {0} /\ MaxFails \in Nat
    /\ TeamTake \in Nat
    /\ Overlaps \subseteq {"logins", "changes"}
    /\ Actors \subseteq Roles \cup ManagementRoles /\ NewRoles \subseteq Roles
    /\ Edits \subseteq [role : SUBSET Roles, active : SUBSET BOOLEAN, pwd : SUBSET Passwords]
    /\ \A e \in Edits : \A p, q \in e.pwd : p = q
    /\ Ops \subseteq {"login", "forgot", "reset", "create", "edit", "provision", "legacy"}

VARIABLES
    user,      \* the User rows; pwd is the set of the password, empty while there is no account
    history,   \* PasswordHistory, newest first, as far back as anything reads it
    link,      \* the PasswordResetToken rows
    call,      \* the requests under way
    answered,  \* history: links whose request was answered with success
    uses,      \* history: how often each link has changed a password
    lapsed     \* history: accounts whose lock has run out since the last login

accountVars == <<user, history, link, call, answered, uses, lapsed>>
vars == <<accountVars, mailVars>>

Rows == [active : BOOLEAN, role : Roles, pwd : SUBSET Passwords, fails : Nat,
         lock : BOOLEAN, temp : {"none", "live", "expired"}, must : BOOLEAN]

Idle == [op |-> "idle"]

NoAccount == [active |-> FALSE, role |-> "STAFF", pwd |-> {}, fails |-> 0, lock |-> FALSE,
              temp |-> "none", must |-> FALSE]

Exists(u) == user[u].pwd # {}

Init ==
    /\ user = [u \in Users |-> NoAccount]
    /\ history = [u \in Users |-> <<>>]
    /\ link = [l \in Links |-> [of |-> {}, used |-> FALSE, live |-> FALSE]]
    /\ call = [c \in Calls |-> Idle]
    /\ answered = {} /\ uses = [l \in Links |-> 0] /\ lapsed = {}
    /\ MailInit
-----------------------------------------------------------------------------
Is(c, op, at) == call[c].op = op /\ call[c].at = at
Begin(c, request) == call[c] = Idle /\ call' = [call EXCEPT ![c] = request]
Go(c, at) == call' = [call EXCEPT ![c].at = at]
End(c) == call' = [call EXCEPT ![c] = Idle]

About(c, ops, u) == call[c].op \in ops /\ call[c].of = u
OneAtATime(kind, ops, u) == kind \in Overlaps \/ \A c \in Calls : ~About(c, ops, u)

Unborn(l) == link[l].of = {}
Born(u) == [of |-> {u}, used |-> FALSE, live |-> TRUE]
-----------------------------------------------------------------------------
(* Login *)

\* The row is read and the password compared with the hash that was read.
Login(c, u, p) ==
    /\ "login" \in Ops /\ OneAtATime("logins", {"login"}, u)
    /\ user[u].active /\ ~user[u].lock /\ user[u].temp # "expired"
    /\ user[u].fails < MaxFails
    /\ Begin(c, [op |-> "login", at |-> "compare", of |-> u, right |-> p \in user[u].pwd,
                 read |-> user[u].fails])
    /\ UNCHANGED <<user, history, link, answered, uses, lapsed, mailVars>>

\* Mutant of LoginWrong: one failure too many is let through.
LoginWrong_LocksLate(c) ==
    /\ Is(c, "login", "compare") /\ ~call[c].right
    /\ LET u == call[c].of IN
         /\ user' = [user EXCEPT ![u].fails = @ + 1, ![u].lock = call[c].read >= LockAfter]
         /\ lapsed' = lapsed \ {u}
    /\ End(c)
    /\ UNCHANGED <<history, link, answered, uses, mailVars>>

\* The count is incremented where it is; the lock follows from the count that was read, and
\* a failure below the threshold writes null.
LoginWrong(c) ==
    /\ Is(c, "login", "compare") /\ ~call[c].right
    /\ LET u == call[c].of IN
         /\ user' = [user EXCEPT ![u].fails = @ + 1, ![u].lock = call[c].read >= LockAfter - 1]
         /\ lapsed' = lapsed \ {u}
    /\ End(c)
    /\ UNCHANGED <<history, link, answered, uses, mailVars>>

LoginRight(c) ==
    /\ Is(c, "login", "compare") /\ call[c].right
    /\ LET u == call[c].of IN
         /\ user' = [user EXCEPT ![u].fails = 0, ![u].lock = FALSE]
         /\ lapsed' = lapsed \ {u}
    /\ End(c)
    /\ UNCHANGED <<history, link, answered, uses, mailVars>>
-----------------------------------------------------------------------------
(* The mail with the link *)

\* handleForgotPassword stores the token; the mail is put in the queue afterwards.
Forgot(c, u, l) ==
    /\ "forgot" \in Ops /\ user[u].active /\ Unborn(l)
    /\ link' = [link EXCEPT ![l] = Born(u)]
    /\ Begin(c, [op |-> "mail", at |-> "queue", of |-> u, link |-> l])
    /\ UNCHANGED <<user, history, answered, uses, lapsed, mailVars>>

\* addPasswordResetJob or addStaffInvitationJob, and the request is answered.
Mail(c) ==
    /\ Is(c, "mail", "queue")
    /\ Queue(call[c].link)
    /\ answered' = answered \cup {call[c].link}
    /\ End(c)
    /\ UNCHANGED <<user, history, link, uses, lapsed>>

\* Redis does not answer: the caller gets an error for what is in the database already.
MailFails(c) ==
    /\ Is(c, "mail", "queue") /\ "store down" \in Faults
    /\ End(c)
    /\ UNCHANGED <<user, history, link, answered, uses, lapsed, mailVars>>
-----------------------------------------------------------------------------
(* A new password *)

\* The token is looked up, with its user, by one who has the mail.
Reset(c, l, p) ==
    /\ "reset" \in Ops /\ l \in inbox
    /\ link[l].live /\ ~link[l].used
    /\ \E u \in link[l].of :
         /\ user[u].active
         /\ OneAtATime("changes", {"reset", "edit"}, u)
         /\ Begin(c, [op |-> "reset", at |-> "history", of |-> u, link |-> l, pwd |-> {p},
                      replaces |-> user[u].pwd])
    /\ UNCHANGED <<user, history, link, answered, uses, lapsed, mailVars>>

Given(asked, otherwise) == IF asked = {} THEN otherwise ELSE CHOOSE x \in asked : TRUE

\* Mutant of Recent: the password in use is compared, the ones on file are not.
Recent_OnlyCurrent(replaced, u, take) == replaced

\* assertNotReused looks at so many of: the password that was read, then the rows taken from
\* the file.
Recent(replaced, u, take) ==
    replaced \cup {history[u][i] : i \in DOMAIN history[u] \cap 1..Min({take, HistoryLimit - 1})}

\* A reset takes as many rows as the limit says, the team page always the same number.
Take(op) == IF op = "edit" THEN TeamTake ELSE HistoryLimit

\* The history is read and bcrypt asked once for each of them.
CheckHistory(c) ==
    /\ call[c] # Idle /\ call[c].at = "history"
    /\ IF call[c].pwd \cap Recent(call[c].replaces, call[c].of, Take(call[c].op)) = {}
       THEN Go(c, "write") ELSE End(c)
    /\ UNCHANGED <<user, history, link, answered, uses, lapsed, mailVars>>

\* passwordHistory.create; older rows than the limit are read by nothing.
OnFile(u, p) == <<p>> \o SubSeq(history[u], 1, Min({Len(history[u]), HistoryLimit - 1}))

\* createdAt is set as the transaction begins: of changes that overlap, the one that commits
\* last may be the older on file.
Filed(u, p) ==
    IF "changes" \notin Overlaps THEN {OnFile(u, p)}
    ELSE {SubSeq(InsertAt(history[u], i, p), 1, Min({Len(history[u]) + 1, HistoryLimit})) :
             i \in 1..Len(history[u]) + 1}

\* The transaction: the row, the token and the history, with no second look at any.
ResetWrite(c) ==
    /\ Is(c, "reset", "write")
    /\ LET u == call[c].of IN
         /\ user' = [user EXCEPT ![u].pwd = call[c].pwd, ![u].fails = 0, ![u].lock = FALSE,
                                 ![u].temp = "none", ![u].must = FALSE]
         /\ \E f \in Filed(u, Given(call[c].pwd, {})) : history' = [history EXCEPT ![u] = f]
         /\ link' = [link EXCEPT ![call[c].link].used = TRUE]
         /\ uses' = [uses EXCEPT ![call[c].link] = @ + 1]
         /\ lapsed' = lapsed \ {u}
    /\ End(c)
    /\ UNCHANGED <<answered, mailVars>>
-----------------------------------------------------------------------------
(* The team page *)

MayManage(actor) == actor \in ManagementRoles
MayMake(actor, role) == role = "OWNER" => actor = "OWNER"

Account(role, p, temporary) ==
    [active |-> TRUE, role |-> role, pwd |-> {p}, fails |-> 0, lock |-> FALSE,
     temp |-> IF temporary THEN "live" ELSE "none", must |-> temporary]

\* Mutant of Create: the mail is queued, and the answer given, before the rows are stored.
Create_MailsFirst(c, u, actor, role, p, ls) ==
    /\ "create" \in Ops /\ MayManage(actor) /\ MayMake(actor, role) /\ ~Exists(u)
    /\ ls # {} /\ call[c] = Idle
    /\ \E l \in ls : Unborn(l) /\ Queue(l) /\ answered' = answered \cup {l}
    /\ UNCHANGED <<user, history, link, call, uses, lapsed>>

\* users.create: account, history and token in one transaction, the invitation after it.
\* An address that is taken (unique in the restaurant) undoes it all.
Create(c, u, actor, role, p, ls) ==
    /\ "create" \in Ops /\ MayManage(actor) /\ MayMake(actor, role) /\ ~Exists(u)
    /\ user' = [user EXCEPT ![u] = Account(role, p, TRUE)]
    /\ history' = [history EXCEPT ![u] = <<p>>]
    /\ \/ /\ ls = {} /\ call[c] = Idle
          /\ UNCHANGED <<link, call>>
       \/ \E l \in ls : /\ Unborn(l)
                        /\ link' = [link EXCEPT ![l] = Born(u)]
                        /\ Begin(c, [op |-> "mail", at |-> "queue", of |-> u, link |-> l])
    /\ UNCHANGED <<answered, uses, lapsed, mailVars>>

\* update reads the row, and the rights of the actor over it.
Edit(c, u, actor, e) ==
    /\ "edit" \in Ops /\ MayManage(actor)
    /\ Exists(u) /\ (user[u].role = "OWNER" => actor = "OWNER")
    /\ OneAtATime("changes", {"reset", "edit"}, u)
    /\ Begin(c, [op |-> "edit", of |-> u, edit |-> e, pwd |-> e.pwd,
                 replaces |-> user[u].pwd, at |-> IF e.pwd = {} THEN "write" ELSE "history"])
    /\ UNCHANGED <<user, history, link, answered, uses, lapsed, mailVars>>

\* Mutant of EditWrite: the history gets its row in a later statement, which may fail.
EditWrite_NoHistory(c) ==
    /\ Is(c, "edit", "write")
    /\ LET u == call[c].of  e == call[c].edit IN
         user' = [user EXCEPT ![u].role = Given(e.role, @), ![u].active = Given(e.active, @),
                              ![u].pwd = IF e.pwd = {} THEN @ ELSE e.pwd,
                              ![u].temp = IF e.pwd = {} THEN @ ELSE "live",
                              ![u].must = IF e.pwd = {} THEN @ ELSE TRUE]
    /\ End(c)
    /\ UNCHANGED <<history, link, answered, uses, lapsed, mailVars>>

\* The transaction: the fields that were given, and the history of a password.
EditWrite(c) ==
    /\ Is(c, "edit", "write")
    /\ LET u == call[c].of  e == call[c].edit IN
         /\ user' = [user EXCEPT ![u].role = Given(e.role, @), ![u].active = Given(e.active, @),
                                 ![u].pwd = IF e.pwd = {} THEN @ ELSE e.pwd,
                                 ![u].temp = IF e.pwd = {} THEN @ ELSE "live",
                                 ![u].must = IF e.pwd = {} THEN @ ELSE TRUE]
         /\ \/ e.pwd = {} /\ history' = history
            \/ /\ e.pwd # {}
               /\ \E f \in Filed(u, Given(e.pwd, {})) : history' = [history EXCEPT ![u] = f]
    /\ End(c)
    /\ UNCHANGED <<link, answered, uses, lapsed, mailVars>>
-----------------------------------------------------------------------------
(* Other ways to an account *)

\* provisionTenant: the restaurant, its floor and its owner, whose password is a fixed
\* temporary one; nothing is put on file or mailed.
ProvisionTenant(u, p) ==
    /\ "provision" \in Ops /\ \A v \in Users : ~Exists(v)
    /\ user' = [user EXCEPT ![u] = Account("OWNER", p, TRUE)]
    /\ UNCHANGED <<history, link, call, answered, uses, lapsed, mailVars>>

\* createStaff under /restaurants: an account with a password of its own.
CreateStaff(u, actor, role, p) ==
    /\ "legacy" \in Ops /\ MayManage(actor) /\ MayMake(actor, role) /\ ~Exists(u)
    /\ user' = [user EXCEPT ![u] = Account(role, p, FALSE)]
    /\ UNCHANGED <<history, link, call, answered, uses, lapsed, mailVars>>

\* A call dies between its statements: what it has written stays.
Abandon(c) ==
    /\ call[c] # Idle
    /\ crashes < MaxCrashes /\ crashes' = crashes + 1
    /\ End(c)
    /\ UNCHANGED <<user, history, link, answered, uses, lapsed, mail, inbox, burying, graves>>
-----------------------------------------------------------------------------
(* Time *)

LockLapses(u) == /\ user[u].lock
                 /\ user' = [user EXCEPT ![u].lock = FALSE]
                 /\ lapsed' = lapsed \cup {u}
                 /\ UNCHANGED <<history, link, call, answered, uses, mailVars>>

TemporaryExpires(u) == /\ user[u].temp = "live"
                       /\ user' = [user EXCEPT ![u].temp = "expired"]
                       /\ UNCHANGED <<history, link, call, answered, uses, lapsed, mailVars>>

LinkExpires(l) == /\ link[l].live
                  /\ link' = [link EXCEPT ![l].live = FALSE]
                  /\ UNCHANGED <<user, history, call, answered, uses, lapsed, mailVars>>
-----------------------------------------------------------------------------
Statement(c) == \/ LoginWrong(c) \/ LoginRight(c) \/ Mail(c) \/ MailFails(c)
                \/ CheckHistory(c) \/ ResetWrite(c) \/ EditWrite(c)

Request(c) ==
    \/ \E u \in Users :
         \/ \E p \in Passwords : Login(c, u, p)
         \/ \E l \in Links : Forgot(c, u, l)
         \/ \E actor \in Actors : \E e \in Edits : Edit(c, u, actor, e)
         \/ \E actor \in Actors, role \in NewRoles, p \in Passwords :
              \E ls \in {{}} \cup {{l} : l \in Links} : Create(c, u, actor, role, p, ls)
    \/ \E l \in Links : \E p \in Passwords : Reset(c, l, p)

Next == \/ \E c \in Calls : Request(c) \/ Statement(c) \/ Abandon(c)
        \/ \E u \in Users : LockLapses(u) \/ TemporaryExpires(u)
        \/ \E u \in Users : \E p \in Passwords : ProvisionTenant(u, p)
        \/ \E u \in Users, actor \in Actors, role \in NewRoles, p \in Passwords :
             CreateStaff(u, actor, role, p)
        \/ \E l \in Links : LinkExpires(l)
        \/ MailNext /\ UNCHANGED accountVars

Spec == Init /\ [][Next]_vars
FairSpec == Spec /\ MailFair
-----------------------------------------------------------------------------
(* Properties *)

TypeOK == /\ user \in [Users -> Rows]
          /\ \A u \in Users : Len(history[u]) <= HistoryLimit
          /\ link \in [Links -> [of : SUBSET Users, used : BOOLEAN, live : BOOLEAN]]
          /\ \A c \in Calls : call[c].op \in {"idle", "login", "mail", "reset", "edit"}
          /\ answered \subseteq Links /\ uses \in [Links -> Nat] /\ lapsed \subseteq Users

\* A password that must be changed is one that runs out, and the other way round; as long as
\* changes of one account do not overlap, the newest password on file is the one in use,
\* whatever died; a mail that is queued, sent or in an inbox carries a link that opens an
\* account.
AccountsInv ==
    /\ TypeOK /\ MailInv
    /\ \A u \in Users : user[u].must <=> user[u].temp # "none"
    /\ "changes" \notin Overlaps =>
         \A u \in Users : history[u] # <<>> => user[u].pwd = {history[u][1]}
    /\ \A l \in Links : ~MailAt(l, {"none"}) => link[l].of # {}
    /\ \A l \in answered :
         l \in inbox \/ MailAt(l, {"waiting", "active", "orphaned", "delayed", "failed"})

\* "Bloqueo temporal por intentos fallidos": with one login at a time, an account with so
\* many failures is locked until the lock runs out, though passwords are reset and changed
\* while bcrypt is at work.
FailuresLock ==
    \A u \in Users : user[u].fails >= LockAfter => user[u].lock \/ u \in lapsed

\* As far back as every path compares, the password in use included.
Window == Min({HistoryLimit, TeamTake + 1})

\* "Historial de passwords": as long as changes of one account do not overlap, the newest
\* passwords on file are different ones as far back as both paths compare, though resets and
\* the team page take different numbers of them.
RecentDiffer ==
    \A u \in Users : \A i, j \in DOMAIN history[u] \cap 1..Window :
       history[u][i] = history[u][j] => i = j

\* "un solo uso": a link changes one password at most.  Two resets that are both past the
\* look at the token break it (Overlaps = {"changes"}).
LinkUsedOnce == \A l \in Links : uses[l] <= 1

\* "Encolar el correo": a request that was answered has its mail delivered or given up,
\* though the worker dies and the mail server fails or takes mails it does not confirm.
AnsweredIsMailed ==
    \A l \in Links : l \in answered ~> l \in inbox \/ MailAt(l, {"failed"})

\* A restaurant that has had an owner keeps one that can log in.
OwnerRemains ==
    (\E u \in Users : user[u].role = "OWNER" /\ Exists(u))
        => \E u \in Users : user[u].role = "OWNER" /\ user[u].active
=============================================================================
