----------------------------- MODULE TenantGate -----------------------------
(***************************************************************************)
(* What a request passes before a handler sees it: TenantMiddleware with   *)
(* its cache in Redis, the throttler with its counter in Redis, and the    *)
(* look-up of the user behind the token.  Every Redis command and every    *)
(* query is a step of its own.                                             *)
(*                                                                         *)
(* Time passes in ticks; what Redis keeps for a while is the number of     *)
(* ticks left.  The two throttlers, short and long, are alike: one is      *)
(* modelled, for one client.  Requests that need no tenant begin at the    *)
(* throttler; one whose tenant cannot be told is refused without a step.   *)
(* The webhook of WhatsApp is one of those that need no tenant: what is    *)
(* said here of a suspended restaurant is said of requests that do.        *)
(***************************************************************************)
EXTENDS Naturals, FiniteSets

CONSTANTS Restaurants, Requests,
          TTL,     \* ticks an entry of the cache lives: 3600 s
          Slack,   \* bound on the ticks between the query and the SET of one request
          Limit,   \* RATE_LIMIT_*_LIMIT
          Window,  \* RATE_LIMIT_*_TTL_MS, in ticks; a block lasts as long
          GateFaults  \* "redis": Redis may fail to answer the middleware,
                      \* "resend": it may do an INCR and the answer be lost

ASSUME GateAssumption ==
    /\ TTL \in Nat \ {0} /\ Slack \in Nat /\ Limit \in Nat \ {0} /\ Window \in Nat \ {0}
    /\ GateFaults \subseteq {"redis", "resend"}

VARIABLES
    status,   \* Restaurant.status
    since,    \* history: ticks since the restaurant was last ACTIVE, up to Horizon
    cache,    \* ticks left of tenant:identifier:<slug>, 0 for no entry
    req,      \* the requests
    hits,     \* throttle:<name>:<client>
    fuse,     \* ticks left of hits, Never when it has no expiry
    blocked,  \* ticks left of throttle:<name>:<client>:blocked, 0 for none
    cut       \* history: a counter was begun and its PEXPIRE lost, with the process that
              \* was to send it or because the answer to the INCR was

gateVars == <<status, since, cache, req, hits, fuse, blocked, cut>>

\* INACTIVE is told from SUSPENDED by nothing that reads a status here.
Statuses == {"ACTIVE", "SUSPENDED"}
Horizon == TTL + Slack + 1
Never == Window + 1

Places == {"idle", "query", "set", "exists", "incr", "pexpire", "block", "user"}

GateTypeOK ==
    /\ status \in [Restaurants -> Statuses]
    /\ since \in [Restaurants -> 0..Horizon]
    /\ cache \in [Restaurants -> 0..TTL]
    /\ req \in [Requests -> [at : Places, of : Restaurants, held : 0..Slack, late : 0..Horizon]]
    /\ hits \in Nat /\ fuse \in 1..Never /\ blocked \in 0..Window /\ cut \in BOOLEAN

GateInit ==
    /\ status = [r \in Restaurants |-> "ACTIVE"]
    /\ since = [r \in Restaurants |-> 0]
    /\ cache = [r \in Restaurants |-> 0]
    /\ \E r \in Restaurants :
         req = [q \in Requests |-> [at |-> "idle", of |-> r, held |-> 0, late |-> 0]]
    /\ hits = 0 /\ fuse = Never /\ blocked = 0 /\ cut = FALSE
-----------------------------------------------------------------------------
(* TenantMiddleware *)

At(q, place) == req[q].at = place
Go(q, place) == req' = [req EXCEPT ![q].at = place]
Quit(q) == req' = [req EXCEPT ![q].at = "idle", ![q].held = 0, ![q].late = 0]

\* next(): the tenant is known, on evidence so many ticks old.
Admit(q, r) == req' = [req EXCEPT ![q].at = "exists", ![q].of = r, ![q].held = 0,
                                  ![q].late = since[r]]

\* The GET; when Redis does not answer it is as if there were no entry.
LookUp(q, r) ==
    /\ At(q, "idle")
    /\ \/ cache[r] > 0 /\ Admit(q, r)
       \/ /\ cache[r] = 0 \/ "redis" \in GateFaults
          /\ req' = [req EXCEPT ![q].at = "query", ![q].of = r]
    /\ UNCHANGED <<status, since, cache, hits, fuse, blocked, cut>>

\* Mutant of Query: the status is not asked for.
Query_AnyStatus(q) ==
    /\ At(q, "query")
    /\ Go(q, "set")
    /\ UNCHANGED <<status, since, cache, hits, fuse, blocked, cut>>

\* findFirst with status ACTIVE; a restaurant that is not is a 400.
Query(q) ==
    /\ At(q, "query")
    /\ IF status[req[q].of] = "ACTIVE" THEN Go(q, "set") ELSE Quit(q)
    /\ UNCHANGED <<status, since, cache, hits, fuse, blocked, cut>>

\* The SET with its expiry, which may fail unheard.
Store(q) ==
    /\ At(q, "set")
    /\ \/ cache' = [cache EXCEPT ![req[q].of] = TTL]
       \/ "redis" \in GateFaults /\ UNCHANGED cache
    /\ Admit(q, req[q].of)
    /\ UNCHANGED <<status, since, hits, fuse, blocked, cut>>
-----------------------------------------------------------------------------
(* RedisThrottlerStorage.increment *)

Exists(q) ==
    /\ At(q, "exists")
    /\ IF blocked > 0 THEN Quit(q) ELSE Go(q, "incr")
    /\ UNCHANGED <<status, since, cache, hits, fuse, blocked, cut>>

\* Beyond the limit one count is as good as another.
Counted == IF hits > Limit THEN hits ELSE hits + 1

\* Mutant of Incr: the first hit is looked for at 0.
Incr_OffByOne(q) ==
    /\ At(q, "incr")
    /\ hits' = Counted
    /\ Go(q, IF hits = 1 THEN "pexpire" ELSE IF hits' > Limit THEN "block" ELSE "user")
    /\ UNCHANGED <<status, since, cache, fuse, blocked, cut>>

\* INCR creates the counter without an expiry, and keeps the one it has.
Incr(q) ==
    /\ At(q, "incr")
    /\ hits' = Counted
    /\ Go(q, IF hits' = 1 THEN "pexpire" ELSE IF hits' > Limit THEN "block" ELSE "user")
    /\ UNCHANGED <<status, since, cache, fuse, blocked, cut>>

\* The connection is lost after the INCR and before its answer: with maxRetriesPerRequest null
\* the client sends it again, and a counter that was begun so is answered with 2.
IncrUnanswered(q) ==
    /\ At(q, "incr") /\ "resend" \in GateFaults
    /\ hits' = Counted
    /\ cut' = (cut \/ hits = 0)
    /\ UNCHANGED <<status, since, cache, req, fuse, blocked>>

\* PEXPIRE, of the one that found the counter at 1.
Pexpire(q) ==
    /\ At(q, "pexpire")
    /\ fuse' = Window
    /\ Go(q, "user")
    /\ UNCHANGED <<status, since, cache, hits, blocked, cut>>

Block(q) ==
    /\ At(q, "block")
    /\ blocked' = Window
    /\ Quit(q)
    /\ UNCHANGED <<status, since, cache, hits, fuse, cut>>
-----------------------------------------------------------------------------
(* JwtStrategy.validate, and the handler *)

\* The user is active or not, the token of this restaurant or of another, the role one of
\* those the handler is for or not: the request is served or refused, and has changed nothing.
User(q) ==
    /\ At(q, "user")
    /\ Quit(q)
    /\ UNCHANGED <<status, since, cache, hits, fuse, blocked, cut>>

\* The process dies with the requests it has.
CrashApi ==
    /\ req' = [q \in Requests |-> [req[q] EXCEPT !.at = "idle", !.held = 0, !.late = 0]]
    /\ cut' = (cut \/ \E q \in Requests : At(q, "pexpire"))
    /\ UNCHANGED <<status, since, cache, hits, fuse, blocked>>
-----------------------------------------------------------------------------
(* What happens around them *)

Less(n) == IF n = 0 THEN 0 ELSE n - 1
Querying(q) == req[q].at = "set"

\* A request that has its answer from the database is not held up for longer than Slack.
Tick ==
    /\ \A q \in Requests : Querying(q) => req[q].held < Slack
    /\ req' = [q \in Requests |-> IF Querying(q) THEN [req[q] EXCEPT !.held = @ + 1] ELSE req[q]]
    /\ since' = [r \in Restaurants |->
                   IF status[r] = "ACTIVE" THEN 0
                   ELSE IF since[r] < Horizon THEN since[r] + 1 ELSE Horizon]
    /\ cache' = [r \in Restaurants |-> Less(cache[r])]
    /\ fuse' = IF fuse \in {1, Never} THEN Never ELSE fuse - 1
    /\ hits' = IF fuse = 1 THEN 0 ELSE hits
    /\ blocked' = Less(blocked)
    /\ UNCHANGED <<status, cut>>

\* updateRestaurantStatus, or a status among the basic data: nothing tells the cache.
SetStatus(r, s) ==
    /\ status' = [status EXCEPT ![r] = s]
    /\ since' = [since EXCEPT ![r] = IF s = "ACTIVE" THEN 0 ELSE @]
    /\ UNCHANGED <<cache, req, hits, fuse, blocked, cut>>

Step(q) == \/ Query(q) \/ Store(q) \/ Exists(q) \/ Incr(q) \/ Pexpire(q) \/ Block(q)
           \/ User(q)

GateNext == \/ \E q \in Requests :
                  Step(q) \/ IncrUnanswered(q) \/ \E r \in Restaurants : LookUp(q, r)
            \/ CrashApi \/ Tick

GateFair == WF_gateVars(Tick) /\ \A q \in Requests : WF_gateVars(Step(q))
-----------------------------------------------------------------------------
(* Properties *)

\* A request that needs the tenant is let in for a suspended restaurant for no longer than an
\* entry of the cache lives, and the time its last query was on its way: no entry is renewed
\* from the cache itself, though many requests fill it side by side.
StaleAtMost ==
    \A q \in Requests : At(q, "exists") => req[q].late < TTL + Slack

\* What keeps it so: the age of the evidence and the life it has left never add up to more.
StaleInv ==
    /\ GateTypeOK
    /\ \A r \in Restaurants : cache[r] > 0 => since[r] + cache[r] <= TTL + Slack
    /\ \A q \in Requests : At(q, "set") => since[req[q].of] <= req[q].held
    /\ \A q \in Requests : At(q, "exists") => req[q].late < TTL + Slack
    /\ \A r \in Restaurants : status[r] = "ACTIVE" => since[r] = 0

\* A counter with no end to it is being given one, by the one request that began it, unless
\* that one died on the way or was not told that it began it; then it counts for good, and the
\* client is blocked again and again.
CounterHasEnd ==
    hits > 0 /\ fuse = Never => cut \/ \E q \in Requests : At(q, "pexpire")

\* "Control de Tráfico": a client is not kept out for good, whatever it sends meanwhile.
CounterRunsOut == hits > 0 ~> hits = 0
=============================================================================
