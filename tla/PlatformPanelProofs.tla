------------------------ MODULE PlatformPanelProofs ------------------------
(***************************************************************************)
(* Proofs about TenantGate with the platform panel beside it, for any      *)
(* number of restaurants, requests and pages, any life of a cache entry    *)
(* and any limit: a suspended restaurant is served for a bounded time, and *)
(* a counter of the throttler without an end was cut off from it by a      *)
(* crash or a lost answer.  Then about one page that waits for its         *)
(* answers: it shows the rows, but for what a status chosen on the form or *)
(* a failed call leaves behind, and nothing else it sends brings a         *)
(* suspended restaurant back.                                              *)
(***************************************************************************)
EXTENDS PlatformPanel, FiniteSetTheorems, TLAPS

\* What the pages and their calls hold are rows: a status that the API writes is a status.
PanelHoldsRows ==
    /\ shown \in [Tabs -> SUBSET Row] /\ detail \in [Tabs -> SUBSET Row]
    /\ \A c \in calls : c.tab \in Tabs /\ c.row \subseteq Row /\ c.rows \subseteq Row

-----------------------------------------------------------------------------
(* The gate *)

\* Each place of a request but the two that carry evidence keeps the promises about those.
LEMMA ReqTyped ==
    ASSUME GateTypeOK, NEW q \in Requests
    PROVE  /\ req[q].at \in Places /\ req[q].of \in Restaurants
           /\ req[q].held \in 0..Slack /\ req[q].late \in 0..Horizon
           /\ req[q].held \in Nat /\ since[req[q].of] \in Nat
<1>1. /\ req[q].at \in Places /\ req[q].of \in Restaurants
      /\ req[q].held \in 0..Slack /\ req[q].late \in 0..Horizon
  BY DEF GateTypeOK
<1>2. since[req[q].of] \in 0..Horizon
  BY <1>1 DEF GateTypeOK
<1>3. QED
  BY <1>1, <1>2, GateAssumption

LEMMA ReqIsRecord ==
    ASSUME GateTypeOK, NEW q \in Requests
    PROVE  req[q] = [at |-> req[q].at, of |-> req[q].of,
                     held |-> req[q].held, late |-> req[q].late]
  BY DEF GateTypeOK

\* A request that goes elsewhere, without its evidence, leaves the invariant alone.
LEMMA GoKeeps ==
    ASSUME StaleInv, NEW q \in Requests, NEW place \in Places \ {"set", "exists"},
           Go(q, place), UNCHANGED <<status, since, cache>>,
           hits' \in Nat, fuse' \in 1..Never, blocked' \in 0..Window, cut' \in BOOLEAN
    PROVE  StaleInv'
<1>1. /\ req' \in [Requests -> [at : Places, of : Restaurants, held : 0..Slack, late : 0..Horizon]]
      /\ req'[q].at = place
      /\ \A p \in Requests \ {q} : req'[p] = req[p]
  BY DEF StaleInv, GateTypeOK, Go
<1>2. GateTypeOK'
  BY <1>1 DEF StaleInv, GateTypeOK
<1>3. \A p \in Requests : req'[p].at \in {"set", "exists"} => req'[p] = req[p]
  BY <1>1
<1>4. QED
  BY <1>2, <1>3 DEF StaleInv, At

LEMMA QuitKeeps ==
    ASSUME StaleInv, NEW q \in Requests, Quit(q), UNCHANGED <<status, since, cache>>,
           hits' \in Nat, fuse' \in 1..Never, blocked' \in 0..Window, cut' \in BOOLEAN
    PROVE  StaleInv'
<1> USE GateAssumption
<1>1. /\ req' \in [Requests -> [at : Places, of : Restaurants, held : 0..Slack, late : 0..Horizon]]
      /\ req'[q].at = "idle"
      /\ \A p \in Requests \ {q} : req'[p] = req[p]
  <2>1. 0 \in 0..Slack /\ 0 \in 0..Horizon /\ "idle" \in Places
    BY DEF Horizon, Places
  <2>2. req \in [Requests -> [at : Places, of : Restaurants, held : 0..Slack, late : 0..Horizon]]
    BY DEF StaleInv, GateTypeOK
  <2>3. QED
    BY <2>1, <2>2 DEF Quit
<1>2. GateTypeOK'
  BY <1>1 DEF StaleInv, GateTypeOK
<1>3. QED
  BY <1>1, <1>2 DEF StaleInv, At

\* Evidence that is young enough may be admitted.
LEMMA AdmitKeeps ==
    ASSUME StaleInv, NEW q \in Requests, NEW r \in Restaurants, Admit(q, r),
           since[r] < TTL + Slack, UNCHANGED <<status, since, hits, fuse, blocked, cut>>,
           cache' \in [Restaurants -> 0..TTL],
           \A s \in Restaurants : cache'[s] > 0 => since[s] + cache'[s] <= TTL + Slack
    PROVE  StaleInv'
<1>1. since[r] \in 0..Horizon
  BY DEF StaleInv, GateTypeOK
<1>2. /\ req' \in [Requests -> [at : Places, of : Restaurants, held : 0..Slack, late : 0..Horizon]]
      /\ req'[q].at = "exists" /\ req'[q].late = since[r]
      /\ \A p \in Requests \ {q} : req'[p] = req[p]
  <2>1. 0 \in 0..Slack /\ "exists" \in Places
    BY GateAssumption DEF Places
  <2>2. req \in [Requests -> [at : Places, of : Restaurants, held : 0..Slack, late : 0..Horizon]]
    BY DEF StaleInv, GateTypeOK
  <2>3. QED
    BY <1>1, <2>1, <2>2 DEF Admit
<1>3. GateTypeOK'
  BY <1>2 DEF StaleInv, GateTypeOK
<1>4. QED
  BY <1>2, <1>3 DEF StaleInv, At

LEMMA StepKeeps ==
    ASSUME StaleInv, NEW q \in Requests, Step(q)
    PROVE  StaleInv'
<1> USE GateAssumption
<1>1. GateTypeOK
  BY DEF StaleInv
<1>2. /\ hits \in Nat /\ fuse \in 1..Never /\ blocked \in 0..Window /\ cut \in BOOLEAN
      /\ Window \in 1..Never /\ Window \in 0..Window
  BY <1>1 DEF GateTypeOK, Never
<1>3. CASE Query(q)
  <2>1. CASE status[req[q].of] = "ACTIVE"
    <3>1. Go(q, "set") /\ UNCHANGED <<status, since, cache, hits, fuse, blocked, cut>>
      BY <1>3, <2>1 DEF Query
    <3>2. /\ req' \in [Requests -> [at : Places, of : Restaurants, held : 0..Slack, late : 0..Horizon]]
          /\ req'[q].at = "set" /\ req'[q].of = req[q].of /\ req'[q].held = req[q].held
          /\ \A p \in Requests \ {q} : req'[p] = req[p]
      BY <1>1, <3>1 DEF GateTypeOK, Go, Places
    <3>3. since[req[q].of] <= req[q].held
      <4>1. req[q].held \in Nat /\ req[q].of \in Restaurants
        BY <1>1, ReqTyped
      <4>2. since[req[q].of] = 0
        BY <2>1, <4>1 DEF StaleInv
      <4>3. QED
        BY <4>1, <4>2
    <3>4. GateTypeOK'
      BY <1>1, <3>1, <3>2 DEF GateTypeOK
    <3>5. QED
      BY <3>1, <3>2, <3>3, <3>4 DEF StaleInv, At
  <2>2. CASE status[req[q].of] # "ACTIVE"
    BY <1>2, <1>3, <2>2, QuitKeeps DEF Query
  <2>3. QED
    BY <2>1, <2>2
<1>4. CASE Store(q)
  <2>1. PICK r \in Restaurants : r = req[q].of
    BY <1>1, ReqTyped
  <2>2. since[r] <= Slack /\ since[r] \in Nat
    BY <1>1, <1>4, <2>1, ReqTyped DEF StaleInv, Store, At, GateTypeOK
  <2>3. since[r] < TTL + Slack /\ since[r] + TTL <= TTL + Slack
    BY <2>2
  <2>4. /\ cache' \in [Restaurants -> 0..TTL]
        /\ \A s \in Restaurants : cache'[s] > 0 => since[s] + cache'[s] <= TTL + Slack
    <3>1. CASE UNCHANGED cache
      BY <1>1, <3>1 DEF StaleInv, GateTypeOK
    <3>2. CASE cache' = [cache EXCEPT ![r] = TTL]
      <4>1. \A s \in Restaurants : cache'[s] = IF s = r THEN TTL ELSE cache[s]
        BY <1>1, <3>2 DEF GateTypeOK
      <4>2. cache' \in [Restaurants -> 0..TTL]
        BY <1>1, <3>2 DEF GateTypeOK
      <4>3. QED
        BY <2>3, <4>1, <4>2 DEF StaleInv
    <3>3. QED
      BY <1>4, <2>1, <3>1, <3>2 DEF Store
  <2>5. Admit(q, r) /\ UNCHANGED <<status, since, hits, fuse, blocked, cut>>
    BY <1>4, <2>1 DEF Store
  <2>6. QED
    BY <2>3, <2>4, <2>5, AdmitKeeps
<1>5. CASE Exists(q)
  BY <1>2, <1>5, QuitKeeps, GoKeeps DEF Exists, Places
<1>6. CASE Incr(q)
  <2>1. hits' \in Nat
    BY <1>2, <1>6 DEF Incr, Counted
  <2>2. PICK place \in {"pexpire", "block", "user"} : Go(q, place)
    BY <1>6 DEF Incr
  <2>3. place \in Places \ {"set", "exists"}
    BY DEF Places
  <2>4. QED
    BY <1>2, <1>6, <2>1, <2>2, <2>3, GoKeeps DEF Incr
<1>7. CASE Pexpire(q)
  BY <1>2, <1>7, GoKeeps DEF Pexpire, Places
<1>8. CASE Block(q)
  BY <1>2, <1>8, QuitKeeps DEF Block
<1>9. CASE User(q)
  BY <1>2, <1>9, QuitKeeps DEF User
<1>10. QED
  BY <1>3, <1>4, <1>5, <1>6, <1>7, <1>8, <1>9 DEF Step

\* An INCR that is sent again moves nothing but the count.
LEMMA ResendKeeps ==
    ASSUME StaleInv, NEW q \in Requests, IncrUnanswered(q)
    PROVE  StaleInv'
<1>1. hits' \in Nat /\ cut' \in BOOLEAN
  BY DEF IncrUnanswered, Counted, StaleInv, GateTypeOK
<1>2. UNCHANGED <<status, since, cache, req, fuse, blocked>>
  BY DEF IncrUnanswered
<1>3. GateTypeOK'
  BY <1>1, <1>2 DEF StaleInv, GateTypeOK
<1>4. QED
  BY <1>2, <1>3 DEF StaleInv, At

LEMMA LookUpKeeps ==
    ASSUME StaleInv, NEW q \in Requests, NEW r \in Restaurants, LookUp(q, r)
    PROVE  StaleInv'
<1> USE GateAssumption
<1>1. GateTypeOK
  BY DEF StaleInv
<1>2. UNCHANGED <<status, since, cache, hits, fuse, blocked, cut>>
  BY DEF LookUp
<1>3. CASE cache[r] > 0 /\ Admit(q, r)
  <2>1. since[r] < TTL + Slack
    BY <1>1, <1>3 DEF StaleInv, GateTypeOK
  <2>2. /\ cache' \in [Restaurants -> 0..TTL]
        /\ \A s \in Restaurants : cache'[s] > 0 => since[s] + cache'[s] <= TTL + Slack
    BY <1>1, <1>2 DEF StaleInv, GateTypeOK
  <2>3. QED
    BY <1>2, <1>3, <2>1, <2>2, AdmitKeeps
<1>4. CASE req' = [req EXCEPT ![q].at = "query", ![q].of = r]
  <2>1. /\ req' \in [Requests -> [at : Places, of : Restaurants, held : 0..Slack, late : 0..Horizon]]
        /\ req'[q].at = "query"
        /\ \A p \in Requests \ {q} : req'[p] = req[p]
    BY <1>1, <1>4 DEF GateTypeOK, Places
  <2>2. GateTypeOK'
    BY <1>1, <1>2, <2>1 DEF GateTypeOK
  <2>3. QED
    BY <1>2, <2>1, <2>2 DEF StaleInv, At
<1>5. QED
  BY <1>3, <1>4 DEF LookUp

LEMMA CrashKeeps ==
    ASSUME StaleInv, CrashApi
    PROVE  StaleInv'
<1> USE GateAssumption
<1>1. GateTypeOK
  BY DEF StaleInv
<1>2. /\ 0 \in 0..Slack /\ 0 \in 0..Horizon /\ "idle" \in Places
  BY DEF Horizon, Places
<1>3. /\ req' \in [Requests -> [at : Places, of : Restaurants, held : 0..Slack, late : 0..Horizon]]
      /\ \A q \in Requests : req'[q].at = "idle"
  BY <1>1, <1>2 DEF GateTypeOK, CrashApi
<1>4. cut' \in BOOLEAN
  BY <1>1 DEF GateTypeOK, CrashApi
<1>5. UNCHANGED <<status, since, cache, hits, fuse, blocked>>
  BY DEF CrashApi
<1>6. GateTypeOK'
  BY <1>1, <1>3, <1>4, <1>5 DEF GateTypeOK
<1>7. QED
  BY <1>3, <1>5, <1>6 DEF StaleInv, At

\* A tick makes the evidence older by one and takes one from the life of each entry, and a
\* query that was answered is not held for longer than Slack.
LEMMA TickKeeps ==
    ASSUME StaleInv, Tick
    PROVE  StaleInv'
<1> USE GateAssumption
<1>1. GateTypeOK
  BY DEF StaleInv
<1>2. \A q \in Requests : req'[q] = IF req[q].at = "set" THEN [req[q] EXCEPT !.held = @ + 1]
                                    ELSE req[q]
  BY DEF Tick, Querying
<1>3. \A q \in Requests : /\ req'[q] \in [at : Places, of : Restaurants, held : 0..Slack, late : 0..Horizon]
                          /\ req'[q].at = req[q].at /\ req'[q].of = req[q].of
                          /\ req'[q].late = req[q].late
                          /\ req[q].at = "set" => req'[q].held = req[q].held + 1
  <2> TAKE q \in Requests
  <2>1. CASE req[q].at = "set"
    <3>1. req[q].held \in 0..Slack /\ req[q].held < Slack
      BY <1>1, <2>1, ReqTyped DEF Tick, Querying
    <3>2. req[q].held + 1 \in 0..Slack
      BY <3>1
    <3>3. req'[q] = [at |-> req[q].at, of |-> req[q].of, held |-> req[q].held + 1,
                     late |-> req[q].late]
      BY <1>1, <1>2, <2>1, ReqIsRecord
    <3>4. /\ req[q].at \in Places /\ req[q].of \in Restaurants /\ req[q].late \in 0..Horizon
      BY <1>1, ReqTyped
    <3>5. QED
      BY <2>1, <3>2, <3>3, <3>4
  <2>2. CASE req[q].at # "set"
    BY <1>1, <1>2, <2>2 DEF GateTypeOK
  <2>3. QED
    BY <2>1, <2>2
<1>4. req' \in [Requests -> [at : Places, of : Restaurants, held : 0..Slack, late : 0..Horizon]]
  BY <1>3 DEF Tick
<1>5. \A r \in Restaurants :
         /\ since'[r] \in 0..Horizon /\ since'[r] <= since[r] + 1
         /\ status[r] = "ACTIVE" => since'[r] = 0
  BY <1>1 DEF Tick, GateTypeOK, Horizon
<1>6. since' \in [Restaurants -> 0..Horizon]
  BY <1>5 DEF Tick
<1>7. \A r \in Restaurants :
         /\ cache'[r] \in 0..TTL
         /\ cache'[r] > 0 => cache[r] > 0 /\ cache'[r] = cache[r] - 1
  <2> TAKE r \in Restaurants
  <2>1. cache'[r] = Less(cache[r])
    BY DEF Tick
  <2>2. cache[r] \in 0..TTL
    BY <1>1 DEF GateTypeOK
  <2>3. QED
    BY <2>1, <2>2 DEF Less
<1>8. cache' \in [Restaurants -> 0..TTL]
  BY <1>7 DEF Tick
<1>9. hits' \in Nat /\ fuse' \in 1..Never /\ blocked' \in 0..Window
  BY <1>1 DEF Tick, GateTypeOK, Less, Never
<1>10. UNCHANGED <<status, cut>>
  BY DEF Tick
<1>11. GateTypeOK'
  BY <1>1, <1>4, <1>6, <1>8, <1>9, <1>10 DEF GateTypeOK
<1>12. \A r \in Restaurants : cache'[r] > 0 => since'[r] + cache'[r] <= TTL + Slack
  <2> TAKE r \in Restaurants
  <2> HAVE cache'[r] > 0
  <2>1. cache[r] > 0 /\ cache'[r] = cache[r] - 1
    BY <1>7
  <2>2. since[r] + cache[r] <= TTL + Slack
    BY <2>1 DEF StaleInv
  <2>3. since[r] \in Nat /\ cache[r] \in Nat /\ since'[r] \in Nat /\ since'[r] <= since[r] + 1
    BY <1>1, <1>5 DEF GateTypeOK
  <2>4. QED
    BY <2>1, <2>2, <2>3
<1>13. \A q \in Requests : req'[q].at = "set" => since'[req'[q].of] <= req'[q].held
  <2> TAKE q \in Requests
  <2> HAVE req'[q].at = "set"
  <2>1. req[q].at = "set" /\ req'[q].of = req[q].of /\ req'[q].held = req[q].held + 1
    BY <1>3
  <2>2. req[q].of \in Restaurants /\ req[q].held \in Nat /\ since[req[q].of] \in Nat
    BY <1>1, ReqTyped DEF GateTypeOK
  <2>3. since[req[q].of] <= req[q].held
    BY <2>1 DEF StaleInv, At
  <2>4. since'[req[q].of] \in Nat /\ since'[req[q].of] <= since[req[q].of] + 1
    BY <1>5, <2>2
  <2>5. QED
    BY <2>1, <2>2, <2>3, <2>4
<1>14. \A q \in Requests : req'[q].at = "exists" => req'[q].late < TTL + Slack
  BY <1>3 DEF StaleInv, At
<1>15. \A r \in Restaurants : status'[r] = "ACTIVE" => since'[r] = 0
  BY <1>5, <1>10
<1>16. QED
  BY <1>11, <1>12, <1>13, <1>14, <1>15 DEF StaleInv, At

\* A status that is written resets the age of the evidence or leaves it.
LEMMA SetStatusKeeps ==
    ASSUME StaleInv, NEW r \in Restaurants, NEW s \in Statuses, SetStatus(r, s)
    PROVE  StaleInv'
<1> USE GateAssumption
<1>1. GateTypeOK
  BY DEF StaleInv
<1>2. status' \in [Restaurants -> Statuses] /\ status'[r] = s
      /\ \A x \in Restaurants \ {r} : status'[x] = status[x]
  BY <1>1 DEF GateTypeOK, SetStatus
<1>3. since' \in [Restaurants -> 0..Horizon]
  BY <1>1 DEF GateTypeOK, SetStatus, Horizon
<1>4. \A x \in Restaurants : since'[x] = IF x = r /\ s = "ACTIVE" THEN 0 ELSE since[x]
  BY <1>1 DEF GateTypeOK, SetStatus
<1>5. \A x \in Restaurants : since[x] \in Nat /\ cache[x] \in 0..TTL
  BY <1>1 DEF GateTypeOK
<1>6. UNCHANGED <<cache, req, hits, fuse, blocked, cut>>
  BY DEF SetStatus
<1>7. GateTypeOK'
  BY <1>1, <1>2, <1>3, <1>6 DEF GateTypeOK
<1>8. \A x \in Restaurants : since'[x] <= since[x] /\ since'[x] \in Nat
  BY <1>4, <1>5
<1>9. \A x \in Restaurants : cache'[x] > 0 => since'[x] + cache'[x] <= TTL + Slack
  BY <1>5, <1>6, <1>8 DEF StaleInv
<1>10. \A q \in Requests : req'[q].at = "set" => since'[req'[q].of] <= req'[q].held
  <2> TAKE q \in Requests
  <2> HAVE req'[q].at = "set"
  <2>1. req[q].at = "set" /\ req'[q] = req[q]
    BY <1>6
  <2>2. req[q].of \in Restaurants /\ req[q].held \in Nat
    BY <1>1, ReqTyped, GateAssumption
  <2>3. since[req[q].of] <= req[q].held
    BY <2>1 DEF StaleInv, At
  <2>4. QED
    BY <1>5, <1>8, <2>1, <2>2, <2>3
<1>11. \A q \in Requests : req'[q].at = "exists" => req'[q].late < TTL + Slack
  BY <1>6 DEF StaleInv, At
<1>12. \A x \in Restaurants : status'[x] = "ACTIVE" => since'[x] = 0
  BY <1>2, <1>4 DEF StaleInv
<1>13. QED
  BY <1>7, <1>9, <1>10, <1>11, <1>12 DEF StaleInv, At
-----------------------------------------------------------------------------
(* The counter *)

\* While the counter has no end, the requests on their way to give it one stay there.
LEMMA OthersStay ==
    ASSUME StaleInv, NEW q \in Requests, ~At(q, "pexpire"),
           \A p \in Requests \ {q} : req'[p] = req[p],
           CounterHasEnd, hits' = hits, fuse' = fuse, cut' = cut
    PROVE  CounterHasEnd'
  BY DEF CounterHasEnd, At

LEMMA GateKeepsCounter ==
    ASSUME StaleInv, CounterHasEnd, GateNext
    PROVE  CounterHasEnd'
<1> USE GateAssumption
<1>1. GateTypeOK
  BY DEF StaleInv
<1>2. hits \in Nat
  BY <1>1 DEF GateTypeOK
<1>3. ASSUME NEW q \in Requests, Step(q) \/ \E r \in Restaurants : LookUp(q, r)
      PROVE  CounterHasEnd'
  <2>1. \A p \in Requests \ {q} : req'[p] = req[p]
    <3>1. \A place : Go(q, place) => \A p \in Requests \ {q} : req'[p] = req[p]
      BY <1>1 DEF GateTypeOK, Go
    <3>2. Quit(q) => \A p \in Requests \ {q} : req'[p] = req[p]
      BY <1>1 DEF GateTypeOK, Quit
    <3>3. \A r : Admit(q, r) => \A p \in Requests \ {q} : req'[p] = req[p]
      BY <1>1 DEF GateTypeOK, Admit
    <3>4. CASE Step(q)
      BY <3>1, <3>2, <3>3, <3>4
         DEF Step, Query, Store, Exists, Incr, Pexpire, Block, User
    <3>5. CASE \E r \in Restaurants : LookUp(q, r)
      <4>1. PICK r \in Restaurants : LookUp(q, r)
        BY <3>5
      <4>2. CASE Admit(q, r)
        BY <3>3, <4>2
      <4>3. CASE req' = [req EXCEPT ![q].at = "query", ![q].of = r]
        BY <1>1, <4>3 DEF GateTypeOK
      <4>4. QED
        BY <4>1, <4>2, <4>3 DEF LookUp
    <3>6. QED
      BY <1>3, <3>4, <3>5
  <2>2. CASE Incr(q)
    <3>1. At(q, "incr") /\ hits' = Counted /\ fuse' = fuse /\ cut' = cut
      BY <2>2 DEF Incr
    <3>2. CASE hits = 0
      <4>1. hits' = 1
        BY <3>1, <3>2 DEF Counted
      <4>2. Go(q, "pexpire")
        BY <2>2, <4>1 DEF Incr
      <4>3. req'[q].at = "pexpire"
        BY <1>1, <4>2 DEF GateTypeOK, Go
      <4>4. QED
        BY <4>3 DEF CounterHasEnd, At
    <3>3. CASE hits # 0
      <4>1. hits > 0 /\ ~At(q, "pexpire")
        BY <1>2, <3>1, <3>3 DEF At
      <4>2. QED
        BY <2>1, <3>1, <4>1 DEF CounterHasEnd, At
    <3>4. QED
      BY <3>2, <3>3
  <2>3. CASE Pexpire(q)
    <3>1. fuse' = Window
      BY <2>3 DEF Pexpire
    <3>2. fuse' # Never
      BY <3>1 DEF Never
    <3>3. QED
      BY <3>2 DEF CounterHasEnd, Never
  <2>4. CASE \/ Query(q) \/ Store(q) \/ Exists(q) \/ Block(q) \/ User(q)
             \/ \E r \in Restaurants : LookUp(q, r)
    <3>1. ~At(q, "pexpire") /\ hits' = hits /\ fuse' = fuse /\ cut' = cut
      BY <2>4 DEF Query, Store, Exists, Block, User, LookUp, At
    <3>2. QED
      BY <2>1, <3>1, OthersStay
  <2>5. QED
    BY <1>3, <2>2, <2>3, <2>4 DEF Step
<1>4. CASE CrashApi
  BY <1>4 DEF CrashApi, CounterHasEnd, Never
<1>5. CASE Tick
  <2>1. \A q \in Requests : req'[q].at = req[q].at
    <3>1. \A q \in Requests : req'[q] = IF req[q].at = "set" THEN [req[q] EXCEPT !.held = @ + 1]
                                        ELSE req[q]
      BY <1>5 DEF Tick, Querying
    <3>2. ASSUME NEW q \in Requests
          PROVE  req'[q].at = req[q].at
      <4>1. req[q] = [at |-> req[q].at, of |-> req[q].of,
                      held |-> req[q].held, late |-> req[q].late]
        BY <1>1, ReqIsRecord
      <4>2. CASE req[q].at = "set"
        <5>1. req'[q] = [req[q] EXCEPT !.held = @ + 1]
          BY <3>1, <4>2
        <5>2. QED
          BY <4>1, <5>1
      <4>3. CASE req[q].at # "set"
        BY <3>1, <4>3
      <4>4. QED
        BY <4>2, <4>3
    <3>3. QED
      BY <3>2
  <2>2. CASE fuse = 1
    BY <1>5, <2>2 DEF Tick, CounterHasEnd
  <2>3. CASE fuse = Never
    <3>1. UNCHANGED cut /\ (hits' = 0 \/ hits' = hits)
      BY <1>5 DEF Tick
    <3>2. QED
      BY <2>1, <2>3, <3>1 DEF CounterHasEnd, At
  <2>4. CASE fuse \notin {1, Never}
    <3>1. fuse' = fuse - 1 /\ fuse \in 1..Never
      BY <1>1, <1>5, <2>4 DEF Tick, GateTypeOK
    <3>2. fuse' # Never
      BY <3>1 DEF Never
    <3>3. QED
      BY <3>2 DEF CounterHasEnd, Never
  <2>5. QED
    BY <2>2, <2>3, <2>4
<1>6. CASE \E q \in Requests : IncrUnanswered(q)
  <2>1. PICK q \in Requests : IncrUnanswered(q)
    BY <1>6
  <2>2. UNCHANGED <<req, fuse>> /\ (cut => cut') /\ (hits = 0 => cut')
    BY <2>1 DEF IncrUnanswered
  <2>3. CASE hits = 0
    BY <2>2, <2>3 DEF CounterHasEnd
  <2>4. CASE hits # 0
    <3>1. hits > 0
      BY <1>2, <2>4
    <3>2. QED
      BY <2>2, <3>1 DEF CounterHasEnd, At
  <2>5. QED
    BY <2>3, <2>4
<1>7. QED
  BY <1>3, <1>4, <1>5, <1>6 DEF GateNext

LEMMA GateKeepsStale ==
    ASSUME StaleInv, GateNext
    PROVE  StaleInv'
  BY StepKeeps, ResendKeeps, LookUpKeeps, CrashKeeps, TickKeeps DEF GateNext
-----------------------------------------------------------------------------
(* The page *)

LEMMA NewCallTyped ==
    ASSUME NEW t \in Tabs, NEW op \in {"load", "detail", "status", "save"},
           NEW row \in SUBSET Row
    PROVE  NewCall(t, op, row) \in Call
  BY DEF NewCall, Call

LEMMA RowsAreRows ==
    ASSUME GateTypeOK
    PROVE  Rows \subseteq Row /\ \A r \in Restaurants : RowOf(r) \in Row
  BY DEF GateTypeOK, Rows, RowOf, Row

LEMMA TotalIsNumber == ActiveRows \in Nat
<1>1. IsFiniteSet({r \in Restaurants : status[r] = "ACTIVE"})
  BY PanelAssumption, FS_Subset
<1>2. QED
  BY <1>1, FS_CardinalityType DEF ActiveRows

LEMMA ReplacedAreRows ==
    ASSUME NEW rows \in SUBSET Row, NEW row \in Row
    PROVE  Replaced(rows, row) \in SUBSET Row
  BY DEF Replaced

LEMMA ClicksKeep ==
    ASSUME PanelTypeOK, NEW t \in Tabs,
           \/ Load(t) \/ ViewRestaurant(t) \/ UpdateTenantStatus(t) \/ SaveBasicTenantData(t)
    PROVE  PanelTypeOK' /\ UNCHANGED gateVars
<1>1. UNCHANGED <<shown, total, detail, unsure>> /\ UNCHANGED gateVars
  BY DEF Load, ViewRestaurant, UpdateTenantStatus, SaveBasicTenantData, NoScreen, NoGate
<1>2. shown[t] \subseteq Row /\ detail[t] \subseteq Row
  BY DEF PanelTypeOK
<1>3. \E c \in Call : calls' = calls \cup {c}
  <2>1. CASE Load(t)
    <3>1. NewCall(t, "load", {}) \in Call
      BY NewCallTyped
    <3>2. QED
      BY <2>1, <3>1 DEF Load
  <2>2. CASE ViewRestaurant(t)
    <3>1. PICK row \in shown[t] : calls' = calls \cup {NewCall(t, "detail", {row})}
      BY <2>2 DEF ViewRestaurant
    <3>2. {row} \in SUBSET Row
      BY <1>2, <3>1
    <3>3. NewCall(t, "detail", {row}) \in Call
      BY <3>2, NewCallTyped
    <3>4. QED
      BY <3>1, <3>3
  <2>3. CASE UpdateTenantStatus(t)
    <3>1. PICK row \in detail[t], s \in Statuses :
            calls' = calls \cup {NewCall(t, "status", {[row EXCEPT !.status = s]})}
      BY <2>3 DEF UpdateTenantStatus
    <3>2. [row EXCEPT !.status = s] \in Row
      BY <1>2, <3>1 DEF Row
    <3>3. {[row EXCEPT !.status = s]} \in SUBSET Row
      BY <3>2
    <3>4. NewCall(t, "status", {[row EXCEPT !.status = s]}) \in Call
      BY <3>3, NewCallTyped
    <3>5. QED
      BY <3>1, <3>4
  <2>4. CASE SaveBasicTenantData(t)
    <3>1. NewCall(t, "save", detail[t]) \in Call
      BY <1>2, NewCallTyped
    <3>2. QED
      BY <2>4, <3>1 DEF SaveBasicTenantData
  <2>5. QED
    BY <2>1, <2>2, <2>3, <2>4
<1>4. PICK c \in Call : calls' = calls \cup {c}
  BY <1>3
<1>5. calls' \subseteq Call
  BY <1>4 DEF PanelTypeOK
<1>6. QED
  BY <1>1, <1>5 DEF PanelTypeOK

LEMMA ChooseKeeps ==
    ASSUME PanelTypeOK, NEW t \in Tabs, ChooseStatus(t)
    PROVE  PanelTypeOK' /\ UNCHANGED gateVars
<1>1. PICK row \in detail[t], s \in Statuses :
        detail' = [detail EXCEPT ![t] = {[row EXCEPT !.status = s]}]
  BY DEF ChooseStatus
<1>2. [row EXCEPT !.status = s] \in Row
  BY <1>1 DEF PanelTypeOK, Row
<1>3. {[row EXCEPT !.status = s]} \in SUBSET Row
  BY <1>2
<1>4. detail' \in [Tabs -> SUBSET Row]
  BY <1>1, <1>3 DEF PanelTypeOK
<1>5. unsure' \in [Tabs -> SUBSET Parts]
  BY DEF ChooseStatus, PanelTypeOK, Parts
<1>6. UNCHANGED <<shown, total, calls>> /\ UNCHANGED gateVars
  BY DEF ChooseStatus, NoGate
<1>7. QED
  BY <1>4, <1>5, <1>6 DEF PanelTypeOK

\* The API reads rows and writes a row that a page has sent.
LEMMA ApiKeeps ==
    ASSUME PanelTypeOK, GateTypeOK, NEW c \in calls, Api(c)
    PROVE  /\ PanelTypeOK'
           /\ \/ UNCHANGED gateVars
              \/ \E r \in Restaurants, s \in Statuses : SetStatus(r, s)
<1>1. UNCHANGED <<shown, total, detail, unsure>>
  BY DEF Api, Count, List, Get, Patch, NoScreen
<1>2. c \in Call
  BY DEF PanelTypeOK
<1>3. ASSUME NEW d \in Call, Moves(c, d)
      PROVE  PanelTypeOK'
  <2>1. calls' \subseteq Call
    BY <1>3 DEF PanelTypeOK, Moves
  <2>2. QED
    BY <1>1, <2>1 DEF PanelTypeOK
<1>4. CASE Count(c)
  <2>1. [c EXCEPT !.at = "counted", !.total = ActiveRows] \in Call
    BY <1>2, TotalIsNumber DEF Call
  <2>2. QED
    BY <1>3, <1>4, <2>1 DEF Count, NoGate
<1>5. CASE List(c)
  <2>1. [c EXCEPT !.at = "done", !.rows = Rows] \in Call
    BY <1>2, RowsAreRows DEF Call
  <2>2. QED
    BY <1>3, <1>5, <2>1 DEF List, NoGate
<1>6. CASE Get(c)
  <2>1. {RowOf(row.id) : row \in c.row} \in SUBSET Row
    <3>1. \A row \in c.row : row.id \in Restaurants
      BY <1>2 DEF Call, Row
    <3>2. QED
      BY <3>1, RowsAreRows
  <2>2. [c EXCEPT !.at = "done", !.row = {RowOf(row.id) : row \in c.row}] \in Call
    BY <1>2, <2>1 DEF Call
  <2>3. QED
    BY <1>3, <1>6, <2>2 DEF Get, NoGate
<1>7. CASE Patch(c)
  <2>1. PICK row \in c.row : SetStatus(row.id, row.status)
    BY <1>7 DEF Patch
  <2>2. row.id \in Restaurants /\ row.status \in Statuses
    BY <1>2, <2>1 DEF Call, Row
  <2>3. [c EXCEPT !.at = "done"] \in Call
    BY <1>2 DEF Call
  <2>4. QED
    BY <1>3, <1>7, <2>1, <2>2, <2>3 DEF Patch
<1>8. QED
  BY <1>4, <1>5, <1>6, <1>7 DEF Api

LEMMA AnswersKeep ==
    ASSUME PanelTypeOK, NEW c \in calls, Answered(c)
    PROVE  PanelTypeOK' /\ UNCHANGED gateVars
<1>1. UNCHANGED gateVars
  BY DEF Answered, LoadAnswered, DetailAnswered, StatusAnswered, SaveAnswered, NoGate
<1>2. /\ c.tab \in Tabs /\ c.row \in SUBSET Row /\ c.rows \in SUBSET Row /\ c.total \in Nat
      /\ calls \subseteq Call
  BY DEF PanelTypeOK, Call
<1>3. CASE LoadAnswered(c)
  <2>1. shown' \in [Tabs -> SUBSET Row]
    BY <1>2, <1>3 DEF LoadAnswered, PanelTypeOK
  <2>2. total' \in [Tabs -> Nat]
    BY <1>2, <1>3 DEF LoadAnswered, PanelTypeOK
  <2>3. calls' \subseteq Call
    BY <1>2, <1>3 DEF LoadAnswered
  <2>4. UNCHANGED detail /\ unsure' \in [Tabs -> SUBSET Parts]
    BY <1>2, <1>3 DEF LoadAnswered, PanelTypeOK
  <2>5. QED
    BY <1>1, <2>1, <2>2, <2>3, <2>4 DEF PanelTypeOK
<1>4. CASE DetailAnswered(c)
  <2>1. detail' \in [Tabs -> SUBSET Row]
    BY <1>2, <1>4 DEF DetailAnswered, PanelTypeOK
  <2>2. calls' \subseteq Call
    BY <1>2, <1>4 DEF DetailAnswered
  <2>3. UNCHANGED <<shown, total>> /\ unsure' \in [Tabs -> SUBSET Parts]
    BY <1>2, <1>4 DEF DetailAnswered, PanelTypeOK
  <2>4. QED
    BY <1>1, <2>1, <2>2, <2>3 DEF PanelTypeOK
<1>5. ASSUME NEW row \in c.row, shown' = [shown EXCEPT ![c.tab] = Replaced(@, row)],
             UNCHANGED <<total, detail>>, calls' \subseteq Call,
             unsure' \in [Tabs -> SUBSET Parts]
      PROVE  PanelTypeOK'
  <2>1. Replaced(shown[c.tab], row) \in SUBSET Row
    BY <1>2, ReplacedAreRows DEF PanelTypeOK
  <2>2. shown' \in [Tabs -> SUBSET Row]
    BY <1>2, <1>5, <2>1 DEF PanelTypeOK
  <2>3. QED
    BY <1>5, <2>2 DEF PanelTypeOK
<1>6. CASE StatusAnswered(c)
  <2>1. PICK row \in c.row :
          /\ shown' = [shown EXCEPT ![c.tab] = Replaced(@, row)]
          /\ calls' = (calls \ {c}) \cup {NewCall(c.tab, "load", {})}
                      \cup {NewCall(c.tab, "detail", {row}) : old \in
                               {old \in detail[c.tab] : old.id = row.id}}
    BY <1>6 DEF StatusAnswered
  <2>2. NewCall(c.tab, "load", {}) \in Call /\ NewCall(c.tab, "detail", {row}) \in Call
    <3>1. {row} \in SUBSET Row /\ {} \in SUBSET Row
      BY <1>2, <2>1
    <3>2. QED
      BY <1>2, <3>1, NewCallTyped
  <2>3. calls' \subseteq Call
    BY <1>2, <2>1, <2>2
  <2>4. UNCHANGED <<total, detail>> /\ unsure' \in [Tabs -> SUBSET Parts]
    BY <1>6 DEF StatusAnswered, PanelTypeOK
  <2>5. shown' = [shown EXCEPT ![c.tab] = Replaced(@, row)]
    BY <2>1
  <2>6. QED
    BY <1>1, <1>5, <2>3, <2>4, <2>5
<1>7. CASE SaveAnswered(c)
  <2>1. PICK row \in c.row :
          /\ shown' = [shown EXCEPT ![c.tab] = Replaced(@, row)]
          /\ calls' = (calls \ {c}) \cup {NewCall(c.tab, "detail", {row})}
    BY <1>7 DEF SaveAnswered
  <2>2. NewCall(c.tab, "detail", {row}) \in Call
    <3>1. {row} \in SUBSET Row
      BY <1>2, <2>1
    <3>2. QED
      BY <1>2, <3>1, NewCallTyped
  <2>3. calls' \subseteq Call
    BY <1>2, <2>1, <2>2
  <2>4. UNCHANGED <<total, detail>> /\ unsure' \in [Tabs -> SUBSET Parts]
    BY <1>2, <1>7 DEF SaveAnswered, PanelTypeOK, Parts
  <2>5. shown' = [shown EXCEPT ![c.tab] = Replaced(@, row)]
    BY <2>1
  <2>6. QED
    BY <1>1, <1>5, <2>3, <2>4, <2>5
<1>8. QED
  BY <1>1, <1>3, <1>4, <1>6, <1>7 DEF Answered

LEMMA FailsKeeps ==
    ASSUME PanelTypeOK, NEW c \in calls, Fails(c)
    PROVE  PanelTypeOK' /\ UNCHANGED gateVars
<1>1. /\ UNCHANGED <<shown, total, detail>> /\ UNCHANGED gateVars
      /\ calls' \subseteq calls
      /\ unsure' = [unsure EXCEPT ![c.tab] = @ \cup LeftBehind(c)]
  BY DEF Fails, NoGate
<1>2. LeftBehind(c) \subseteq Parts
  BY DEF LeftBehind, Parts
<1>3. unsure' \in [Tabs -> SUBSET Parts]
  BY <1>1, <1>2 DEF PanelTypeOK
<1>4. QED
  BY <1>1, <1>3 DEF PanelTypeOK
-----------------------------------------------------------------------------
(* The two together *)

AccessInv == PanelTypeOK /\ StaleInv /\ CounterHasEnd

LEMMA AccessStart ==
    ASSUME Init
    PROVE  AccessInv
<1> USE GateAssumption
<1>1. 0 \in 0..Slack /\ 0 \in 0..Horizon /\ 0 \in 0..TTL /\ 0 \in 0..Window /\ Never \in 1..Never
  BY DEF Horizon, Never
<1>2. GateTypeOK
  <2>1. PICK r \in Restaurants :
          req = [q \in Requests |-> [at |-> "idle", of |-> r, held |-> 0, late |-> 0]]
    BY DEF Init, GateInit
  <2>2. req \in [Requests -> [at : Places, of : Restaurants, held : 0..Slack, late : 0..Horizon]]
    BY <1>1, <2>1 DEF Places
  <2>3. status \in [Restaurants -> Statuses]
    BY DEF Init, GateInit, Statuses
  <2>4. since \in [Restaurants -> 0..Horizon] /\ cache \in [Restaurants -> 0..TTL]
    BY <1>1 DEF Init, GateInit
  <2>5. hits \in Nat /\ fuse \in 1..Never /\ blocked \in 0..Window /\ cut \in BOOLEAN
    BY <1>1 DEF Init, GateInit
  <2>6. QED
    BY <2>2, <2>3, <2>4, <2>5 DEF GateTypeOK
<1>3. StaleInv
  BY <1>2 DEF Init, GateInit, StaleInv, At
<1>4. PanelTypeOK
  BY DEF Init, PanelInit, PanelTypeOK
<1>5. CounterHasEnd
  BY DEF Init, GateInit, CounterHasEnd
<1>6. QED
  BY <1>3, <1>4, <1>5 DEF AccessInv

LEMMA AccessKept ==
    ASSUME AccessInv, [Next]_vars
    PROVE  AccessInv'
<1> USE DEF AccessInv
<1>1. GateTypeOK
  BY DEF StaleInv
<1>2. ASSUME UNCHANGED gateVars
      PROVE  StaleInv' /\ CounterHasEnd'
  BY <1>2 DEF gateVars, StaleInv, GateTypeOK, CounterHasEnd, At
<1>3. ASSUME NEW r \in Restaurants, NEW s \in Statuses, SetStatus(r, s)
      PROVE  StaleInv' /\ CounterHasEnd'
  <2>1. StaleInv'
    BY <1>3, SetStatusKeeps
  <2>2. CounterHasEnd'
    BY <1>3 DEF SetStatus, CounterHasEnd, At
  <2>3. QED
    BY <2>1, <2>2
<1>4. CASE PanelNext
  BY <1>1, <1>2, <1>3, <1>4, ClicksKeep, ChooseKeeps, ApiKeeps, AnswersKeep, FailsKeeps DEF PanelNext
<1>5. CASE GateNext /\ UNCHANGED panelVars
  <2>1. StaleInv' /\ CounterHasEnd'
    BY <1>5, GateKeepsStale, GateKeepsCounter
  <2>2. PanelTypeOK'
    BY <1>5 DEF panelVars, PanelTypeOK
  <2>3. QED
    BY <2>1, <2>2
<1>6. CASE UNCHANGED vars
  BY <1>2, <1>6 DEF vars, panelVars, PanelTypeOK
<1>7. QED
  BY <1>4, <1>5, <1>6 DEF Next

\* The page, its calls and what passes the gate keep their types; the evidence on which a
\* request is let in is never older than an entry's life and the time of one query; and a
\* counter without an end is about to be given one, or was cut off from it.
THEOREM AccessInvariant == Spec => []AccessInv
<1>1. Init => AccessInv
  BY AccessStart
<1>2. AccessInv /\ [Next]_vars => AccessInv'
  BY AccessKept
<1>3. QED
  BY <1>1, <1>2, PTL DEF Spec

\* However many requests fill the cache side by side and whatever the administrators do
\* meanwhile, a request that needs a tenant is let in for a restaurant that was active less
\* than TTL + Slack ago.
THEOREM SuspendedAreServedBriefly == Spec => []StaleAtMost
<1>1. AccessInv => StaleAtMost
  BY DEF AccessInv, StaleInv, StaleAtMost
<1>2. QED
  BY <1>1, AccessInvariant, PTL

\* For any limit, window and number of requests, a counter that will not run out is the work
\* of a process that died between INCR and PEXPIRE, or of an INCR whose answer was lost.
THEOREM OnlyAFaultLeavesACounter == Spec => []CounterHasEnd
<1>1. AccessInv => CounterHasEnd
  BY DEF AccessInv
<1>2. QED
  BY <1>1, AccessInvariant, PTL
-----------------------------------------------------------------------------
(* One page that waits for its answers *)

\* A write is under way alone, of one row; when it is done, that is the row.  What the form
\* sends along is the row as it is, unless the form is unsure.
Writes(c) == c.op \in {"status", "save"}
OneRow(rows) == \E row \in Row : rows = {row}
WritesAlone ==
    \A c \in calls : /\ Writes(c) => \A d \in calls : d = c
                     /\ c.op # "load" => OneRow(c.row)
                     /\ Writes(c) /\ c.at = "done" => c.row \subseteq Rows
                     /\ c.op = "save" => c.row \subseteq Rows \/ "form" \in unsure[c.tab]

\* What the calls that read have read is so.
ReadsAreTrue == \A c \in calls : /\ c.op = "load" /\ c.at # "asked" => c.total = ActiveRows
                                 /\ c.op = "load" /\ c.at = "done" => c.rows = Rows
                                 /\ c.op = "detail" /\ c.at = "done" => c.row \subseteq Rows

\* Each part of the screen is right, or unsure, or the answer that puts it right is on its way.
ListIsTrue(t) ==
    \/ "list" \in unsure[t] \/ shown[t] \in {{}, Rows}
    \/ \E c \in calls : /\ Writes(c) /\ c.at = "done"
                        /\ \A row \in c.row : Replaced(shown[t], row) = Rows
TotalIsTrue(t) ==
    \/ "total" \in unsure[t] \/ shown[t] = {} \/ total[t] = ActiveRows
    \/ \E c \in calls : c.op = "load"
    \/ \E c \in calls : c.op = "status" /\ c.at = "done"
    \/ \E c \in calls : c.op = "save" /\ c.at = "done" /\ "form" \in unsure[t]
DetailIsTrue(t) ==
    \/ "form" \in unsure[t] \/ detail[t] \subseteq Rows
    \/ \E c \in calls : c.op = "detail"
    \/ \E c \in calls : /\ c.op = "status" /\ c.at = "done"
                        /\ \A old \in detail[t] : old \in Rows \/ \E row \in c.row : row.id = old.id

DetailIsOne(t) == detail[t] = {} \/ OneRow(detail[t])

PanelInv ==
    /\ WritesAlone /\ ReadsAreTrue
    /\ \A t \in Tabs : ListIsTrue(t) /\ TotalIsTrue(t) /\ DetailIsTrue(t) /\ DetailIsOne(t)

OnePage == \A t, u \in Tabs : t = u

LEMMA RowsStay ==
    ASSUME UNCHANGED status
    PROVE  Rows' = Rows /\ ActiveRows' = ActiveRows
BY DEF Rows, ActiveRows

\* A row put in the place of itself, or of the row it was written over.
LEMMA ReplacedIsRows ==
    ASSUME GateTypeOK, NEW row \in Row, NEW new, new = [status EXCEPT ![row.id] = row.status]
    PROVE  Replaced(Rows, row) = {[id |-> r, status |-> new[r]] : r \in Restaurants}
<1>1. row.id \in Restaurants /\ row = [id |-> row.id, status |-> row.status]
  BY DEF Row
<1>2. \A r \in Restaurants : new[r] = IF r = row.id THEN row.status ELSE status[r]
  BY <1>1 DEF GateTypeOK
<1>3. ASSUME NEW r \in Restaurants, NEW old, old = [id |-> r, status |-> status[r]]
      PROVE  (IF old.id = row.id THEN row ELSE old) = [id |-> r, status |-> new[r]]
  BY <1>1, <1>2, <1>3
<1>4. Replaced(Rows, row) \subseteq {[id |-> r, status |-> new[r]] : r \in Restaurants}
  <2>1. ASSUME NEW x \in Replaced(Rows, row)
        PROVE  x \in {[id |-> r, status |-> new[r]] : r \in Restaurants}
    <3>1. PICK old \in Rows : x = IF old.id = row.id THEN row ELSE old
      BY DEF Replaced
    <3>2. PICK r \in Restaurants : old = [id |-> r, status |-> status[r]]
      BY <3>1 DEF Rows
    <3>3. QED
      BY <3>1, <3>2, <1>3
  <2>2. QED
    BY <2>1
<1>5. ASSUME NEW r \in Restaurants
      PROVE  [id |-> r, status |-> new[r]] \in Replaced(Rows, row)
  <2>1. PICK old : old = [id |-> r, status |-> status[r]]
    OBVIOUS
  <2>2. old \in Rows
    BY <2>1 DEF Rows
  <2>3. (IF old.id = row.id THEN row ELSE old) \in Replaced(Rows, row)
    BY <2>2 DEF Replaced
  <2>4. QED
    BY <1>3, <2>1, <2>3
<1>6. QED
  BY <1>4, <1>5

LEMMA RowIsKnown ==
    ASSUME GateTypeOK, NEW row \in Row
    PROVE  row \in Rows <=> row.status = status[row.id]
<1>1. row.id \in Restaurants /\ row = [id |-> row.id, status |-> row.status]
  BY DEF Row
<1>2. ASSUME row.status = status[row.id]
      PROVE  row \in Rows
  BY <1>1, <1>2 DEF Rows
<1>3. ASSUME row \in Rows
      PROVE  row.status = status[row.id]
  <2>1. PICK r \in Restaurants : row = [id |-> r, status |-> status[r]]
    BY <1>3 DEF Rows
  <2>2. QED
    BY <2>1
<1>4. QED
  BY <1>2, <1>3

LEMMA ReplacedByItself ==
    ASSUME GateTypeOK, NEW row \in Row, row \in Rows, NEW list, list \in {{}, Rows}
    PROVE  Replaced(list, row) = list
<1>1. CASE list = {}
  BY <1>1 DEF Replaced
<1>2. CASE list = Rows
  <2>1. PICK new : new = [status EXCEPT ![row.id] = row.status]
    OBVIOUS
  <2>2. new = status
    BY <2>1, RowIsKnown DEF GateTypeOK, Row
  <2>3. QED
    BY <1>2, <2>1, <2>2, ReplacedIsRows DEF Rows
<1>3. QED
  BY <1>1, <1>2

\* While nothing is under way the screen is right, but for what is unsure.
LEMMA IdleIsTrue ==
    ASSUME PanelInv, calls = {}, NEW t \in Tabs
    PROVE  /\ "list" \in unsure[t] \/ shown[t] \in {{}, Rows}
           /\ "total" \in unsure[t] \/ shown[t] = {} \/ total[t] = ActiveRows
           /\ "form" \in unsure[t] \/ detail[t] \subseteq Rows
           /\ DetailIsOne(t)
BY DEF PanelInv, ListIsTrue, TotalIsTrue, DetailIsTrue

LEMMA OneClick ==
    ASSUME PanelTypeOK, PanelInv, calls = {}, UNCHANGED <<status, shown, total, detail, unsure>>,
           NEW c, calls' = {c}, c.at = "asked", c.op # "load" => OneRow(c.row),
           c.op = "save" => c.row \subseteq Rows \/ "form" \in unsure[c.tab]
    PROVE  PanelInv'
<1>1. Rows' = Rows /\ ActiveRows' = ActiveRows
  BY RowsStay
<1>2. WritesAlone'
  BY <1>1 DEF WritesAlone, Writes, OneRow
<1>3. ReadsAreTrue'
  BY DEF ReadsAreTrue
<1>4. \A t \in Tabs : ListIsTrue(t)' /\ TotalIsTrue(t)' /\ DetailIsTrue(t)' /\ DetailIsOne(t)'
  BY <1>1, IdleIsTrue DEF ListIsTrue, TotalIsTrue, DetailIsTrue, DetailIsOne, OneRow
<1>5. QED
  BY <1>2, <1>3, <1>4 DEF PanelInv

LEMMA NothingUnderWay ==
    ASSUME OnePage, Clicks = "alone", PanelTypeOK, NEW t \in Tabs, MayClick(t)
    PROVE  calls = {}
<1>1. \A c \in calls : c.tab # t /\ c.tab \in Tabs
  BY DEF MayClick, PanelTypeOK, Call
<1>2. QED
  BY <1>1 DEF OnePage

LEMMA ClicksKeepTrue ==
    ASSUME OnePage, Clicks = "alone", PanelTypeOK, GateTypeOK, PanelInv, NEW t \in Tabs,
           \/ Load(t) \/ ViewRestaurant(t) \/ UpdateTenantStatus(t) \/ SaveBasicTenantData(t)
    PROVE  PanelInv'
<1>1. UNCHANGED <<status, shown, total, detail, unsure>>
  BY DEF Load, ViewRestaurant, UpdateTenantStatus, SaveBasicTenantData, NoScreen, NoGate, gateVars
<1>2. calls = {}
  BY NothingUnderWay DEF Load, ViewRestaurant, UpdateTenantStatus, SaveBasicTenantData
<1>3. CASE Load(t)
  <2>1. PICK c : c = NewCall(t, "load", {})
    OBVIOUS
  <2>2. calls' = {c} /\ c.at = "asked" /\ c.op = "load"
    BY <1>2, <1>3, <2>1 DEF Load, NewCall
  <2>3. QED
    BY <1>1, <1>2, <2>2, OneClick
<1>4. CASE ViewRestaurant(t)
  <2>1. PICK row \in shown[t] : calls' = calls \cup {NewCall(t, "detail", {row})}
    BY <1>4 DEF ViewRestaurant
  <2>2. PICK c : c = NewCall(t, "detail", {row})
    OBVIOUS
  <2>3. calls' = {c} /\ c.at = "asked" /\ c.op = "detail" /\ c.row = {row}
    BY <1>2, <2>1, <2>2 DEF NewCall
  <2>4. OneRow(c.row)
    BY <2>1, <2>3 DEF OneRow, PanelTypeOK
  <2>5. QED
    BY <1>1, <1>2, <2>3, <2>4, OneClick
<1>5. CASE UpdateTenantStatus(t)
  <2>1. PICK row \in detail[t], s \in Statuses :
          calls' = calls \cup {NewCall(t, "status", {[row EXCEPT !.status = s]})}
    BY <1>5 DEF UpdateTenantStatus
  <2>2. PICK new : new = [row EXCEPT !.status = s]
    OBVIOUS
  <2>3. new \in Row
    BY <2>1, <2>2 DEF PanelTypeOK, Row
  <2>4. PICK c : c = NewCall(t, "status", {new})
    OBVIOUS
  <2>5. calls' = {c} /\ c.at = "asked" /\ c.op = "status" /\ c.row = {new}
    BY <1>2, <2>1, <2>2, <2>4 DEF NewCall
  <2>6. OneRow(c.row)
    BY <2>3, <2>5 DEF OneRow
  <2>7. QED
    BY <1>1, <1>2, <2>5, <2>6, OneClick
<1>6. CASE SaveBasicTenantData(t)
  <2>1. PICK c : c = NewCall(t, "save", detail[t])
    OBVIOUS
  <2>2. calls' = {c} /\ c.at = "asked" /\ c.op = "save" /\ c.row = detail[t] /\ c.tab = t
    BY <1>2, <1>6, <2>1 DEF SaveBasicTenantData, NewCall
  <2>3. c.row \subseteq Rows \/ "form" \in unsure[c.tab]
    BY <1>2, <2>2, IdleIsTrue
  <2>4. OneRow(c.row)
    BY <1>2, <1>6, <2>2, IdleIsTrue DEF DetailIsOne, SaveBasicTenantData
  <2>5. QED
    BY <1>1, <1>2, <2>2, <2>3, <2>4, OneClick
<1>7. QED
  BY <1>3, <1>4, <1>5, <1>6

\* A status that is chosen makes the form unsure, and nothing else.
LEMMA ChooseKeepsTrue ==
    ASSUME OnePage, Clicks = "alone", PanelTypeOK, PanelInv, NEW t \in Tabs, ChooseStatus(t)
    PROVE  PanelInv' /\ UNCHANGED status
<1>1. calls = {} /\ UNCHANGED <<status, shown, total, calls>>
  BY NothingUnderWay DEF ChooseStatus, NoGate, gateVars
<1>2. Rows' = Rows /\ ActiveRows' = ActiveRows
  BY <1>1, RowsStay
<1>3. PICK row \in detail[t], s \in Statuses :
        detail' = [detail EXCEPT ![t] = {[row EXCEPT !.status = s]}]
  BY DEF ChooseStatus
<1>4. [row EXCEPT !.status = s] \in Row
  BY <1>3 DEF PanelTypeOK, Row
<1>5. ASSUME NEW u \in Tabs
      PROVE  ListIsTrue(u)' /\ TotalIsTrue(u)' /\ DetailIsTrue(u)' /\ DetailIsOne(u)'
  <2>1. u = t
    BY DEF OnePage
  <2>2. unsure'[u] = unsure[u] \cup {"form"}
    BY <2>1 DEF ChooseStatus, PanelTypeOK
  <2>3. OneRow(detail[u])'
    BY <1>3, <1>4, <2>1 DEF OneRow, PanelTypeOK
  <2>4. QED
    BY <1>1, <1>2, <2>2, <2>3, IdleIsTrue
       DEF ListIsTrue, TotalIsTrue, DetailIsTrue, DetailIsOne
<1>6. WritesAlone' /\ ReadsAreTrue'
  BY <1>1 DEF WritesAlone, ReadsAreTrue
<1>7. QED
  BY <1>1, <1>5, <1>6 DEF PanelInv

\* Where something is read nothing is written.
LEMMA ReadsAlone ==
    ASSUME PanelInv, NEW c \in calls, ~Writes(c)
    PROVE  /\ \A d \in calls : ~Writes(d)
           /\ \A t \in Tabs : "list" \in unsure[t] \/ shown[t] \in {{}, Rows}
<1>1. \A d \in calls : ~Writes(d)
  BY DEF PanelInv, WritesAlone
<1>2. QED
  BY <1>1 DEF PanelInv, ListIsTrue, Writes

LEMMA ReadMoves ==
    ASSUME PanelInv, NEW c \in calls, ~Writes(c), NEW d, d.op = c.op, Moves(c, d),
           UNCHANGED <<status, shown, total, detail, unsure>>,
           d.op # "load" => OneRow(d.row),
           d.op = "load" /\ d.at # "asked" => d.total = ActiveRows,
           d.op = "load" /\ d.at = "done" => d.rows = Rows,
           d.op = "detail" /\ d.at = "done" => d.row \subseteq Rows
    PROVE  PanelInv'
<1>1. Rows' = Rows /\ ActiveRows' = ActiveRows
  BY RowsStay
<1>2. /\ \A e \in calls : ~Writes(e)
      /\ \A t \in Tabs : "list" \in unsure[t] \/ shown[t] \in {{}, Rows}
  BY ReadsAlone
<1>3. calls' = (calls \ {c}) \cup {d}
  BY DEF Moves
<1>4. WritesAlone'
  BY <1>2, <1>3 DEF PanelInv, WritesAlone, Writes, OneRow
<1>5. ReadsAreTrue'
  BY <1>1, <1>3 DEF PanelInv, ReadsAreTrue
<1>6. ASSUME NEW t \in Tabs
      PROVE  ListIsTrue(t)' /\ TotalIsTrue(t)' /\ DetailIsTrue(t)' /\ DetailIsOne(t)'
  <2>1. ListIsTrue(t)'
    BY <1>1, <1>2 DEF ListIsTrue
  <2>2. (\E e \in calls : e.op = "load") => \E e \in calls' : e.op = "load"
    BY <1>3
  <2>3. (\E e \in calls : e.op = "detail") => \E e \in calls' : e.op = "detail"
    BY <1>3
  <2>4. TotalIsTrue(t)'
    <3>1. \/ "total" \in unsure[t] \/ shown[t] = {} \/ total[t] = ActiveRows
          \/ \E e \in calls : e.op = "load"
      BY <1>2 DEF PanelInv, TotalIsTrue, Writes
    <3>2. QED
      BY <1>1, <2>2, <3>1 DEF TotalIsTrue
  <2>5. DetailIsTrue(t)'
    <3>1. \/ "form" \in unsure[t] \/ detail[t] \subseteq Rows
          \/ \E e \in calls : e.op = "detail"
      BY <1>2 DEF PanelInv, DetailIsTrue, Writes
    <3>2. QED
      BY <1>1, <2>3, <3>1 DEF DetailIsTrue
  <2>6. DetailIsOne(t)'
    BY DEF PanelInv, DetailIsOne, OneRow
  <2>7. QED
    BY <2>1, <2>4, <2>5, <2>6
<1>7. QED
  BY <1>4, <1>5, <1>6 DEF PanelInv

\* The API's reads.
LEMMA ReadsKeepTrue ==
    ASSUME PanelTypeOK, GateTypeOK, PanelInv, NEW c \in calls, Count(c) \/ List(c) \/ Get(c)
    PROVE  PanelInv'
<1>1. UNCHANGED <<status, shown, total, detail, unsure>>
  BY DEF Count, List, Get, NoScreen, NoGate, gateVars
<1>2. c \in Call /\ ~Writes(c)
  BY DEF PanelTypeOK, Count, List, Get, Writes
<1>3. CASE Count(c)
  <2>1. PICK d : d = [c EXCEPT !.at = "counted", !.total = ActiveRows]
    OBVIOUS
  <2>2. Moves(c, d) /\ d.op = "load" /\ c.op = "load" /\ d.at = "counted" /\ d.total = ActiveRows
    BY <1>2, <1>3, <2>1 DEF Count, Call
  <2>3. QED
    BY <1>1, <1>2, <2>2, ReadMoves
<1>4. CASE List(c)
  <2>1. PICK d : d = [c EXCEPT !.at = "done", !.rows = Rows]
    OBVIOUS
  <2>2. Moves(c, d) /\ d.op = "load" /\ c.op = "load" /\ d.at = "done" /\ d.rows = Rows
        /\ d.total = c.total /\ c.at = "counted"
    BY <1>2, <1>4, <2>1 DEF List, Call
  <2>3. c.total = ActiveRows
    BY <2>2 DEF PanelInv, ReadsAreTrue
  <2>4. QED
    BY <1>1, <1>2, <2>2, <2>3, ReadMoves
<1>5. CASE Get(c)
  <2>1. PICK rows : rows = {RowOf(row.id) : row \in c.row}
    OBVIOUS
  <2>2. PICK d : d = [c EXCEPT !.at = "done", !.row = rows]
    OBVIOUS
  <2>3. Moves(c, d) /\ d.op = "detail" /\ c.op = "detail" /\ d.row = rows
    BY <1>2, <1>5, <2>1, <2>2 DEF Get, Call
  <2>4. PICK row \in Row : c.row = {row}
    BY <2>3 DEF PanelInv, WritesAlone, OneRow
  <2>5. row.id \in Restaurants /\ rows = {RowOf(row.id)}
    BY <2>1, <2>4 DEF Row
  <2>6. RowOf(row.id) \in Row /\ RowOf(row.id) \in Rows
    BY <2>5, RowsAreRows DEF Rows, RowOf
  <2>7. OneRow(rows) /\ rows \subseteq Rows
    BY <2>5, <2>6 DEF OneRow
  <2>8. QED
    BY <1>1, <1>2, <2>3, <2>7, ReadMoves
<1>6. QED
  BY <1>3, <1>4, <1>5

\* A write: of a status, that the list is behind until the answer; of a form on which nothing
\* was chosen, that changes nothing shown here.
LEMMA PatchKeepsTrue ==
    ASSUME OnePage, PanelTypeOK, GateTypeOK, PanelInv, NEW c \in calls, Patch(c)
    PROVE  /\ PanelInv'
           /\ \A r \in Restaurants : status[r] = "SUSPENDED" /\ status'[r] = "ACTIVE" =>
                Chosen(c) /\ c.row = {[id |-> r, status |-> "ACTIVE"]}
<1>1. PICK row \in c.row : SetStatus(row.id, row.status)
  BY DEF Patch
<1>2. /\ Writes(c) /\ c.at = "asked" /\ UNCHANGED <<shown, total, detail, unsure>>
      /\ c \in Call /\ row \in Row /\ c.tab \in Tabs
  BY <1>1 DEF Patch, Writes, NoScreen, PanelTypeOK, Call
<1>3. PICK d : d = [c EXCEPT !.at = "done"]
  OBVIOUS
<1>4. d.at = "done" /\ d.op = c.op /\ d.row = c.row /\ d.tab = c.tab
  BY <1>2, <1>3 DEF Call
<1>5. \A e \in calls : e = c
  BY <1>2 DEF PanelInv, WritesAlone
<1>6. calls' = {d}
  BY <1>3, <1>5 DEF Patch, Moves
<1>7. \A t \in Tabs : /\ "list" \in unsure[t] \/ shown[t] \in {{}, Rows}
                      /\ "total" \in unsure[t] \/ shown[t] = {} \/ total[t] = ActiveRows
                      /\ "form" \in unsure[t] \/ detail[t] \subseteq Rows
                      /\ DetailIsOne(t)
  BY <1>2, <1>5 DEF PanelInv, ListIsTrue, TotalIsTrue, DetailIsTrue, Writes
<1>8. /\ row.id \in Restaurants /\ row.status \in Statuses
      /\ row = [id |-> row.id, status |-> row.status]
  BY <1>2 DEF Row
<1>9. status' = [status EXCEPT ![row.id] = row.status]
  BY <1>1 DEF SetStatus
<1>10. Rows' = {[id |-> r, status |-> status'[r]] : r \in Restaurants}
  BY DEF Rows
<1>11. status'[row.id] = row.status /\ \A r \in Restaurants \ {row.id} : status'[r] = status[r]
  BY <1>8, <1>9 DEF GateTypeOK
<1>12. row \in Rows'
  BY <1>8, <1>10, <1>11
<1>13. c.row = {row}
  BY <1>1, <1>2 DEF PanelInv, WritesAlone, Writes, OneRow
<1>14. c.op = "save" /\ "form" \notin unsure[c.tab] =>
         UNCHANGED status /\ Rows' = Rows /\ ActiveRows' = ActiveRows
  <2> HAVE c.op = "save" /\ "form" \notin unsure[c.tab]
  <2>1. row \in Rows
    BY <1>13 DEF PanelInv, WritesAlone
  <2>2. status[row.id] = row.status
    BY <1>2, <2>1, RowIsKnown
  <2>3. UNCHANGED status
    BY <1>8, <1>9, <2>2 DEF GateTypeOK
  <2>4. QED
    BY <2>3, RowsStay
<1>15. Replaced(Rows, row) = Rows'
  <2>1. PICK new : new = [status EXCEPT ![row.id] = row.status]
    OBVIOUS
  <2>2. row \in Row
    BY <1>2
  <2>3. new = status'
    BY <1>9, <2>1
  <2>4. QED
    BY <2>1, <2>2, <2>3, ReplacedIsRows DEF Rows
<1>16. ReadsAreTrue'
  BY <1>2, <1>4, <1>6 DEF ReadsAreTrue, Writes
<1>17. WritesAlone'
  BY <1>2, <1>4, <1>6, <1>12, <1>13 DEF WritesAlone, Writes, OneRow
<1>18. ASSUME NEW t \in Tabs
       PROVE  ListIsTrue(t)' /\ TotalIsTrue(t)' /\ DetailIsTrue(t)' /\ DetailIsOne(t)'
  <2>0. t = c.tab
    BY <1>2 DEF OnePage
  <2>1. ListIsTrue(t)'
    <3>1. CASE "list" \in unsure[t] \/ shown[t] = {}
      BY <1>2, <3>1 DEF ListIsTrue
    <3>2. CASE shown[t] = Rows
      <4>1. \A e \in d.row : Replaced(shown'[t], e) = Rows'
        BY <1>2, <1>4, <1>13, <1>15, <3>2
      <4>2. Writes(d)
        BY <1>2, <1>4 DEF Writes
      <4>3. QED
        BY <1>4, <1>6, <4>1, <4>2 DEF ListIsTrue, Writes
    <3>3. QED
      BY <1>7, <3>1, <3>2
  <2>2. TotalIsTrue(t)'
    <3>1. CASE c.op = "status" \/ "form" \in unsure[t]
      BY <1>2, <1>4, <1>6, <3>1 DEF TotalIsTrue, Writes
    <3>2. CASE c.op = "save" /\ "form" \notin unsure[t]
      BY <1>2, <1>7, <1>14, <2>0, <3>2 DEF TotalIsTrue
    <3>3. QED
      BY <1>2, <3>1, <3>2 DEF Writes
  <2>3. \A old \in detail'[t] : "form" \in unsure[t] \/ old \in Rows' \/ row.id = old.id
    <3>1. ASSUME NEW old \in detail[t], "form" \notin unsure[t], old.id # row.id
          PROVE  old \in Rows'
      <4>1. old \in Rows
        BY <1>7, <3>1
      <4>2. PICK r \in Restaurants : old = [id |-> r, status |-> status[r]]
        BY <4>1 DEF Rows
      <4>3. r # row.id
        BY <3>1, <4>2
      <4>4. QED
        BY <1>10, <1>11, <4>2, <4>3
    <3>2. QED
      BY <1>2, <3>1
  <2>4. DetailIsTrue(t)'
    <3>1. CASE c.op = "status"
      BY <1>2, <1>4, <1>6, <1>13, <2>3, <3>1 DEF DetailIsTrue
    <3>2. CASE c.op = "save"
      BY <1>2, <1>7, <1>14, <2>0, <3>2 DEF DetailIsTrue
    <3>3. QED
      BY <1>2, <3>1, <3>2 DEF Writes
  <2>5. DetailIsOne(t)'
    BY <1>2, <1>7 DEF DetailIsOne, OneRow
  <2>6. QED
    BY <2>1, <2>2, <2>4, <2>5
<1>19. ASSUME NEW r \in Restaurants, status[r] = "SUSPENDED", status'[r] = "ACTIVE"
       PROVE  Chosen(c) /\ c.row = {[id |-> r, status |-> "ACTIVE"]}
  <2>1. r = row.id /\ row.status = "ACTIVE"
    BY <1>11, <1>19
  <2>2. ~UNCHANGED status
    BY <1>19
  <2>3. Chosen(c)
    BY <1>2, <1>14, <2>2 DEF Chosen, Writes
  <2>4. QED
    BY <1>8, <1>13, <2>1, <2>3
<1>20. QED
  BY <1>16, <1>17, <1>18, <1>19 DEF PanelInv

\* The answer of a page is loaded whole, with its total.
LEMMA LoadAnsweredKeepsTrue ==
    ASSUME OnePage, PanelTypeOK, PanelInv, NEW c \in calls, LoadAnswered(c)
    PROVE  PanelInv'
<1>1. /\ c.op = "load" /\ c.at = "done" /\ c.tab \in Tabs /\ calls' = calls \ {c}
      /\ shown' = [shown EXCEPT ![c.tab] = c.rows] /\ total' = [total EXCEPT ![c.tab] = c.total]
      /\ unsure' = [unsure EXCEPT ![c.tab] = @ \ {"list", "total"}]
      /\ UNCHANGED <<detail, status>>
  BY DEF LoadAnswered, NoGate, gateVars, PanelTypeOK, Call
<1>2. c.rows = Rows /\ c.total = ActiveRows
  BY <1>1 DEF PanelInv, ReadsAreTrue
<1>3. Rows' = Rows /\ ActiveRows' = ActiveRows
  BY <1>1, RowsStay
<1>4. \A d \in calls : ~Writes(d)
  BY <1>1, ReadsAlone DEF Writes
<1>5. WritesAlone' /\ ReadsAreTrue'
  BY <1>1, <1>3, <1>4 DEF PanelInv, WritesAlone, ReadsAreTrue, Writes, OneRow
<1>6. ASSUME NEW t \in Tabs
      PROVE  ListIsTrue(t)' /\ TotalIsTrue(t)' /\ DetailIsTrue(t)' /\ DetailIsOne(t)'
  <2>1. t = c.tab
    BY <1>1 DEF OnePage
  <2>2. shown'[t] = Rows' /\ total'[t] = ActiveRows'
    BY <1>1, <1>2, <1>3, <2>1 DEF PanelTypeOK
  <2>3. "form" \in unsure[t] => "form" \in unsure'[t]
    BY <1>1, <2>1 DEF PanelTypeOK
  <2>4. (\E e \in calls : e.op = "detail") => \E e \in calls' : e.op = "detail"
    BY <1>1
  <2>5. \/ "form" \in unsure[t] \/ detail[t] \subseteq Rows
        \/ \E e \in calls : e.op = "detail"
    BY <1>4 DEF PanelInv, DetailIsTrue, Writes
  <2>6. DetailIsTrue(t)' /\ DetailIsOne(t)'
    BY <1>1, <1>3, <2>3, <2>4, <2>5 DEF PanelInv, DetailIsTrue, DetailIsOne, OneRow
  <2>7. QED
    BY <2>2, <2>6 DEF ListIsTrue, TotalIsTrue
<1>7. QED
  BY <1>5, <1>6 DEF PanelInv

LEMMA DetailAnsweredKeepsTrue ==
    ASSUME OnePage, PanelTypeOK, PanelInv, NEW c \in calls, DetailAnswered(c)
    PROVE  PanelInv'
<1>1. /\ c.op = "detail" /\ c.at = "done" /\ c.tab \in Tabs /\ calls' = calls \ {c}
      /\ detail' = [detail EXCEPT ![c.tab] = c.row]
      /\ unsure' = [unsure EXCEPT ![c.tab] = @ \ {"form"}]
      /\ UNCHANGED <<shown, total, status>>
  BY DEF DetailAnswered, NoGate, gateVars, PanelTypeOK, Call
<1>2. c.row \subseteq Rows /\ OneRow(c.row)
  BY <1>1 DEF PanelInv, WritesAlone, ReadsAreTrue
<1>3. Rows' = Rows /\ ActiveRows' = ActiveRows
  BY <1>1, RowsStay
<1>4. /\ \A d \in calls : ~Writes(d)
      /\ \A t \in Tabs : "list" \in unsure[t] \/ shown[t] \in {{}, Rows}
  BY <1>1, ReadsAlone DEF Writes
<1>5. WritesAlone' /\ ReadsAreTrue'
  BY <1>1, <1>3, <1>4 DEF PanelInv, WritesAlone, ReadsAreTrue, Writes, OneRow
<1>6. ASSUME NEW t \in Tabs
      PROVE  ListIsTrue(t)' /\ TotalIsTrue(t)' /\ DetailIsTrue(t)' /\ DetailIsOne(t)'
  <2>1. t = c.tab
    BY <1>1 DEF OnePage
  <2>2. detail'[t] = c.row
    BY <1>1, <2>1 DEF PanelTypeOK
  <2>3. /\ "list" \in unsure[t] => "list" \in unsure'[t]
        /\ "total" \in unsure[t] => "total" \in unsure'[t]
    BY <1>1, <2>1 DEF PanelTypeOK
  <2>4. (\E e \in calls : e.op = "load") => \E e \in calls' : e.op = "load"
    BY <1>1
  <2>5. \/ "total" \in unsure[t] \/ shown[t] = {} \/ total[t] = ActiveRows
        \/ \E e \in calls : e.op = "load"
    BY <1>4 DEF PanelInv, TotalIsTrue, Writes
  <2>6. ListIsTrue(t)' /\ TotalIsTrue(t)'
    BY <1>1, <1>3, <1>4, <2>3, <2>4, <2>5 DEF ListIsTrue, TotalIsTrue
  <2>7. DetailIsTrue(t)' /\ DetailIsOne(t)'
    BY <1>2, <1>3, <2>2 DEF DetailIsTrue, DetailIsOne, OneRow
  <2>8. QED
    BY <2>6, <2>7
<1>7. QED
  BY <1>5, <1>6 DEF PanelInv

\* The row of an answered write, put in the place of what the list showed.
LEMMA RowPutOnList ==
    ASSUME OnePage, PanelTypeOK, GateTypeOK, PanelInv, NEW c \in calls, Writes(c), c.at = "done",
           NEW row \in c.row, shown' = [shown EXCEPT ![c.tab] = Replaced(@, row)],
           NEW t \in Tabs, UNCHANGED status, "list" \in unsure[t] => "list" \in unsure'[t]
    PROVE  ListIsTrue(t)'
<1>1. c.tab = t /\ row \in Row
  BY DEF OnePage, PanelTypeOK, Call
<1>2. row \in Rows /\ \A d \in calls : d = c
  BY DEF PanelInv, WritesAlone
<1>3. Rows' = Rows
  BY RowsStay
<1>4. shown'[t] = Replaced(shown[t], row)
  BY <1>1 DEF PanelTypeOK
<1>5. CASE "list" \in unsure[t]
  BY <1>5 DEF ListIsTrue
<1>6. CASE shown[t] \in {{}, Rows}
  <2>1. PICK list : list = shown[t]
    OBVIOUS
  <2>2. Replaced(list, row) = list
    BY <1>1, <1>2, <1>6, <2>1, ReplacedByItself
  <2>3. QED
    BY <1>3, <1>4, <1>6, <2>1, <2>2 DEF ListIsTrue
<1>7. CASE \A e \in c.row : Replaced(shown[t], e) = Rows
  BY <1>3, <1>4, <1>7 DEF ListIsTrue
<1>8. QED
  BY <1>2, <1>5, <1>6, <1>7 DEF PanelInv, ListIsTrue

\* The row takes the place of what the page showed, and the rest is asked for again.
LEMMA StatusAnsweredKeepsTrue ==
    ASSUME OnePage, PanelTypeOK, GateTypeOK, PanelInv, NEW c \in calls, StatusAnswered(c)
    PROVE  PanelInv'
<1>1. PICK row \in c.row :
         /\ shown' = [shown EXCEPT ![c.tab] = Replaced(@, row)]
         /\ calls' = (calls \ {c}) \cup {NewCall(c.tab, "load", {})}
                     \cup {NewCall(c.tab, "detail", {row}) : old \in
                              {old \in detail[c.tab] : old.id = row.id}}
  BY DEF StatusAnswered
<1>2. /\ c.op = "status" /\ c.at = "done" /\ c.tab \in Tabs /\ row \in Row
      /\ UNCHANGED <<total, detail, status, unsure>>
  BY <1>1 DEF StatusAnswered, NoGate, gateVars, PanelTypeOK, Call
<1>3. \A d \in calls : d = c
  BY <1>2 DEF PanelInv, WritesAlone, Writes
<1>4. row \in Rows /\ c.row = {row}
  BY <1>1, <1>2 DEF PanelInv, WritesAlone, Writes, OneRow
<1>5. Rows' = Rows /\ ActiveRows' = ActiveRows
  BY <1>2, RowsStay
<1>6. PICK load : load = NewCall(c.tab, "load", {})
  OBVIOUS
<1>7. PICK again : again = NewCall(c.tab, "detail", {row})
  OBVIOUS
<1>8. /\ load.op = "load" /\ load.at = "asked"
      /\ again.op = "detail" /\ again.at = "asked" /\ OneRow(again.row)
  BY <1>2, <1>6, <1>7 DEF NewCall, OneRow
<1>9. \A d \in calls' : d = load \/ d = again
  BY <1>1, <1>3, <1>6, <1>7
<1>10. load \in calls' /\ ((\E old \in detail[c.tab] : old.id = row.id) => again \in calls')
  BY <1>1, <1>6, <1>7
<1>11. WritesAlone' /\ ReadsAreTrue'
  BY <1>8, <1>9 DEF WritesAlone, ReadsAreTrue, Writes, OneRow
<1>12. ASSUME NEW t \in Tabs
       PROVE  ListIsTrue(t)' /\ TotalIsTrue(t)' /\ DetailIsTrue(t)' /\ DetailIsOne(t)'
  <2>1. t = c.tab
    BY <1>2 DEF OnePage
  <2>2. ListIsTrue(t)'
    BY <1>1, <1>2, RowPutOnList DEF Writes
  <2>3. TotalIsTrue(t)'
    BY <1>8, <1>10 DEF TotalIsTrue
  <2>4. DetailIsTrue(t)'
    <3>1. CASE \E old \in detail[t] : old.id = row.id
      BY <1>8, <1>10, <2>1, <3>1 DEF DetailIsTrue
    <3>2. CASE \A old \in detail[t] : old.id # row.id
      <4>1. "form" \in unsure[t] \/ detail[t] \subseteq Rows
        BY <1>2, <1>3, <1>4, <3>2 DEF PanelInv, DetailIsTrue
      <4>2. QED
        BY <1>2, <1>5, <4>1 DEF DetailIsTrue
    <3>3. QED
      BY <3>1, <3>2
  <2>5. DetailIsOne(t)'
    BY <1>2 DEF PanelInv, DetailIsOne, OneRow
  <2>6. QED
    BY <2>2, <2>3, <2>4, <2>5
<1>13. QED
  BY <1>11, <1>12 DEF PanelInv

\* The row likewise, and the detail again; a form that was unsure leaves the totals unsure.
LEMMA SaveAnsweredKeepsTrue ==
    ASSUME OnePage, PanelTypeOK, GateTypeOK, PanelInv, NEW c \in calls, SaveAnswered(c)
    PROVE  PanelInv'
<1>1. PICK row \in c.row :
         /\ shown' = [shown EXCEPT ![c.tab] = Replaced(@, row)]
         /\ calls' = (calls \ {c}) \cup {NewCall(c.tab, "detail", {row})}
  BY DEF SaveAnswered
<1>2. /\ c.op = "save" /\ c.at = "done" /\ c.tab \in Tabs /\ row \in Row
      /\ UNCHANGED <<total, detail, status>>
      /\ unsure' = [unsure EXCEPT ![c.tab] = IF "form" \in @ THEN @ \cup {"total"} ELSE @]
  BY <1>1 DEF SaveAnswered, NoGate, gateVars, PanelTypeOK, Call
<1>3. \A d \in calls : d = c
  BY <1>2 DEF PanelInv, WritesAlone, Writes
<1>4. Rows' = Rows /\ ActiveRows' = ActiveRows
  BY <1>2, RowsStay
<1>5. PICK again : again = NewCall(c.tab, "detail", {row})
  OBVIOUS
<1>6. calls' = {again} /\ again.op = "detail" /\ again.at = "asked" /\ again.row = {row}
  BY <1>1, <1>3, <1>5 DEF NewCall
<1>7. WritesAlone' /\ ReadsAreTrue'
  BY <1>2, <1>6 DEF WritesAlone, ReadsAreTrue, Writes, OneRow
<1>8. ASSUME NEW t \in Tabs
      PROVE  ListIsTrue(t)' /\ TotalIsTrue(t)' /\ DetailIsTrue(t)' /\ DetailIsOne(t)'
  <2>1. t = c.tab
    BY <1>2 DEF OnePage
  <2>2. /\ unsure[t] \subseteq unsure'[t]
        /\ "form" \in unsure[t] => "total" \in unsure'[t]
    BY <1>2, <2>1 DEF PanelTypeOK
  <2>3. ListIsTrue(t)'
    BY <1>1, <1>2, <2>2, RowPutOnList DEF Writes
  <2>4. TotalIsTrue(t)'
    <3>1. "total" \in unsure'[t] \/ shown[t] = {} \/ total[t] = ActiveRows
      BY <1>2, <1>3, <2>2 DEF PanelInv, TotalIsTrue
    <3>2. shown[t] = {} => shown'[t] = {}
      BY <1>1, <2>1 DEF PanelTypeOK, Replaced
    <3>3. QED
      BY <1>2, <1>4, <3>1, <3>2 DEF TotalIsTrue
  <2>5. DetailIsTrue(t)' /\ DetailIsOne(t)'
    BY <1>2, <1>6 DEF PanelInv, DetailIsTrue, DetailIsOne, OneRow
  <2>6. QED
    BY <2>3, <2>4, <2>5
<1>9. QED
  BY <1>7, <1>8 DEF PanelInv

\* A call that fails makes unsure what it was to put right.
LEMMA FailsKeepsTrue ==
    ASSUME OnePage, PanelTypeOK, PanelInv, NEW c \in calls, Fails(c)
    PROVE  PanelInv' /\ UNCHANGED status
<1>1. /\ calls' = calls \ {c} /\ c \in Call /\ c.tab \in Tabs
      /\ unsure' = [unsure EXCEPT ![c.tab] = @ \cup LeftBehind(c)]
      /\ UNCHANGED <<shown, total, detail, status>>
  BY DEF Fails, NoGate, gateVars, PanelTypeOK, Call
<1>2. Rows' = Rows /\ ActiveRows' = ActiveRows
  BY <1>1, RowsStay
<1>3. \A t \in Tabs : unsure'[t] = unsure[t] \cup LeftBehind(c)
  BY <1>1 DEF OnePage, PanelTypeOK
<1>4. WritesAlone'
  <2>1. ASSUME NEW d \in calls'
        PROVE  /\ d \in calls /\ d.tab \in Tabs
               /\ "form" \in unsure[d.tab] => "form" \in unsure'[d.tab]
    BY <1>1, <1>3 DEF PanelTypeOK, Call
  <2>2. QED
    BY <1>1, <1>2, <2>1 DEF PanelInv, WritesAlone, Writes, OneRow
<1>5. ReadsAreTrue'
  BY <1>1, <1>2 DEF PanelInv, ReadsAreTrue
<1>6. ASSUME NEW t \in Tabs
      PROVE  ListIsTrue(t)' /\ TotalIsTrue(t)' /\ DetailIsTrue(t)' /\ DetailIsOne(t)'
  <2>1. DetailIsOne(t)'
    BY <1>1 DEF PanelInv, DetailIsOne, OneRow
  <2>2. CASE Writes(c) /\ c.at = "done"
    <3>1. unsure'[t] = Parts
      BY <1>3, <2>2 DEF LeftBehind, Writes, PanelTypeOK
    <3>2. QED
      BY <2>1, <3>1 DEF Parts, ListIsTrue, TotalIsTrue, DetailIsTrue
  <2>3. CASE Writes(c) /\ c.at # "done"
    <3>1. \A d \in calls : d = c
      BY <2>3 DEF PanelInv, WritesAlone
    <3>2. /\ "list" \in unsure[t] \/ shown[t] \in {{}, Rows}
          /\ "total" \in unsure[t] \/ shown[t] = {} \/ total[t] = ActiveRows
          /\ "form" \in unsure[t] \/ detail[t] \subseteq Rows
      BY <2>3, <3>1 DEF PanelInv, ListIsTrue, TotalIsTrue, DetailIsTrue, Writes
    <3>3. QED
      BY <1>1, <1>2, <1>3, <2>1, <3>2 DEF ListIsTrue, TotalIsTrue, DetailIsTrue
  <2>4. CASE ~Writes(c)
    <3>1. /\ \A d \in calls : ~Writes(d)
          /\ "list" \in unsure[t] \/ shown[t] \in {{}, Rows}
      BY <2>4, ReadsAlone
    <3>2. ListIsTrue(t)'
      BY <1>1, <1>2, <1>3, <3>1 DEF ListIsTrue
    <3>3. \/ "total" \in unsure[t] \/ shown[t] = {} \/ total[t] = ActiveRows
          \/ \E e \in calls : e.op = "load"
      BY <3>1 DEF PanelInv, TotalIsTrue, Writes
    <3>4. \/ "form" \in unsure[t] \/ detail[t] \subseteq Rows
          \/ \E e \in calls : e.op = "detail"
      BY <3>1 DEF PanelInv, DetailIsTrue, Writes
    <3>5. CASE c.op = "load"
      <4>1. "total" \in unsure'[t]
        BY <1>3, <3>5 DEF LeftBehind
      <4>2. (\E e \in calls : e.op = "detail") => \E e \in calls' : e.op = "detail"
        BY <1>1, <3>5
      <4>3. DetailIsTrue(t)'
        BY <1>1, <1>2, <1>3, <3>4, <4>2 DEF DetailIsTrue
      <4>4. QED
        BY <2>1, <3>2, <4>1, <4>3 DEF TotalIsTrue
    <3>6. CASE c.op = "detail"
      <4>1. "form" \in unsure'[t]
        BY <1>3, <3>6 DEF LeftBehind
      <4>2. (\E e \in calls : e.op = "load") => \E e \in calls' : e.op = "load"
        BY <1>1, <3>6
      <4>3. TotalIsTrue(t)'
        BY <1>1, <1>2, <1>3, <3>3, <4>2 DEF TotalIsTrue
      <4>4. QED
        BY <2>1, <3>2, <4>1, <4>3 DEF DetailIsTrue
    <3>7. QED
      BY <1>1, <2>4, <3>5, <3>6 DEF Call, Writes
  <2>5. QED
    BY <2>2, <2>3, <2>4
<1>7. QED
  BY <1>1, <1>4, <1>5, <1>6 DEF PanelInv

\* Only a write of the panel touches a status.
LEMMA GateKeepsStatus ==
    ASSUME GateNext
    PROVE  UNCHANGED status
BY DEF GateNext, Step, LookUp, Query, Store, Exists, Incr, IncrUnanswered, Pexpire, Block, User,
       CrashApi, Tick

LEMMA PanelStays ==
    ASSUME PanelInv, UNCHANGED <<status, panelVars>>
    PROVE  PanelInv'
<1>1. Rows' = Rows /\ ActiveRows' = ActiveRows
  BY RowsStay
<1>2. UNCHANGED <<shown, total, detail, calls, unsure>>
  BY DEF panelVars
<1>3. WritesAlone' /\ ReadsAreTrue'
  BY <1>1, <1>2 DEF PanelInv, WritesAlone, ReadsAreTrue, OneRow
<1>4. \A t \in Tabs : ListIsTrue(t)' /\ TotalIsTrue(t)' /\ DetailIsTrue(t)' /\ DetailIsOne(t)'
  BY <1>1, <1>2 DEF PanelInv, ListIsTrue, TotalIsTrue, DetailIsTrue, DetailIsOne, OneRow
<1>5. QED
  BY <1>3, <1>4 DEF PanelInv

LEMMA PanelKept ==
    ASSUME OnePage, Clicks = "alone", AccessInv, PanelInv, [Next]_vars
    PROVE  /\ PanelInv'
           /\ \A r \in Restaurants : status[r] = "SUSPENDED" /\ status'[r] = "ACTIVE" =>
                \E c \in calls : Chosen(c) /\ c.row = {[id |-> r, status |-> "ACTIVE"]}
<1>1. PanelTypeOK /\ GateTypeOK
  BY DEF AccessInv, StaleInv
<1>2. ASSUME NEW t \in Tabs,
             \/ Load(t) \/ ViewRestaurant(t) \/ UpdateTenantStatus(t) \/ SaveBasicTenantData(t)
      PROVE  PanelInv' /\ UNCHANGED status
  BY <1>1, <1>2, ClicksKeepTrue, ClicksKeep DEF gateVars
<1>3. ASSUME NEW c \in calls, Count(c) \/ List(c) \/ Get(c)
      PROVE  PanelInv' /\ UNCHANGED status
  <2>1. UNCHANGED status
    BY <1>3 DEF Count, List, Get, NoGate, gateVars
  <2>2. QED
    BY <1>1, <1>3, <2>1, ReadsKeepTrue
<1>4. ASSUME NEW c \in calls, Answered(c)
      PROVE  PanelInv' /\ UNCHANGED status
  <2>1. UNCHANGED status
    BY <1>1, <1>4, AnswersKeep DEF gateVars
  <2>2. QED
    BY <1>1, <1>4, <2>1, LoadAnsweredKeepsTrue, DetailAnsweredKeepsTrue, StatusAnsweredKeepsTrue,
       SaveAnsweredKeepsTrue DEF Answered
<1>5. ASSUME NEW t \in Tabs, ChooseStatus(t)
      PROVE  PanelInv' /\ UNCHANGED status
  BY <1>1, <1>5, ChooseKeepsTrue
<1>6. ASSUME NEW c \in calls, Fails(c)
      PROVE  PanelInv' /\ UNCHANGED status
  BY <1>1, <1>6, FailsKeepsTrue
<1>7. CASE PanelNext
  <2>1. CASE \E c \in calls : Patch(c)
    BY <1>1, <2>1, PatchKeepsTrue
  <2>2. CASE ~\E c \in calls : Patch(c)
    <3>1. PanelInv' /\ UNCHANGED status
      BY <1>2, <1>3, <1>4, <1>5, <1>6, <1>7, <2>2 DEF PanelNext, Api
    <3>2. QED
      BY <3>1
  <2>3. QED
    BY <2>1, <2>2
<1>8. CASE GateNext /\ UNCHANGED panelVars
  <2>1. UNCHANGED status
    BY <1>8, GateKeepsStatus
  <2>2. QED
    BY <1>8, <2>1, PanelStays
<1>9. CASE UNCHANGED vars
  <2>1. UNCHANGED status /\ UNCHANGED panelVars
    BY <1>9 DEF vars, gateVars
  <2>2. QED
    BY <2>1, PanelStays
<1>10. QED
  BY <1>7, <1>8, <1>9 DEF Next

LEMMA PanelStarts ==
    ASSUME Init
    PROVE  PanelInv
BY DEF Init, PanelInit, PanelInv, WritesAlone, ReadsAreTrue, ListIsTrue, TotalIsTrue, DetailIsTrue,
       DetailIsOne

\* One page that waits for the answer before the next click, over any number of restaurants and
\* whichever calls of it fail: when nothing is under way its list is the table, its totals
\* count it and its form is the row, but for what a status chosen on the form or a failed
\* call has left behind.
THEOREM PanelStaysTrue ==
    ASSUME OnePage, Clicks = "alone"
    PROVE  Spec => []PanelIsTrue
<1>1. Init => PanelInv
  BY PanelStarts
<1>2. AccessInv /\ PanelInv /\ [Next]_vars => PanelInv'
  BY PanelKept
<1>3. PanelInv => PanelIsTrue
  BY IdleIsTrue DEF PanelIsTrue
<1>4. QED
  BY <1>1, <1>2, <1>3, AccessInvariant, PTL DEF Spec

\* The same page brings a suspended restaurant back with the button or with a status chosen on
\* the form: a form whose last load has not failed and on which nothing was chosen sends along
\* the status as it is.
THEOREM OnlyAChoiceRevives ==
    ASSUME OnePage, Clicks = "alone"
    PROVE  Spec => SuspensionStands
<1>1. Init => PanelInv
  BY PanelStarts
<1>2. AccessInv /\ PanelInv /\ [Next]_vars => PanelInv'
  BY PanelKept
<1>3. AccessInv /\ PanelInv /\ [Next]_vars =>
        [\A r \in Restaurants : status[r] = "SUSPENDED" /\ status'[r] = "ACTIVE" =>
           \E c \in calls : Chosen(c) /\ c.row = {[id |-> r, status |-> "ACTIVE"]}]_status
  BY PanelKept
<1>4. QED
  BY <1>1, <1>2, <1>3, AccessInvariant, PTL DEF Spec, SuspensionStands
=============================================================================
