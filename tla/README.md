# whatboo in TLA+

whatboo takes restaurant bookings over WhatsApp and lets each restaurant run its
book from a dashboard. One NestJS API (`src/apps/api`), possibly several
processes of it, serves every restaurant ("tenant"); PostgreSQL (through Prisma)
keeps the rows, Redis keeps locks, caches, rate-limit counters and the BullMQ
queues, and an Angular dashboard (`src/apps/web`) calls the API.

This directory models that program: what it keeps, what each operation does
statement by statement, and what must stay true when operations interleave,
fail half-way, time out, are retried or arrive twice.

## 1. Inventory

Paths are relative to `src/apps/api/src` unless they start with `src/`.

| Component | State it keeps | Operations | What is hard | What makes it correct |
|---|---|---|---|---|
| Reservation creation (`modules/business/reservations/use-cases`, `restaurant.repository`, `availability.repository`) | `Reservation`, `ReservationTable`, `Customer` rows; Redis key `lock:restaurant:<id>:concurrency`; the restaurant's row lock | `execute`: lock, transaction, checks, pick a table, insert, commit, event, unlock | lock expiry and deletion by a stranger, transaction timeouts, crashes, lost commit acknowledgements, settings and table changes in between | no two active reservations on a table at once; refusals leave nothing; answers are true; every call ends |
| Reservation desk (`reservations.controller`, `reservation.repository`, `reservation-engine.service`) | the same rows | reschedule (dashboard `PATCH :id`, WhatsApp modify by code), status changes, cancel, no-show | no transaction and no lock around read-check-write; table swap is delete then insert | what creation promises should survive; one table per reservation |
| Reservation closing and audits | status, time stamps, `ReservationCancellationAudit`, `ReservationNoShowAudit` | cancel, no-show, complete, cancel by code | status and audit are two statements; no transition guard | every cancellation and no-show has its reason on file |
| WhatsApp inbound (`queues/whatsapp.queue`, `workers/whatsapp.worker`, `whatsapp.controller`) | BullMQ queue, retries, DLQ, inbound log | webhook, add job, process, retry, dead-letter | Meta redelivers; jobs are retried after side effects; five at a time | a message books at most once; a failed payload is not lost |
| WhatsApp conversation (`whatsapp.service`, `integrations/ai/.../conversation-state`) | one in-memory conversation per phone | intents, slot filling, book, confirm cancel, modify, offer alternatives | shared mutable state across awaits and restaurants; lost on restart; never reset | a booking needs an explicit request; a SI answers the question asked |
| Language pipeline (`integrations/ai`) | none | intent, date, time and guest normalizers, parsers | overlapping phrases, several clocks, fields that stay from message to message | what is requested is what was said |
| Opening hours and availability (`availability.service`) | `OpeningHour`, `BlockedDate` (written only outside this code) | ensureReservable, slots | server time zone against the restaurant's, service past midnight | a start is admitted exactly when the restaurant is open |
| Floor plan (`restaurant-tables`, `restaurant-zones`, the page `features/tables`) | `RestaurantTable`, `RestaurantZone`; two lists in the browser | list, create, update, deactivate | check then act; answers come in any order | a table is not lost from sight; the page shows the rows |
| Restaurant settings and analytics (`restaurant-settings`, `restaurant-legacy`, `restaurant-analytics`) | `Restaurant`, `CapacityRule`, `OpeningHour` | read, update, figures, create staff | partial updates, defaults | updates are all or nothing |
| Authentication (`modules/platform/auth`) | `User` lock-out counters, `PasswordResetToken`, `PasswordHistory` | login, forgot and reset password, provision tenant | rows read before bcrypt and used after it | failures lock; a link is used once; recent passwords are not used again |
| Users (`modules/business/users`) | `User`, the same history and tokens | invite, update, deactivate | last owner, changes beside resets | row, history and mails agree |
| Platform administration (`modules/platform/admin`, the page `features/system-admin`) | `Restaurant.status` | dashboard, list, detail, status, basic data | a form sends back what it was showing | a suspension is undone on purpose only; the page shows the rows |
| Tenant resolution (`common/middleware`) | Redis cache of tenant ids for an hour | resolve tenant | nothing clears the cache | a suspended restaurant is served for a bounded time |
| Rate limiting (`infrastructure/cache/redis-throttler.storage`) | counters with a time to live | increment | four separate Redis calls | every counter ends |
| E-mail (`integrations/email`) | BullMQ queue and DLQ | enqueue, send, retry, dead-letter | crash after send, queued after the commit | a mail is sent or dead-lettered |
| Audit log (`common/security/audit-log`) | append-only `AuditLog` | record | errors are swallowed | entries are never changed |
| Customers (`modules/business/customers`) | `Customer` | upsert, search, update | unique phone per restaurant | one customer per phone |
| Events (`dashboard.gateway`) | socket rooms | join, emit | emitted after commit, lost on a crash, to those in the room only | a page that was told shows the row |
| Health, OpenAPI, guards, DTOs, filters | none | read only | none | not modelled: no state |
| Dashboard (`src/apps/web`) | signals in the browser | agenda with list, calendar and grid; floor plan; platform panel | optimistic moves, lists patched by answers and events in any order | a quiet page shows what the database has |
| Prisma schema, migrations, seeds | | | | the schema gives the rows their types |

The components call each other directly (dependency injection), share PostgreSQL
rows and Redis keys, and hand WhatsApp messages and e-mails over through BullMQ.

## 2. Plan

Built so far, in this order, most important behaviour first:

1. `TableLedger`: the abstract specification. A booking takes its tables for a
   window in one step, only if nobody holds one of them then, and may give them
   back. Everything that makes or keeps reservations is measured against it.
2. `BookingRows`: the rows and the two queries of `findAvailableTables`, pure
   operators shared by the next two.
3. `CreateReservation` (extends `BookingRows`, refines `TableLedger`) and
   `CreateReservationProofs`.
4. `ReservationDesk` (extends `CreateReservation`): the handlers that change
   reservations, composed with the bookings that run meanwhile; `ReservationDeskProofs`.
5. `GuestConversation`: the WhatsApp conversation between two awaits at a time;
   `GuestConversationProofs`.
6. `WhatsappInbound` and `WhatsappInboundProofs`: the queue that feeds it.
7. `ServiceHours`: opening hours, clocks and the alternatives offered.
8. `ReservationClosing`: statuses, time stamps and audits.
9. `Agenda` (extends `ReservationClosing`) and `AgendaProofs`: the dashboard's page and
   the events it lives on.
10. `MailQueue`, and `Accounts` that extends it, with `AccountsProofs`: logins, links, invitations
    and the team page.
11. `TenantGate`, and `PlatformPanel` that extends it, with `PlatformPanelProofs`: what
    a request passes, and who changes what it finds.
12. `FloorPlan`: zones and tables with their page, and `FloorPlanProofs`.
13. `SpokenRequest` (extends `ServiceHours`): what is said and what is asked for.

Left, in this order:

| Part | What to write |
|---|---|
| Proofs | the action properties of `SpokenRequest`: that a slot is booked on its day (`ChosenWasOffered`) and that a request is what was said (`RequestedAsSaid`) |
| Dashboard | the pages of customers and settings, which load, send and show again without events |
| Summer time | days of unequal length in `ServiceHours`, where a wall clock names two instants or none |

The runs are kept to a dozen that each answer one question. The configurations that show a disagreement stay
beside them, and so do the variations that show why a restriction of a run is needed (section 7).

## 3. The modules and the code

Every definition that models code is listed with its lines in `PROJECT.json`.
Two conventions hold throughout. An **action is one statement** sent to
PostgreSQL, Redis or Meta with the code that runs up to the next one, because
JavaScript runs that without interruption. A definition named
`<Definition>_<Bug>`, just above `<Definition>`, is a **mutant**: the same
definition with a plausible mistake, which no specification uses; `PROJECT.json`
says which property each one breaks.

`{}` and `{x}` stand for an absent and a present optional value.

### BookingRows

Rows of `Reservation` with their `ReservationTable` rows, of
`RestaurantTable` with the priority of its zone, and
`AvailabilityRepository.findAvailableTables`: `BookedTables` is its first query,
`AvailableTables` and `FirstTables` the second with its `orderBy`. Ties of the
order are broken either way. Time is a line of instants: what the code asks of
two `Date`s is only which comes first.

### CreateReservation

| Variable | In the code |
|---|---|
| `pc`, `input`, `booked`, `table`, `code`, `outcome` | a call of `execute`: where it is, its argument, its locals and how it ends |
| `redisLock` | whether `lock:restaurant:<id>:concurrency` exists. It has no owner, because `releaseLock` does not look at one |
| `rowLock` | the transaction that holds `SELECT ... FOR UPDATE` on the restaurant |
| `reservations`, `customers`, `codes` | committed rows. A transaction's own writes are in its locals until `Commit` |
| `activeTables`, `openStarts` | `RestaurantTable.active`; the starts `ensureReservable` lets pass (what decides that is `ServiceHours`) |
| `announced` | `reservation_created` events emitted |

`AcquireLock`, `RefuseBusy`, `LockRow`, `EnsureReservable`, `RejectClosed`,
`ReadBooked`, `PickTable`, `RejectFull`, `InsertRows`, `RejectCode`, `Commit`,
`Announce` and `ReleaseLock` follow `execute` and `createInsideTransaction` from
top to bottom. `TimeOut`, `CommitUnacknowledged`, `Crash` and `ExpireLock` are
what may hit it. `Retire`, `SwitchTable` and `ChangeHours` are the rest of the
program. PostgreSQL runs READ COMMITTED: each query sees what is committed when
it starts, so the two queries of `findAvailableTables` may see different rows,
and `FullMeansBooked` says what is true all the same.

### ReservationDesk

Adds `mover`, a slot that serves one `PATCH :id` or `modifyReservationByCode` at
a time with that request's locals, and two history variables: `touched`, the reservations an edit
has written, and `astray`, those it has left half written.
`Begin ... SaveGuests` are their statements in order: the first read with its
refusals, `ensureReservable`, the two table queries, `update()`'s own read of
the row and of the table, `deleteMany`, `create`, `reservation.update`, and the
second `update` that modify by code makes for the guests. When `update()` finds the
table switched off and answers null, a PATCH ends; modify by code logs the null and goes on to the guests
all the same (`reservation-engine.service.ts:302-325`), which is the place `"anyway"`. `MoverCrash` may end
any of them between two writes. `SetStatus` is
`PATCH :id/status`. The bookings of `CreateReservation` are the other disjunct of
`DeskNext`.

### GuestConversation

`conv` is the phone's `ConversationState`, one object that every handler sees;
`job` is each message's job with the locals of `processMessage` that outlive an
await; `bookings` are the reservations by code; `told` and `lastAsked` record
what reached the guest. `Earlier` are reservations the guest has from before. `TakeSlot ... TalkBook` are the branches of
`processMessage` in the order in which they are tried: the slot chosen, the
pending confirmation, the exact commands, then the intent. `Announced`, `Book`,
`RefuseBooking`, `Confirm`, `ConfirmThrows`, `Apologise`, `Cancel`, `Modify`,
`Search` and `Send` go from one await to the next. `Throw` is an await that
nobody catches (`BreakOff` when it comes after the writes of a cancellation or a change, or between them), `Restart` the death of the worker with its `Map`. A message is what
the language pipeline makes of it: its intent, the entities found, and `guess`,
what `parseReservationText` reads in it.

### WhatsappInbound

`Receive`, `LogOnly` and `Refuse` are the webhook's three ways out; `job` is the
BullMQ queue by job id, which is the id of the payload's first message. `Take`,
`Complete`, `Fail`, `Backoff` and `Recover` are BullMQ as the options in
`whatsapp.queue.ts` and `whatsapp.worker.ts` set it (`attempts`, `backoff`,
`removeOnComplete: true`, `removeOnFail: false`, `concurrency`; `maxStalledCount` keeps its
default of 1). `Bury` is the dead-letter copy that the `failed` listener starts
and does not wait for; `burying` is lost when the process dies. The copy may also fail, of which nobody hears:
its id is `dlq:<id>` (`whatsapp.queue.ts:74`, and `email.queue.ts:88` for mails), and BullMQ refuses an id given
to it with a single colon in it, so it may be that no copy ever arrives. The versions of BullMQ differ in
this and `package.json` leaves it open (`^5.78.0`); the model has the failure as a choice.

### ServiceHours

An instant is a number; a zone's clock is the instant plus an offset, cut into
days. `Admits` is `ensureReservable` on the server's clock, `SaveHours` a saved
day, `Enquire` an enquiry that is answered with other times (what was offered
before may stay, when there are none), and `InstantOf` puts a time chosen from them on the date asked for.

### SpokenRequest

A text is the set of phrases the code looks for in it, with the numbers they
carry. `DateNormalizer`, `TimeNormalizer`, `GuestNormalizer` and the intent try
them in the order of the code; `conv` keeps what they found from message to
message; `parseReservationText` has a try at a text when something is missing. `PickSlot` is the
choice of an offered time. The history variable `meant` is the reference: what the
guest has meant by the texts so far, on the restaurant's clock. How
letters make a phrase is left out; that "mañana" is in "pasado mañana" is not.

### ReservationClosing

One reservation and the calls about it. `Find`, `Write`, `Audit` and `Log` are
the statements of `cancel`, `noShow`, `updateStatus` and
`cancelReservationByCode`; `wrote` and `last` are history: what each call's
write replaced, and which one wrote last.

### Agenda

Pages over `ReservationClosing`: `Open`, `FindAll`, `LoadAnswered` and
`HandleConnection` are the load of the day and the joining of the room
afterwards, `Emit` and `UpdateEmits` the events, `Deliver` their arrival,
`OnDrop ... DropFails` a move that the calendar shows before the API has agreed. The API may answer it with 200 and
nothing, when the row has gone or its table was switched off before the write: the calendar throws on that and
keeps what it showed (`DropVoid`, `calendar.component.ts:156`). A page has
its list and the calendar's copy of it, `inbox` is what is on its way to it. `astray`
is history: the pages for which something happened that the code has no answer to (a
change they were not told of, two things under way at once, a move answered with nothing).

### MailQueue and Accounts

`mail` is the job of each link in the queue of transactional mails, `graves` the
dead-letter queue. `Accounts` adds the rows of `User`, `PasswordHistory` and
`PasswordResetToken`. A request under way is a record in `call` with what it has
read: the failures counted before bcrypt, the token looked up before two slow
calls. `Login ... LoginRight` are `login`, `Forgot`, `Reset ... ResetWrite` the link's way,
`Create`, `Edit` with `EditWrite`, `CreateStaff` and `ProvisionTenant` the team page and the platform. A reset compares
with `HistoryLimit - 1` passwords on file, the team page with `TeamTake`, a five that is written into the code
(`users.service.ts:192`); each adds the one in use. Passwords are on file in the order in which they were written, which is that of
`createdAt` as long as changes of one account do not overlap. `MayManage` has all the roles of
`users.service.ts:17`. Time is in the three expiries, which may come at any moment.

### TenantGate and PlatformPanel

`LookUp`, `Query` and `Store` are `TenantMiddleware` around its cache; `Exists`,
`Incr`, `Pexpire` and `Block` are the four Redis commands of the throttler, with `IncrUnanswered` for an INCR that
Redis has done and the client sends again because its answer was lost; `User` is
the look-up behind the token. The webhook of WhatsApp needs no tenant and never looks at the status. A `Tick` passes time for what Redis keeps. `PlatformPanel` adds the
page of the administrators, `shown`, `total` and `detail` being its signals, with
its calls in `calls`: the API's part (`Count`, `List`, `Get`, `Patch`) and what
each answer does to the page. `ChooseStatus` is the select of the form, which "Guardar" sends with the rest;
`Fails` are the error branches, a message after which the page stays as it was. `unsure` is history: what of a page a
failure, or a status chosen on the form, may have left behind.

### FloorPlan

The rows of zones and tables, the statements of their services (the look at the
zone, the look at the name, the count of the zone's active tables, the write), and
the page: two lists that live longer than it, patched by each answer as it comes.
`AskElsewhere` are other clients of the API. Their bodies have what the page never sends: `active`, written as it
is (`restaurant-zone.dto.ts:30`, and the same of tables), and a zone of null (`NoZone`).

### How they fit

`ReservationDesk` composes with `CreateReservation` by extending it: both work on
the same rows. `GuestConversation` sees a booking as one step that commits or is
refused, which `CreateReservation` justifies (`ImplementsLedger`: the rows change
at the commit only; `RefusedLeavesNothing`), and of which it keeps the one thing
that matters to its caller: the answer of a booking that committed may be lost.
It sees the queue as `Start`, `Throw` and `Restart`, which are `Take`, `Fail` and
`Crash` followed by `Recover` in `WhatsappInbound`; that module in turn sees the whole
handling of a message as something that returns or throws. `openStarts` of
`CreateReservation` is the set of starts `ServiceHours` admits. `SpokenRequest` says
what the texts behind `GuestConversation`'s messages mean, and hands requests to `ServiceHours`.

`Agenda` sees the calls of `ReservationClosing` and is proved to add nothing to
them. `Accounts` puts mails in `MailQueue`, whose steps run beside its own. `PlatformPanel` is
what writes the status that `TenantGate` reads.

## 4. The runs

| Run | Question | Instance, and why it is enough |
|---|---|---|
| `create_safety` | Do concurrent bookings, each of which may time out, crash, or lose its lock or its acknowledgement, ever double-book, leave something behind or lie at the commit? | Three calls, tables for 2 and for 5 in zones of one priority, three starts with stays of two (so windows touch, overlap and coincide), two codes (a collision happens), a table that is switched, hours that are cut to one start. Two calls suffice for a collision; the third holds or deletes the Redis key meanwhile. 1.4 million states |
| `create_live` | Does every call end, and do the rows implement the ledger? | Two calls, parties of 2 and 4, two starts. Everything a call waits for is the row lock, which one other call can hold |
| `desk_serial` | Does one change at a time, next to no booking, keep the book in order, though it may die at any statement? | Two earlier reservations and these bodies: another start, two other ends, a party that needs the other table, no table; modify by code to the other sitting with a party that needs the other table; cancellations, and a table that is switched between any two statements |
| `desk_mixed` | Does the damage of changes that die half-way, and of reservations brought back, reach others? | Two earlier reservations and a new booking, two changes that move one of them to another sitting and table: when they write the same reservation, or only one has written, two are left that nobody did |
| `talk_serial` | When messages are handled one after another and nothing fails, does the guest get what was said? | Four messages and two reservations from before: a question, another one, its answer and one more answer, so that a second question or a dropped one comes before the SI; enquiry, slot and SI is the longest other dialogue; eleven kinds of message |
| `talk_faults` | And when two are handled at once, awaits throw, texts are lost, and the worker restarts? | Two messages of ten kinds, one reservation from before, two attempts (one fewer than the code: the second is already a retry), one restart |
| `inbound` | Is an accepted message kept, handled by one at a time, and settled? | Two messages in three payloads, one of which shares its first message with another; one is delivered again; two attempts, two crashes (one more than the stalls BullMQ forgives) |
| `hours_day` | Is what is requested what was said, and a slot requested for when it was offered, where server and restaurant share a zone? | Weeks of three days of 24 hours: dinner, a whole day, a day off, and a blocked date; two moments at which guests write; thirteen texts, each phrase in one of them alone and some together, sent in any order |
| `closing` | Do reasons survive overlapping calls, and does a page that was told of everything show the reservation as it is? | Two calls of every kind, every statement may throw, crashes; one page that opens, leaves and loses its socket, two slots to move between, two events on their way. A second page would see the same events |
| `accounts` | Do the row, the history and the mails agree, do failures lock, and do recent passwords differ? | One account (nothing relates two but the last owner, section 7), three passwords, a history of four and a team page that takes two of it, so that the two paths compare different numbers, and a password that has fallen out of both comes back; locked after two failures, one link, two requests at a time, two attempts to mail, every fault, one crash |
| `access` | For how long is a suspended restaurant served, does every counter end, is a suspension undone on purpose only, and is the panel true? | One restaurant (the cache keeps them apart), two requests that fill the cache side by side, entries that live two ticks, a query that takes one, one hit allowed in a window of one, an INCR sent again; one page whose calls may fail before or after they have written |
| `floor` | Does the page show the rows after any overlap of calls, and what may take a table out of sight? | One zone, and two tables with two names, so that one is saved while the other goes and a taken name is refused; two calls at a time of this page, of one that was left or of another client, each of which may fail |

What each property says is written above its definition. What they show
together:

- **Creation is sound whatever happens to the Redis key.** `OneCallAtATime` fails
  (section 7), and `NoDoubleBooking`, `BookedWithinHours` and `FullMeansBooked` hold without it: the row
  lock carries them, and the key only spares the database.
- **The desk is sound one request at a time, and only so.** `UntouchedNeverCollide`
  is what is left when two run together: reservations that no mover wrote stay
  disjoint; `MCReservationDesk_race` shows what happens to those that were. Alone, a change that dies
  half-way, or that modify by code finishes although it has no table, spoils the reservation it was
  about and no other (`SeatedAtRest`, `NoOverbookingAtRest`).
- **A guest who reads "confirmada" has a reservation**, with every fault
  (`ConfirmedMeansBooked`), and copies come only from running a message again
  (`OneBookingPerRun`). The converse does not hold: see `SorryMeansNothing` below.
- **An accepted message is not lost** (`AnsweredIsKept`), and never handled by two
  at once (`NotTwiceAtOnce`): both rest on the job's name and on failed jobs
  staying in Redis, which is what `InboundInv` says.

- **Reads used after an await are harmless where the write does not depend on them.**
  The failures are incremented where they are, so resets and edits in between
  do not lose a lock (`FailuresLock`); only two logins at once do. Links and the history of passwords have no such
  luck: two changes of one account that overlap break both (section 7).
- **Pages are true when nothing is under way** (`AgendaIsTrue`, `PanelIsTrue`,
  `FloorIsTrue`), because each answer replaces whole rows. What breaks it for good is named in the
  properties: an event that was not sent or not received, two changes at once, a failure
  after the write, a 200 that carries nothing, a status chosen on the form, another client on the floor.
- **What hides a table** is a body the API writes as it is, or an overlap (`HiddenOnlyByOverlap`). `PATCH zones/:id`
  with `active: false` counts no tables, and `PATCH tables/:id` with `active: true` looks at no zone; the
  dashboard sends neither.

Deadlock is checked in `hours_day`, `closing`, `accounts`, `access` and `floor`, where
something can always happen. The other modules describe a finite set of calls
or messages, and the system may stop when they are done.

### Bounds

`Requests`, `Movers`, `Messages`, `Payloads` and `Calls` are the calls there are;
`MaxRestarts`, `MaxDeliveries` and `MaxCrashes` count faults that the code does
not bound; `Instants` bounds the ends a mover may ask for. In `WhatsappInbound` the
code's `concurrency: 5` is kept and never bites with two jobs; `talk_serial` and
`talk_faults` run with 1 and 2 of the five slots. `MailAttempts`, `HistoryLimit`, `TeamTake`, `LockAfter`, `TTL`, `Limit` and
`Window` are the program's settings, scaled down; `MaxFails` and `MaxEvents` bound a counter and a
channel; `Slack` is the longest a request may hold an answer of the database before it fills the cache, which
no code bounds but its time-outs; a counter beyond `Limit` is not counted further (`Counted`). `Overlaps`, `Clicks`, `Hurry`, `AgendaFaults`, `Slow` and `Wanders` say what
may happen together; what the wider values break is in section 7.

`desk_mixed`, `closing` and `floor` are checked with a view. In `desk_mixed` the locals of answered calls do not count, nor
does anything once fewer than two reservations are left that nobody wrote to: `UntouchedNeverCollide` then says nothing, of
that state or a later one. Of a page gone astray only what leads to its next
steps counts, as `AgendaIsTrue` says nothing of it, and once another client has been on the floor only rows
and calls do, as `FloorIsTrue` says nothing more.

## 5. Fairness

- `CreateReservation!FairSpec`: weak fairness on `Proceed(q)`, a call's own next
  statement. Node runs its continuations, PostgreSQL answers, and a row lock that
  stays free is granted. No fairness on `Call`, on the faults or on the
  environment. Weak fairness is enough for `LockRow` although others may take the
  lock: each call runs once, so the lock is taken finitely often. For an endless stream of
  callers PostgreSQL's queue of waiters, or the transaction's timeout, does that
  work.
- `GuestConversation!FairSpec`: weak fairness on what a handler does after an await (every await ends, by
  an answer or an error), strong fairness on `Start`: a slot that becomes free
  again and again is given to each waiting job at some time, as BullMQ's queue is
  first in, first out.
- `WhatsappInbound!FairSpec`: weak fairness on the work on a job, on its back-off
  timer and on the look for stalled jobs; strong fairness on `Take`, for the same
  reason. None on Meta's deliveries.
- `Accounts!FairSpec` and `PlatformPanel!FairSpec` are used by no run. `MailFair` (weak on the
  work on a mail and its timers) gives `AnsweredIsMailed` in a variation (section 7).

A worker that crashes for ever handles nothing; the bounds on crashes stand for
"it is up in the end".

## 6. What is proved

The theorems of the eight modules `...Proofs` are checked by tlapm. They hold for every
value of the constants that the named assumptions allow, and for the runs' own values in
particular. Where a theorem has a hypothesis of its own, the hypothesis names something the
code leaves open (two edits at once, a text that is lost), section 7 says what TLC
finds without it, and the run that checks the property satisfies it.

**Creation.** Assumed: capacities and priorities are numbers, stays are longer
than zero, parties are not empty (`FloorAssumption`, `TimeAssumption`,
`PartiesAssumption`), `Nobody` is no request, statuses a reservation is retired to are
not active, and tables and hours change within their sets
(`EnvironmentAssumption`). `NoDoubleBooking` alone is not inductive: nothing in it
says that a call about to commit has a table that is still free. `IInv` adds

- `RowLockInv`: the row lock is held by exactly the call inside its transaction, so
  while one has read and not committed, nobody else commits;
- `ChecksHold`: every active reservation on a table in its window is in the answer
  to its first query, and its table is not. Retirements only shrink the left side
  (`RetireShrinksBooked`); a booking cannot enlarge it, by `RowLockInv`. The start is
  still admitted, because the settings transaction needs the same row;
- `RowsFollowCommit`: no row before the commit and none after a refusal.

The Redis key is in none of them. `IInvInvariant` is `Spec => []IInv`, with one step
per action; from it follow `NoOverbooking`, `RefusalsAreClean` (with `CustomersStep`: a refused
booking's upsert of the customer is rolled back) and, as an action
property, `OnlyWithinHours`. `FullIsTrue` is about an answer that two queries of different
moments have produced: `AnswersHold` says that each table the first one found is taken by a row that stays, in
whatever status, so it is still there when the second finds nothing else. `UseCaseImplementsLedger` is the refinement: `Commit` and
`CommitUnacknowledged` are `Take`, `Retire` out of an active status is `GiveBack`,
all else leaves `Held` alone.

**The desk.** Its two table queries, the read of `update()` and the writes are statements of their own
with no lock around them, so what is proved comes in two parts.

For any number of edits and bookings at once, and processes that die between two
statements, `DeskIsSound` says that types are kept and a table is lost only where a body asked
for none; it needs `MoverInv`, that an edit works on a row which exists.
`BookingsStaySound` is the strongest statement left about overlaps: bookings that no edit wrote are
disjoint. `NoDoubleBooking`'s argument does not carry over, since an edited row may
appear in a window after it was looked at. `UntouchedInv` is `ChecksHold` cut down to the rows outside
`touched`: for those the answer of the first query still covers what is there, as only a
commit adds one, under the row lock.

For edits served one at a time (`OneMover`), next to any bookings, `WindowsStayWellFormed` rests on
`TimesInv`: until it saves, the edit finds the times that it first read, so the window it writes is
the one it checked. `PartiesStaySeated` rests on `SeatInv`: at each of its statements the tables
that the edit will leave its row with suit the party that it is about to write, a party that
modify by code writes one statement later than the tables. It lets edits die at any statement and tables be
switched; the reservations that this, or the null that modify by code ignores, has left with the wrong table are in `astray`, and the
invariant is about all others. `EditsAloneDoNotOverbook` also
needs that no booking runs beside the edit and nothing is brought back (`Quiet`): `AloneInv` says that
the table settled on is free in the window to be saved, and that only the row between its two writes, or
one left there by a death, may clash with another.

**The conversation.** `InvHolds` is for any number of handlers at once and every fault. Its
part `RunInv` ties a message's rows to where its run is: a run that waits to confirm has
made the row of its code, one that is still to book has made none in this attempt. From it follow
`ConfirmationIsTrue` and `OneBookingARun`; a restart counts as an attempt, as it
returns the job without using one up. `PendingIsKnown` holds because the code to cancel and the pending
confirmation are set and cleared in one go.

Three theorems hold for less. `ApologyIsTrue`: no await throws and no worker restarts, as the catch also
holds what comes after the booking. `AnnouncementIsTrue`: one handler at a time, and no
message run twice (`RunOnce`: no restart, and awaits that throw only if the queue makes one attempt;
`AnnounceInv`: between the announcement and the booking the conversation is
what was announced). `CancellationIsAskedFor`: one handler at a time, no await that throws and no text that is
lost (`AskedInv`: while a confirmation is pending, the code is the one last asked about, or its question is
about to be sent). A restart may come anywhere, since it forgets the question with the
conversation.

**The queue.** Assumed: `InboundAssumption` (payloads that are queued carry a
message, attempts and concurrency are at least one). `InboundInv` adds to the type that a
job is about the message it is named after (`NamedAfterMessage`), that an answered
message was handled or has the job of its own name (`KeptByName`), that a job still
to be worked on has an attempt left (`AttemptsLeft`) and that nothing takes a buried job out of
"failed" (`BuriedForGood`). The first two give `AnsweredMessagesAreKept`: a second
delivery that finds a job by that id finds one about the same message, so leaving it alone loses
nothing; that is true because `removeOnFail: false` keeps the name taken. `OneHandlingAtATime` needs the name
only, `DeadLettersAreDead` the last.

**Accounts.** Assumed: `AccountsAssumption` (limits are positive).
`AccountsStaySound` needs nothing else: requests of any kind overlap and die anywhere. `Kept` says that the row's
password is the first on file and that a file is no longer than it may be, as row and file are written in
one transaction (`AccountsInv` claims the first only while changes of one account do not overlap: the code orders the file by
`createdAt`, not by commit); `Mailed`, that a link is queued by the one request that made it, after it was stored,
and by nothing else. The other two assume that requests of one kind about one account do
not overlap; section 7 shows that they must.
`FailedLoginsLock`: `FailuresLock` is not inductive, since the lock is written from a
count that was read before bcrypt. `LockSound` adds that a login under way has read at
least what the row counts, as nothing but a login counts up and there is one of an account. So at the
threshold the lock is written, and whatever else writes the row meanwhile resets the count or leaves both.
`RecentPasswordsDiffer` is about the newest `Window` passwords on file, as far back as both paths compare: the limit, or one more
than the team page takes, whichever is less. `LinkSound` says that no other change of the account of one
under way is under way; `Fresh`, that a change
about to be written was compared with the passwords that are on file now, not just when it read them, and
that an active account has a file. Putting a new one in front moves each of them back by one, and what leaves the
window or the file cannot clash (`OnFileDiffer`).

**Access.** Assumed: `GateAssumption`, and that there are finitely many restaurants. `StaleAtMost` speaks of the
request that is let in; what is inductive is `StaleInv`: the age of the evidence and the
life left to an entry never add up to more than `TTL + Slack`, and a request that is about to
fill the cache has held its answer for at least as long as the restaurant has been
suspended. A tick moves one from the second to the first; a status written resets the
age or leaves it; no entry is filled from another. `CounterHasEnd` is inductive given
the types: only the request that found the counter at 1 goes to `PEXPIRE`, and nothing but a crash
takes it from there; an INCR whose answer is lost begins a counter that nobody finds at 1 (`OnlyAFaultLeavesACounter`). `AccessInvariant` has both, with the page's types, through which the
status that an administrator writes is known to be one.

`PanelStaysTrue` and `OnlyAChoiceRevives` are about one page (`OnePage`) whose user waits for the
answer before the next click; any number of restaurants. `PanelInv` says that a write is under way
alone and that its answer is the row, that reads have read what there is, and that list, total and detail are
each right, or have the answer on its way that rights them, or are marked in `unsure`. A status chosen on the form leaves the
totals unsure once saved, as nothing loads them again. The page replaces rows in its list one by
one, so an answer that met another would leave a row of an older day; two pages, or
`Clicks = "many"`, break both.

**Closing.** `ClosingInvariant` knows what a call has done by where it is;
`AgendaImplementsClosing` shows that every step of the agenda is a step of
`ReservationClosing` or leaves it alone, so `ReasonsStayReal` holds below any pages.

`AgendaStaysTrue` is for any number of pages, calls and slots, with sockets that drop and statements that throw. `AgendaInv` has
two halves. `OneThing`, as long as some page has not gone astray: one call or one move is under way, what it
carries is the row as it is, and each page is told of it once. `PagesTrue`: a joined page shows the row in its list and
calendar, except between a change and its event, and except what it drags itself, of which it
knows what to put back. A page whose calendar was answered with nothing has gone astray. The one fault left out is the lost
answer of a move that was written (section 7).

**The floor.** `OnlyOverlapsHide` has no hypothesis. `Apart` says that a call which met no other is alone, so
what it looked at (the active zone, the zone without tables) is still so when it
writes; the bodies that are written without a look are named in the property (`Bare`). `FloorStaysTrue` assumes `~Hurry`, a page used after its lists came. `Ready` adds to the types that the page
waits (`Waits`), that its lists hold each row once, and rows which are those of the
database or are about to be put right by the answer of a call under way (`PageIsSound`), and that every
row there is on the page or in an answer to come (`PageIsRight`). The argument is made once for lists
and rows of either kind.

**Only model-checked**: liveness (`EveryCallEnds`, `EveryMessageSettles`,
`QueuedSettles`), which the prover cannot do under fairness, and the two action properties of
`hours_day`, which are next in the plan. Every other property of a run is stated by a theorem.

## 7. Where code and documents disagree

What was met while modelling is kept as configurations outside the runs. Each
checks one property, and TLC finds it violated:

| Configuration | Property | What the counterexample shows |
|---|---|---|
| `MCCreateReservation_rediskey` | `OneCallAtATime` | The key lives 5 s from before the transaction starts (`create-reservation.use-case.ts:45`) and `releaseLock` deletes it without looking whose it is (`redis.service.ts:58`): two calls run at once |
| `MCReservationDesk_race` | `NoOverbookingAtRest` | `modifyReservationByCode` looks for a table and takes it without the row lock (`reservation-engine.service.ts:285`), and a booking commits in between |
| `MCReservationDesk_times` | `WindowsWellFormed` | A PATCH of the end and one of the start overlap: `update()` reads the row again (`reservation.repository.ts:301`) and the reservation ends before it starts |
| `MCReservationDesk_late` | `CancelledKeepsWindow` | The status is looked at once (`reservation-engine.service.ts:256`); a reservation cancelled meanwhile is moved, and the guest told so |
| `MCReservationDesk_revive` | `CancelledIsFinal` | `PATCH :id/status` confirms a cancelled reservation (`reservations.controller.ts:98`); the state diagram has no such arrow |
| `MCGuestConversation_tenant` | `SaidToThisRestaurant` | Conversations are kept by phone alone (`conversation-state.service.ts:10`): what was told to one restaurant is booked at another |
| `MCGuestConversation_chatter` | `ChatterBooksNothing` | Nothing resets the conversation after a booking (`whatsapp.service.ts:866`): a "gracias" books again |
| `MCGuestConversation_guess` | `BookedAsSaid` | "mañana a las 8" is booked for eight guests (`whatsapp.service.ts:1015`) |
| `MCWhatsappInbound_buried` | `FailedIsBuried` | `addDeadLetterJob` is started with `void` (`whatsapp.worker.ts:65`), and never for a job that failed by stalling |
| `MCWhatsappInbound_batch` | `EveryMessageHandled` | Only `messages[0]` is read (`whatsapp.service.ts:195`); the schema admits twenty |
| `MCReservationClosing_crash` | `ReasonOnFile` | The status is written before its reason, in two statements (`reservations.controller.ts:133`) |
| `MCReservationClosing_stale` | `LogIsTrue` | The previous status in the AuditLog is the one of the first read (`reservations.controller.ts:181`) |

The runs of the later modules name what they restrict as constants. Setting one of these in the run's own
configuration shows why:

| Configuration | Change | What TLC says |
|---|---|---|
| `MCReservationClosing_crash` | `Kinds = {"by code"}`, `Faults = {}` | `ReasonOnFile`: a cancellation over WhatsApp writes no reason (`reservation-engine.service.ts:163`) |
| `MCReservationDesk_serial` | `PatchWishes <- MCSmaller`, `ModifyWishes = {}`, `Movers = {m1, m2}`, one earlier reservation | `SeatedAtRest`: two edits of one reservation, each with the table for its own party |
| | `StatusChoices = {"CONFIRMED"}` | `NoOverbookingAtRest`: a cancelled reservation is brought back onto a table that was given away |
| `MCGuestConversation_serial` | `Contents <- MCTalk`, `Faults = {"throw"}` | `SorryMeansNothing`: the catch around the booking also holds the sending of its confirmation (`whatsapp.service.ts:936`), and the guest reads "no pudimos completar" of a reservation that stands |
| | `Contents <- MCSlots`, `Concurrency = 5` | `AnnouncedIsBooked`: the state is read again after the announcement was sent (`whatsapp.service.ts:324`), and another message has changed it |
| | `Contents <- MCTwice`, `Faults = {"restart"}`, `MaxRestarts = 1`; or `MCSlots`, `Faults = {"throw"}`, `Attempts = 2` | `AnnouncedIsBooked`: the message is run again, and finds another offer than the one it announced. With `Attempts = 1` and no restart, throwing leaves it true |
| | `Contents <- MCTalk`, `Faults = {"restart"}`, `MaxRestarts = 1` | `SorryMeansNothing`: the booking of the first run stands, the second is refused |
| | `Concurrency = 2`, or `Faults = {"lose"}`, or `{"throw"}` | `CancelsLastAsked`: the SI answers a question that is not yet sent, or never reached the guest |
| `MCSpokenRequest_day` | `PROPERTIES BookedWhileOpen ClosedWhileClosed` | hold as the run is: what is booked is in the week shown, what is refused as closed is not |
| | `ServerOffset = 0`, with these properties | `BookedWhileOpen`, `ClosedWhileClosed` and `RequestedAsSaid` are violated: the hours, "mañana" and "este jueves" are told by the server's clock (`availability.service.ts:82`, `date.normalizer.ts:11`), the instant is built on the restaurant's |
| | `Rows <- LateRows` | `ClosedWhileClosed`: a day that closes at 00:00 can never be booked (`availability.service.ts:84`), though the guide gives one as an example |
| | `Rows <- Unsaved` | `ClosedWhileClosed`: days without a row are shown as 12:00 to 22:00 (`restaurant-settings.service.ts:165`) and refused as closed |
| | `Texts <- Late`, or `Wanders = TRUE` | `ChosenWasOffered`: a slot after midnight, or after another day was mentioned, is put on the date the conversation has (`whatsapp.service.ts:317`) |
| | `PROPERTIES OfferedIsOpen` | alternatives are looked for among tables only (`availability.repository.ts:174`) |
| | `Texts <- AfterTomorrow`, `InTheMorning` | `RequestedAsSaid`: "mañana" is looked for first (`date.normalizer.ts:14`), so the day after tomorrow is tomorrow, and so is "por la mañana" |
| | `Texts <- TonightAt` | `RequestedAsSaid`: "por la noche" is 20:00 even with an hour beside it (`time.normalizer.ts:11`) |
| | `Texts <- Today`, `NoParty` | `RequestedAsSaid`: what the conversation lacks is guessed from the text, whose first number is then the party and the hour (`whatsapp.service.ts:1015`) |
| | `Texts <- InFigures` | `RequestedAsSaid`: a date in figures is read only when something is missing; with `Texts <- Alone` it holds |
| | `Moments <- LateAtNight`, `Slow = TRUE` | `RequestedAsSaid`: "mañana" counts from the handling of the message, not from its sending |
| `MCAccounts_accounts` | `Overlaps = {"logins"}` | `FailuresLock`: two wrong logins that have read the same count go past the threshold unlocked (`auth.service.ts:253`) |
| | `Overlaps = {"changes"}`, `INVARIANTS LinkUsedOnce` | `LinkUsedOnce`: two resets look the token up before either has marked it (`auth.service.ts:77`). With `Ops = {"provision", "edit"}` also `RecentDiffer` |
| | `Users = {u, v}`, `Edits <- RoleEdits`, `Ops = {"provision", "edit"}`, `INVARIANTS OwnerRemains` | nothing keeps the last owner from being demoted or switched off (`users.service.ts:171`) |
| | `SPECIFICATION FairSpec`, no symmetry, `PROPERTIES AnsweredIsMailed`, two links, `Ops = {"create", "forgot"}`, one password, `HistoryLimit = 1`, `MailAttempts = 3`, `CHECK_DEADLOCK FALSE` | holds: a request that was answered has its mail delivered or given up |
| `MCPlatformPanel_access` | `Clicks = "many"` | `PanelIsTrue`: the answer to an older load, with the total from before the suspension, is the last to arrive. `SuspensionStands`: the form of a detail loaded before a suspension saves "ACTIVE" with the rest (`system-admin.component.ts:105`) |
| | `Tabs = {tab, tab2}` | `PanelIsTrue` and `SuspensionStands`: a page is not told what another one writes |
| `MCFloorPlan_floor` | `Hurry = TRUE` | `FloorIsTrue`: a list that comes late is written over what was saved meanwhile |
| `MCAgenda_closing` | `AgendaFaults = {"socket", "lost"}` | `AgendaIsTrue`: a move that was written and whose answer is lost is put back on the calendar (`calendar.component.ts:157`) |

Seen in the reading and not modelled: `CapacityRule` and the buffer between bookings are stored
(`restaurant-settings.service.ts:78`, `:94`) and explained in the guide
(`docs/guias/guia-restaurante-configuracion-whatsapp.md:331`, `:358`), and no
booking reads them; the comment on `provisionTenant` says that the owner is invited
with a token (`auth.service.ts:319`), and the code creates the account with a password that is written into it, the same for every
restaurant (`auth.service.ts:329`), and sends nothing.

Modelled, and excused by name in a property, since one step of the code is enough for it:

| Property | Excused | Where |
|---|---|---|
| `SeatedAtRest` | modify by code writes the guest count after `update()` answered null | `reservation-engine.service.ts:302-325` |
| `AgendaIsTrue` | `PATCH :id` answers 200 with null, on which the calendar throws with its move still shown | `reservations.controller.ts:261-265`, `calendar.component.ts:156` |
| `HiddenOnlyByOverlap` | a body with `active` or a zone of null is written without a look | `restaurant-zones.service.ts:42`, `restaurant-tables.service.ts:61` |
| `PanelIsTrue` | a status chosen on the form and saved does not load the totals again; a failed reload leaves what was there | `system-admin.component.ts:128`, `:86`, `:101`, `:132` |
| `SuspensionStands` | the form's select brings a suspended restaurant back with the basic data | `system-admin.component.html:146` |
| `CounterHasEnd` | an INCR sent again after a lost answer is answered 2, and gets no expiry | `redis-throttler.storage.ts:46` |

## 8. What is not modelled

- In the queue: a live worker that fails to renew a job's lock, whose job would be
  given out a second time; the dashboard alert of a failed job; a payload without messages.
- In the conversation: a message that matches no account, which returns at once;
  the pending action `modify_reservation`, which nothing sets; minutes, accents and spelling
  in what the normalizers look for.
- `modifyLatestReservationByPhone` and `cancelLatestReservationByPhone`: nothing calls
  them.
- Summer time: days have one length. `BlockedDate` rows: nothing in the code writes
  them, so they are a constant.
- `TenantInterceptor`, which nothing uses; the second throttler, which is like the first;
  INACTIVE, which nothing tells from SUSPENDED.
- The signing and lifetime of tokens; requests that are refused before they have written anything.
- Names, sizes and positions on the floor beyond what makes names unique; the order of the lists.
- The wording of mails and replies, and the log.
- On the platform panel: the filter of the list, and a call that fails for the page while the API is
  still at work on it.
- Customers beyond the upsert inside a booking, settings beyond the opening hours: single writes of one
  row by its key, with nothing to interleave with.
- Analytics, health, OpenAPI, guards and filters, which keep no state; the dashboard's pages that only show
  (analytics, profile, login form); the reminder and waitlist queues, which are empty.

## 9. Running it

`tlc -config MC<Module>_<name>.cfg MC<Module>` checks a run; `tlapm <Module>Proofs.tla` checks
the proofs. The longest runs, `desk_mixed` and `create_safety`, take two to three minutes with two workers; `accounts`, the next, one.
