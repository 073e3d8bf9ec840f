------------------------- MODULE GuestConversation -------------------------
(***************************************************************************)
(* WhatsappService.processMessage for the messages of one phone number:    *)
(* the ConversationState that ConversationStateService keeps for the       *)
(* phone in a Map of the worker's memory, and the handlers that share it,  *)
(* up to Concurrency at once.  One action is what a handler does between   *)
(* two awaits; the state is one object, so every handler sees at once what *)
(* another wrote.  A job whose handler throws is run again, up to Attempts *)
(* times; a restart of the worker empties the Map and returns the jobs it  *)
(* was running to the queue.                                               *)
(*                                                                         *)
(* A message is the outcome of the language pipeline on it: its intent and *)
(* the entities found.  The pending action "modify_reservation" is set     *)
(* nowhere before it is tested, so its branch is left out.                 *)
(***************************************************************************)
EXTENDS Naturals, FiniteSets

CONSTANTS Messages,      \* the messages of the phone, by Meta's message id
          Restaurants,
          Guests, Dates, Times,
          Codes,         \* confirmation codes, one per booking made
          Earlier,       \* the reservations the guest has from before, by their codes
          Contents,      \* what a message may say
          Attempts,      \* attempts: 3 of the queue's options
          Concurrency,   \* concurrency: 5 of the worker's options
          Faults,        \* which of "throw", "lose", "restart" may happen
          MaxRestarts    \* bound on restarts of the worker

Plan == [guests : SUBSET Guests, date : SUBSET Dates, time : SUBSET Times, code : SUBSET Codes]
Nothing == [guests |-> {}, date |-> {}, time |-> {}, code |-> {}]

\* What the code reads of a text: whether it is one of the exact texts it tests for, the
\* intent, the entities ({} if absent), and what parseReservationText makes of it: guests
\* (by default two), a date and an hour, or nothing if it finds no date or no hour.
Content == [says   : {"SI", "NO", "cancelar", "mis reservas", "slot", "other"},
            intent : {"reservation", "modify", "cancel", "availability",
                      "check_reservation", "unknown"},
            guests : SUBSET Guests,
            date   : SUBSET Dates,
            time   : SUBSET Times,
            code   : SUBSET Codes,
            guess  : Plan]

\* A reservation, or none yet; "by" is history, the message that made it.
Row == [status : {"NONE", "CONFIRMED", "CANCELLED"}, restaurant : SUBSET Restaurants,
        by : SUBSET Messages, plan : Plan]

ASSUME ContentAssumption ==
    /\ Contents \subseteq Content
    /\ \A c \in Contents : c.guess = Nothing \/ {} \notin {c.guess.guests, c.guess.date, c.guess.time}
    /\ Attempts \in Nat \ {0} /\ Concurrency \in Nat \ {0} /\ MaxRestarts \in Nat
    /\ Faults \subseteq {"throw", "lose", "restart"}
    /\ DOMAIN Earlier \subseteq Codes
    /\ \A c \in DOMAIN Earlier : /\ Earlier[c] \in Row /\ Earlier[c].by = {}
                                /\ Earlier[c].status = "CONFIRMED"

VARIABLES
    content,    \* what each message says
    to,         \* the restaurant each message was sent to
    conv,       \* the phone's ConversationState
    job,        \* where each message's job is, its attempts and its locals
    bookings,   \* rows in the database, by confirmation code
    told,       \* history: what the guest was told in answer to each message
    lastAsked,  \* history: the code of the last "¿Confirmas...?" that reached the guest
    restarts

vars == <<content, to, conv, job, bookings, told, lastAsked, restarts>>

NoConversation == [restaurant |-> {}, guests |-> {}, date |-> {}, time |-> {}, code |-> {},
                   pending |-> "none", slots |-> {}, cancelling |-> {}]

NoBooking == [status |-> "NONE", restaurant |-> {}, by |-> {}, plan |-> Nothing]

Awaiting == {"lookup", "announce", "book", "confirm", "apologise", "cancel", "modify",
             "search", "send"}
Places == {"waiting", "done", "failed"} \cup Awaiting

Replies == {"announce", "confirmed", "sorry", "question", "ask"}
Reply == [text : Replies, plan : Plan]

TypeOK ==
    /\ content \in [Messages -> Contents]
    /\ to \in [Messages -> Restaurants]
    /\ conv \in [restaurant : SUBSET Restaurants, guests : SUBSET Guests, date : SUBSET Dates,
                 time : SUBSET Times, code : SUBSET Codes,
                 pending : {"none", "availability_alternative", "confirm_cancel"},
                 slots : SUBSET Times, cancelling : SUBSET Codes]
    /\ job \in [Messages -> [at : Places, attempts : 0..Attempts, plan : Plan, reply : Replies]]
    /\ bookings \in [Codes -> Row]
    /\ told \in [Messages -> SUBSET Reply]
    /\ lastAsked \subseteq Codes
    /\ restarts \in 0..MaxRestarts

Init == /\ content \in [Messages -> Contents]
        /\ to \in [Messages -> Restaurants]
        /\ conv = NoConversation
        /\ job = [m \in Messages |-> [at |-> "waiting", attempts |-> 0, plan |-> Nothing,
                                      reply |-> "ask"]]
        /\ bookings = [c \in Codes |-> IF c \in DOMAIN Earlier THEN Earlier[c] ELSE NoBooking]
        /\ told = [m \in Messages |-> {}]
        /\ lastAsked = {}
        /\ restarts = 0
-----------------------------------------------------------------------------
At(m, place) == job[m].at = place

Go(m, place, plan) == job' = [job EXCEPT ![m].at = place, ![m].plan = plan]
Answer(m, text, plan) == job' = [job EXCEPT ![m].at = "send", ![m].plan = plan, ![m].reply = text]
Ask(m) == Answer(m, "ask", Nothing)

KeepsBackend == UNCHANGED <<content, to, bookings, told, lastAsked, restarts>>

Named(code) == [Nothing EXCEPT !.code = code]

\* The phone's state as handlers get it: get() answers null only for NoConversation, and
\* create() then fills in the restaurant.
Existing == conv.restaurant # {}
Upserted(m) == IF Existing THEN conv ELSE [conv EXCEPT !.restaurant = {to[m]}]

\* A worker slot takes the job and looks the restaurant's account up.
Start(m) ==
    /\ At(m, "waiting")
    /\ Cardinality({o \in Messages : job[o].at \in Awaiting}) < Concurrency
    /\ job' = [job EXCEPT ![m].at = "lookup", ![m].attempts = @ + 1]
    /\ UNCHANGED conv /\ KeepsBackend
-----------------------------------------------------------------------------
(* processMessage from the account's lookup to the next await *)

PicksSlot(m) == /\ conv.pending = "availability_alternative"
                /\ content[m].says = "slot"
                /\ \E slot \in conv.slots : content[m].time = {slot}

Confirming(m) == conv.pending = "confirm_cancel"

\* "Voy a reservar para ... el ... a las ...": the state is changed after that is sent.
TakeSlot(m) ==
    /\ At(m, "lookup") /\ PicksSlot(m)
    /\ Go(m, "announce", [guests |-> conv.guests, date |-> conv.date,
                          time |-> content[m].time, code |-> {}])
    /\ UNCHANGED conv /\ KeepsBackend

SayNo(m) ==
    /\ At(m, "lookup") /\ Confirming(m) /\ content[m].says = "NO"
    /\ conv' = [conv EXCEPT !.pending = "none", !.cancelling = {}]
    /\ Ask(m) /\ KeepsBackend

\* The code to cancel is read now, the state is cleared when the cancellation returns.
SayYes(m) ==
    /\ At(m, "lookup") /\ Confirming(m) /\ content[m].says = "SI"
    /\ Go(m, "cancel", Named(conv.cancelling))
    /\ UNCHANGED conv /\ KeepsBackend

SayNeither(m) ==
    /\ At(m, "lookup") /\ Confirming(m) /\ content[m].says \notin {"SI", "NO"}
    /\ Ask(m)
    /\ UNCHANGED conv /\ KeepsBackend

\* What is left once the exact answers have had their turn.
Free(m) == At(m, "lookup") /\ ~PicksSlot(m) /\ ~Confirming(m)

\* "mis reservas" reads and answers; "cancelar" with no code asks for one.
ListReservations(m) ==
    /\ Free(m)
    /\ \/ content[m].says = "mis reservas"
       \/ content[m].says = "cancelar" /\ content[m].code = {}
    /\ Ask(m)
    /\ UNCHANGED conv /\ KeepsBackend

\* Mutant of AskCancel: a code of an earlier message goes before the one just given.
AskCancel_EarlierCode(m) ==
    /\ Free(m) /\ content[m].says = "cancelar" /\ content[m].code # {}
    /\ conv' = [Upserted(m) EXCEPT !.pending = "confirm_cancel",
                                   !.cancelling = IF conv.code # {} THEN conv.code
                                                 ELSE content[m].code]
    /\ Answer(m, "question", Named(content[m].code)) /\ KeepsBackend

AskCancel(m) ==
    /\ Free(m) /\ content[m].says = "cancelar" /\ content[m].code # {}
    /\ conv' = [Upserted(m) EXCEPT !.pending = "confirm_cancel", !.cancelling = content[m].code]
    /\ Answer(m, "question", Named(content[m].code)) /\ KeepsBackend

\* processConversation: the entities found replace those of earlier messages.
Given(field, old) == IF field # {} THEN field ELSE old
Heard(m) == [Upserted(m) EXCEPT !.guests = Given(content[m].guests, @),
                                !.date   = Given(content[m].date, @),
                                !.time   = Given(content[m].time, @),
                                !.code   = Given(content[m].code, @)]

Talks(m, intents) == /\ Free(m)
                     /\ content[m].says \notin {"mis reservas", "cancelar"}
                     /\ content[m].intent \in intents

PlanOf(state) == [guests |-> state.guests, date |-> state.date, time |-> state.time, code |-> {}]
Ready(state) == state.guests # {} /\ state.date # {} /\ state.time # {}

\* Modify by code takes the code, the date, the time and the guests the conversation has,
\* whichever message they came from.
TalkModify(m) ==
    /\ Talks(m, {"modify"})
    /\ conv' = Heard(m)
    /\ IF conv'.code # {} /\ conv'.date # {} /\ conv'.time # {}
       THEN Go(m, "modify", [PlanOf(conv') EXCEPT !.code = conv'.code])
       ELSE Ask(m)
    /\ KeepsBackend

TalkCheck(m) ==
    /\ Talks(m, {"check_reservation"})
    /\ conv' = Heard(m)
    /\ Ask(m) /\ KeepsBackend

TalkCancel(m) ==
    /\ Talks(m, {"cancel"})
    /\ IF Heard(m).code = {}
       THEN conv' = Heard(m) /\ Ask(m)
       ELSE /\ conv' = [Heard(m) EXCEPT !.pending = "confirm_cancel", !.cancelling = Heard(m).code]
            /\ Answer(m, "question", Named(Heard(m).code))
    /\ KeepsBackend

TalkAvailability(m) ==
    /\ Talks(m, {"availability"})
    /\ conv' = Heard(m)
    /\ IF Ready(conv') THEN Go(m, "search", PlanOf(conv')) ELSE Ask(m)
    /\ KeepsBackend

\* Everything else books as soon as guests, date and time are known; before that,
\* parseReservationText has a try at the message alone.
TalkBook(m) ==
    /\ Talks(m, {"reservation", "unknown"})
    /\ conv' = Heard(m)
    /\ IF Ready(conv') THEN Go(m, "book", PlanOf(conv'))
       ELSE IF content[m].guess # Nothing THEN Go(m, "book", content[m].guess)
       ELSE Ask(m)
    /\ KeepsBackend

Route(m) == \/ TakeSlot(m)
            \/ SayNo(m) \/ SayYes(m) \/ SayNeither(m)
            \/ ListReservations(m)
            \/ AskCancel(m)
            \/ TalkModify(m) \/ TalkCheck(m) \/ TalkCancel(m)
            \/ TalkAvailability(m) \/ TalkBook(m)
-----------------------------------------------------------------------------
(* From one await to the next *)

\* sendMessage returns: the text arrived, or Meta refused it and that was logged.
Tell(m, text, plan) ==
    \/ /\ told' = [told EXCEPT ![m] = @ \cup {[text |-> text, plan |-> plan]}]
       /\ lastAsked' = IF text = "question" THEN plan.code ELSE lastAsked
    \/ "lose" \in Faults /\ UNCHANGED <<told, lastAsked>>

\* Mutant of Announced: the slot chosen is not written to the state.
Announced_OldTime(m) ==
    /\ At(m, "announce")
    /\ Tell(m, "announce", job[m].plan)
    /\ conv' = [conv EXCEPT !.pending = "none", !.slots = {}]
    /\ Go(m, "book", PlanOf(conv'))
    /\ UNCHANGED <<content, to, bookings, restarts>>

\* The state is read again for the guests and the date.
Announced(m) ==
    /\ At(m, "announce")
    /\ Tell(m, "announce", job[m].plan)
    /\ conv' = [conv EXCEPT !.time = content[m].time, !.pending = "none", !.slots = {}]
    /\ Go(m, "book", PlanOf(conv'))
    /\ UNCHANGED <<content, to, bookings, restarts>>

\* Mutant of Book: telling the dashboard throws, after the commit.
Book_EmitThrows(m) ==
    /\ At(m, "book")
    /\ \E c \in Codes :
         /\ bookings[c] = NoBooking
         /\ bookings' = [bookings EXCEPT ![c] = [status |-> "CONFIRMED", restaurant |-> {to[m]},
                                                 by |-> {m}, plan |-> job[m].plan]]
    /\ Go(m, "apologise", Nothing)
    /\ UNCHANGED <<content, to, conv, told, lastAsked, restarts>>

\* createReservation commits; its answer may still be lost.
Book(m) ==
    /\ At(m, "book")
    /\ \E c \in Codes :
         /\ bookings[c] = NoBooking
         /\ bookings' = [bookings EXCEPT ![c] = [status |-> "CONFIRMED", restaurant |-> {to[m]},
                                                 by |-> {m}, plan |-> job[m].plan]]
         /\ \/ Go(m, "confirm", [job[m].plan EXCEPT !.code = {c}])
            \/ "throw" \in Faults /\ Go(m, "apologise", Nothing)
    /\ UNCHANGED <<content, to, conv, told, lastAsked, restarts>>

\* Mutant of RefuseBooking: the refusal is not an error, and the confirmation is sent.
RefuseBooking_Confirms(m) ==
    /\ At(m, "book")
    /\ Go(m, "confirm", job[m].plan)
    /\ UNCHANGED conv /\ KeepsBackend

\* Mutant of RefuseBooking: a refused message is looked at again from the start.
RefuseBooking_StartsOver(m) ==
    /\ At(m, "book")
    /\ Go(m, "lookup", Nothing)
    /\ UNCHANGED conv /\ KeepsBackend

\* createReservation refuses or fails before its commit.
RefuseBooking(m) ==
    /\ At(m, "book")
    /\ Go(m, "apologise", Nothing)
    /\ UNCHANGED conv /\ KeepsBackend

Confirm(m) ==
    /\ At(m, "confirm")
    /\ Tell(m, "confirmed", job[m].plan)
    /\ Go(m, "done", Nothing)
    /\ UNCHANGED <<content, to, conv, bookings, restarts>>

\* Mutant of ConfirmThrows: the booking is tried again instead.
ConfirmThrows_BooksAgain(m) ==
    /\ At(m, "confirm") /\ "throw" \in Faults
    /\ Go(m, "book", [job[m].plan EXCEPT !.code = {}])
    /\ UNCHANGED conv /\ KeepsBackend

\* The confirmation cannot be sent: the catch of createReservationAndReply takes that
\* for a booking that failed.
ConfirmThrows(m) ==
    /\ At(m, "confirm") /\ "throw" \in Faults
    /\ Go(m, "apologise", Nothing)
    /\ UNCHANGED conv /\ KeepsBackend

Apologise(m) ==
    /\ At(m, "apologise")
    /\ Tell(m, "sorry", Nothing)
    /\ Go(m, "done", Nothing)
    /\ UNCHANGED <<content, to, conv, bookings, restarts>>

\* cancelReservationByCode's writes.
CancelRow(m) ==
    /\ At(m, "cancel")
    /\ bookings' = [c \in Codes |->
         IF {c} = job[m].plan.code /\ bookings[c].restaurant = {to[m]}
         THEN [bookings[c] EXCEPT !.status = "CANCELLED"] ELSE bookings[c]]

\* Mutant of Cancel: the code is cleared, the pending action is not.
Cancel_KeepsPending(m) ==
    /\ CancelRow(m)
    /\ conv' = [conv EXCEPT !.cancelling = {}]
    /\ Ask(m)
    /\ UNCHANGED <<content, to, told, lastAsked, restarts>>

\* cancelReservationByCode, then the state is cleared and the result sent.
Cancel(m) ==
    /\ CancelRow(m)
    /\ conv' = [conv EXCEPT !.pending = "none", !.cancelling = {}]
    /\ Ask(m)
    /\ UNCHANGED <<content, to, told, lastAsked, restarts>>

\* modifyReservationByCode writes the date and the hour, if the table found is still on, and
\* then the guests, if the message names a number.
WhenMoved(old, asked) == [old EXCEPT !.date = asked.date, !.time = asked.time]
GuestsMoved(old, asked) == [old EXCEPT !.guests = Given(asked.guests, @)]
Moves(old, asked, whole) ==
    {GuestsMoved(old, asked), GuestsMoved(WhenMoved(old, asked), asked)}
      \cup IF whole THEN {} ELSE {WhenMoved(old, asked)}

\* Its writes, all or some of them, on a reservation that is not cancelled.
MoveRow(m, whole) ==
    /\ At(m, "modify")
    /\ \E c \in job[m].plan.code :
         /\ bookings[c].restaurant = {to[m]} /\ bookings[c].status = "CONFIRMED"
         /\ \E plan \in Moves(bookings[c].plan, job[m].plan, whole) :
              bookings' = [bookings EXCEPT ![c].plan = plan]

\* It moves the reservation, or finds no table.
Modify(m) ==
    /\ At(m, "modify")
    /\ MoveRow(m, TRUE) \/ UNCHANGED bookings
    /\ Ask(m)
    /\ UNCHANGED <<content, to, conv, told, lastAsked, restarts>>

\* Tables are found, or slots are offered (there may be none) and the state remembers them.
Search(m) ==
    /\ At(m, "search")
    /\ \/ UNCHANGED conv
       \/ \E slots \in SUBSET Times :
            conv' = [conv EXCEPT !.pending = "availability_alternative", !.slots = slots]
    /\ Ask(m) /\ KeepsBackend

Send(m) ==
    /\ At(m, "send")
    /\ Tell(m, job[m].reply, job[m].plan)
    /\ Go(m, "done", Nothing)
    /\ UNCHANGED <<content, to, conv, bookings, restarts>>

\* BullMQ tries the job again later, or gives up.
Retry(m) == Go(m, IF job[m].attempts < Attempts THEN "waiting" ELSE "failed", Nothing)

\* An await throws and nothing catches it.
Throw(m) ==
    /\ "throw" \in Faults
    /\ job[m].at \in Awaiting \ {"book", "confirm"}
    /\ Retry(m)
    /\ UNCHANGED conv /\ KeepsBackend

\* A cancellation or a move throws after its writes, or between them.
BreakOff(m) ==
    /\ "throw" \in Faults
    /\ CancelRow(m) \/ MoveRow(m, FALSE)
    /\ Retry(m)
    /\ UNCHANGED <<content, to, conv, told, lastAsked, restarts>>

\* The worker's process dies: its memory is gone, its jobs stall and are queued again.
Restart ==
    /\ "restart" \in Faults /\ restarts < MaxRestarts
    /\ restarts' = restarts + 1
    /\ conv' = NoConversation
    /\ job' = [m \in Messages |->
         IF job[m].at \notin Awaiting THEN job[m]
         ELSE [job[m] EXCEPT !.at = "waiting", !.plan = Nothing, !.attempts = @ - 1]]
    /\ UNCHANGED <<content, to, bookings, told, lastAsked>>
-----------------------------------------------------------------------------
Continue(m) == \/ Route(m)
               \/ Announced(m)
               \/ Book(m) \/ RefuseBooking(m)
               \/ Confirm(m) \/ ConfirmThrows(m) \/ Apologise(m)
               \/ Cancel(m) \/ Modify(m) \/ Search(m)
               \/ Send(m)
               \/ Throw(m) \/ BreakOff(m)

Next == \/ \E m \in Messages : Start(m) \/ Continue(m)
        \/ Restart

Spec == Init /\ [][Next]_vars

\* The worker takes waiting jobs, and an await ends one way or another.
FairSpec == Spec /\ \A m \in Messages : WF_vars(Continue(m)) /\ SF_vars(Start(m))
-----------------------------------------------------------------------------
(* Properties *)

Told(m, text) == {r \in told[m] : r.text = text}
BookedBy(m) == {c \in Codes : bookings[c].by = {m}}

\* The type invariant, and that a pending confirmation knows what it would cancel: a SI
\* passes pendingCancellationCode! on without a look.
ConversationInv == /\ TypeOK
                   /\ conv.pending = "confirm_cancel" => conv.cancelling # {} /\ Existing

\* "Con confirmacion solo cuando la reserva existe": a guest who was told that the
\* reservation is confirmed, with a code, has a reservation by that code.
ConfirmedMeansBooked ==
    \A m \in Messages : \A r \in Told(m, "confirmed") : r.plan.code # {} /\ r.plan.code \subseteq BookedBy(m)

\* A message books at most once each time it is run: retries and restarts, and nothing
\* else, make copies of a reservation.
OneBookingPerRun ==
    \A m \in Messages : Cardinality(BookedBy(m)) <= job[m].attempts + restarts

\* "no pudimos completar tu solicitud de reserva": who is told so has no reservation from
\* that message.
SorryMeansNothing ==
    \A m \in Messages : Told(m, "sorry") # {} => BookedBy(m) = {}

\* "Voy a reservar para ... personas el ... a las ...": what is announced is what is booked.
AnnouncedIsBooked ==
    [][\A c \in Codes : bookings[c] = NoBooking /\ bookings'[c] # NoBooking =>
         \A m \in bookings'[c].by : \A r \in Told(m, "announce") :
             r.plan = bookings'[c].plan]_vars

\* "¿Confirmas cancelar la reserva ...? Responde SI o NO.": a reservation is cancelled only
\* if it is the one the guest was last asked about.
CancelsLastAsked ==
    [][\A c \in Codes : bookings[c].status # "CANCELLED" /\ bookings'[c].status = "CANCELLED" =>
         lastAsked = {c}]_vars

\* "if (Data Complete?) ... else (No) :Request Missing Data;": each of guests, date and time
\* of a reservation is one that the guest gave in some message.
Said(senders, value, Of(_)) == value # {} /\ \E m \in senders : Of(content[m]) = value

SaidIn(senders, plan) == /\ Said(senders, plan.guests, LAMBDA c : c.guests)
                         /\ Said(senders, plan.date, LAMBDA c : c.date)
                         /\ Said(senders, plan.time, LAMBDA c : c.time)

BookedAsSaid ==
    \A c \in Codes : bookings[c].by # {} => SaidIn(Messages, bookings[c].plan)

\* "No hay cross-tenant leakage": what a guest told one restaurant is not used to book at
\* another.
SaidToThisRestaurant ==
    \A c \in Codes : bookings[c].by # {} =>
        SaidIn({m \in Messages : bookings[c].restaurant = {to[m]}}, bookings[c].plan)

\* "if (Intent Found?) ... else (No) :Fallback Flow;": a message with no intent and no data
\* in it books nothing.
Chatter(c) == c.intent = "unknown" /\ c.guests \cup c.date \cup c.time \cup c.code = {}

ChatterBooksNothing ==
    \A m \in Messages : Chatter(content[m]) => BookedBy(m) = {}

\* Every message is answered for: its job completes, or is kept as failed.
EveryMessageSettles ==
    \A m \in Messages : <>(job[m].at \in {"done", "failed"})
=============================================================================
