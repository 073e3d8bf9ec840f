---------------------- MODULE GuestConversationProofs ----------------------
(***************************************************************************)
(* Theorems about GuestConversation, for every set of messages, contents,  *)
(* restaurants and codes, and any number of attempts and of handlers at    *)
(* once, except where a theorem names what it needs.                       *)
(***************************************************************************)
EXTENDS GuestConversation, FiniteSetTheorems, TLAPS

Job == [at : Places, attempts : 0..Attempts, plan : Plan, reply : Replies]

Phone == [restaurant : SUBSET Restaurants, guests : SUBSET Guests, date : SUBSET Dates,
          time : SUBSET Times, code : SUBSET Codes,
          pending : {"none", "availability_alternative", "confirm_cancel"},
          slots : SUBSET Times, cancelling : SUBSET Codes]

\* What the job of one message has to do with the rows it has made: each run makes one at
\* most, and a run that waits to confirm has made the one it will confirm.
RunInv(m) ==
    /\ At(m, "waiting") => job[m].attempts < Attempts
    /\ job[m].at \in Awaiting => job[m].attempts >= 1
    /\ job[m].reply \in {"ask", "question"}
    /\ At(m, "confirm") => job[m].plan.code # {} /\ job[m].plan.code \subseteq BookedBy(m)
    /\ IsFiniteSet(BookedBy(m))
    /\ Cardinality(BookedBy(m)) <= job[m].attempts + restarts
    /\ job[m].at \in {"lookup", "announce", "book"} =>
         Cardinality(BookedBy(m)) < job[m].attempts + restarts

Inv == /\ TypeOK
       /\ conv.pending = "confirm_cancel" => conv.cancelling # {} /\ Existing
       /\ \A m \in Messages : RunInv(m)
       /\ ConfirmedMeansBooked
-----------------------------------------------------------------------------
(* What an action does to the job it is an action of *)

Becomes(m, place, plan, reply) ==
    /\ job' \in [Messages -> Job]
    /\ job'[m] = [at |-> place, attempts |-> job[m].attempts, plan |-> plan, reply |-> reply]
    /\ \A o \in Messages \ {m} : job'[o] = job[o]

LEMMA GoBecomes ==
    ASSUME TypeOK, NEW m \in Messages, NEW place \in Places, NEW plan \in Plan, Go(m, place, plan)
    PROVE  Becomes(m, place, plan, job[m].reply)
<1>1. job \in [Messages -> Job] /\ job[m] \in Job
  BY DEF TypeOK, Job
<1>2. job'[m] = [[job[m] EXCEPT !.at = place] EXCEPT !.plan = plan]
  BY <1>1 DEF Go
<1>3. job'[m] = [at |-> place, attempts |-> job[m].attempts, plan |-> plan, reply |-> job[m].reply]
  BY <1>1, <1>2 DEF Job
<1>4. job'[m] \in Job
  BY <1>1, <1>3 DEF Job
<1>5. /\ DOMAIN job' = Messages
      /\ \A o \in Messages \ {m} : job'[o] = job[o]
      /\ job' = [o \in Messages |-> job'[o]]
  BY <1>1 DEF Go
<1> QED
  BY <1>1, <1>3, <1>4, <1>5 DEF Becomes

LEMMA AnswerBecomes ==
    ASSUME TypeOK, NEW m \in Messages, NEW text \in Replies, NEW plan \in Plan,
           Answer(m, text, plan)
    PROVE  Becomes(m, "send", plan, text)
<1>1. job \in [Messages -> Job] /\ job[m] \in Job
  BY DEF TypeOK, Job
<1>2. job'[m] = [[[job[m] EXCEPT !.at = "send"] EXCEPT !.plan = plan] EXCEPT !.reply = text]
  BY <1>1 DEF Answer
<1>3. job'[m] = [at |-> "send", attempts |-> job[m].attempts, plan |-> plan, reply |-> text]
  BY <1>1, <1>2 DEF Job
<1>4. job'[m] \in Job
  BY <1>1, <1>3 DEF Job, Places, Awaiting
<1>5. /\ DOMAIN job' = Messages
      /\ \A o \in Messages \ {m} : job'[o] = job[o]
      /\ job' = [o \in Messages |-> job'[o]]
  BY <1>1 DEF Answer
<1> QED
  BY <1>1, <1>3, <1>4, <1>5 DEF Becomes

LEMMA NothingIsPlan == Nothing \in Plan
BY DEF Nothing, Plan

LEMMA NamedIsPlan ==
    ASSUME NEW code \in SUBSET Codes
    PROVE  Named(code) \in Plan /\ Named(code).code = code
BY DEF Named, Nothing, Plan

LEMMA PlanOfIsPlan ==
    ASSUME NEW state \in Phone
    PROVE  PlanOf(state) \in Plan
BY DEF PlanOf, Phone, Plan

\* What a message says has the type the pipeline gives it.
LEMMA ContentType ==
    ASSUME TypeOK, NEW m \in Messages
    PROVE  content[m] \in Content
BY ContentAssumption DEF TypeOK

LEMMA UpsertedType ==
    ASSUME TypeOK, NEW m \in Messages
    PROVE  /\ Upserted(m) \in Phone /\ Upserted(m).restaurant # {}
           /\ Upserted(m).pending = conv.pending
           /\ Upserted(m).cancelling = conv.cancelling
<1>1. conv \in Phone /\ to[m] \in Restaurants
  BY DEF TypeOK, Phone
<1>2. CASE Existing
  BY <1>1, <1>2 DEF Upserted, Existing
<1>3. CASE ~Existing
  BY <1>1, <1>3 DEF Upserted, Existing, Phone
<1> QED
  BY <1>2, <1>3

LEMMA HeardType ==
    ASSUME TypeOK, NEW m \in Messages
    PROVE  /\ Heard(m) \in Phone /\ Heard(m).restaurant # {}
           /\ Heard(m).pending = conv.pending
           /\ Heard(m).cancelling = conv.cancelling
<1>1. content[m] \in Content
  BY ContentType
<1>2. /\ content[m].guests \in SUBSET Guests /\ content[m].date \in SUBSET Dates
      /\ content[m].time \in SUBSET Times /\ content[m].code \in SUBSET Codes
  BY <1>1 DEF Content
<1>3. /\ Upserted(m) \in Phone /\ Upserted(m).restaurant # {}
      /\ Upserted(m).pending = conv.pending
      /\ Upserted(m).cancelling = conv.cancelling
  BY UpsertedType
<1>4. /\ Given(content[m].guests, Upserted(m).guests) \in SUBSET Guests
      /\ Given(content[m].date, Upserted(m).date) \in SUBSET Dates
      /\ Given(content[m].time, Upserted(m).time) \in SUBSET Times
      /\ Given(content[m].code, Upserted(m).code) \in SUBSET Codes
  BY <1>2, <1>3 DEF Given, Phone
<1> QED
  BY <1>3, <1>4 DEF Heard, Phone
-----------------------------------------------------------------------------
(* What the handler does before its first await but one *)

\* Where the message goes, with which plan and answer, and what that leaves of the
\* conversation: in particular, who is asked "¿Confirmas...?" is asked about the code that
\* the conversation then remembers, and SI takes that code.
Routed(m, place, plan, reply) ==
    /\ Becomes(m, place, plan, reply)
    /\ IF place = "send" THEN reply \in {"ask", "question"} ELSE reply = job[m].reply
    /\ conv' \in Phone
    /\ Confirming(m)' => conv'.cancelling # {} /\ conv'.restaurant # {}
    /\ Confirming(m)' => \/ Confirming(m) /\ conv'.cancelling = conv.cancelling
                         \/ place = "send" /\ reply = "question"
    /\ place = "send" /\ reply = "question" => Confirming(m)' /\ plan.code = conv'.cancelling
    /\ place = "cancel" => Confirming(m) /\ conv' = conv /\ plan.code = conv.cancelling
    /\ place = "announce" =>
         /\ conv' = conv
         /\ plan = [guests |-> conv.guests, date |-> conv.date, time |-> content[m].time,
                    code |-> {}]

RoutedPlaces == {"announce", "cancel", "modify", "search", "book", "send"}

LEMMA RoutedPlacesArePlaces == RoutedPlaces \subseteq Awaiting /\ RoutedPlaces \subseteq Places
BY DEF RoutedPlaces, Places, Awaiting

\* The shape of an answer that leaves no confirmation pending that was not pending before.
LEMMA AskRouted ==
    ASSUME TypeOK, NEW m \in Messages, Ask(m), conv' \in Phone,
           Confirming(m)' => Confirming(m) /\ conv'.cancelling = conv.cancelling /\
                             conv'.cancelling # {} /\ conv'.restaurant # {}
    PROVE  Routed(m, "send", Nothing, "ask")
<1>1. Becomes(m, "send", Nothing, "ask")
  BY NothingIsPlan, AnswerBecomes DEF Ask, Replies
<1> QED
  BY <1>1 DEF Routed

LEMMA GoRouted ==
    ASSUME TypeOK, NEW m \in Messages, NEW place \in RoutedPlaces, NEW plan \in Plan,
           Go(m, place, plan), place \notin {"send", "announce", "cancel"}, conv' \in Phone,
           Confirming(m)' => Confirming(m) /\ conv'.cancelling = conv.cancelling /\
                             conv'.cancelling # {} /\ conv'.restaurant # {}
    PROVE  Routed(m, place, plan, job[m].reply)
<1>1. Becomes(m, place, plan, job[m].reply)
  BY GoBecomes, RoutedPlacesArePlaces
<1> QED
  BY <1>1 DEF Routed

LEMMA RouteEffect ==
    ASSUME TypeOK, conv.pending = "confirm_cancel" => conv.cancelling # {} /\ Existing,
           NEW m \in Messages, Route(m)
    PROVE  \E place \in RoutedPlaces, plan \in Plan, reply \in Replies :
               Routed(m, place, plan, reply)
<1> DEFINE Effect == \E place \in RoutedPlaces, plan \in Plan, reply \in Replies :
                         Routed(m, place, plan, reply)
<1>1. /\ conv \in Phone /\ content[m] \in Content /\ Nothing \in Plan
      /\ Heard(m) \in Phone /\ Heard(m).restaurant # {} /\ Heard(m).pending = conv.pending
      /\ Heard(m).cancelling = conv.cancelling
  BY ContentType, HeardType, NothingIsPlan DEF TypeOK, Phone
<1>2. job[m].reply \in Replies /\ "ask" \in Replies /\ "question" \in Replies
  BY DEF TypeOK, Replies
<1>3. {"send", "announce", "cancel", "modify", "search", "book"} \subseteq RoutedPlaces
  BY DEF RoutedPlaces
<1>4. CASE TakeSlot(m)
  <2>1. PICK plan \in Plan : /\ Go(m, "announce", plan)
                             /\ plan = [guests |-> conv.guests, date |-> conv.date,
                                        time |-> content[m].time, code |-> {}]
    BY <1>1, <1>4 DEF TakeSlot, Phone, Plan, Content
  <2>2. Becomes(m, "announce", plan, job[m].reply)
    BY <2>1, <1>3, GoBecomes, RoutedPlacesArePlaces
  <2>3. Routed(m, "announce", plan, job[m].reply)
    BY <2>1, <2>2, <1>1, <1>4 DEF TakeSlot, Routed, PicksSlot, Confirming
  <2> QED
    BY <2>3, <1>2, <1>3
<1>5. CASE SayNo(m)
  <2>1. conv' \in Phone /\ ~Confirming(m)' /\ Ask(m)
    BY <1>1, <1>5 DEF SayNo, Phone, Confirming
  <2> QED
    BY <2>1, <1>1, <1>2, <1>3, AskRouted
<1>6. CASE SayYes(m)
  <2>1. PICK plan \in Plan : Go(m, "cancel", plan) /\ plan.code = conv.cancelling
    BY <1>1, <1>6, NamedIsPlan DEF SayYes, Phone
  <2>2. Becomes(m, "cancel", plan, job[m].reply)
    BY <2>1, <1>3, GoBecomes, RoutedPlacesArePlaces
  <2>3. Routed(m, "cancel", plan, job[m].reply)
    BY <2>1, <2>2, <1>1, <1>6 DEF SayYes, Routed, Confirming, Existing
  <2> QED
    BY <2>3, <1>2, <1>3
<1>7. CASE SayNeither(m) \/ ListReservations(m)
  <2>1. conv' = conv /\ Ask(m)
    BY <1>7 DEF SayNeither, ListReservations
  <2>2. Routed(m, "send", Nothing, "ask")
    BY <2>1, <1>1, AskRouted DEF Confirming, Existing
  <2> QED
    BY <2>2, <1>1, <1>2, <1>3
<1>8. CASE AskCancel(m)
  <2>1. content[m].code \in SUBSET Codes /\ content[m].code # {}
    BY <1>1, <1>8 DEF AskCancel, Content
  <2>2. PICK plan \in Plan : Answer(m, "question", plan) /\ plan.code = content[m].code
    BY <1>8, <2>1, NamedIsPlan DEF AskCancel
  <2>3. /\ conv' \in Phone /\ conv'.cancelling = content[m].code
        /\ conv'.restaurant # {} /\ conv'.pending = "confirm_cancel"
    BY <1>8, <2>1, UpsertedType DEF AskCancel, Phone
  <2>4. Becomes(m, "send", plan, "question")
    BY <2>2, <1>2, AnswerBecomes
  <2>5. Routed(m, "send", plan, "question")
    BY <2>1, <2>2, <2>3, <2>4 DEF Routed, Confirming
  <2> QED
    BY <2>5, <1>2, <1>3
<1>9. CASE TalkCancel(m)
  <2>1. CASE Heard(m).code = {}
    <3>1. conv' = Heard(m) /\ Ask(m) /\ ~Confirming(m)
      BY <1>9, <2>1 DEF TalkCancel, Talks, Free
    <3>2. Routed(m, "send", Nothing, "ask")
      BY <3>1, <1>1, AskRouted DEF Confirming
    <3> QED
      BY <3>2, <1>1, <1>2, <1>3
  <2>2. CASE Heard(m).code # {}
    <3>1. Heard(m).code \in SUBSET Codes
      BY <1>1 DEF Phone
    <3>2. PICK plan \in Plan : Answer(m, "question", plan) /\ plan.code = Heard(m).code
      BY <1>9, <2>2, <3>1, NamedIsPlan DEF TalkCancel
    <3>3. /\ conv' \in Phone /\ conv'.cancelling = Heard(m).code
          /\ conv'.restaurant # {} /\ conv'.pending = "confirm_cancel"
      BY <1>9, <2>2, <3>1, <1>1 DEF TalkCancel, Phone
    <3>4. Becomes(m, "send", plan, "question")
      BY <3>2, <1>2, AnswerBecomes
    <3>5. Routed(m, "send", plan, "question")
      BY <2>2, <3>2, <3>3, <3>4 DEF Routed, Confirming
    <3> QED
      BY <3>5, <1>2, <1>3
  <2> QED
    BY <2>1, <2>2
<1>10. ASSUME TalkModify(m) \/ TalkCheck(m) \/ TalkAvailability(m) \/ TalkBook(m)
       PROVE  Effect
  <2>1. conv' = Heard(m) /\ ~Confirming(m) /\ ~Confirming(m)'
    BY <1>10, <1>1 DEF TalkModify, TalkCheck, TalkAvailability, TalkBook, Talks, Free, Confirming
  <2>2. PlanOf(conv') \in Plan /\ content[m].guess \in Plan
    BY <2>1, <1>1, PlanOfIsPlan DEF Content
  <2>3. [PlanOf(conv') EXCEPT !.code = conv'.code] \in Plan
    BY <2>1, <2>2, <1>1 DEF Plan, Phone
  <2>4. \/ Ask(m)
        \/ \E place \in {"modify", "search", "book"}, plan \in Plan : Go(m, place, plan)
    BY <1>10, <2>2, <2>3 DEF TalkModify, TalkCheck, TalkAvailability, TalkBook
  <2>5. CASE Ask(m)
    BY <2>5, <2>1, <1>1, <1>2, <1>3, AskRouted
  <2>6. ASSUME NEW place \in {"modify", "search", "book"}, NEW plan \in Plan,
               Go(m, place, plan)
        PROVE  Effect
    <3>1. place \in RoutedPlaces
      BY <1>3
    <3>2. Routed(m, place, plan, job[m].reply)
      BY <2>6, <2>1, <3>1, <1>1, GoRouted
    <3> QED
      BY <3>1, <3>2, <1>2
  <2> QED
    BY <2>4, <2>5, <2>6
<1> QED
  BY <1>4, <1>5, <1>6, <1>7, <1>8, <1>9, <1>10 DEF Route
-----------------------------------------------------------------------------
(* What the later steps of a handler do *)

\* What was told to other messages stands; the one answered was told this, or nothing.
LEMMA TellEffect ==
    ASSUME TypeOK, NEW m \in Messages, NEW text \in Replies, NEW plan \in Plan,
           Tell(m, text, plan)
    PROVE  /\ told' \in [Messages -> SUBSET Reply] /\ lastAsked' \subseteq Codes
           /\ \A o \in Messages \ {m} : told'[o] = told[o]
           /\ told'[m] \subseteq told[m] \cup {[text |-> text, plan |-> plan]}
           /\ "lose" \notin Faults =>
                lastAsked' = IF text = "question" THEN plan.code ELSE lastAsked
<1>1. [text |-> text, plan |-> plan] \in Reply
  BY DEF Reply
<1>2. plan.code \in SUBSET Codes
  BY DEF Plan
<1> QED
  BY <1>1, <1>2 DEF TypeOK, Tell

\* The row a booking leaves, and whose it is.
LEMMA BookEffect ==
    ASSUME TypeOK, NEW m \in Messages, Book(m)
    PROVE  \E c \in Codes :
             /\ bookings[c] = NoBooking
             /\ bookings'[c] = [status |-> "CONFIRMED", restaurant |-> {to[m]}, by |-> {m},
                                plan |-> job[m].plan]
             /\ \A d \in Codes \ {c} : bookings'[d] = bookings[d]
             /\ bookings' \in [Codes -> Row]
             /\ c \notin BookedBy(m) /\ BookedBy(m)' = BookedBy(m) \cup {c}
             /\ \A o \in Messages \ {m} : BookedBy(o)' = BookedBy(o)
             /\ \/ Becomes(m, "confirm", [job[m].plan EXCEPT !.code = {c}], job[m].reply)
                \/ "throw" \in Faults /\ Becomes(m, "apologise", Nothing, job[m].reply)
<1>1. PICK c \in Codes :
        /\ bookings[c] = NoBooking
        /\ bookings' = [bookings EXCEPT ![c] = [status |-> "CONFIRMED", restaurant |-> {to[m]},
                                                by |-> {m}, plan |-> job[m].plan]]
        /\ \/ Go(m, "confirm", [job[m].plan EXCEPT !.code = {c}])
           \/ "throw" \in Faults /\ Go(m, "apologise", Nothing)
  BY DEF Book
<1>2. /\ job[m].plan \in Plan /\ to[m] \in Restaurants /\ job[m].reply \in Replies
      /\ bookings \in [Codes -> Row]
  BY DEF TypeOK, Row
<1>3. [status |-> "CONFIRMED", restaurant |-> {to[m]}, by |-> {m}, plan |-> job[m].plan] \in Row
  BY <1>2 DEF Row
<1>4. [job[m].plan EXCEPT !.code = {c}] \in Plan /\ Nothing \in Plan
  BY <1>2, NothingIsPlan DEF Plan
<1>5. {"confirm", "apologise"} \subseteq Places
  BY DEF Places, Awaiting
<1>6. \/ Becomes(m, "confirm", [job[m].plan EXCEPT !.code = {c}], job[m].reply)
      \/ "throw" \in Faults /\ Becomes(m, "apologise", Nothing, job[m].reply)
  BY <1>1, <1>4, <1>5, GoBecomes
<1>7. /\ bookings'[c] = [status |-> "CONFIRMED", restaurant |-> {to[m]}, by |-> {m},
                         plan |-> job[m].plan]
      /\ \A d \in Codes \ {c} : bookings'[d] = bookings[d]
      /\ bookings' \in [Codes -> Row]
  BY <1>1, <1>2, <1>3
<1>8. bookings[c].by = {} /\ bookings'[c].by = {m}
  BY <1>1, <1>7 DEF NoBooking
<1>9. c \notin BookedBy(m) /\ BookedBy(m)' = BookedBy(m) \cup {c}
  BY <1>7, <1>8 DEF BookedBy
<1>10. \A o \in Messages \ {m} : BookedBy(o)' = BookedBy(o)
  BY <1>7, <1>8 DEF BookedBy
<1> QED
  BY <1>1, <1>6, <1>7, <1>9, <1>10

\* A booking confirms one row and leaves the others alone.
LEMMA BookedRow ==
    ASSUME TypeOK, NEW m \in Messages, Book(m)
    PROVE  \E c \in Codes :
             /\ bookings'[c] = [status |-> "CONFIRMED", restaurant |-> {to[m]}, by |-> {m},
                                plan |-> job[m].plan]
             /\ \A d \in Codes \ {c} : bookings'[d] = bookings[d]
BY BookEffect

\* A cancellation or a move, whole or broken off, changes no row's author.
LEMMA RowEffect ==
    ASSUME TypeOK, NEW m \in Messages, CancelRow(m) \/ \E whole \in BOOLEAN : MoveRow(m, whole)
    PROVE  /\ bookings' \in [Codes -> Row]
           /\ \A c \in Codes : bookings'[c].by = bookings[c].by
           /\ \A o \in Messages : BookedBy(o)' = BookedBy(o)
<1>1. /\ bookings \in [Codes -> Row]
      /\ job[m].plan \in Plan
  BY DEF TypeOK, Row
<1>2. /\ bookings' \in [Codes -> Row] /\ \A c \in Codes : bookings'[c].by = bookings[c].by
  <2>1. CASE CancelRow(m)
    <3>1. \A c \in Codes :
            /\ bookings'[c] = IF {c} = job[m].plan.code /\ bookings[c].restaurant = {to[m]}
                              THEN [bookings[c] EXCEPT !.status = "CANCELLED"] ELSE bookings[c]
            /\ [bookings[c] EXCEPT !.status = "CANCELLED"] \in Row
            /\ [bookings[c] EXCEPT !.status = "CANCELLED"].by = bookings[c].by
      BY <2>1, <1>1 DEF CancelRow, Row
    <3>2. bookings' = [c \in Codes |-> bookings'[c]]
      BY <2>1 DEF CancelRow
    <3> QED
      BY <3>1, <3>2, <1>1
  <2>2. CASE \E whole \in BOOLEAN : MoveRow(m, whole)
    <3>1. PICK c \in job[m].plan.code, whole \in BOOLEAN :
            \E plan \in Moves(bookings[c].plan, job[m].plan, whole) :
              bookings' = [bookings EXCEPT ![c].plan = plan]
      BY <2>2 DEF MoveRow
    <3>2. c \in Codes /\ bookings[c] \in Row /\ bookings[c].plan \in Plan
      BY <1>1 DEF Plan, Row
    <3>3. PICK plan \in Moves(bookings[c].plan, job[m].plan, whole) :
            bookings' = [bookings EXCEPT ![c].plan = plan]
      BY <3>1
    <3>4. plan \in Plan
      <4> DEFINE old == bookings[c].plan
      <4> DEFINE asked == job[m].plan
      <4>1. asked \in Plan /\ old \in Plan
        BY <1>1, <3>2
      <4> HIDE DEF old, asked
      <4>2. WhenMoved(old, asked) \in Plan
        BY <4>1 DEF WhenMoved, Plan
      <4>3. ASSUME NEW p \in Plan PROVE GuestsMoved(p, asked) \in Plan
        <5>1. Given(asked.guests, p.guests) \in SUBSET Guests
          BY <4>1 DEF Given, Plan
        <5> QED
          BY <4>1, <5>1 DEF GuestsMoved, Plan
      <4>4. \A p \in Moves(old, asked, whole) : p \in Plan
        BY <4>1, <4>2, <4>3 DEF Moves
      <4> QED
        BY <4>4 DEF old, asked
    <3>5. bookings'[c] = [bookings[c] EXCEPT !.plan = plan]
      BY <3>2, <3>3, <1>1
    <3>6. /\ \A d \in Codes \ {c} : bookings'[d] = bookings[d]
          /\ bookings' \in [Codes -> Row]
      <4>1. [bookings[c] EXCEPT !.plan = plan] \in Row
        BY <3>2, <3>4 DEF Row
      <4>2. /\ \A d \in Codes \ {c} : bookings'[d] = bookings[d]
            /\ bookings' = [d \in Codes |-> bookings'[d]]
        BY <3>3, <3>2, <1>1
      <4> QED
        BY <4>1, <4>2, <3>5, <1>1
    <3>7. [bookings[c] EXCEPT !.plan = plan].by = bookings[c].by
      BY <3>2 DEF Row
    <3> QED
      BY <3>5, <3>6, <3>7
  <2> QED
    BY <2>1, <2>2
<1>3. \A o \in Messages : BookedBy(o)' = BookedBy(o)
  BY <1>2 DEF BookedBy
<1> QED
  BY <1>2, <1>3

\* A cancellation or a move that returns.
LEMMA DeskEffect ==
    ASSUME TypeOK, NEW m \in Messages, Cancel(m) \/ Modify(m)
    PROVE  /\ bookings' \in [Codes -> Row]
           /\ \A c \in Codes : bookings'[c].by = bookings[c].by
           /\ \A o \in Messages : BookedBy(o)' = BookedBy(o)
           /\ Becomes(m, "send", Nothing, "ask")
           /\ conv' \in Phone /\ (Confirming(m)' => Modify(m) /\ conv' = conv)
<1>1. bookings \in [Codes -> Row] /\ conv \in Phone
  BY DEF TypeOK, Row, Phone
<1>2. /\ bookings' \in [Codes -> Row] /\ \A c \in Codes : bookings'[c].by = bookings[c].by
      /\ \A o \in Messages : BookedBy(o)' = BookedBy(o)
  <2>1. CASE CancelRow(m) \/ MoveRow(m, TRUE)
    BY <2>1, RowEffect
  <2>2. CASE UNCHANGED bookings
    BY <2>2, <1>1 DEF BookedBy
  <2> QED
    BY <2>1, <2>2 DEF Cancel, Modify
<1>3. Becomes(m, "send", Nothing, "ask")
  <2>1. Ask(m)
    BY DEF Cancel, Modify
  <2> QED
    BY <2>1, NothingIsPlan, AnswerBecomes DEF Ask, Replies
<1>4. conv' \in Phone /\ (Confirming(m)' => Modify(m) /\ conv' = conv)
  <2>1. CASE Cancel(m)
    BY <2>1, <1>1 DEF Cancel, Phone, Confirming
  <2>2. CASE Modify(m)
    BY <2>2, <1>1 DEF Modify
  <2> QED
    BY <2>1, <2>2
<1> QED
  BY <1>2, <1>3, <1>4

\* A job whose handler throws waits again, or has failed.
RetryPlace(m) == IF job[m].attempts < Attempts THEN "waiting" ELSE "failed"

LEMMA RetryBecomes ==
    ASSUME TypeOK, NEW m \in Messages, Retry(m)
    PROVE  Becomes(m, RetryPlace(m), Nothing, job[m].reply)
<1>1. RetryPlace(m) \in Places /\ Nothing \in Plan
  BY NothingIsPlan DEF RetryPlace, Places
<1> QED
  BY <1>1, GoBecomes DEF Retry, RetryPlace

\* A cancellation or a move that is broken off.
LEMMA BreakOffEffect ==
    ASSUME TypeOK, NEW m \in Messages, BreakOff(m)
    PROVE  /\ bookings' \in [Codes -> Row]
           /\ \A c \in Codes : bookings'[c].by = bookings[c].by
           /\ \A o \in Messages : BookedBy(o)' = BookedBy(o)
           /\ Becomes(m, RetryPlace(m), Nothing, job[m].reply)
           /\ UNCHANGED conv /\ job[m].at \in Awaiting
<1>1. CancelRow(m) \/ MoveRow(m, FALSE)
  BY DEF BreakOff
<1>2. Becomes(m, RetryPlace(m), Nothing, job[m].reply)
  BY RetryBecomes DEF BreakOff
<1>3. UNCHANGED conv /\ job[m].at \in Awaiting
  BY DEF BreakOff, CancelRow, MoveRow, At, Awaiting
<1> QED
  BY <1>1, <1>2, <1>3, RowEffect

\* The rows, and what their bookings stand for, are as they were.
SameRows == bookings' = bookings /\ \A o \in Messages : BookedBy(o)' = BookedBy(o)

LEMMA UnchangedRows ==
    ASSUME UNCHANGED bookings
    PROVE  SameRows
BY DEF SameRows, BookedBy

\* Every other step of a handler moves its own job and leaves the rows alone.
LEMMA OtherEffect ==
    ASSUME TypeOK, NEW m \in Messages,
           Announced(m) \/ RefuseBooking(m) \/ Confirm(m) \/ ConfirmThrows(m) \/ Apologise(m)
             \/ Search(m) \/ Send(m) \/ Throw(m)
    PROVE  /\ SameRows
           /\ \/ /\ Announced(m)
                 /\ Becomes(m, "book", [guests |-> conv.guests, date |-> conv.date,
                                        time |-> content[m].time, code |-> {}], job[m].reply)
              \/ (RefuseBooking(m) \/ ConfirmThrows(m)) /\ Becomes(m, "apologise", Nothing, job[m].reply)
              \/ (Confirm(m) \/ Apologise(m) \/ Send(m)) /\ Becomes(m, "done", Nothing, job[m].reply)
              \/ Search(m) /\ Becomes(m, "send", Nothing, "ask")
              \/ Throw(m) /\ Becomes(m, RetryPlace(m), Nothing, job[m].reply)
           /\ conv' \in Phone /\ (Confirming(m)' => conv' = conv)
<1> USE DEF KeepsBackend, Places, Awaiting
<1>1. conv \in Phone /\ content[m] \in Content /\ Nothing \in Plan
  BY ContentType, NothingIsPlan DEF TypeOK, Phone
<1>2. CASE Announced(m)
  <2>1. /\ conv' \in Phone /\ conv'.pending = "none"
        /\ PlanOf(conv') = [guests |-> conv.guests, date |-> conv.date,
                            time |-> content[m].time, code |-> {}]
    BY <1>2, <1>1 DEF Announced, Phone, Content, PlanOf
  <2>2. Becomes(m, "book", PlanOf(conv'), job[m].reply)
    BY <1>2, <2>1, GoBecomes, PlanOfIsPlan DEF Announced
  <2>3. UNCHANGED bookings
    BY <1>2 DEF Announced
  <2> QED
    BY <1>2, <2>1, <2>2, <2>3, UnchangedRows DEF Confirming
<1>3. CASE RefuseBooking(m) \/ ConfirmThrows(m)
  <2>1. UNCHANGED <<conv, bookings>> /\ Go(m, "apologise", Nothing)
    BY <1>3 DEF RefuseBooking, ConfirmThrows
  <2> QED
    BY <1>1, <1>3, <2>1, GoBecomes, UnchangedRows
<1>4. CASE Confirm(m) \/ Apologise(m) \/ Send(m)
  <2>1. UNCHANGED <<conv, bookings>> /\ Go(m, "done", Nothing)
    BY <1>4 DEF Confirm, Apologise, Send
  <2> QED
    BY <1>1, <1>4, <2>1, GoBecomes, UnchangedRows
<1>5. CASE Search(m)
  <2>1. UNCHANGED bookings /\ Ask(m)
    BY <1>5 DEF Search
  <2>2. Becomes(m, "send", Nothing, "ask")
    BY <2>1, <1>1, AnswerBecomes DEF Ask, Replies
  <2>3. conv' \in Phone /\ (Confirming(m)' => conv' = conv)
    BY <1>5, <1>1 DEF Search, Phone, Confirming
  <2> QED
    BY <1>5, <2>1, <2>2, <2>3, UnchangedRows
<1>6. CASE Throw(m)
  <2>1. UNCHANGED <<conv, bookings>> /\ Becomes(m, RetryPlace(m), Nothing, job[m].reply)
    BY <1>6, RetryBecomes DEF Throw
  <2> QED
    BY <1>1, <1>6, <2>1, UnchangedRows
<1> QED
  BY <1>2, <1>3, <1>4, <1>5, <1>6
-----------------------------------------------------------------------------
(* Types, and the pending confirmation *)

PendingKnown == conv.pending = "confirm_cancel" => conv.cancelling # {} /\ Existing

LEMMA StartEffect ==
    ASSUME TypeOK, NEW m \in Messages, Start(m), job[m].attempts < Attempts
    PROVE  /\ job' \in [Messages -> Job]
           /\ job'[m] = [at |-> "lookup", attempts |-> job[m].attempts + 1,
                         plan |-> job[m].plan, reply |-> job[m].reply]
           /\ \A o \in Messages \ {m} : job'[o] = job[o]
           /\ UNCHANGED conv /\ KeepsBackend
<1>1. job \in [Messages -> Job] /\ job[m] \in Job
  BY DEF TypeOK, Job
<1>2. job'[m] = [[job[m] EXCEPT !.at = "lookup"] EXCEPT !.attempts = @ + 1]
  BY <1>1 DEF Start
<1>3. job'[m] = [at |-> "lookup", attempts |-> job[m].attempts + 1,
                 plan |-> job[m].plan, reply |-> job[m].reply]
  BY <1>1, <1>2 DEF Job
<1>4. job[m].attempts + 1 \in 0..Attempts
  BY <1>1, ContentAssumption DEF Job
<1>5. job'[m] \in Job
  BY <1>1, <1>3, <1>4 DEF Job, Places, Awaiting
<1>6. /\ \A o \in Messages \ {m} : job'[o] = job[o]
      /\ job' = [o \in Messages |-> job'[o]]
  BY <1>1 DEF Start
<1> QED
  BY <1>1, <1>3, <1>5, <1>6 DEF Start

LEMMA RestartEffect ==
    ASSUME TypeOK, Restart, \A m \in Messages : job[m].at \in Awaiting => job[m].attempts >= 1
    PROVE  /\ job' \in [Messages -> Job]
           /\ \A m \in Messages :
                IF job[m].at \in Awaiting
                THEN job'[m] = [at |-> "waiting", attempts |-> job[m].attempts - 1,
                                plan |-> Nothing, reply |-> job[m].reply]
                ELSE job'[m] = job[m]
           /\ restarts' = restarts + 1 /\ restarts' \in 0..MaxRestarts
           /\ conv' = NoConversation /\ conv' \in Phone
           /\ UNCHANGED <<content, to, bookings, told, lastAsked>>
<1>1. job \in [Messages -> Job] /\ job' = [m \in Messages |-> job'[m]]
  BY DEF TypeOK, Job, Restart
<1>2. ASSUME NEW m \in Messages
      PROVE  /\ job'[m] \in Job
             /\ IF job[m].at \in Awaiting
                THEN job'[m] = [at |-> "waiting", attempts |-> job[m].attempts - 1,
                                plan |-> Nothing, reply |-> job[m].reply]
                ELSE job'[m] = job[m]
  <2>1. job[m] \in Job
    BY <1>1
  <2>2. CASE job[m].at \in Awaiting
    <3>1. job'[m] = [[[job[m] EXCEPT !.at = "waiting"] EXCEPT !.plan = Nothing]
                        EXCEPT !.attempts = @ - 1]
      BY <2>2 DEF Restart
    <3>2. job'[m] = [at |-> "waiting", attempts |-> job[m].attempts - 1,
                     plan |-> Nothing, reply |-> job[m].reply]
      BY <2>1, <3>1 DEF Job
    <3>3. job[m].attempts - 1 \in 0..Attempts
      BY <2>1, <2>2, ContentAssumption DEF Job
    <3> QED
      BY <2>1, <2>2, <3>2, <3>3, NothingIsPlan DEF Job, Places
  <2>3. CASE job[m].at \notin Awaiting
    <3>1. job'[m] = job[m]
      BY <2>3 DEF Restart
    <3> QED
      BY <2>1, <2>3, <3>1
  <2> QED
    BY <2>2, <2>3
<1>3. NoConversation \in Phone
  BY DEF NoConversation, Phone
<1>4. restarts' = restarts + 1 /\ restarts' \in 0..MaxRestarts
  <2>1. restarts \in 0..MaxRestarts
    BY DEF TypeOK
  <2>2. MaxRestarts \in Nat
    BY ContentAssumption
  <2>3. restarts < MaxRestarts /\ restarts' = restarts + 1
    BY DEF Restart
  <2> QED
    BY <2>1, <2>2, <2>3
<1> QED
  BY <1>1, <1>2, <1>3, <1>4 DEF Restart

\* A step of the next-state relation, taken apart once for every invariant below.
StepOf(m) == \/ Start(m) \/ Route(m) \/ Book(m)
             \/ Cancel(m) \/ Modify(m) \/ BreakOff(m)
             \/ Announced(m) \/ RefuseBooking(m) \/ Confirm(m) \/ ConfirmThrows(m)
             \/ Apologise(m) \/ Search(m) \/ Send(m) \/ Throw(m)

LEMMA Steps ==
    ASSUME [Next]_vars
    PROVE  \/ \E m \in Messages : StepOf(m)
           \/ Restart
           \/ UNCHANGED vars
BY DEF Next, Continue, StepOf

\* Content and destination of the messages are given once; a message's step does not
\* restart the worker.
LEMMA MessageSteps ==
    ASSUME NEW m \in Messages, StepOf(m)
    PROVE  UNCHANGED <<content, to, restarts>>
BY DEF StepOf, Start, Route, TakeSlot, SayNo, SayYes, SayNeither, ListReservations, AskCancel,
       TalkModify, TalkCheck, TalkCancel, TalkAvailability, TalkBook, Book, Cancel, Modify,
       BreakOff, Announced, RefuseBooking, Confirm, ConfirmThrows, Apologise, Search, Send, Throw,
       KeepsBackend

\* What a step tells the guest: nothing, or what the place it is taken from says.
Tells(m) == \/ Announced(m) /\ Tell(m, "announce", job[m].plan)
            \/ Confirm(m) /\ Tell(m, "confirmed", job[m].plan)
            \/ Apologise(m) /\ Tell(m, "sorry", Nothing)
            \/ Send(m) /\ Tell(m, job[m].reply, job[m].plan)

LEMMA SaySteps ==
    ASSUME NEW m \in Messages, StepOf(m)
    PROVE  UNCHANGED <<told, lastAsked>> \/ Tells(m)
BY DEF StepOf, Start, Route, TakeSlot, SayNo, SayYes, SayNeither, ListReservations, AskCancel,
       TalkModify, TalkCheck, TalkCancel, TalkAvailability, TalkBook, Book, Cancel, Modify,
       BreakOff, Announced, RefuseBooking, Confirm, ConfirmThrows, Apologise, Search, Send, Throw,
       KeepsBackend, Tells

LEMMA ToldEffect ==
    ASSUME TypeOK, NEW m \in Messages, StepOf(m)
    PROVE  told' \in [Messages -> SUBSET Reply] /\ lastAsked' \subseteq Codes
<1>1. job[m].reply \in Replies /\ job[m].plan \in Plan /\ Nothing \in Plan
  BY NothingIsPlan DEF TypeOK
<1>2. {"announce", "confirmed", "sorry"} \subseteq Replies
  BY DEF Replies
<1>3. CASE UNCHANGED <<told, lastAsked>>
  BY <1>3 DEF TypeOK
<1>4. CASE Tells(m)
  <2>1. \E text \in Replies, plan \in Plan : Tell(m, text, plan)
    BY <1>1, <1>2, <1>4 DEF Tells
  <2> QED
    BY <2>1, TellEffect
<1> QED
  BY <1>3, <1>4, SaySteps

\* Jobs, rows and conversation keep their types, whatever step a message takes.
LEMMA StepTypes ==
    ASSUME TypeOK, PendingKnown, NEW m \in Messages, StepOf(m),
           At(m, "waiting") => job[m].attempts < Attempts
    PROVE  /\ job' \in [Messages -> Job] /\ bookings' \in [Codes -> Row] /\ conv' \in Phone
           /\ PendingKnown'
           /\ \A o \in Messages \ {m} : job'[o] = job[o]
<1>1. /\ job \in [Messages -> Job] /\ bookings \in [Codes -> Row] /\ conv \in Phone
      /\ Nothing \in Plan /\ "ask" \in Replies /\ job[m].reply \in Replies
      /\ job[m].plan \in Plan
  BY NothingIsPlan DEF TypeOK, Job, Row, Phone, Replies
<1>2. {"confirm", "apologise", "send", "book", "done", "waiting", "failed"} \subseteq Places
  BY DEF Places, Awaiting
<1>3. CASE Start(m)
  <2>1. At(m, "waiting")
    BY <1>3 DEF Start
  <2>2. job' \in [Messages -> Job] /\ UNCHANGED <<conv, bookings>>
        /\ \A o \in Messages \ {m} : job'[o] = job[o]
    BY <1>3, <2>1, StartEffect DEF KeepsBackend
  <2> QED
    BY <2>2, <1>1 DEF PendingKnown, Existing
<1>4. CASE Route(m)
  <2>1. PICK place \in RoutedPlaces, plan \in Plan, reply \in Replies : Routed(m, place, plan, reply)
    BY <1>4, RouteEffect DEF PendingKnown
  <2>2. Becomes(m, place, plan, reply) /\ conv' \in Phone
    BY <2>1 DEF Routed
  <2>3. UNCHANGED bookings
    BY <1>4 DEF Route, TakeSlot, SayNo, SayYes, SayNeither, ListReservations, AskCancel,
       TalkModify, TalkCheck, TalkCancel, TalkAvailability, TalkBook, KeepsBackend
  <2>4. PendingKnown'
    BY <2>1 DEF Routed, PendingKnown, Confirming, Existing
  <2> QED
    BY <2>2, <2>3, <2>4, <1>1 DEF Becomes
<1>5. CASE Book(m)
  <2>1. UNCHANGED conv
    BY <1>5 DEF Book
  <2>2. bookings' \in [Codes -> Row] /\ \E place, plan, reply : Becomes(m, place, plan, reply)
    BY <1>5, BookEffect
  <2> QED
    BY <2>1, <2>2, <1>1 DEF Becomes, PendingKnown, Existing
<1>6. CASE Cancel(m) \/ Modify(m)
  BY <1>6, <1>1, DeskEffect DEF Becomes, PendingKnown, Existing, Confirming
<1>8. CASE BreakOff(m)
  BY <1>8, <1>1, BreakOffEffect DEF Becomes, PendingKnown, Existing
<1>7. CASE Announced(m) \/ RefuseBooking(m) \/ Confirm(m) \/ ConfirmThrows(m)
             \/ Apologise(m) \/ Search(m) \/ Send(m) \/ Throw(m)
  <2>1. bookings' = bookings /\ conv' \in Phone /\ (Confirming(m)' => conv' = conv)
        /\ \E place, plan, reply : Becomes(m, place, plan, reply)
    BY <1>7, OtherEffect DEF SameRows
  <2> QED
    BY <2>1, <1>1 DEF Becomes, PendingKnown, Existing, Confirming
<1> QED
  BY <1>3, <1>4, <1>5, <1>6, <1>7, <1>8 DEF StepOf

LEMMA TypeStep ==
    ASSUME TypeOK, PendingKnown, [Next]_vars,
           \A m \in Messages : /\ At(m, "waiting") => job[m].attempts < Attempts
                               /\ job[m].at \in Awaiting => job[m].attempts >= 1
    PROVE  TypeOK' /\ PendingKnown'
<1>1. ASSUME NEW m \in Messages, StepOf(m)
      PROVE  TypeOK' /\ PendingKnown'
  <2>1. /\ job' \in [Messages -> Job] /\ bookings' \in [Codes -> Row] /\ conv' \in Phone
        /\ PendingKnown'
    BY <1>1, StepTypes
  <2>2. told' \in [Messages -> SUBSET Reply] /\ lastAsked' \subseteq Codes
    BY <1>1, ToldEffect
  <2>3. UNCHANGED <<content, to, restarts>>
    BY <1>1, MessageSteps
  <2> QED
    BY <2>1, <2>2, <2>3 DEF TypeOK, Job, Row, Phone
<1>2. CASE Restart
  <2>1. /\ job' \in [Messages -> Job] /\ restarts' \in 0..MaxRestarts
        /\ conv' \in Phone /\ conv' = NoConversation
        /\ UNCHANGED <<content, to, bookings, told, lastAsked>>
    BY <1>2, RestartEffect
  <2> QED
    BY <2>1 DEF TypeOK, Job, Row, Phone, PendingKnown, NoConversation
<1>3. CASE UNCHANGED vars
  BY <1>3 DEF vars, TypeOK, PendingKnown, Existing
<1> QED
  BY <1>1, <1>2, <1>3, Steps
-----------------------------------------------------------------------------
(* One booking a run at most, and a confirmation only of a booking made *)

\* Whose rows are whose changes only when a message books, and then for that message.
LEMMA RowsStep ==
    ASSUME TypeOK, NEW m \in Messages, StepOf(m)
    PROVE  /\ \A o \in Messages \ {m} : BookedBy(o)' = BookedBy(o)
           /\ ~Book(m) => BookedBy(m)' = BookedBy(m)
<1>1. CASE Book(m)
  BY <1>1, BookEffect
<1>2. CASE Cancel(m) \/ Modify(m) \/ BreakOff(m)
  BY <1>2, DeskEffect, BreakOffEffect
<1>3. CASE Start(m) \/ Route(m) \/ Announced(m) \/ RefuseBooking(m) \/ Confirm(m)
             \/ ConfirmThrows(m) \/ Apologise(m) \/ Search(m) \/ Send(m) \/ Throw(m)
  <2>1. UNCHANGED bookings
    BY <1>3 DEF Start, Route, TakeSlot, SayNo, SayYes, SayNeither, ListReservations, AskCancel,
       TalkModify, TalkCheck, TalkCancel, TalkAvailability, TalkBook,
       Announced, RefuseBooking, Confirm, ConfirmThrows, Apologise, Search, Send, Throw, KeepsBackend
  <2> QED
    BY <2>1 DEF BookedBy
<1> QED
  BY <1>1, <1>2, <1>3 DEF StepOf

LEMMA RunStep ==
    ASSUME TypeOK, PendingKnown, NEW m \in Messages, RunInv(m), StepOf(m)
    PROVE  RunInv(m)'
<1> DEFINE n == Cardinality(BookedBy(m))
<1>1. /\ job[m].attempts \in Nat /\ restarts \in Nat /\ restarts' = restarts
      /\ job[m].attempts \in 0..Attempts /\ Attempts \in Nat
      /\ IsFiniteSet(BookedBy(m)) /\ n \in Nat
      /\ job[m].reply \in {"ask", "question"}
      /\ n <= job[m].attempts + restarts
      /\ job[m].at \in {"lookup", "announce", "book"} => n < job[m].attempts + restarts
  <2>1. job[m].attempts \in 0..Attempts /\ restarts \in 0..MaxRestarts
    BY DEF TypeOK
  <2>2. Attempts \in Nat /\ MaxRestarts \in Nat
    BY ContentAssumption
  <2>3. IsFiniteSet(BookedBy(m)) /\ n <= job[m].attempts + restarts
        /\ job[m].reply \in {"ask", "question"}
        /\ (job[m].at \in {"lookup", "announce", "book"} => n < job[m].attempts + restarts)
    BY DEF RunInv
  <2>4. n \in Nat
    BY <2>3, FS_CardinalityType
  <2> QED
    BY <2>1, <2>2, <2>3, <2>4, MessageSteps
<1>2. BookedBy(m)' = BookedBy(m) => n' = n
  OBVIOUS
<1>3. CASE Start(m)
  <2>1. At(m, "waiting") /\ job[m].attempts < Attempts
    BY <1>3 DEF Start, RunInv
  <2>2. /\ job'[m] = [at |-> "lookup", attempts |-> job[m].attempts + 1,
                      plan |-> job[m].plan, reply |-> job[m].reply]
        /\ UNCHANGED bookings
    BY <1>3, <2>1, StartEffect DEF KeepsBackend
  <2>3. BookedBy(m)' = BookedBy(m)
    BY <2>2 DEF BookedBy
  <2> QED
    BY <1>1, <1>2, <2>2, <2>3 DEF RunInv, At
<1>4. CASE Route(m)
  <2>1. PICK place \in RoutedPlaces, plan \in Plan, reply \in Replies : Routed(m, place, plan, reply)
    BY <1>4, RouteEffect DEF PendingKnown
  <2>2. /\ job'[m] = [at |-> place, attempts |-> job[m].attempts, plan |-> plan, reply |-> reply]
        /\ reply \in {"ask", "question"}
    BY <1>1, <2>1 DEF Routed, Becomes
  <2>3. job[m].at = "lookup" /\ ~Book(m)
    BY <1>4 DEF Route, TakeSlot, SayNo, SayYes, SayNeither, ListReservations, AskCancel,
       TalkModify, TalkCheck, TalkCancel, TalkAvailability, TalkBook, Talks, Free, At, Book
  <2>4. BookedBy(m)' = BookedBy(m)
    BY <2>3, RowsStep
  <2>5. job[m].attempts >= 1
    BY <2>3 DEF RunInv, Awaiting
  <2>6. n < job[m].attempts + restarts
    BY <1>1, <2>3
  <2> QED
    BY <1>1, <1>2, <2>2, <2>4, <2>5, <2>6 DEF RunInv, At, RoutedPlaces
<1>5. CASE Book(m)
  <2>1. PICK c \in Codes :
             /\ c \notin BookedBy(m) /\ BookedBy(m)' = BookedBy(m) \cup {c}
             /\ \/ Becomes(m, "confirm", [job[m].plan EXCEPT !.code = {c}], job[m].reply)
                \/ "throw" \in Faults /\ Becomes(m, "apologise", Nothing, job[m].reply)
    BY <1>5, BookEffect
  <2>2. job[m].at = "book" /\ job[m].plan \in Plan
    BY <1>5 DEF Book, At, TypeOK
  <2>3. job[m].attempts >= 1
    BY <2>2 DEF RunInv, Awaiting
  <2>4. IsFiniteSet(BookedBy(m)') /\ n' = n + 1
    BY <1>1, <2>1, FS_AddElement
  <2>5. n' <= job[m].attempts + restarts
    BY <1>1, <2>2, <2>4
  <2>6. [job[m].plan EXCEPT !.code = {c}].code = {c}
    BY <2>2 DEF Plan
  <2>7. /\ job'[m].at \in {"confirm", "apologise"} /\ job'[m].attempts = job[m].attempts
        /\ job'[m].reply = job[m].reply
        /\ job'[m].at = "confirm" => job'[m].plan.code = {c}
    <3>1. CASE Becomes(m, "confirm", [job[m].plan EXCEPT !.code = {c}], job[m].reply)
      <4>1. /\ job'[m].at = "confirm" /\ job'[m].attempts = job[m].attempts
            /\ job'[m].reply = job[m].reply
            /\ job'[m].plan = [job[m].plan EXCEPT !.code = {c}]
        BY <3>1 DEF Becomes
      <4> QED
        BY <4>1, <2>6
    <3>2. CASE Becomes(m, "apologise", Nothing, job[m].reply)
      BY <3>2 DEF Becomes
    <3> QED
      BY <2>1, <3>1, <3>2
  <2> QED
    BY <1>1, <2>1, <2>3, <2>4, <2>5, <2>7 DEF RunInv, At
<1>6. CASE Cancel(m) \/ Modify(m)
  <2>1. job'[m] = [at |-> "send", attempts |-> job[m].attempts, plan |-> Nothing, reply |-> "ask"]
    BY <1>6, DeskEffect DEF Becomes
  <2>2. BookedBy(m)' = BookedBy(m)
    BY <1>6, DeskEffect
  <2>3. job[m].attempts >= 1
    BY <1>6 DEF Cancel, CancelRow, Modify, At, RunInv, Awaiting
  <2> QED
    BY <1>1, <1>2, <2>1, <2>2, <2>3 DEF RunInv, At
<1>7. CASE Announced(m) \/ RefuseBooking(m) \/ Confirm(m) \/ ConfirmThrows(m)
             \/ Apologise(m) \/ Search(m) \/ Send(m) \/ Throw(m)
  <2>1. BookedBy(m)' = BookedBy(m)
    BY <1>7, OtherEffect DEF SameRows
  <2>2. job[m].at \in Awaiting
    BY <1>7 DEF Announced, RefuseBooking, Confirm, ConfirmThrows, Apologise, Search, Send, Throw,
                At, Awaiting
  <2>3. job[m].attempts >= 1
    BY <2>2 DEF RunInv
  <2>4. /\ job'[m].attempts = job[m].attempts /\ job'[m].reply \in {"ask", "question"}
        /\ \/ Announced(m) /\ job'[m].at = "book"
           \/ job'[m].at \in {"apologise", "done", "send"}
           \/ job'[m].at = IF job[m].attempts < Attempts THEN "waiting" ELSE "failed"
    <3>1. \E place, plan : /\ \/ Becomes(m, place, plan, job[m].reply)
                              \/ Becomes(m, place, plan, "ask")
                           /\ \/ Announced(m) /\ place = "book"
                              \/ place \in {"apologise", "done", "send"}
                              \/ place = IF job[m].attempts < Attempts THEN "waiting" ELSE "failed"
      BY <1>7, OtherEffect DEF RetryPlace
    <3>2. PICK place, plan : /\ \/ Becomes(m, place, plan, job[m].reply)
                                \/ Becomes(m, place, plan, "ask")
                             /\ \/ Announced(m) /\ place = "book"
                                \/ place \in {"apologise", "done", "send"}
                                \/ place = IF job[m].attempts < Attempts THEN "waiting" ELSE "failed"
      BY <3>1
    <3>3. job'[m].at = place /\ job'[m].attempts = job[m].attempts
          /\ (job'[m].reply = job[m].reply \/ job'[m].reply = "ask")
      BY <3>2 DEF Becomes
    <3> QED
      BY <1>1, <3>2, <3>3
  <2>5. Announced(m) => n < job[m].attempts + restarts
    BY <1>1 DEF Announced, At
  <2> QED
    BY <1>1, <1>2, <2>1, <2>3, <2>4, <2>5 DEF RunInv, At, Awaiting
<1>8. CASE BreakOff(m)
  <2>1. job'[m] = [at |-> RetryPlace(m), attempts |-> job[m].attempts, plan |-> Nothing,
                   reply |-> job[m].reply]
    BY <1>8, BreakOffEffect DEF Becomes
  <2>2. BookedBy(m)' = BookedBy(m) /\ job[m].at \in Awaiting
    BY <1>8, BreakOffEffect
  <2>3. job[m].attempts >= 1
    BY <2>2 DEF RunInv
  <2>4. /\ job'[m].attempts = job[m].attempts /\ job'[m].reply = job[m].reply
        /\ job'[m].at = IF job[m].attempts < Attempts THEN "waiting" ELSE "failed"
    BY <2>1 DEF RetryPlace
  <2> QED
    BY <1>1, <1>2, <2>2, <2>3, <2>4 DEF RunInv, At, Awaiting
<1> QED
  BY <1>3, <1>4, <1>5, <1>6, <1>7, <1>8 DEF StepOf

\* A guest hears of each kind of answer only from the step that gives it.
LEMMA ToldStep ==
    ASSUME TypeOK, NEW m \in Messages, StepOf(m), job[m].reply \in {"ask", "question"}
    PROVE  /\ \A o \in Messages \ {m} : told'[o] = told[o]
           /\ \A r \in Told(m, "confirmed")' :
                r \in Told(m, "confirmed") \/ (Confirm(m) /\ r.plan = job[m].plan)
           /\ \A r \in Told(m, "sorry")' : r \in Told(m, "sorry") \/ Apologise(m)
           /\ \A r \in Told(m, "announce")' :
                r \in Told(m, "announce") \/ (Announced(m) /\ r.plan = job[m].plan)
<1>1. job[m].plan \in Plan /\ Nothing \in Plan /\ {"ask", "question"} \subseteq Replies
  BY NothingIsPlan DEF TypeOK, Replies
<1>2. CASE UNCHANGED <<told, lastAsked>>
  BY <1>2 DEF Told
<1>3. CASE Announced(m) /\ Tell(m, "announce", job[m].plan)
  <2>1. /\ \A o \in Messages \ {m} : told'[o] = told[o]
        /\ told'[m] \subseteq told[m] \cup {[text |-> "announce", plan |-> job[m].plan]}
    BY <1>1, <1>3, TellEffect DEF Replies
  <2> QED
    BY <1>3, <2>1 DEF Told
<1>4. CASE Confirm(m) /\ Tell(m, "confirmed", job[m].plan)
  <2>1. /\ \A o \in Messages \ {m} : told'[o] = told[o]
        /\ told'[m] \subseteq told[m] \cup {[text |-> "confirmed", plan |-> job[m].plan]}
    BY <1>1, <1>4, TellEffect DEF Replies
  <2> QED
    BY <1>4, <2>1 DEF Told
<1>5. CASE Apologise(m) /\ Tell(m, "sorry", Nothing)
  <2>1. /\ \A o \in Messages \ {m} : told'[o] = told[o]
        /\ told'[m] \subseteq told[m] \cup {[text |-> "sorry", plan |-> Nothing]}
    BY <1>1, <1>5, TellEffect DEF Replies
  <2> QED
    BY <1>5, <2>1 DEF Told
<1>6. CASE Tell(m, job[m].reply, job[m].plan)
  <2>1. /\ \A o \in Messages \ {m} : told'[o] = told[o]
        /\ told'[m] \subseteq told[m] \cup {[text |-> job[m].reply, plan |-> job[m].plan]}
    BY <1>1, <1>6, TellEffect
  <2> QED
    BY <2>1 DEF Told
<1> QED
  BY <1>2, <1>3, <1>4, <1>5, <1>6, SaySteps DEF Tells

LEMMA InitInv == Init => Inv
<1> SUFFICES ASSUME Init PROVE Inv
  OBVIOUS
<1>1. Attempts \in Nat \ {0} /\ MaxRestarts \in Nat
  BY ContentAssumption
<1>2. TypeOK
  <2>1. job \in [Messages -> [at : Places, attempts : 0..Attempts, plan : Plan, reply : Replies]]
    BY <1>1, NothingIsPlan DEF Init, Places, Replies
  <2>2. bookings \in [Codes -> Row]
    <3>1. NoBooking \in Row
      BY NothingIsPlan DEF NoBooking, Row
    <3> QED
      BY <3>1, ContentAssumption DEF Init
  <2>3. conv \in Phone
    BY DEF Init, NoConversation, Phone
  <2> QED
    BY <1>1, <2>1, <2>2, <2>3 DEF Init, TypeOK, Row, Phone
<1>3. PendingKnown
  BY DEF Init, PendingKnown, NoConversation
<1>4. ASSUME NEW m \in Messages PROVE RunInv(m)
  <2>1. BookedBy(m) = {}
    BY ContentAssumption DEF Init, BookedBy, NoBooking
  <2>2. IsFiniteSet(BookedBy(m)) /\ Cardinality(BookedBy(m)) = 0
    BY <2>1, FS_EmptySet
  <2> QED
    BY <1>1, <2>2 DEF Init, RunInv, At, Awaiting
<1>5. ConfirmedMeansBooked
  BY DEF Init, ConfirmedMeansBooked, Told
<1> QED
  BY <1>2, <1>3, <1>4, <1>5 DEF Inv, PendingKnown

LEMMA InvStep == Inv /\ [Next]_vars => Inv'
<1> SUFFICES ASSUME Inv, [Next]_vars PROVE Inv'
  OBVIOUS
<1>1. TypeOK /\ PendingKnown /\ ConfirmedMeansBooked /\ \A m \in Messages : RunInv(m)
  BY DEF Inv, PendingKnown
<1>2. TypeOK' /\ PendingKnown'
  BY <1>1, TypeStep DEF RunInv
<1>3. ASSUME NEW m \in Messages, StepOf(m)
      PROVE  (\A o \in Messages : RunInv(o)') /\ ConfirmedMeansBooked'
  <2>1. /\ \A o \in Messages \ {m} : job'[o] = job[o] /\ BookedBy(o)' = BookedBy(o)
        /\ restarts' = restarts
    BY <1>1, <1>3, StepTypes, RowsStep, MessageSteps DEF RunInv
  <2>2. ASSUME NEW o \in Messages \ {m} PROVE RunInv(o)'
    <3>1. RunInv(o) /\ job'[o] = job[o] /\ BookedBy(o)' = BookedBy(o) /\ restarts' = restarts
      BY <1>1, <2>1
    <3> QED
      BY <3>1 DEF RunInv, At
  <2>3. RunInv(m)'
    BY <1>1, <1>3, RunStep
  <2>4. BookedBy(m) \subseteq BookedBy(m)'
    BY <1>1, <1>3, RowsStep, BookEffect
  <2>5. ASSUME NEW o \in Messages, NEW r \in Told(o, "confirmed")'
        PROVE  r.plan.code # {} /\ r.plan.code \subseteq BookedBy(o)'
    <3>1. job[m].reply \in {"ask", "question"}
      BY <1>1 DEF RunInv
    <3>2. CASE r \in Told(o, "confirmed")
      <4>1. r.plan.code # {} /\ r.plan.code \subseteq BookedBy(o)
        BY <1>1, <3>2 DEF ConfirmedMeansBooked
      <4> QED
        BY <2>1, <2>4, <4>1
    <3>3. CASE r \notin Told(o, "confirmed")
      <4>1. o = m
        BY <1>1, <1>3, <3>1, <3>3, ToldStep DEF Told
      <4>2. Confirm(m) /\ r.plan = job[m].plan
        BY <1>1, <1>3, <3>1, <3>3, <4>1, ToldStep
      <4>3. r.plan.code # {} /\ r.plan.code \subseteq BookedBy(m)
        BY <1>1, <4>2 DEF RunInv, Confirm
      <4> QED
        BY <2>4, <4>1, <4>3
    <3> QED
      BY <3>2, <3>3
  <2> QED
    BY <2>2, <2>3, <2>5 DEF ConfirmedMeansBooked
<1>4. ASSUME Restart
      PROVE  (\A o \in Messages : RunInv(o)') /\ ConfirmedMeansBooked'
  <2>1. \A m \in Messages : job[m].at \in Awaiting => job[m].attempts >= 1
    BY <1>1 DEF RunInv
  <2>2. /\ \A m \in Messages :
             IF job[m].at \in Awaiting
             THEN job'[m] = [at |-> "waiting", attempts |-> job[m].attempts - 1,
                             plan |-> Nothing, reply |-> job[m].reply]
             ELSE job'[m] = job[m]
        /\ restarts' = restarts + 1
        /\ UNCHANGED <<bookings, told>>
    BY <1>1, <1>4, <2>1, RestartEffect
  <2>3. ASSUME NEW m \in Messages PROVE RunInv(m)'
    <3>1. BookedBy(m)' = BookedBy(m)
      BY <2>2 DEF BookedBy
    <3>2. /\ job[m].attempts \in 0..Attempts /\ restarts \in Nat /\ Attempts \in Nat
          /\ IsFiniteSet(BookedBy(m)) /\ Cardinality(BookedBy(m)) \in Nat
          /\ Cardinality(BookedBy(m)) <= job[m].attempts + restarts
      <4>1. job[m].attempts \in 0..Attempts /\ restarts \in 0..MaxRestarts
        BY <1>1 DEF TypeOK
      <4>2. IsFiniteSet(BookedBy(m)) /\ Cardinality(BookedBy(m)) <= job[m].attempts + restarts
        BY <1>1 DEF RunInv
      <4> QED
        BY <4>1, <4>2, ContentAssumption, FS_CardinalityType
    <3>3. Cardinality(BookedBy(m))' = Cardinality(BookedBy(m))
      BY <3>1
    <3>4. CASE job[m].at \in Awaiting
      <4>1. job'[m] = [at |-> "waiting", attempts |-> job[m].attempts - 1,
                       plan |-> Nothing, reply |-> job[m].reply]
        BY <2>2, <3>4
      <4>2. job[m].attempts >= 1 /\ job[m].reply \in {"ask", "question"}
        BY <1>1, <3>4 DEF RunInv
      <4> QED
        BY <2>2, <3>1, <3>2, <3>3, <4>1, <4>2 DEF RunInv, At, Awaiting
    <3>5. CASE job[m].at \notin Awaiting
      <4>1. job'[m] = job[m]
        BY <2>2, <3>5
      <4>2. RunInv(m)
        BY <1>1
      <4> QED
        BY <2>2, <3>1, <3>2, <3>3, <3>5, <4>1, <4>2 DEF RunInv, At, Awaiting
    <3> QED
      BY <3>4, <3>5
  <2>4. ConfirmedMeansBooked'
    BY <1>1, <2>2 DEF ConfirmedMeansBooked, Told, BookedBy
  <2> QED
    BY <2>3, <2>4
<1>5. ASSUME UNCHANGED vars
      PROVE  (\A o \in Messages : RunInv(o)') /\ ConfirmedMeansBooked'
  <2>1. UNCHANGED <<job, bookings, told, restarts>>
    BY <1>5 DEF vars
  <2>2. ASSUME NEW m \in Messages PROVE RunInv(m)'
    BY <1>1, <2>1 DEF RunInv, At, BookedBy
  <2>3. ConfirmedMeansBooked'
    BY <1>1, <2>1 DEF ConfirmedMeansBooked, Told, BookedBy
  <2> QED
    BY <2>2, <2>3
<1>6. (\A m \in Messages : RunInv(m)') /\ ConfirmedMeansBooked'
  BY <1>3, <1>4, <1>5, Steps
<1> QED
  BY <1>2, <1>6 DEF Inv, PendingKnown

\* The inductive invariant holds throughout, whatever throws, is lost or restarts.
THEOREM InvHolds == Spec => []Inv
BY InitInv, InvStep, PTL DEF Spec

\* Type correctness, and a SI to a pending confirmation always finds a code and a
\* conversation: pendingCancellationCode! is never null.
THEOREM PendingIsKnown == Spec => []ConversationInv
<1>1. Inv => ConversationInv
  BY DEF Inv, ConversationInv
<1> QED
  BY <1>1, InvHolds, PTL

\* A guest told that the reservation is confirmed, with a code, has one by that code: after
\* any interleaving of handlers, failed awaits, retries and restarts of the worker.
THEOREM ConfirmationIsTrue == Spec => []ConfirmedMeansBooked
<1>1. Inv => ConfirmedMeansBooked
  BY DEF Inv
<1> QED
  BY <1>1, InvHolds, PTL

\* A message makes no more reservations than the times it was run: retries and restarts
\* multiply a reservation, an interleaving of handlers does not.
THEOREM OneBookingARun == Spec => []OneBookingPerRun
<1>1. Inv => OneBookingPerRun
  BY DEF Inv, RunInv, OneBookingPerRun
<1> QED
  BY <1>1, InvHolds, PTL
-----------------------------------------------------------------------------
(* An apology, when awaits do not throw and the worker is not restarted *)

SorryInv ==
    \A m \in Messages :
        /\ job[m].at \in {"waiting", "lookup", "announce", "book", "apologise"} => BookedBy(m) = {}
        /\ Told(m, "sorry") # {} => At(m, "done") /\ BookedBy(m) = {}

\* Where a step is taken from and where it leads, if nothing throws.
LEMMA PlacesStep ==
    ASSUME Inv, "throw" \notin Faults, NEW m \in Messages, StepOf(m)
    PROVE  /\ Book(m) => job'[m].at = "confirm"
           /\ \/ Start(m) /\ job[m].at = "waiting" /\ job'[m].at = "lookup"
              \/ Route(m) /\ job[m].at = "lookup" /\ job'[m].at \in RoutedPlaces
              \/ Announced(m) /\ job[m].at = "announce" /\ job'[m].at = "book"
              \/ Book(m) /\ job[m].at = "book" /\ job'[m].at = "confirm"
              \/ RefuseBooking(m) /\ job[m].at = "book" /\ job'[m].at = "apologise"
              \/ Confirm(m) /\ job[m].at = "confirm" /\ job'[m].at = "done"
              \/ Apologise(m) /\ job[m].at = "apologise" /\ job'[m].at = "done"
              \/ Cancel(m) /\ job[m].at = "cancel" /\ job'[m].at = "send"
              \/ Modify(m) /\ job[m].at = "modify" /\ job'[m].at = "send"
              \/ Search(m) /\ job[m].at = "search" /\ job'[m].at = "send"
              \/ Send(m) /\ job[m].at = "send" /\ job'[m].at = "done"
<1>1. TypeOK /\ PendingKnown /\ RunInv(m)
  BY DEF Inv, PendingKnown
<1>2. ASSUME NEW place, NEW plan, NEW reply, Becomes(m, place, plan, reply)
      PROVE  job'[m].at = place
  BY <1>2 DEF Becomes
<1>3. Book(m) => job'[m].at = "confirm"
  <2>1. Book(m) => \E plan : Becomes(m, "confirm", plan, job[m].reply)
    BY <1>1, BookEffect
  <2> QED
    BY <1>2, <2>1
<1>4. CASE Start(m)
  <2>1. At(m, "waiting") /\ job[m].attempts < Attempts
    BY <1>1, <1>4 DEF Start, RunInv
  <2>2. job'[m] = [at |-> "lookup", attempts |-> job[m].attempts + 1,
                   plan |-> job[m].plan, reply |-> job[m].reply]
    BY <1>1, <1>4, <2>1, StartEffect
  <2>3. job'[m].at = "lookup"
    BY <2>2
  <2> QED
    BY <1>4, <2>1, <2>3, <1>3 DEF At
<1>5. CASE Route(m)
  <2>1. job[m].at = "lookup"
    BY <1>5 DEF Route, TakeSlot, SayNo, SayYes, SayNeither, ListReservations, AskCancel,
       TalkModify, TalkCheck, TalkCancel, TalkAvailability, TalkBook, Talks, Free, At
  <2>2. PICK place \in RoutedPlaces, plan \in Plan, reply \in Replies : Routed(m, place, plan, reply)
    BY <1>1, <1>5, RouteEffect DEF PendingKnown
  <2>3. job'[m].at = place
    BY <2>2, <1>2 DEF Routed
  <2> QED
    BY <1>5, <1>3, <2>1, <2>2, <2>3
<1>6. CASE Book(m)
  <2>1. job[m].at = "book"
    BY <1>6 DEF Book, At
  <2> QED
    BY <1>6, <1>3, <2>1
<1>7. CASE Cancel(m) \/ Modify(m)
  <2>1. job'[m].at = "send"
    BY <1>1, <1>2, <1>7, DeskEffect
  <2> QED
    BY <1>7, <1>3, <2>1 DEF Cancel, CancelRow, Modify, At
<1>8. CASE Announced(m) \/ RefuseBooking(m) \/ Confirm(m) \/ ConfirmThrows(m)
             \/ Apologise(m) \/ Search(m) \/ Send(m) \/ Throw(m)
  <2>1. ~ConfirmThrows(m) /\ ~Throw(m)
    BY DEF ConfirmThrows, Throw
  <2>2. \/ Announced(m) /\ job'[m].at = "book"
        \/ RefuseBooking(m) /\ job'[m].at = "apologise"
        \/ (Confirm(m) \/ Apologise(m) \/ Send(m)) /\ job'[m].at = "done"
        \/ Search(m) /\ job'[m].at = "send"
    BY <1>1, <1>2, <1>8, <2>1, OtherEffect
  <2> QED
    BY <1>3, <2>2 DEF Announced, RefuseBooking, Confirm, Apologise, Send, Search, At
<1>9. ~BreakOff(m)
  BY DEF BreakOff
<1> QED
  BY <1>4, <1>5, <1>6, <1>7, <1>8, <1>9 DEF StepOf

LEMMA SorryStep ==
    ASSUME Inv, SorryInv, Faults \subseteq {"lose"}, [Next]_vars
    PROVE  SorryInv'
<1>1. ASSUME NEW m \in Messages, StepOf(m) PROVE SorryInv'
  <2>1. TypeOK /\ PendingKnown /\ RunInv(m) /\ job[m].reply \in {"ask", "question"}
    BY DEF Inv, PendingKnown, RunInv
  <2>2. /\ \A o \in Messages \ {m} : /\ job'[o] = job[o] /\ BookedBy(o)' = BookedBy(o)
                                     /\ told'[o] = told[o]
        /\ ~Book(m) => BookedBy(m)' = BookedBy(m)
        /\ \A r \in Told(m, "sorry")' : r \in Told(m, "sorry") \/ Apologise(m)
    BY <1>1, <2>1, StepTypes, RowsStep, ToldStep DEF RunInv
  <2>3. ASSUME NEW o \in Messages \ {m}
        PROVE  /\ job'[o].at \in {"waiting", "lookup", "announce", "book", "apologise"} =>
                    BookedBy(o)' = {}
               /\ Told(o, "sorry")' # {} => job'[o].at = "done" /\ BookedBy(o)' = {}
    BY <2>2 DEF SorryInv, Told, At
  <2>4. "throw" \notin Faults
    OBVIOUS
  <2>5. job'[m].at \in {"waiting", "lookup", "announce", "book", "apologise"} =>
          BookedBy(m)' = {}
    <3>1. job'[m].at \in {"waiting", "lookup", "announce", "book", "apologise"} =>
            job[m].at \in {"waiting", "lookup", "announce", "book"} /\ ~Book(m)
      BY <1>1, <2>4, PlacesStep DEF RoutedPlaces
    <3> QED
      BY <2>2, <3>1 DEF SorryInv
  <2>6. ASSUME Told(m, "sorry")' # {}
        PROVE  job'[m].at = "done" /\ BookedBy(m)' = {}
    <3>1. job[m].at # "done"
      BY <1>1, <2>4, PlacesStep
    <3>2. Told(m, "sorry") = {}
      BY <3>1 DEF SorryInv, At
    <3>3. Apologise(m)
      BY <2>2, <2>6, <3>2
    <3>4. job[m].at = "apologise" /\ ~Book(m)
      BY <3>3 DEF Apologise, Book, At
    <3>5. job'[m].at = "done"
      BY <1>1, <2>4, <3>4, PlacesStep
    <3> QED
      BY <2>2, <3>4, <3>5 DEF SorryInv
  <2> QED
    BY <2>3, <2>5, <2>6 DEF SorryInv, At
<1>2. ~Restart
  BY DEF Restart
<1>3. CASE UNCHANGED vars
  BY <1>3 DEF vars, SorryInv, At, Told, BookedBy
<1> QED
  BY <1>1, <1>2, <1>3, Steps

\* If no await throws and the worker is not restarted, who is told that the request could
\* not be completed has no reservation from that message, however the handlers interleave
\* and whatever Meta loses.
THEOREM ApologyIsTrue ==
    ASSUME Faults \subseteq {"lose"}
    PROVE  Spec => []SorryMeansNothing
<1>1. Init => SorryInv
  <2> SUFFICES ASSUME Init, NEW m \in Messages
               PROVE  BookedBy(m) = {} /\ Told(m, "sorry") = {}
    BY DEF SorryInv
  <2>1. BookedBy(m) = {}
    BY ContentAssumption DEF Init, BookedBy, NoBooking
  <2>2. told[m] = {}
    BY DEF Init
  <2> QED
    BY <2>1, <2>2 DEF Told
<1>2. Inv /\ SorryInv /\ [Next]_vars => SorryInv'
  BY SorryStep
<1>3. SorryInv => SorryMeansNothing
  BY DEF SorryInv, SorryMeansNothing
<1> QED
  BY <1>1, <1>2, <1>3, InvHolds, PTL DEF Spec
-----------------------------------------------------------------------------
(* One handler at a time *)

Alone == \A m, o \in Messages : job[m].at \in Awaiting /\ job[o].at \in Awaiting => m = o

\* With one slot in the worker, the handler that takes a step is the only one running.
LEMMA AloneStep ==
    ASSUME Inv, Alone, Concurrency = 1, NEW m \in Messages, StepOf(m)
    PROVE  /\ \A o \in Messages \ {m} : job[o].at \notin Awaiting /\ job'[o] = job[o]
           /\ Alone'
<1>1. TypeOK /\ PendingKnown /\ RunInv(m)
  BY DEF Inv, PendingKnown
<1>2. \A o \in Messages \ {m} : job'[o] = job[o]
  BY <1>1, StepTypes DEF RunInv
<1>3. \A o \in Messages \ {m} : job[o].at \notin Awaiting
  <2>1. CASE Start(m)
    <3> DEFINE Running == {o \in Messages : job[o].at \in Awaiting}
    <3>1. Cardinality(Running) < 1
      BY <2>1 DEF Start
    <3>2. ASSUME NEW o \in Messages, job[o].at \in Awaiting
          PROVE  FALSE
      <4>1. Running = {o}
        BY <3>2 DEF Alone
      <4>2. Cardinality(Running) = 1
        BY <4>1, FS_Singleton
      <4> QED
        BY <3>1, <4>2
    <3> QED
      BY <3>2
  <2>2. CASE ~Start(m)
    <3>1. job[m].at \in Awaiting
      BY <2>2 DEF StepOf, Route, TakeSlot, SayNo, SayYes, SayNeither, ListReservations, AskCancel,
       TalkModify, TalkCheck, TalkCancel, TalkAvailability, TalkBook, Talks, Free, Book, Cancel,
       CancelRow, Modify, BreakOff, MoveRow, Announced, RefuseBooking, Confirm, ConfirmThrows, Apologise, Search, Send, Throw,
       At, Awaiting
    <3> QED
      BY <3>1 DEF Alone
  <2> QED
    BY <2>1, <2>2
<1>4. Alone'
  BY <1>2, <1>3 DEF Alone
<1> QED
  BY <1>2, <1>3, <1>4

LEMMA AloneRestart ==
    ASSUME Inv, Alone, Restart \/ UNCHANGED vars
    PROVE  Alone'
<1>1. CASE Restart
  <2>1. \A m \in Messages : job'[m] = job[m] \/ job'[m].at = "waiting"
    <3>1. \A m \in Messages : job[m].at \in Awaiting => job[m].attempts >= 1
      BY DEF Inv, RunInv
    <3>2. \A m \in Messages :
                IF job[m].at \in Awaiting
                THEN job'[m] = [at |-> "waiting", attempts |-> job[m].attempts - 1,
                                plan |-> Nothing, reply |-> job[m].reply]
                ELSE job'[m] = job[m]
      BY <1>1, <3>1, RestartEffect DEF Inv
    <3>3. ASSUME NEW m \in Messages PROVE job'[m] = job[m] \/ job'[m].at = "waiting"
      <4>1. CASE job[m].at \in Awaiting
        <5>1. job'[m] = [at |-> "waiting", attempts |-> job[m].attempts - 1,
                         plan |-> Nothing, reply |-> job[m].reply]
          BY <3>2, <4>1
        <5> QED
          BY <5>1
      <4>2. CASE job[m].at \notin Awaiting
        BY <3>2, <4>2
      <4> QED
        BY <4>1, <4>2
    <3> QED
      BY <3>3
  <2> QED
    BY <2>1 DEF Alone, Awaiting
<1>2. CASE UNCHANGED vars
  BY <1>2 DEF vars, Alone
<1> QED
  BY <1>1, <1>2
-----------------------------------------------------------------------------
(* The announcement *)

AnnounceInv ==
    /\ Alone
    /\ \A m \in Messages :
         /\ At(m, "announce") =>
              job[m].plan = [guests |-> conv.guests, date |-> conv.date,
                             time |-> content[m].time, code |-> {}]
         /\ job[m].at \in {"waiting", "lookup", "announce"} => Told(m, "announce") = {}
         /\ At(m, "book") => \A r \in Told(m, "announce") : r.plan = job[m].plan

LEMMA ThrownAt ==
    ASSUME TypeOK, NEW m \in Messages, Throw(m) \/ BreakOff(m)
    PROVE  job[m].at \in Awaiting /\ job'[m].at = RetryPlace(m)
<1>1. Retry(m) /\ job[m].at \in Awaiting
  BY DEF Throw, BreakOff, CancelRow, MoveRow, At, Awaiting
<1>2. job'[m] = [at |-> RetryPlace(m), attempts |-> job[m].attempts, plan |-> Nothing,
                 reply |-> job[m].reply]
  BY <1>1, RetryBecomes DEF Becomes
<1>3. job'[m].at = RetryPlace(m)
  BY <1>2
<1> QED
  BY <1>1, <1>3

\* A message is run again after a restart, and after an await that throws if the queue
\* makes another attempt.
RunOnce == "restart" \notin Faults /\ ("throw" \in Faults => Attempts = 1)

LEMMA OnceStep ==
    ASSUME Inv, RunOnce, NEW m \in Messages, StepOf(m)
    PROVE  /\ job'[m].at # "waiting"
           /\ job'[m].at = "lookup" => job[m].at = "waiting"
           /\ job'[m].at = "announce" => Route(m) /\ job[m].at = "lookup"
           /\ job'[m].at = "book" =>
                \/ Announced(m) /\ job[m].at = "announce"
                \/ Route(m) /\ job[m].at = "lookup"
<1>1. TypeOK /\ RunInv(m)
  BY DEF Inv
<1>2. CASE "throw" \notin Faults
  BY <1>2, PlacesStep DEF RoutedPlaces
<1>3. CASE "throw" \in Faults
  <2>1. Attempts = 1
    BY <1>3 DEF RunOnce
  <2>2. ASSUME NEW place, NEW plan, NEW reply, Becomes(m, place, plan, reply)
        PROVE  job'[m].at = place
    BY <2>2 DEF Becomes
  <2>3. CASE Start(m)
    <3>1. At(m, "waiting") /\ job[m].attempts < Attempts
      BY <1>1, <2>3 DEF Start, RunInv
    <3>2. job'[m] = [at |-> "lookup", attempts |-> job[m].attempts + 1,
                     plan |-> job[m].plan, reply |-> job[m].reply]
      BY <1>1, <2>3, <3>1, StartEffect
    <3>3. job'[m].at = "lookup"
      BY <3>2
    <3> QED
      BY <3>1, <3>3 DEF At
  <2>4. CASE Route(m)
    <3>1. job[m].at = "lookup"
      BY <2>4 DEF Route, TakeSlot, SayNo, SayYes, SayNeither, ListReservations, AskCancel,
         TalkModify, TalkCheck, TalkCancel, TalkAvailability, TalkBook, Talks, Free, At
    <3>2. PICK place \in RoutedPlaces, plan \in Plan, reply \in Replies :
                 Routed(m, place, plan, reply)
      BY <1>1, <2>4, RouteEffect DEF Inv
    <3>3. job'[m].at = place
      BY <2>2, <3>2 DEF Routed
    <3> QED
      BY <2>4, <3>1, <3>3 DEF RoutedPlaces
  <2>5. CASE Book(m)
    <3>1. \E plan : \/ Becomes(m, "confirm", plan, job[m].reply)
                    \/ Becomes(m, "apologise", plan, job[m].reply)
      BY <1>1, <2>5, BookEffect
    <3> QED
      BY <2>2, <3>1
  <2>6. CASE Cancel(m) \/ Modify(m)
    <3>1. job'[m].at = "send"
      BY <1>1, <2>2, <2>6, DeskEffect
    <3> QED
      BY <3>1
  <2>7. CASE Throw(m) \/ BreakOff(m)
    <3>1. ~(job[m].attempts < Attempts)
      <4>1. job[m].at \in Awaiting /\ job[m].attempts \in 0..Attempts
        BY <1>1, <2>7, ThrownAt DEF TypeOK
      <4> QED
        BY <1>1, <2>1, <4>1 DEF RunInv
    <3>2. job'[m].at = "failed"
      BY <1>1, <2>7, <3>1, ThrownAt DEF RetryPlace
    <3> QED
      BY <3>2
  <2>8. CASE Announced(m) \/ RefuseBooking(m) \/ Confirm(m) \/ ConfirmThrows(m)
               \/ Apologise(m) \/ Search(m) \/ Send(m)
    <3>1. CASE Throw(m)
      BY <2>7, <3>1
    <3>2. CASE ~Throw(m)
      <4>1. \/ Announced(m) /\ job'[m].at = "book"
            \/ job'[m].at \in {"apologise", "done", "send"}
        BY <1>1, <2>2, <2>8, <3>2, OtherEffect
      <4>2. Announced(m) => job[m].at = "announce"
        BY DEF Announced, At
      <4> QED
        BY <4>1, <4>2
    <3> QED
      BY <3>1, <3>2
  <2> QED
    BY <2>3, <2>4, <2>5, <2>6, <2>7, <2>8 DEF StepOf
<1> QED
  BY <1>2, <1>3

LEMMA AnnounceStep ==
    ASSUME Inv, AnnounceInv, Concurrency = 1, RunOnce, [Next]_vars
    PROVE  AnnounceInv'
<1>1. ASSUME NEW m \in Messages, StepOf(m) PROVE AnnounceInv'
  <2>1. TypeOK /\ PendingKnown /\ RunInv(m) /\ job[m].reply \in {"ask", "question"}
    BY DEF Inv, PendingKnown, RunInv
  <2>2. /\ \A o \in Messages \ {m} : /\ job[o].at \notin Awaiting /\ job'[o] = job[o]
                                     /\ told'[o] = told[o]
        /\ Alone'
    BY <1>1, <2>1, AloneStep, ToldStep DEF AnnounceInv
  <2>3. content' = content
    BY <1>1, MessageSteps
  <2>4. ASSUME NEW o \in Messages \ {m}
        PROVE  /\ job'[o].at \notin {"announce", "book"}
               /\ job'[o].at \in {"waiting", "lookup", "announce"} => Told(o, "announce")' = {}
    BY <2>2 DEF AnnounceInv, Awaiting, Told
  <2>5. ASSUME job'[m].at = "announce"
        PROVE  job'[m].plan = [guests |-> conv'.guests, date |-> conv'.date,
                               time |-> content'[m].time, code |-> {}]
    <3>1. Route(m)
      BY <1>1, <2>5, OnceStep
    <3>2. PICK place \in RoutedPlaces, plan \in Plan, reply \in Replies :
                 Routed(m, place, plan, reply)
      BY <2>1, <3>1, RouteEffect DEF PendingKnown
    <3>3. job'[m].at = place /\ job'[m].plan = plan
      BY <3>2 DEF Routed, Becomes
    <3> QED
      BY <2>3, <2>5, <3>2, <3>3 DEF Routed
  <2>6. ASSUME job'[m].at \in {"waiting", "lookup", "announce"}
        PROVE  Told(m, "announce")' = {}
    <3>1. job[m].at \in {"waiting", "lookup"}
      BY <1>1, <2>6, OnceStep DEF Inv
    <3>2. Told(m, "announce") = {} /\ ~Announced(m)
      BY <3>1 DEF AnnounceInv, Announced, At
    <3> QED
      BY <1>1, <2>1, <3>2, ToldStep
  <2>7. ASSUME job'[m].at = "book", NEW r \in Told(m, "announce")'
        PROVE  r.plan = job'[m].plan
    <3>1. \/ Announced(m) /\ job[m].at = "announce"
          \/ Route(m) /\ job[m].at = "lookup"
      BY <1>1, <2>7, OnceStep
    <3>2. Told(m, "announce") = {}
      BY <3>1 DEF AnnounceInv
    <3>3. Announced(m) /\ r.plan = job[m].plan
      BY <1>1, <2>1, <2>7, <3>2, ToldStep
    <3>4. job[m].plan = [guests |-> conv.guests, date |-> conv.date,
                         time |-> content[m].time, code |-> {}]
      BY <3>3 DEF AnnounceInv, Announced
    <3>5. job[m].at = "announce"
      BY <3>3 DEF Announced, At
    <3>6. Becomes(m, "book", [guests |-> conv.guests, date |-> conv.date,
                              time |-> content[m].time, code |-> {}], job[m].reply)
      <4>1. ~Throw(m)
        <5>1. Throw(m) => job'[m].at \in {"waiting", "failed"}
          BY <2>1, ThrownAt DEF RetryPlace
        <5> QED
          BY <2>7, <5>1
      <4> QED
        BY <2>1, <3>3, <3>5, <4>1, OtherEffect
           DEF RefuseBooking, ConfirmThrows, Confirm, Apologise, Send, Search, At
    <3>7. job'[m].plan = [guests |-> conv.guests, date |-> conv.date,
                          time |-> content[m].time, code |-> {}]
      BY <3>6 DEF Becomes
    <3> QED
      BY <3>3, <3>4, <3>7
  <2> QED
    BY <2>2, <2>4, <2>5, <2>6, <2>7 DEF AnnounceInv, At
<1>2. ~Restart
  BY DEF Restart, RunOnce
<1>3. CASE UNCHANGED vars
  <2>1. Alone'
    BY <1>3, AloneRestart DEF AnnounceInv
  <2> QED
    BY <1>3, <2>1 DEF vars, AnnounceInv, At, Told
<1> QED
  BY <1>1, <1>2, <1>3, Steps

\* With one handler at a time, and no retry or restart that runs a message twice, what a
\* reservation is made of is what the guest was told it would be. Texts may be lost, and
\* awaits may throw if the queue does not try the message again.
THEOREM AnnouncementIsTrue ==
    ASSUME Concurrency = 1, RunOnce
    PROVE  Spec => AnnouncedIsBooked
<1> DEFINE A == \A c \in Codes : bookings[c] = NoBooking /\ bookings'[c] # NoBooking =>
                  \A m \in bookings'[c].by : \A r \in Told(m, "announce") :
                      r.plan = bookings'[c].plan
<1>1. Init => AnnounceInv
  <2> SUFFICES ASSUME Init PROVE AnnounceInv
    OBVIOUS
  <2>1. \A m \in Messages : job[m].at = "waiting" /\ told[m] = {}
    BY DEF Init
  <2> QED
    BY <2>1 DEF AnnounceInv, Alone, Awaiting, At, Told
<1>2. Inv /\ AnnounceInv /\ [Next]_vars => AnnounceInv'
  BY AnnounceStep
<1>3. Inv /\ AnnounceInv /\ [Next]_vars => A
  <2> SUFFICES ASSUME Inv, AnnounceInv, [Next]_vars, NEW c \in Codes,
                      bookings[c] = NoBooking, bookings'[c] # NoBooking,
                      NEW m \in bookings'[c].by, NEW r \in Told(m, "announce")
               PROVE  r.plan = bookings'[c].plan
    OBVIOUS
  <2>1. bookings[c].by = {} /\ TypeOK
    BY DEF NoBooking, Inv
  <2>2. PICK o \in Messages : Book(o)
    <3>1. bookings'[c].by # {} /\ bookings' # bookings
      OBVIOUS
    <3>2. ASSUME NEW o \in Messages, StepOf(o), ~Book(o)
          PROVE  FALSE
      <4>1. CASE Cancel(o) \/ Modify(o) \/ BreakOff(o)
        BY <2>1, <3>1, <4>1, DeskEffect, BreakOffEffect
      <4>2. CASE ~(Cancel(o) \/ Modify(o) \/ BreakOff(o))
        <5>1. UNCHANGED bookings
          BY <3>2, <4>2 DEF StepOf, Start, Route, TakeSlot, SayNo, SayYes, SayNeither,
             ListReservations, AskCancel, TalkModify, TalkCheck, TalkCancel, TalkAvailability,
             TalkBook, Announced, RefuseBooking, Confirm, ConfirmThrows, Apologise, Search,
             Send, Throw, KeepsBackend
        <5> QED
          BY <3>1, <5>1
      <4> QED
        BY <4>1, <4>2
    <3>3. ~Restart /\ ~UNCHANGED vars
      BY <3>1 DEF Restart, vars
    <3> QED
      BY <3>2, <3>3, Steps
  <2>3. PICK d \in Codes :
             /\ bookings'[d] = [status |-> "CONFIRMED", restaurant |-> {to[o]}, by |-> {o},
                                plan |-> job[o].plan]
             /\ \A e \in Codes \ {d} : bookings'[e] = bookings[e]
    BY <2>1, <2>2, BookedRow
  <2>4. c = d /\ m = o /\ bookings'[c].plan = job[o].plan
    BY <2>3
  <2>5. At(o, "book")
    BY <2>2 DEF Book
  <2> QED
    BY <2>4, <2>5 DEF AnnounceInv
<1>4. Spec => [][A]_vars
  BY <1>1, <1>2, <1>3, InvHolds, PTL DEF Spec
<1> QED
  BY <1>4 DEF AnnouncedIsBooked
-----------------------------------------------------------------------------
(* The cancellation *)

Asking(m) == At(m, "send") /\ job[m].reply = "question"

AskedInv ==
    /\ Alone
    /\ \A m \in Messages : Asking(m) \/ At(m, "cancel") =>
         conv.pending = "confirm_cancel" /\ job[m].plan.code = conv.cancelling
    /\ conv.pending = "confirm_cancel" /\ (\A m \in Messages : ~Asking(m)) =>
         conv.cancelling = lastAsked

\* A step that neither asks nor leaves a question unasked keeps what was asked.
LEMMA AskedKept ==
    ASSUME AskedInv, Alone', NEW m \in Messages,
           \A o \in Messages \ {m} : job[o].at \notin Awaiting /\ job'[o] = job[o],
           ~Asking(m), lastAsked' = lastAsked,
           conv'.pending = "confirm_cancel" =>
              conv.pending = "confirm_cancel" /\ conv'.cancelling = conv.cancelling,
           Asking(m)' \/ At(m, "cancel")' =>
              conv'.pending = "confirm_cancel" /\ job'[m].plan.code = conv'.cancelling
    PROVE  AskedInv'
<1>1. \A o \in Messages \ {m} : ~Asking(o) /\ ~At(o, "cancel") /\ ~Asking(o)' /\ ~At(o, "cancel")'
  BY DEF Asking, At, Awaiting
<1>2. conv'.pending = "confirm_cancel" => conv'.cancelling = lastAsked'
  BY <1>1 DEF AskedInv
<1> QED
  BY <1>1, <1>2 DEF AskedInv

LEMMA AskedStep ==
    ASSUME Inv, AskedInv, Concurrency = 1, Faults \subseteq {"restart"}, [Next]_vars
    PROVE  AskedInv'
<1>1. "throw" \notin Faults /\ "lose" \notin Faults
  OBVIOUS
<1>2. ASSUME NEW m \in Messages, StepOf(m) PROVE AskedInv'
  <2>1. /\ TypeOK /\ PendingKnown /\ RunInv(m) /\ job[m].reply \in {"ask", "question"}
        /\ job[m].plan \in Plan /\ Nothing \in Plan
        /\ {"announce", "confirmed", "sorry", "ask", "question"} \subseteq Replies
    BY NothingIsPlan DEF Inv, PendingKnown, RunInv, TypeOK, Replies
  <2>2. /\ Alone'
        /\ \A o \in Messages \ {m} : job[o].at \notin Awaiting /\ job'[o] = job[o]
    BY <1>2, AloneStep DEF AskedInv
  <2>3. ~Tells(m) => lastAsked' = lastAsked
    BY <1>2, SaySteps
  <2>4. Announced(m) \/ Confirm(m) \/ Apologise(m) => lastAsked' = lastAsked
    <3>1. ASSUME NEW text \in Replies, NEW plan \in Plan, text # "question", Tell(m, text, plan)
          PROVE  lastAsked' = lastAsked
      BY <1>1, <2>1, <3>1, TellEffect
    <3> QED
      BY <2>1, <3>1 DEF Announced, Confirm, Apologise
  <2>5. CASE Send(m)
    <3>1. /\ job'[m].at = "done" /\ conv' = conv /\ Tell(m, job[m].reply, job[m].plan)
          /\ job[m].at = "send"
      <4>1. Becomes(m, "done", Nothing, job[m].reply)
        BY <2>1, <2>5, GoBecomes DEF Send, Places
      <4>2. job'[m].at = "done"
        BY <4>1 DEF Becomes
      <4> QED
        BY <2>5, <4>2 DEF Send, At
    <3>2. lastAsked' = IF job[m].reply = "question" THEN job[m].plan.code ELSE lastAsked
      BY <1>1, <2>1, <3>1, TellEffect
    <3>3. CASE job[m].reply = "question"
      <4>1. lastAsked' = conv.cancelling
        BY <3>1, <3>2, <3>3 DEF AskedInv, Asking, At
      <4>2. \A o \in Messages : ~Asking(o)' /\ ~At(o, "cancel")'
        BY <2>2, <3>1 DEF Asking, At, Awaiting
      <4> QED
        BY <2>2, <3>1, <4>1, <4>2 DEF AskedInv
    <3>4. CASE job[m].reply # "question"
      BY <2>2, <3>1, <3>2, <3>4, AskedKept DEF Asking, At
    <3> QED
      BY <3>3, <3>4
  <2>6. CASE Route(m)
    <3>1. PICK place \in RoutedPlaces, plan \in Plan, reply \in Replies :
                 Routed(m, place, plan, reply)
      BY <2>1, <2>6, RouteEffect DEF PendingKnown
    <3>2. job'[m].at = place /\ job'[m].plan = plan /\ job'[m].reply = reply
      BY <3>1 DEF Routed, Becomes
    <3>3. job[m].at = "lookup"
      BY <2>6 DEF Route, TakeSlot, SayNo, SayYes, SayNeither, ListReservations, AskCancel,
         TalkModify, TalkCheck, TalkCancel, TalkAvailability, TalkBook, Talks, Free, At
    <3>4. lastAsked' = lastAsked /\ ~Asking(m)
      BY <2>3, <3>3 DEF Tells, Announced, Confirm, Apologise, Send, At, Asking
    <3>5. Asking(m)' \/ At(m, "cancel")' =>
              conv'.pending = "confirm_cancel" /\ job'[m].plan.code = conv'.cancelling
      BY <3>1, <3>2 DEF Routed, Asking, At, Confirming
    <3>6. CASE place = "send" /\ reply = "question"
      <4>1. Asking(m)'
        BY <3>2, <3>6 DEF Asking, At
      <4>2. \A o \in Messages \ {m} : ~Asking(o)' /\ ~At(o, "cancel")'
        BY <2>2 DEF Asking, At, Awaiting
      <4> QED
        BY <2>2, <3>5, <4>1, <4>2 DEF AskedInv
    <3>7. CASE ~(place = "send" /\ reply = "question")
      <4>1. conv'.pending = "confirm_cancel" =>
              conv.pending = "confirm_cancel" /\ conv'.cancelling = conv.cancelling
        BY <3>1, <3>7 DEF Routed, Confirming
      <4> QED
        BY <2>2, <3>4, <3>5, <4>1, AskedKept
    <3> QED
      BY <3>6, <3>7
  <2>7. CASE ~Send(m) /\ ~Route(m)
    <3>1. job[m].at # "send" /\ job'[m].at \notin {"cancel"}
          /\ (job'[m].at = "send" => Cancel(m) \/ Modify(m) \/ Search(m))
      BY <1>1, <1>2, <2>7, PlacesStep
    <3>2. lastAsked' = lastAsked
      BY <1>1, <1>2, <2>3, <2>4, <2>7 DEF Tells
    <3>3. conv'.pending = "confirm_cancel" => conv' = conv
      <4>1. CASE Start(m) \/ Book(m)
        BY <4>1 DEF Start, Book
      <4>2. CASE Cancel(m) \/ Modify(m)
        BY <2>1, <4>2, DeskEffect DEF Confirming
      <4>3. CASE ~(Start(m) \/ Book(m) \/ Cancel(m) \/ Modify(m))
        BY <1>2, <2>1, <2>7, <4>3, OtherEffect DEF StepOf, Confirming, BreakOff
      <4> QED
        BY <4>1, <4>2, <4>3
    <3>4. job'[m].at = "send" => job'[m].reply = "ask"
      <4>1. CASE Cancel(m) \/ Modify(m)
        <5>1. Becomes(m, "send", Nothing, "ask")
          BY <2>1, <4>1, DeskEffect
        <5> QED
          BY <5>1 DEF Becomes
      <4>2. CASE Search(m)
        <5>1. Becomes(m, "send", Nothing, "ask")
          BY <2>1, <4>2, AnswerBecomes DEF Search, Ask
        <5> QED
          BY <5>1 DEF Becomes
      <4> QED
        BY <3>1, <4>1, <4>2
    <3>5. ~Asking(m) /\ ~Asking(m)' /\ ~At(m, "cancel")'
      BY <3>1, <3>4 DEF Asking, At
    <3> QED
      BY <2>2, <3>2, <3>3, <3>5, AskedKept
  <2> QED
    BY <2>5, <2>6, <2>7
<1>3. CASE Restart
  <2>1. /\ \A m \in Messages : job[m].at \in Awaiting => job[m].attempts >= 1
        /\ TypeOK
    BY DEF Inv, RunInv
  <2>2. /\ \A m \in Messages :
                IF job[m].at \in Awaiting
                THEN job'[m] = [at |-> "waiting", attempts |-> job[m].attempts - 1,
                                plan |-> Nothing, reply |-> job[m].reply]
                ELSE job'[m] = job[m]
        /\ conv' = NoConversation
    BY <1>3, <2>1, RestartEffect
  <2>3. ASSUME NEW m \in Messages PROVE ~Asking(m)' /\ ~At(m, "cancel")'
    <3>1. CASE job[m].at \in Awaiting
      <4>1. job'[m] = [at |-> "waiting", attempts |-> job[m].attempts - 1,
                       plan |-> Nothing, reply |-> job[m].reply]
        BY <2>2, <3>1
      <4> QED
        BY <4>1 DEF Asking, At
    <3>2. CASE job[m].at \notin Awaiting
      BY <2>2, <3>2 DEF Asking, At, Awaiting
    <3> QED
      BY <3>1, <3>2
  <2>4. Alone'
    BY <1>3, AloneRestart DEF AskedInv
  <2>5. conv'.pending = "none"
    BY <2>2 DEF NoConversation
  <2> QED
    BY <2>3, <2>4, <2>5 DEF AskedInv
<1>4. CASE UNCHANGED vars
  <2>1. Alone'
    BY <1>4, AloneRestart DEF AskedInv
  <2> QED
    BY <1>4, <2>1 DEF vars, AskedInv, Asking, At
<1> QED
  BY <1>2, <1>3, <1>4, Steps

\* With one handler at a time, and every answer arriving, only the reservation that the
\* guest was last asked about is cancelled: restarts of the worker included.
THEOREM CancellationIsAskedFor ==
    ASSUME Concurrency = 1, Faults \subseteq {"restart"}
    PROVE  Spec => CancelsLastAsked
<1> DEFINE A == \A c \in Codes : bookings[c].status # "CANCELLED" /\ bookings'[c].status = "CANCELLED" =>
                   lastAsked = {c}
<1>1. Init => AskedInv
  <2> SUFFICES ASSUME Init PROVE AskedInv
    OBVIOUS
  <2>1. /\ \A m \in Messages : job[m].at = "waiting"
        /\ conv.pending = "none"
    BY DEF Init, NoConversation
  <2> QED
    BY <2>1 DEF AskedInv, Alone, Awaiting, At, Asking
<1>2. Inv /\ AskedInv /\ [Next]_vars => AskedInv'
  BY AskedStep
<1>3. Inv /\ AskedInv /\ [Next]_vars => A
  <2> SUFFICES ASSUME Inv, AskedInv, [Next]_vars, NEW c \in Codes,
                      bookings[c].status # "CANCELLED", bookings'[c].status = "CANCELLED"
               PROVE  lastAsked = {c}
    OBVIOUS
  <2>1. bookings' # bookings /\ bookings \in [Codes -> Row] /\ TypeOK
    BY DEF Inv, TypeOK, Row
  <2>2. PICK m \in Messages : StepOf(m)
    BY <2>1, Steps DEF Restart, vars
  <2>3. Cancel(m)
    <3>1. ASSUME Book(m) PROVE FALSE
      <4>1. PICK d \in Codes :
             /\ bookings'[d] = [status |-> "CONFIRMED", restaurant |-> {to[m]}, by |-> {m},
                                plan |-> job[m].plan]
             /\ \A e \in Codes \ {d} : bookings'[e] = bookings[e]
        BY <2>1, <3>1, BookedRow
      <4>2. bookings'[d].status = "CONFIRMED"
        BY <4>1
      <4> QED
        BY <4>1, <4>2
    <3>2. ASSUME Modify(m) PROVE FALSE
      <4>1. PICK d \in job[m].plan.code :
              \E plan : bookings' = [bookings EXCEPT ![d].plan = plan]
        BY <2>1, <3>2 DEF Modify, MoveRow
      <4>2. PICK plan : bookings' = [bookings EXCEPT ![d].plan = plan]
        BY <4>1
      <4>3. bookings'[c] = IF c = d THEN [bookings[c] EXCEPT !.plan = plan] ELSE bookings[c]
        BY <2>1, <4>2
      <4>4. [bookings[c] EXCEPT !.plan = plan].status = bookings[c].status
        BY <2>1 DEF Row
      <4> QED
        BY <4>3, <4>4
    <3>3. CASE ~Cancel(m)
      <4>1. UNCHANGED bookings
        BY <2>2, <3>1, <3>2, <3>3 DEF StepOf, BreakOff, Start, Route, TakeSlot, SayNo, SayYes, SayNeither,
             ListReservations, AskCancel, TalkModify, TalkCheck, TalkCancel, TalkAvailability,
             TalkBook, Announced, RefuseBooking, Confirm, ConfirmThrows, Apologise, Search,
             Send, Throw, KeepsBackend
      <4> QED
        BY <2>1, <4>1
    <3> QED
      BY <3>3
  <2>4. {c} = job[m].plan.code
    BY <2>1, <2>3 DEF Cancel, CancelRow
  <2>5. /\ conv.pending = "confirm_cancel" /\ job[m].plan.code = conv.cancelling
        /\ job[m].at = "cancel"
    BY <2>3 DEF AskedInv, Cancel, CancelRow, At
  <2>6. \A o \in Messages : ~Asking(o)
    BY <2>5 DEF AskedInv, Alone, Asking, At, Awaiting
  <2> QED
    BY <2>4, <2>5, <2>6 DEF AskedInv
<1>4. Spec => [][A]_vars
  BY <1>1, <1>2, <1>3, InvHolds, PTL DEF Spec
<1> QED
  BY <1>4 DEF CancelsLastAsked
=============================================================================
