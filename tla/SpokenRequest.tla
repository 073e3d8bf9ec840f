---------------------------- MODULE SpokenRequest ----------------------------
(***************************************************************************)
(* What is said over WhatsApp and what is asked of ServiceHours for it:    *)
(* the normalizers that look for phrases in a text, the conversation that  *)
(* keeps what they find from message to message, and parseReservationText, *)
(* which has a try at a text alone when the conversation lacks something.  *)
(*                                                                         *)
(* A text is the set of the phrases in it: the code tests for each with    *)
(* includes() or a regular expression, in an order of its own.  A day has  *)
(* 24 steps, minutes are left out.  Who the messages are from, what is     *)
(* cancelled or modified, and the awaits are GuestConversation's subject.  *)
(***************************************************************************)
EXTENDS ServiceHours

CONSTANTS Texts,    \* what guests write
          Moments,  \* the instants at which they do
          Slow,     \* whether a message may be handled the day after it was sent
          Wanders   \* whether another day is talked of between an offer and its choice

Says == {"manana", "pasado manana", "por la manana", "hoy", "noche", "mediodia", "tarde", "pm",
         "hola", "cancelar", "baja", "modificar", "mi reserva", "hay mesa", "reservar"}

\* este: "este jueves"; on: "24/12", as a date; clock: "21:30"; word: "a las nueve";
\* number: "a las 9"; party: "4 personas"; group: "somos cuatro"; six: a word of six signs
Text == [says : SUBSET Says, este : SUBSET Days, on : SUBSET Nat, clock : SUBSET Clock,
         word : SUBSET (1..11), number : SUBSET (0..99), party : SUBSET (0..99),
         group : SUBSET (1..12), six : BOOLEAN]

ASSUME SpokenAssumption ==
    /\ DayLength = 24 /\ Texts \subseteq Text /\ Moments \subseteq Nat
    /\ {Slow, Wanders} \subseteq BOOLEAN

VARIABLES
    now,    \* the instant
    conv,   \* ConversationState: guests, date and time, {} for null
    meant   \* history: the date and the hour that the guest has meant so far

spokenVars == <<now, conv, meant>>

Fields == [guests : SUBSET (0..99), date : SUBSET Nat, time : SUBSET (0..99)]
Silence == [guests |-> {}, date |-> {}, time |-> {}]
-----------------------------------------------------------------------------
(* The normalizers *)

Some(set) == set # {}
Least(set) == {n \in set : \A k \in set : n <= k}
Given(found, old) == IF Some(found) THEN found ELSE old

\* "manana" is in "pasado manana" and in "por la manana" too, and is looked for first.
SaysManana(text) == Some(text.says \cap {"manana", "pasado manana", "por la manana"})

\* Mutant of DateNormalizer: "este" is always a day to come.
DateNormalizer_NeverToday(text) ==
    LET today == DateOf(now, ServerOffset)
        Diff(day) == LET diff == day - WeekdayOf(now, ServerOffset)
                     IN  IF diff <= 0 THEN diff + Weekdays ELSE diff
    IN  IF SaysManana(text) THEN {today + 1} ELSE {today + Diff(day) : day \in Least(text.este)}

\* On the server's clock; the days of the week are looked for from Sunday on.
DateNormalizer(text) ==
    LET today == DateOf(now, ServerOffset)
        Diff(day) == LET diff == day - WeekdayOf(now, ServerOffset)
                     IN  IF diff < 0 THEN diff + Weekdays ELSE diff
    IN  IF SaysManana(text) THEN {today + 1} ELSE {today + Diff(day) : day \in Least(text.este)}

\* Mutant of TimeNormalizer: a number is the hour of the clock, as it is written.
TimeNormalizer_AsWritten(text) ==
    CASE "noche" \in text.says    -> {20}
      [] "mediodia" \in text.says /\ "noche" \notin text.says -> {13}
      [] "tarde" \in text.says /\ ~Some(text.says \cap {"noche", "mediodia"}) -> {18}
      [] OTHER -> Given(text.clock, Given({n + 12 : n \in Least(text.word)}, text.number))

\* A part of the day hides the hour that is named with it.
TimeNormalizer(text) ==
    CASE "noche" \in text.says    -> {20}
      [] "mediodia" \in text.says /\ "noche" \notin text.says -> {13}
      [] "tarde" \in text.says /\ ~Some(text.says \cap {"noche", "mediodia"}) -> {18}
      [] OTHER -> Given(text.clock,
                        Given({n + 12 : n \in Least(text.word)},
                              {IF n \in 1..11 THEN n + 12 ELSE n : n \in text.number}))

GuestNormalizer(text) == Given(text.party, Least(text.group))

\* normalize of the intent: the first list that has something of the text
Intent(text) ==
    LET Has(phrases) == Some(text.says \cap phrases)
    IN  IF text = [says |-> {"hola"}, este |-> {}, on |-> {}, clock |-> {}, word |-> {},
                   number |-> {}, party |-> {}, group |-> {}, six |-> FALSE] THEN "greeting"
        ELSE IF Has({"cancelar"}) \/ (text.six /\ Has({"baja"})) THEN "cancel"
        ELSE IF Has({"modificar"}) THEN "modify"
        ELSE IF Has({"mi reserva"}) THEN "check_reservation"
        ELSE IF Has({"hay mesa"}) THEN "availability"
        ELSE IF Has({"reservar"}) \/ Some(text.group) THEN "reservation"
        ELSE "unknown"

\* parseReservationText: the first number of the text is the party and the hour, so that the
\* instants are those of all orders the numbers may come in; none without a date or an hour.
\* A date in figures is written with numbers too; one that is past is not written.
Fallback(text) ==
    LET numbers == text.party \cup text.number \cup text.clock
                   \cup IF Some(text.on) THEN 1..31 ELSE {}
        today == DateOf(now, ServerOffset)
        dates == IF "hoy" \in text.says THEN {today}
                 ELSE IF SaysManana(text) THEN {today + 1} ELSE text.on
        hours(n) == IF Some(text.clock) THEN text.clock
                    ELSE {IF "pm" \in text.says /\ n < 12 THEN n + 12 ELSE n}
    IN  {d * DayLength + h - ServerOffset :
            <<d, h>> \in dates \X UNION {hours(n) \cap Clock : n \in numbers}}
-----------------------------------------------------------------------------
(* What a reader of the text understands *)

\* Of the hours that a 12-hour clock calls n, the one after noon, unless the morning is named.
HourMeant(text, n) ==
    IF n \notin 1..12 THEN n
    ELSE IF "por la manana" \in text.says THEN n
    ELSE CHOOSE h \in 12..23 : h % 12 = n % 12

DayMeant(text, today) ==
    IF "pasado manana" \in text.says THEN {today + 2}
    ELSE IF "manana" \in text.says THEN {today + 1}
    ELSE IF "hoy" \in text.says THEN {today}
    ELSE IF Some(text.on) THEN text.on
    ELSE Least({d \in today..today + Weekdays - 1 : d % Weekdays \in text.este})

TimeMeant(text) ==
    IF Some(text.clock) THEN text.clock
    ELSE IF Some(text.word \cup text.number) THEN {HourMeant(text, n) : n \in text.word \cup text.number}
    ELSE IF "noche" \in text.says THEN {20}
    ELSE IF "mediodia" \in text.says THEN {13}
    ELSE IF "tarde" \in text.says THEN {18} ELSE {}
-----------------------------------------------------------------------------
(* The conversation *)

SpokenInit == /\ Init /\ now \in {m \in Moments : \A k \in Moments : m <= k}
              /\ conv = Silence /\ meant = [date |-> {}, time |-> {}]

\* Mutant of Heard: what an earlier message gave stays.
Heard_FirstStays(text) ==
    [guests |-> Given(conv.guests, GuestNormalizer(text)),
     date   |-> Given(conv.date, DateNormalizer(text)),
     time   |-> Given(conv.time, TimeNormalizer(text))]

\* processConversation
Heard(text) == [guests |-> Given(GuestNormalizer(text), conv.guests),
                date   |-> Given(DateNormalizer(text), conv.date),
                time   |-> Given(TimeNormalizer(text), conv.time)]

Ready(state) == Some(state.guests) /\ Some(state.date) /\ Some(state.time)

\* buildReservationDate; an hour past 23 makes no date, and createReservation throws.
Instant(state) == {InstantOf(d, t) : <<d, t>> \in state.date \X (state.time \cap Clock)}

Understood(text, today) == meant' = [date |-> Given(DayMeant(text, today), meant.date),
                                     time |-> Given(TimeMeant(text), meant.time)]

Listens(text) ==
    /\ \E day \in {DateOf(now, RestaurantOffset)}
                  \cup IF Slow THEN {DateOf(now, RestaurantOffset) - 1} ELSE {} : Understood(text, day)
    /\ conv' = Heard(text)
    /\ Wanders \/ offered = {} \/ conv'.date = conv.date
    /\ UNCHANGED now

\* A question, a list, a cancellation or a change: no table is asked for.
AskAgain(text) ==
    /\ Listens(text)
    /\ \/ Intent(text) \in {"modify", "cancel", "check_reservation"}
       \/ Intent(text) = "availability" /\ ~Ready(conv')
       \/ Intent(text) \in {"reservation", "unknown", "greeting"} /\ ~Ready(conv') /\ Fallback(text) = {}
    /\ UNCHANGED vars

AskAvailability(text) ==
    /\ Intent(text) = "availability" /\ Ready(Heard(text))
    /\ Listens(text)
    /\ \E start \in Instant(conv') : Enquire(start)

\* Whatever is not one of the other intents books, as soon as nothing is missing.
Book(text) ==
    /\ Intent(text) \in {"reservation", "unknown", "greeting"} /\ Ready(Heard(text))
    /\ Listens(text)
    /\ \E start \in Instant(conv') : Reserve(start)

BookFallback(text) ==
    /\ Intent(text) \in {"reservation", "unknown", "greeting"} /\ ~Ready(Heard(text))
    /\ Listens(text)
    /\ \E start \in Fallback(text) : Reserve(start)

\* Mutant of PickSlot: the text is put on today's date.
PickSlot_Today(text) ==
    /\ \E slot \in offered : text = SlotText(slot)
    /\ Request(InstantOf(DateOf(now, RestaurantOffset), text), TRUE)
    /\ offered' = {} /\ UNCHANGED week
    /\ conv' = [conv EXCEPT !.time = {text}] /\ meant' = [meant EXCEPT !.time = {text}]
    /\ UNCHANGED now

\* The text of a slot: the conversation's date is that of the enquiry, or of a later text.
PickSlot(text) ==
    /\ \E slot \in offered : text = SlotText(slot)
    /\ \E d \in conv.date : Request(InstantOf(d, text), TRUE)
    /\ offered' = {} /\ UNCHANGED week
    /\ conv' = [conv EXCEPT !.time = {text}] /\ meant' = [meant EXCEPT !.time = {text}]
    /\ UNCHANGED now

TimePasses == /\ \E m \in Moments : m > now /\ now' = m
              /\ UNCHANGED <<vars, conv, meant>>

SpokenNext ==
    \/ \E day \in Days, row \in Rows : SaveHours(day, row) /\ UNCHANGED spokenVars
    \/ \E text \in Texts : \/ AskAgain(text) \/ AskAvailability(text)
                           \/ Book(text) \/ BookFallback(text)
    \/ \E text \in Clock : PickSlot(text)
    \/ TimePasses

SpokenSpec == SpokenInit /\ [][SpokenNext]_<<vars, spokenVars>>
-----------------------------------------------------------------------------
(* Properties *)

\* "¿Para qué fecha? ¿A qué hora?": a table is asked for at the instant that the guest has
\* meant, each part in the last text that named it, however many texts and days that took.
RequestedAsSaid ==
    [][answer' # answer =>
          \E d \in meant'.date, h \in meant'.time : answer'.start = InstantOf(d, h)]_<<vars, spokenVars>>
=============================================================================
