------------------------ MODULE MCGuestConversation ------------------------
(***************************************************************************)
(* A guest with a few messages of the kinds the service tells apart.       *)
(***************************************************************************)
EXTENDS GuestConversation, TLC

CONSTANTS two, four, day, t1, t2, ra, c1, c2

Words(intent) == [says |-> "other", intent |-> intent, guests |-> {}, date |-> {}, time |-> {},
                  code |-> {}, guess |-> Nothing]
Exactly(text) == [Words("unknown") EXCEPT !.says = text]
When(words) == [words EXCEPT !.date = {day}, !.time = {t1}]
ForTwo(words) == [words EXCEPT !.guests = {two}]

\* "mesa para dos mañana a las 21:00", "mesa para dos", "mañana a las 21:00", "gracias"
Whole == ForTwo(When(Words("reservation")))
Party == ForTwo(Words("reservation"))
Moment == When(Words("unknown"))
Thanks == Words("unknown")
\* "mañana a las 8", in which parseReservationText finds eight guests and eight in the morning.
Hour == [Moment EXCEPT !.guess = [guests |-> {four}, date |-> {day}, time |-> {t2}, code |-> {}]]
\* "¿hay mesa para dos mañana a las 21:00?", "para cuatro" when it is the other party's turn
Enquiry == ForTwo(When(Words("availability")))
Grown == [Words("unknown") EXCEPT !.guests = {four}]
Slot == [Exactly("slot") EXCEPT !.time = {t2}]
\* "cancelar C1", "anular C1", "modificar C1 para mañana a las 21:00", "ver reserva C1"
Cancelar(c) == [Exactly("cancelar") EXCEPT !.code = {c}, !.intent = "cancel"]
Anular == [Words("cancel") EXCEPT !.code = {c1}]
Modificar == [When(Words("modify")) EXCEPT !.code = {c1}]
Ver == [Words("check_reservation") EXCEPT !.code = {c1}]

MCSerial == {Whole, Party, Moment, Enquiry, Slot, Exactly("SI"), Exactly("NO"),
             Cancelar(c1), Cancelar(c2), Anular, Modificar}
MCFaults == {Whole, Thanks, Enquiry, Slot, Exactly("SI"), Cancelar(c1), Modificar, Ver,
             Exactly("mis reservas"), Exactly("cancelar")}
MCTalk == {Whole, Party, Moment, Thanks}
MCHour == {Hour, Party}
MCSlots == {Enquiry, Slot, Grown}
\* The same enquiry once for two and once for four, so that a slot message that is run
\* again can find another offer.
MCTwice == {Enquiry, [Enquiry EXCEPT !.guests = {four}], Slot}

\* No reservation from before, one or two of them.
MCNone == [c \in {} |-> NoBooking]
Before(codes) == [c \in codes |-> [status |-> "CONFIRMED", restaurant |-> {ra}, by |-> {},
    plan |-> [guests |-> {four}, date |-> {day}, time |-> {t2}, code |-> {}]]]
MCOne == Before({c1})
MCTwo == Before({c1, c2})

Symmetry == Permutations(Messages)
=============================================================================
