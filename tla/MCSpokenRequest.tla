-------------------------- MODULE MCSpokenRequest --------------------------
(***************************************************************************)
(* Weeks of three days of 24 hours; two days on which guests write.        *)
(***************************************************************************)
EXTENDS SpokenRequest

Opens(open, close) == [listed |-> TRUE, open |-> open, close |-> close, isClosed |-> FALSE]
Shut == [Opens(12, 22) EXCEPT !.isClosed = TRUE]

MCOffsets == {-1, 1}
MCDefault == Opens(12, 22)
\* Dinner, the whole day, and a day off.
SpokenRows == {Opens(19, 22), Opens(12, 22), Shut}

Hour(day, hour) == day * DayLength + hour - RestaurantOffset
TwoDays == {Hour(1, 11), Hour(2, 19)}
LateAtNight == {Hour(1, 23), Hour(2, 0)}
NoHoliday == {}
Holiday == {Hour(3, 0)}

Nothing == [says |-> {}, este |-> {}, on |-> {}, clock |-> {}, word |-> {}, number |-> {},
            party |-> {}, group |-> {}, six |-> FALSE]

\* One way to say each thing, in texts of their own or together.
Plain == {[Nothing EXCEPT !.says = {"reservar"}, !.group = {4}],
          [Nothing EXCEPT !.says = {"manana"}],
          [Nothing EXCEPT !.este = {1}],
          [Nothing EXCEPT !.says = {"hay mesa", "manana"}, !.word = {9}, !.party = {4}],
          [Nothing EXCEPT !.says = {"noche", "manana"}, !.party = {2}],
          [Nothing EXCEPT !.number = {9}],
          [Nothing EXCEPT !.este = {2}, !.clock = {21}, !.party = {4}],
          [Nothing EXCEPT !.says = {"mi reserva"}],
          [Nothing EXCEPT !.says = {"mi reserva", "cancelar"}],
          [Nothing EXCEPT !.says = {"modificar"}, !.este = {0}],
          [Nothing EXCEPT !.says = {"hay mesa"}, !.clock = {13}],
          [Nothing EXCEPT !.says = {"hola"}],
          [Nothing EXCEPT !.says = {"manana"}, !.clock = {20}]}

\* Ways to say it that are misunderstood; section 7 of the README.
Somos == [Nothing EXCEPT !.says = {"reservar"}, !.group = {4}]
AfterTomorrow == Plain \cup {[Nothing EXCEPT !.says = {"pasado manana"}]}
InTheMorning == {Somos, [Nothing EXCEPT !.says = {"manana", "por la manana"}, !.number = {9}]}
TonightAt == {Somos, [Nothing EXCEPT !.says = {"manana", "noche"}, !.clock = {21}]}
Today == {Somos, [Nothing EXCEPT !.says = {"hoy"}, !.number = {9}, !.party = {4}]}
InFigures == Plain \cup {[Nothing EXCEPT !.on = {3}, !.clock = {21}, !.party = {4}]}
Alone == {[Nothing EXCEPT !.on = {3}, !.clock = {21}, !.party = {4}], [Nothing EXCEPT !.says = {"hola"}]}
Late == Plain \cup {[Nothing EXCEPT !.says = {"hay mesa"}, !.clock = {23}]}
LateRows == {Opens(13, 0), Shut}
Unsaved == {Opens(12, 22), [Shut EXCEPT !.listed = FALSE]}
NoParty == {[Nothing EXCEPT !.says = {"reservar", "manana"}, !.number = {9}]}
=============================================================================
