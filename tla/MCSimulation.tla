---------------------------- MODULE MCSimulation ----------------------------
(* A small instance of Simulation, and of the Archive in it, for TLC. *)
EXTENDS Simulation, TLC

MCPrefix     == <<112, Dot>>                       \* "p."
k            == <<107>>
MCLabelNames == <<k, NameTag>>
up           == <<117, 112>>                       \* "up"

a            == <<97>>
Host         == <<97, Dot, 98>>                    \* "a.b"
Path         == <<Backslash, 110>>                 \* a backslash and an n
Regexp       == <<Backslash, Dot>>                 \* a backslash and a dot
Accented     == <<195, 169>>                       \* a letter of two bytes
Controls     == <<12, 51, 10, 57>>                 \* escaped as the letter is
Literal      == <<Percent, 67, 51, Percent, 65, 57>>  \* what the letter is escaped as
TwoLines     == <<97, 10>>
Spaced       == <<97, 32, 98>>
Underscored  == <<97, Underline, 98>>
Named        == <<Quote, 97>>

Labelled(v) == [name |-> up, labels |-> k :> v]

MCMetrics ==
    {Labelled(v) : v \in {a, Path, Regexp, Accented, Controls, Literal,
                          TwoLines, Spaced, Underscored, Named}}
    \cup {[name |-> up, labels |-> <<>>],
          [name |-> up, labels |-> (k :> a) @@ (NameTag :> Host)],
          [name |-> up \o up, labels |-> k :> a]}

MCQueries ==
    {[name |-> up, label |-> k, equal |-> e, value |-> v] :
        e \in BOOLEAN, v \in {a, Spaced}}
    \cup {[name |-> up, label |-> k, equal |-> TRUE, value |-> v] :
            v \in {Regexp, Named, Accented}}
    \cup {[name |-> up, label |-> NameTag, equal |-> TRUE, value |-> <<>>]}

(* A datapoint every step seconds. *)
Series(step, values) ==
    [i \in DOMAIN values |-> [time |-> 1 + step * i, value |-> values[i]]]

MCDatapoints ==
    {Series(step, <<0, 7, -60>>) : step \in {1, 2, 4, 5, 6}}
    \cup {Series(5, <<0, Null, 60>>), Series(5, <<60, 0, Null>>), <<>>}

Config(format, carbon, delta) ==
    [format |-> format, carbon |-> carbon, maxPointDelta |-> delta]

MCConfigs ==
    {Config("path", TRUE, delta) : delta \in {0, 500, 1000, 2500}}
    \cup {Config("tags", TRUE, 0), Config("openmetrics", TRUE, 0), Config("path", FALSE, 0)}

Line == [metric |-> Labelled(a), value |-> 5, mantissa |-> 5, numeric |-> TRUE,
         time |-> Now, word |-> Null]

Word == [metric |-> [name |-> up, labels |-> <<>>], value |-> 1, time |-> Now]

Negative == [Line EXCEPT !.value = -5, !.numeric = FALSE]

(* # HELP up 1 if it is up *)
Comment == [Line EXCEPT !.metric = Null, !.word = Word]

(* The references of the instance: lt, with and without its semicolon, and   *)
(* the number of a character.                                               *)
MCReferences == {<<108, 116>>, <<108, 116, 59>>, <<35, 54>>}

MCLines ==
    {Line,
     [Line EXCEPT !.metric = Labelled(Path)],
     [Line EXCEPT !.metric = Labelled(<<97, Less, 98>>)],              \* a<b
     [Line EXCEPT !.metric = Labelled(<<Ampersand, 108, 116>>)],       \* &lt
     [Line EXCEPT !.metric = Labelled(<<Less, 32, Ampersand, Less>>)], \* < &<
     [Line EXCEPT !.value = 50],                      \* 5e+01
     Negative,
     [Line EXCEPT !.value = Null, !.numeric = FALSE], \* NaN
     [Line EXCEPT !.metric = Labelled(up \o <<32, 49>>), !.value = Null,
                  !.numeric = FALSE, !.word = Word],  \* up{k="up 1"} NaN
     [Line EXCEPT !.time = 0],
     [Line EXCEPT !.time = 2],
     Comment}

Words == [Line EXCEPT !.metric = Null]

MCTexts == {<<line>> : line \in MCLines} \cup {<<Words, Line>>}

=============================================================================
