---------------------------- MODULE MCEventQueue ----------------------------
(* A small instance of EventQueue for TLC: two sessions that may interrupt   *)
(* each other, answers with and without text, with one tool and with two.    *)
EXTENDS EventQueue

CONSTANTS s1, s2

TwoSessions == {s1, s2}

Text == [tools |-> 0, text |-> TRUE]
Nothing == [tools |-> 0, text |-> FALSE]
Use(n) == [tools |-> n, text |-> TRUE]

AnyReply == {Text, Nothing, Use(1), Use(2)}
=============================================================================
