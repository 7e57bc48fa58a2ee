----------------------------- MODULE MCDualCore -----------------------------
(* Small instances of DualCore for TLC: one delta at a time, its replies     *)
(* half as long as the budget of a core, so that a fresh core is Growing     *)
(* after one reply and full after two.                                       *)
EXTENDS DualCore

CONSTANT d1

OneDelta == {d1}
SmallReplies == {1}
OneSeed == {1}
EmptySeed == {0}
=============================================================================
