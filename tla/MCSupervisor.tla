---------------------------- MODULE MCSupervisor ----------------------------
(***************************************************************************)
(* Supervisor with two workers: the first one, whose silence is timed, may *)
(* show anything, the second one is there to move or not to move.          *)
(***************************************************************************)
EXTENDS Supervisor

CONSTANTS card, kept

FirstShowsAll == [w \in Worker |-> IF w = 1 THEN {kept, "loop", "prompt"} ELSE {kept}]
FirstHasCard == [w \in Worker |-> IF w = 1 THEN kept ELSE None]
=============================================================================
