---------------------------- MODULE MCAgentTurns ----------------------------
(* Small instances of AgentTurns for TLC.                                    *)
EXTENDS AgentTurns

CONSTANTS t1, t2

TwoTurns == {t1, t2}

(* Calls of chat.send differ in name only, and a call that has not begun is  *)
(* seen by nobody: the second is sent when the first has begun.              *)
InOrder == pc'[t2] # "unsent" => pc'[t1] \notin {"unsent", "sent"}

FairSpecInOrder == Init /\ [][Next /\ InOrder]_vars /\ Fairness
=============================================================================
