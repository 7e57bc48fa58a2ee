------------------------------ MODULE Pipeline ------------------------------
(***************************************************************************)
(* What a knowledge-graph run promises, whatever tree it descends: stages  *)
(* one after the other, each begun only when the one before it succeeded,  *)
(* none begun after a failure, and an outcome that is a success only if     *)
(* every stage was.  A run may break off at any time.                       *)
(***************************************************************************)
EXTENDS Naturals

CONSTANT Stages    \* how many there are

VARIABLES
  done,    \* stages that succeeded
  state    \* of the run

pipe == <<done, state>>

PipeInit == done = 0 /\ state = "between"

Begin == state = "between" /\ done < Stages /\ state' = "working" /\ done' = done
Succeed == state = "working" /\ state' = "between" /\ done' = done + 1
Fail == state = "working" /\ state' = "failed" /\ done' = done
End ==
  /\ \/ state = "failed" /\ state' = "failure"
     \/ state = "between" /\ done = Stages /\ state' = "success"
  /\ done' = done
BreakOff == state \notin {"success", "failure", "broken"} /\ state' = "broken" /\ done' = done

PipeNext == Begin \/ Succeed \/ Fail \/ End \/ BreakOff

PipeSpec == PipeInit /\ [][PipeNext]_pipe
=============================================================================
