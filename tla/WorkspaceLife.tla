---------------------------- MODULE WorkspaceLife ----------------------------
(***************************************************************************)
(* What a workspace of the consciousness stack promises its owner: what    *)
(* the innermost core lived through is never lost, neither by an upgrade   *)
(* to schema version 2 nor by a rollback to version 1, and only a stack of *)
(* version 2 adds to it.  VersionMigration is the program that has to keep *)
(* this, one file operation at a time.                                     *)
(***************************************************************************)
CONSTANT Episode     \* pieces of a core's history

VARIABLES version, memory

Init == /\ version \in {1, 2}
        /\ memory \subseteq Episode

Upgrade == /\ version = 1 /\ version' = 2
           /\ UNCHANGED memory

Rollback == /\ version = 2 /\ version' = 1
            /\ UNCHANGED memory

Live(e) == /\ version = 2
           /\ memory' = memory \cup {e}
           /\ UNCHANGED version

Next == Upgrade \/ Rollback \/ \E e \in Episode : Live(e)

Spec == Init /\ [][Next]_<<version, memory>>
=============================================================================
