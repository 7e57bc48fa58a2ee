------------------------- MODULE MCVersionMigration -------------------------
(* A small instance of VersionMigration for TLC: two episodes, so that what  *)
(* L4 lived through can be told from what came later.                        *)
EXTENDS VersionMigration, TLC

CONSTANTS e1, e2

TwoEpisodes == {e1, e2}
=============================================================================
