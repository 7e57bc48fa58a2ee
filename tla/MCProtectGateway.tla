-------------------------- MODULE MCProtectGateway --------------------------
(***************************************************************************)
(* ProtectGateway with two overlays that contradict the base and each       *)
(* other, and messages of up to two calls.                                  *)
(***************************************************************************)
EXTENDS ProtectGateway

Values == {"bash", "write", "ls", "rm"}
Patterns == {"*"} \cup Values
Globs == [p \in Patterns |-> IF p = "*" THEN Values ELSE {p}]

Tier(allow, deny, ask) == [allow |-> allow, deny |-> deny, ask |-> ask]
Nothing == Tier({}, {}, {})

BasePolicy == [tools |-> Tier({"*"}, {"write"}, {}),
               bash_commands |-> Tier({"ls"}, {}, {}), filesystem |-> Nothing]
Loosening == [tools |-> Tier({"write"}, {}, {"bash"}),
              bash_commands |-> Tier({"rm"}, {}, {}), filesystem |-> Tier({"*"}, {}, {})]
Tightening == [tools |-> Nothing, bash_commands |-> Tier({}, {"rm"}, {}),
               filesystem |-> Nothing]

BothOverlays == {Loosening, Tightening}

Bash(command) == [name |-> "bash", tier |-> "bash_commands", spellings |-> {command},
                  suspicious |-> FALSE]
Write == [name |-> "write", tier |-> "filesystem", spellings |-> {"ls"}, suspicious |-> FALSE]
Odd == [Bash("ls") EXCEPT !.suspicious = TRUE]

Said(form, calls) == [form |-> form, calls |-> calls]
Messages ==
  {Said("text", c) : c \in {{}, {Bash("ls")}, {Bash("ls"), Bash("rm")}, {Write}, {Odd}}}
    \cup {Said("binary", {}), Said("close", {})}
=============================================================================
