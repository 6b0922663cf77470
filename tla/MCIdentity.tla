----------------------------- MODULE MCIdentity -----------------------------
(* Instances of Identity for TLC.                                          *)
EXTENDS Identity

\* A serial means something to set-id, the tool and identify only, a target to
\* the first two.
Command(n, c, d) == [name |-> n, serial |-> c, to |-> d]
Someone == CHOOSE c \in Serials : TRUE
AllCommands ==
  {Command(n, c, d) : n \in {"set-id", "tool"}, c \in Serials, d \in Ids \ {0}}
    \cup {Command(n, Someone, 1) : n \in Names \ {"set-id", "tool"}}
=============================================================================
