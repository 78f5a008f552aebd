----------------------------- MODULE MC_Sessions -----------------------------
(***************************************************************************)
(* Two sessions on one workspace.  The first has one writer.  The second   *)
(* has a reader, a writer that may be split and comes first by priority,   *)
(* and a chain of two behind it, the last of which also claims what its    *)
(* dependency changed.  The writers spell one file in different ways.      *)
(***************************************************************************)
EXTENDS Sessions

CONSTANTS s1, s2, a, b, c, d, e

MCPlan     == [s \in Session |-> IF s = s1 THEN <<a>> ELSE <<d, e, b, c>>]
MCDeps     == [t \in Planned |-> CASE t = b -> {e} [] t = c -> {b} [] OTHER -> {}]
MCPriority == [t \in Planned |-> IF t = e THEN 2 ELSE 1]

File == [dot |-> TRUE,  at |-> <<"src", "auth.rs">>]   \* ./src/auth.rs
Bare == [dot |-> FALSE, at |-> <<"auth.rs">>]
Main == [dot |-> FALSE, at |-> <<"src", "main.rs">>]

MCArtifact == {File}

MCNames == [t \in Planned |-> CASE t = a -> {File} [] t = e -> {Bare}
                                [] t = c -> {Main} [] OTHER -> {}]
MCName  == {"src", "auth.rs", "main.rs"}
MCIndex == {<<"src", "auth.rs">>, <<"src", "main.rs">>}
=============================================================================
