---------------------------- MODULE MC_Ownership ----------------------------
\* A workspace of three files, two of which share their file name, and the
\* spellings that tell the cases of resolution and overlap apart.
EXTENDS Ownership, TLC

CONSTANTS t1, t2, t3

MCTask == {t1, t2, t3}
MCName == {"src", "auth", "mod.rs", "main.rs"}

MCIndex == {<<"src", "auth", "mod.rs">>, <<"src", "main.rs">>}

Bare     == [dot |-> FALSE, at |-> <<"mod.rs">>]          \* resolved by name
DotDir   == [dot |-> TRUE,  at |-> <<"src", "auth">>]     \* ./src/auth
Dir      == [dot |-> FALSE, at |-> <<"src">>]
File     == [dot |-> FALSE, at |-> <<"src", "main.rs">>]
NewFile  == [dot |-> FALSE, at |-> <<"auth">>]            \* not in the index

MCRequest ==
  { [names |-> {},            outputs |-> {}],            \* the whole workspace
    [names |-> {Bare},        outputs |-> {}],
    [names |-> {DotDir},      outputs |-> {}],
    [names |-> {Dir},         outputs |-> {}],
    [names |-> {File},        outputs |-> {}],
    [names |-> {NewFile},     outputs |-> {File}],
    [names |-> {Bare, File},  outputs |-> {DotDir}] }

Symmetry == Permutations(MCTask)
=============================================================================
