----------------------------- MODULE PathClaims -----------------------------
(***************************************************************************)
(* Paths, write prediction and the rows of the ownership ledger            *)
(* (cuma-workspace: ownership.rs, index.rs).                               *)
(*                                                                         *)
(* A path is the sequence of its components.  A path as somebody spelled   *)
(* it is a record: `dot' says that it starts with "./", `at' is the rest.  *)
(* Rust's Path drops every other "." component and a trailing slash when   *)
(* it compares, so no other spelling is distinguishable.                   *)
(*                                                                         *)
(* The ledger is a function from normalized paths to the task that holds   *)
(* them; its domain is the set of claimed paths.                           *)
(***************************************************************************)
EXTENDS Naturals, Sequences

Root == <<".">>

\* Every spelling of a relative path over the component names Name.
Spellings(Name) == [dot : BOOLEAN, at : Seq(Name)]

\* Path::starts_with and Path::ends_with, which compare whole components.
StartsWith(p, q) ==
  /\ Len(q) <= Len(p)
  /\ \A i \in 1..Len(q) : p[i] = q[i]

EndsWith(p, q) ==
  /\ Len(q) <= Len(p)
  /\ \A i \in 1..Len(q) : p[Len(p) - Len(q) + i] = q[i]

Normalize(raw) == IF raw.at = <<>> THEN Root ELSE raw.at

\* A claim without the rule that "." contains everything.
OverlapsByPrefixOnly(candidate, held) ==
  StartsWith(candidate, held) \/ StartsWith(held, candidate)

Overlaps(candidate, held) ==
  \/ candidate = Root
  \/ held = Root
  \/ StartsWith(candidate, held)
  \/ StartsWith(held, candidate)

-----------------------------------------------------------------------------
(* WorkspaceIndex and predict_writes.                                      *)

\* Whether the spelled path is an indexed file or a directory above one.  An
\* indexed file never starts with "./", so a spelling that does never matches.
Contains(index, raw) == ~raw.dot /\ \E f \in index : StartsWith(f, raw.at)

\* `named' for a bare file name, `ending_with' for a longer one.
EndingWith(index, raw) == {f \in index : ~raw.dot /\ EndsWith(f, raw.at)}

\* The path as written, whatever the index says.
ResolveNothing(index, raw) == {raw}

Resolve(index, raw) ==
  LET found == IF Contains(index, raw) THEN {} ELSE EndingWith(index, raw)
  IN  IF found = {} THEN {raw} ELSE {[dot |-> FALSE, at |-> f] : f \in found}

PredictWrites(names, index, outputs) ==
  IF names = {}
  THEN {[dot |-> TRUE, at |-> <<>>]}
  ELSE outputs \cup (UNION {Resolve(index, raw) : raw \in names})

-----------------------------------------------------------------------------
(* OwnershipLedger.                                                        *)

HeldBy(claims, task) == {p \in DOMAIN claims : claims[p] = task}

\* Conflict detection on equal paths only.
ConflictOnEqualPaths(claims, task, paths) ==
  \E raw \in paths, held \in DOMAIN claims :
     claims[held] # task /\ Normalize(raw) = held

Conflict(claims, task, paths) ==
  \E raw \in paths, held \in DOMAIN claims :
     claims[held] # task /\ Overlaps(Normalize(raw), held)

\* A new claim that takes the place of the task's earlier ones.
InsertReplacing(claims, task, paths) ==
  LET new  == {Normalize(raw) : raw \in paths}
      kept == DOMAIN claims \ HeldBy(claims, task)
  IN  [p \in kept \cup new |-> IF p \in new THEN task ELSE claims[p]]

Insert(claims, task, paths) ==
  LET new == {Normalize(raw) : raw \in paths}
  IN  [p \in DOMAIN claims \cup new |-> IF p \in new THEN task ELSE claims[p]]

\* Rows that are marked instead of removed.
RetainMarked(claims, task) ==
  [p \in DOMAIN claims |-> IF claims[p] = task THEN "released" ELSE claims[p]]

\* release: retain every row held by somebody else.
Retain(claims, task) ==
  [p \in DOMAIN claims \ HeldBy(claims, task) |-> claims[p]]
=============================================================================
