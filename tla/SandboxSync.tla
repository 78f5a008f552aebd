---------------------------- MODULE SandboxSync ----------------------------
(***************************************************************************)
(* Bringing an agent's work back from a sandbox that holds a copy of the   *)
(* workspace (sync.rs): the record taken before the agent starts, the      *)
(* three-way comparison afterwards, and the files written and deleted one  *)
(* by one while the user goes on working.                                  *)
(*                                                                         *)
(* A tree gives each path its content; a path that lies under another one  *)
(* makes that one a directory.  Contents are compared by digest, so they   *)
(* are model values.  .git and .cuma never take part and are left out, and *)
(* so are links that leave the workspace.                                  *)
(***************************************************************************)
EXTENDS Naturals

CONSTANTS Path,
          Rank,          \* a path's place in the order of the record's map
          Under,         \* pairs of a path and one that lies under it
          Content,
          Ignored,       \* paths git ignores
          MaxUserEdits,  \* bound on the user's edits
          DiskMayFail    \* whether writing may fail at any file

\* Paths lie under paths.
ASSUME SyncAssumption == Under \subseteq Path \X Path /\ MaxUserEdits \in Nat

VARIABLES here,      \* the workspace
          dirs,      \* paths that are directories here
          base,      \* what was recorded and handed over
          theirs,    \* the sandbox's copy
          ours,      \* history: the workspace when it was compared
          merge,     \* how far the merge is: phase, what is left, what was applied
          edits,     \* the user's edits so far
          late       \* history: paths the user edited after the comparison

syncVars == <<here, dirs, base, theirs, ours, merge, edits, late>>

Nothing == "nothing"
Tree == {t \in [Path -> Content \cup {Nothing}] :
           \A u \in Under : t[u[2]] # Nothing => t[u[1]] = Nothing}
DirsOf(tree) == {u[1] : u \in {v \in Under : tree[v[2]] # Nothing}}

SyncTypeOK ==
  /\ here \in Tree /\ theirs \in Tree /\ base \in Tree /\ ours \in Tree
  /\ dirs \subseteq Path
  /\ merge \in [phase : {"away", "applying", "merged", "conflict", "failed"},
                todo : SUBSET Path, applied : SUBSET Path]
  /\ late \subseteq Path
  /\ edits \in 0..MaxUserEdits

\* What git tracks or would track is handed over.
Listed == Path \ Ignored
Recorded(tree) == [p \in Path |-> IF p \in Listed THEN tree[p] ELSE Nothing]

SyncInit ==
  /\ here \in Tree
  /\ dirs = DirsOf(here)
  /\ base = Recorded(here)
  /\ theirs = base
  /\ ours = here
  /\ merge = [phase |-> "away", todo |-> {}, applied |-> {}]
  /\ edits = 0 /\ late = {}

-----------------------------------------------------------------------------
AgentWorks ==
  /\ merge.phase = "away"
  /\ theirs' \in Tree
  /\ UNCHANGED <<here, dirs, base, ours, merge, edits, late>>

UserEdits ==
  /\ merge.phase \in {"away", "applying"} /\ edits < MaxUserEdits
  /\ \E p \in Path, c \in Content \cup {Nothing} :
       /\ [here EXCEPT ![p] = c] \in Tree
       /\ c # here[p] /\ (c # Nothing => p \notin dirs)
       /\ here' = [here EXCEPT ![p] = c]
       /\ late' = IF merge.phase = "applying" THEN late \cup {p} ELSE late
  /\ dirs' = dirs \cup DirsOf(here')
  /\ edits' = edits + 1
  /\ UNCHANGED <<base, theirs, ours, merge>>

-----------------------------------------------------------------------------
(* merge                                                                   *)

\* New files that git ignores stay in the sandbox.
StaysBehind(p) == base[p] = Nothing /\ p \in Ignored
Changed == {p \in Path : theirs[p] # base[p] /\ ~StaysBehind(p)}

\* A file the user deleted meanwhile passes for one nobody touched.
AsRecordedOrGone(p) == here[p] \in {base[p], Nothing}

AsRecorded(p) == here[p] = base[p]

\* Changed in the sandbox, and neither as recorded here nor already the same.
Conflicts == {p \in Changed : here[p] # theirs[p] /\ ~AsRecorded(p)}

Applicable == {p \in Changed : here[p] # theirs[p] /\ AsRecorded(p)}

\* Looking for a file where the way there leads over another file is an error,
\* which ends the comparison.
Astray(p) == \E u \in Under : u[2] = p /\ here[u[1]] # Nothing

\* One conflict applies nothing, and keeps the sandbox's copy.
Compare ==
  /\ merge.phase = "away"
  /\ ours' = here
  /\ merge' = IF \E p \in Changed : Astray(p) THEN [merge EXCEPT !.phase = "failed"]
              ELSE IF Conflicts # {} THEN [merge EXCEPT !.phase = "conflict"]
              ELSE [merge EXCEPT !.phase = "applying", !.todo = Applicable]
  /\ UNCHANGED <<here, dirs, base, theirs, edits, late>>

\* All that is written comes before what is deleted, each in the map's order.
Before(p, q) ==
  IF (theirs[p] = Nothing) = (theirs[q] = Nothing) THEN Rank[p] <= Rank[q]
  ELSE theirs[q] = Nothing
Upcoming == {p \in merge.todo : \A q \in merge.todo : Before(p, q)}

\* A file can be replaced, not a directory, and a file is no directory to write
\* into.  A file to delete must be there.
CanApply(p) == IF theirs[p] = Nothing THEN here[p] # Nothing ELSE p \notin dirs /\ ~Astray(p)

ApplyOne ==
  /\ merge.phase = "applying"
  /\ \E p \in Upcoming :
       /\ CanApply(p)
       /\ here' = [here EXCEPT ![p] = theirs[p]]
       /\ merge' = [merge EXCEPT !.todo = @ \ {p}, !.applied = @ \cup {p}]
  /\ dirs' = dirs \cup DirsOf(here')
  /\ UNCHANGED <<base, theirs, ours, edits, late>>

\* An error ends the merge where it is, also between removing a file and writing
\* its successor.
ApplyFails ==
  /\ merge.phase = "applying"
  /\ \E p \in Upcoming :
       \/ (DiskMayFail \/ ~CanApply(p)) /\ UNCHANGED here
       \/ DiskMayFail /\ theirs[p] # Nothing /\ here' = [here EXCEPT ![p] = Nothing]
  /\ merge' = [merge EXCEPT !.phase = "failed"]
  /\ UNCHANGED <<dirs, base, theirs, ours, edits, late>>

ApplyEnds ==
  /\ merge.phase = "applying" /\ merge.todo = {}
  /\ merge' = [merge EXCEPT !.phase = "merged"]
  /\ UNCHANGED <<here, dirs, base, theirs, ours, edits, late>>

SyncNext == AgentWorks \/ UserEdits \/ Compare \/ ApplyOne \/ ApplyFails \/ ApplyEnds

SyncSpec == SyncInit /\ [][SyncNext]_syncVars

-----------------------------------------------------------------------------
(* Properties                                                              *)

\* What the user changed while the agent was away is still there, however the
\* merge ends; only an edit made between the comparison and the writing of that
\* very file can be lost.
UsersChangesSurvive ==
  \A p \in Path \ late :
     merge.phase # "away" /\ ours[p] # base[p] => here[p] = ours[p]

\* A merge that succeeds leaves each file as the module's table says: the agent's
\* where the agent changed it, the user's elsewhere.
MergeIsExact ==
  merge.phase = "merged" =>
     \A p \in Path \ late : here[p] = IF p \in Changed THEN theirs[p] ELSE ours[p]

\* The merge keeps the work of both.
MergeKeepsBoth == UsersChangesSurvive /\ MergeIsExact
=============================================================================
