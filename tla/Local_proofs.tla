---------------------------- MODULE Local_proofs ----------------------------
(***************************************************************************)
(* Proofs about what CUMA does on the user's machine: tasks in worktrees   *)
(* of their own (Worktrees), skills (SkillStore), the configurations       *)
(* directories are served with (Harness) and the plans of goals (Planner), *)
(* for any number of tasks, hunks, edits, packages, directories, files and *)
(* lines; and about these and the components of Machine_proofs together,   *)
(* as MC_Local puts them side by side.                                     *)
(***************************************************************************)
EXTENDS MC_Local, Machine_proofs, NaturalsInduction, WellFoundedInduction, TLAPS

-----------------------------------------------------------------------------
(* Worktrees.                                                              *)

Phase == {"new", "snapshot", "agent", "shared", "settle", "check", "apply",
          "done", "failed", "kept", "dropped"}

Snapshot == UNION {[hunks -> HunkContent] : hunks \in SUBSET Hunk}

TreeTypes ==
  /\ workspace \in [Hunk -> HunkContent]
  /\ turnOf \in Isolated \cup {"nobody"}
  /\ phase \in [Isolated -> Phase]
  /\ origin \in [Isolated -> Snapshot]
  /\ changed \in [Isolated -> SUBSET Hunk] /\ landed \in [Isolated -> SUBSET Hunk]
  /\ orphan \subseteq Isolated /\ overran \in BOOLEAN /\ keystrokes \in 0..MaxKeystrokes

\* isolation_lock is held exactly through snapshots and applies.
LockInStep ==
  \A t \in Isolated : turnOf = t <=> phase[t] \in {"snapshot", "check", "apply"}

\* What a task has read, changed and landed, by where it is.
ChangesInStep ==
  \A t \in Isolated :
    /\ landed[t] \subseteq changed[t]
    /\ phase[t] \in {"new", "snapshot", "agent", "shared"} => changed[t] = {}
    /\ phase[t] = "new" => DOMAIN origin[t] = {}
    /\ phase[t] \in {"agent", "settle", "check", "apply"} \/ changed[t] # {} => DOMAIN origin[t] = Hunk

\* Only a task that applies its patch has landed a part of it.
LandedInTurn ==
  \A t \in Isolated :
    /\ landed[t] # {} => phase[t] \in {"apply", "done"}
    /\ phase[t] = "done" => landed[t] = changed[t]

\* A task that worked in the workspace itself, and has no patch.
Sharer(t) == phase[t] \in {"shared", "done", "failed", "dropped"} /\ changed[t] = {}

\* Where a hunk's content can come from.
Explained(u, content) ==
  /\ content \in Isolated => u \in landed[content] \/ Sharer(content)
  /\ content \in Nat => content <= keystrokes

ContentsKnown ==
  /\ \A u \in Hunk : Explained(u, workspace[u])
  /\ \A t \in Isolated : \A u \in DOMAIN origin[t] : Explained(u, origin[t][u]) /\ origin[t][u] # t

\* A task did not find in u what s found there and overwrote.
SawLater(t, s, u) == WrittenOnce(u, origin[s][u]) => origin[t][u] # origin[s][u]

\* What was patched does not come back.
Overwritten ==
  \A t \in Isolated : \A u \in landed[t] : WrittenOnce(u, origin[t][u]) => workspace[u] # origin[t][u]

\* A snapshot being taken comes after every patch that was landed.
SnapshotIsLater ==
  \A t, s \in Isolated : \A u \in DOMAIN origin[t] \cap landed[s] :
    phase[t] = "snapshot" => SawLater(t, s, u)

\* So does a patch that was checked.
PatchIsLater ==
  \A t \in Isolated : \A s \in Isolated \ {t} : \A u \in changed[t] \cap landed[s] :
    phase[t] = "apply" => SawLater(t, s, u)

\* A snapshot that holds some of a patch holds none of what it replaced.
SawAll ==
  \A t, s \in Isolated : \A v \in DOMAIN origin[t] \cap landed[s] :
    origin[t][v] = s => \A u \in changed[s] \cap DOMAIN origin[t] : SawLater(t, s, u)

\* Of two patches of one hunk one saw the other, or came after something else.
PatchesOrdered ==
  \A t \in Isolated : \A s \in Isolated \ {t} : \A u \in landed[t] \cap landed[s] : SawLater(t, s, u)

Calm ==
  /\ orphan = {} /\ LandedInTurn /\ ContentsKnown /\ Overwritten /\ SnapshotIsLater
  /\ PatchIsLater /\ SawAll /\ PatchesOrdered

TreeIInv == TreeTypes /\ LockInStep /\ ChangesInStep /\ (~overran => Calm)

\* A snapshot is a function on the hunks that were read.
LEMMA SnapshotFacts ==
  ASSUME NEW t \in Isolated, TreeTypes
  PROVE  /\ DOMAIN origin[t] \subseteq Hunk
         /\ origin[t] \in [DOMAIN origin[t] -> HunkContent]
         /\ \A u \in DOMAIN origin[t] : origin[t][u] \in HunkContent
<1>1. origin[t] \in Snapshot
  BY DEF TreeTypes
<1>2. PICK hunks \in SUBSET Hunk : origin[t] \in [hunks -> HunkContent]
  BY <1>1 DEF Snapshot
<1> QED BY <1>2

\* Steps that move a task on and touch neither the workspace, the snapshots nor
\* the patches.
LEMMA QuietStep ==
  ASSUME TreeIInv, NEW t \in Isolated, NEW to \in Phase,
         phase' = [phase EXCEPT ![t] = to],
         UNCHANGED <<workspace, origin, changed, landed, keystrokes>>,
         turnOf' \in Isolated \cup {"nobody"}, LockInStep',
         orphan' \subseteq Isolated, overran' \in BOOLEAN,
         ~overran' => ~overran /\ orphan' = orphan,
         to \in {"new", "snapshot", "agent", "shared"} => changed[t] = {},
         to # "new",
         to \in {"agent", "settle", "check", "apply"} => DOMAIN origin[t] = Hunk,
         ~overran' /\ landed[t] # {} => to \in {"apply", "done"},
         ~overran' /\ to = "done" => landed[t] = changed[t],
         Sharer(t) => to \in {"shared", "done", "failed", "dropped"},
         to = "snapshot" => DOMAIN origin[t] = {},
         ~overran' /\ to = "apply" =>
           \A s \in Isolated \ {t} : \A u \in changed[t] \cap landed[s] : SawLater(t, s, u)
  PROVE  TreeIInv'
<1>1. /\ phase \in [Isolated -> Phase] /\ phase'[t] = to
      /\ \A s \in Isolated \ {t} : phase'[s] = phase[s]
  BY DEF TreeIInv, TreeTypes
<1>2. TreeTypes'
  BY <1>1 DEF TreeIInv, TreeTypes
<1>3. ChangesInStep'
  BY <1>1 DEF TreeIInv, ChangesInStep
<1>4. ASSUME ~overran'
      PROVE  Calm'
  <2>1. Calm /\ orphan' = {}
    BY <1>4 DEF TreeIInv, Calm
  <2>2. LandedInTurn'
    BY <1>1, <1>4, <2>1 DEF Calm, LandedInTurn
  <2>3. \A s \in Isolated : Sharer(s) => Sharer(s)'
    BY <1>1 DEF Sharer
  <2>4. ContentsKnown'
    BY <2>1, <2>3 DEF Calm, ContentsKnown, Explained
  <2>5. Overwritten' /\ SawAll' /\ PatchesOrdered'
    BY <2>1 DEF Calm, Overwritten, SawAll, PatchesOrdered, SawLater, WrittenOnce
  <2>6. SnapshotIsLater'
    BY <1>1, <2>1 DEF Calm, SnapshotIsLater, SawLater, WrittenOnce
  <2>7. PatchIsLater'
    BY <1>1, <1>4, <2>1 DEF Calm, PatchIsLater, SawLater, WrittenOnce
  <2> QED BY <2>1, <2>2, <2>4, <2>5, <2>6, <2>7 DEF Calm
<1> QED BY <1>2, <1>3, <1>4 DEF TreeIInv

\* The lock is taken, and the snapshot begins.
LEMMA BeginSnapshotKeeps ==
  ASSUME TreeIInv, NEW t \in Isolated, BeginSnapshot(t)
  PROVE  TreeIInv'
<1>1. /\ phase[t] = "new" /\ turnOf = "nobody" /\ turnOf' = t
      /\ phase' = [phase EXCEPT ![t] = "snapshot"] /\ phase \in [Isolated -> Phase]
      /\ UNCHANGED <<workspace, origin, changed, landed, orphan, overran, keystrokes>>
  BY DEF BeginSnapshot, TreeIInv, TreeTypes
<1>2. LockInStep'
  BY <1>1, IsolationAssumption DEF TreeIInv, LockInStep
<1>3. changed[t] = {} /\ landed[t] = {} /\ DOMAIN origin[t] = {} /\ ~Sharer(t)
  BY <1>1 DEF TreeIInv, ChangesInStep, Sharer
<1>4. orphan' \subseteq Isolated /\ overran' \in BOOLEAN /\ "snapshot" \in Phase
  BY <1>1 DEF TreeIInv, TreeTypes, Phase
<1> QED BY <1>1, <1>2, <1>3, <1>4, QuietStep

\* The worktree is made, or the task is left to share the workspace.
LEMMA IsolateKeeps ==
  ASSUME TreeIInv, NEW t \in Isolated, Isolate(t)
  PROVE  TreeIInv'
<1>1. /\ phase[t] = "snapshot" /\ turnOf' = "nobody" /\ phase \in [Isolated -> Phase]
      /\ UNCHANGED <<workspace, origin, changed, landed, orphan, overran, keystrokes>>
  BY DEF Isolate, TreeIInv, TreeTypes
<1>2. PICK to \in {"agent", "shared"} :
        /\ phase' = [phase EXCEPT ![t] = to]
        /\ to = "agent" => DOMAIN origin[t] = Hunk
  BY DEF Isolate
<1>3. LockInStep'
  BY <1>1, <1>2, IsolationAssumption DEF TreeIInv, LockInStep
<1>4. changed[t] = {} /\ landed[t] = {} /\ ~Sharer(t)
  BY <1>1 DEF TreeIInv, ChangesInStep, Sharer
<1>5. orphan' \subseteq Isolated /\ overran' \in BOOLEAN /\ to \in Phase
  BY <1>1 DEF TreeIInv, TreeTypes, Phase
<1> QED BY <1>1, <1>2, <1>3, <1>4, <1>5, QuietStep

\* A task that shares the workspace ends.
LEMMA SharedEndsKeeps ==
  ASSUME TreeIInv, NEW t \in Isolated, SharedEnds(t)
  PROVE  TreeIInv'
<1>1. /\ phase[t] = "shared" /\ phase \in [Isolated -> Phase]
      /\ UNCHANGED <<workspace, turnOf, origin, changed, landed, orphan, overran, keystrokes>>
  BY DEF SharedEnds, TreeIInv, TreeTypes
<1>2. PICK to \in {"done", "failed"} : phase' = [phase EXCEPT ![t] = to]
  BY DEF SharedEnds
<1>3. LockInStep'
  BY <1>1, <1>2 DEF TreeIInv, LockInStep
<1>4. changed[t] = {} /\ landed[t] = {}
  BY <1>1 DEF TreeIInv, ChangesInStep
<1>5. /\ orphan' \subseteq Isolated /\ overran' \in BOOLEAN /\ to \in Phase
      /\ turnOf' \in Isolated \cup {"nobody"}
  BY <1>1 DEF TreeIInv, TreeTypes, Phase
<1> QED BY <1>1, <1>2, <1>3, <1>4, <1>5, QuietStep

\* A task without changes is done; another takes the lock.
LEMMA BeginSettleKeeps ==
  ASSUME TreeIInv, NEW t \in Isolated, BeginSettle(t)
  PROVE  TreeIInv'
<1>1. /\ phase[t] = "settle" /\ turnOf = "nobody" /\ phase \in [Isolated -> Phase]
      /\ UNCHANGED <<workspace, origin, changed, landed, orphan, overran, keystrokes>>
  BY DEF BeginSettle, TreeIInv, TreeTypes
<1>2. PICK to \in {"done", "check"} :
        /\ phase' = [phase EXCEPT ![t] = to]
        /\ to = "done" => changed[t] = {} /\ turnOf' = turnOf
        /\ to = "check" => turnOf' = t
  BY DEF BeginSettle, LockFor
<1>3. LockInStep'
  BY <1>1, <1>2, IsolationAssumption DEF TreeIInv, LockInStep
<1>4. /\ DOMAIN origin[t] = Hunk /\ landed[t] \subseteq changed[t] /\ ~Sharer(t)
      /\ ~overran => landed[t] = {}
  BY <1>1 DEF TreeIInv, ChangesInStep, Calm, LandedInTurn, Sharer
<1>5. /\ orphan' \subseteq Isolated /\ overran' \in BOOLEAN /\ to \in Phase
      /\ turnOf' \in Isolated \cup {"nobody"}
  BY <1>1, <1>2 DEF TreeIInv, TreeTypes, Phase
<1> QED BY <1>1, <1>2, <1>3, <1>4, <1>5, QuietStep

\* A patch that applies finds what its task started from, so it saw whatever was
\* landed before.
LEMMA CheckPatchKeeps ==
  ASSUME TreeIInv, NEW t \in Isolated, CheckPatch(t)
  PROVE  TreeIInv'
<1>1. /\ phase[t] = "check" /\ phase \in [Isolated -> Phase]
      /\ UNCHANGED <<workspace, origin, changed, landed, orphan, overran, keystrokes>>
  BY DEF CheckPatch, TreeIInv, TreeTypes
<1>2. PICK to \in {"apply", "kept"} :
        /\ phase' = [phase EXCEPT ![t] = to]
        /\ to = "apply" => Applies(t) /\ turnOf' = turnOf
        /\ to = "kept" => turnOf' = "nobody"
  BY DEF CheckPatch
<1>3. LockInStep'
  BY <1>1, <1>2, IsolationAssumption DEF TreeIInv, LockInStep
<1>4. /\ DOMAIN origin[t] = Hunk /\ ~Sharer(t)
      /\ ~overran => landed[t] = {}
  BY <1>1 DEF TreeIInv, ChangesInStep, Calm, LandedInTurn, Sharer
<1>5. /\ orphan' \subseteq Isolated /\ overran' \in BOOLEAN /\ to \in Phase
      /\ turnOf' \in Isolated \cup {"nobody"}
  BY <1>1, <1>2 DEF TreeIInv, TreeTypes, Phase
<1>6. ~overran' /\ to = "apply" =>
        \A s \in Isolated \ {t} : \A u \in changed[t] \cap landed[s] : SawLater(t, s, u)
  BY <1>1, <1>2 DEF TreeIInv, Calm, Overwritten, SawLater, Applies
<1> QED BY <1>1, <1>2, <1>3, <1>4, <1>5, <1>6, QuietStep

\* The patch is landed, and the lock let go.
LEMMA SettledKeeps ==
  ASSUME TreeIInv, NEW t \in Isolated, Settled(t)
  PROVE  TreeIInv'
<1>1. /\ phase[t] = "apply" /\ phase \in [Isolated -> Phase] /\ landed[t] = changed[t]
      /\ phase' = [phase EXCEPT ![t] = "done"] /\ turnOf' = "nobody"
      /\ UNCHANGED <<workspace, origin, changed, landed, orphan, overran, keystrokes>>
  BY DEF Settled, TreeIInv, TreeTypes
<1>2. LockInStep'
  BY <1>1, IsolationAssumption DEF TreeIInv, LockInStep
<1>3. orphan' \subseteq Isolated /\ overran' \in BOOLEAN /\ "done" \in Phase
  BY <1>1 DEF TreeIInv, TreeTypes, Phase
<1> QED BY <1>1, <1>2, <1>3, QuietStep

\* The session goes, or git outlives its timeout: only an apply writes on.
LEMMA AbandonKeeps ==
  ASSUME TreeIInv, NEW t \in Isolated, Abandon(t)
  PROVE  TreeIInv'
<1>1. /\ phase[t] \notin {"new", "done", "failed", "kept", "dropped"} /\ phase \in [Isolated -> Phase]
      /\ orphan' = IF phase[t] = "apply" THEN orphan \cup {t} ELSE orphan
      /\ overran' = (overran \/ phase[t] = "apply")
      /\ turnOf' = IF turnOf = t THEN "nobody" ELSE turnOf
      /\ UNCHANGED <<workspace, origin, changed, landed, keystrokes>>
  BY DEF Abandon, TreeIInv, TreeTypes
<1>2. PICK to \in {"kept", "dropped"} :
        /\ phase' = [phase EXCEPT ![t] = to]
        /\ to = "kept" => phase[t] = "apply"
  BY DEF Abandon
<1>3. LockInStep'
  BY <1>1, <1>2, IsolationAssumption DEF TreeIInv, LockInStep
<1>4. ~overran' => ~overran /\ orphan' = orphan /\ landed[t] = {}
  BY <1>1 DEF TreeIInv, Calm, LandedInTurn
<1>5. /\ orphan' \subseteq Isolated /\ to \in Phase /\ turnOf' \in Isolated \cup {"nobody"}
  BY <1>1, <1>2 DEF TreeIInv, TreeTypes, Phase
<1>6. overran' \in BOOLEAN
  BY <1>1
<1>7. Sharer(t) => to \in {"shared", "done", "failed", "dropped"}
  BY <1>1, <1>2 DEF Sharer
<1> QED BY <1>1, <1>2, <1>3, <1>4, <1>5, <1>6, <1>7, QuietStep

\* The agent's changes are known, before any of them was landed.
LEMMA AgentEndsKeeps ==
  ASSUME TreeIInv, NEW t \in Isolated, NEW edited \in SUBSET Hunk,
         AgentEnds(t, edited)
  PROVE  TreeIInv'
<1>1. /\ phase[t] = "agent" /\ phase \in [Isolated -> Phase]
      /\ changed \in [Isolated -> SUBSET Hunk]
      /\ UNCHANGED <<workspace, turnOf, origin, landed, orphan, overran, keystrokes>>
  BY DEF AgentEnds, TreeIInv, TreeTypes
<1>2. /\ phase' \in [Isolated -> Phase] /\ phase'[t] \in {"settle", "failed"}
      /\ changed' \in [Isolated -> SUBSET Hunk]
      /\ \A s \in Isolated \ {t} : phase'[s] = phase[s] /\ changed'[s] = changed[s]
  BY <1>1 DEF AgentEnds, Phase
<1>3. changed[t] = {} /\ landed[t] = {} /\ DOMAIN origin[t] = Hunk
  BY <1>1 DEF TreeIInv, ChangesInStep
<1>4. TreeTypes' /\ LockInStep'
  BY <1>1, <1>2 DEF TreeIInv, TreeTypes, LockInStep
<1>5. ChangesInStep'
  BY <1>1, <1>2, <1>3 DEF TreeIInv, ChangesInStep
<1>6. ASSUME ~overran'
      PROVE  Calm'
  <2>1. Calm /\ orphan' = {}
    BY <1>1, <1>6 DEF TreeIInv, Calm
  <2>2. LandedInTurn'
    BY <1>1, <1>2, <1>3, <2>1 DEF Calm, LandedInTurn
  <2>3. \A s \in Isolated : Sharer(s) => Sharer(s)'
    BY <1>1, <1>2 DEF Sharer
  <2>4. ContentsKnown'
    BY <1>1, <2>1, <2>3 DEF Calm, ContentsKnown, Explained
  <2>5. Overwritten' /\ PatchesOrdered'
    BY <1>1, <2>1 DEF Calm, Overwritten, PatchesOrdered, SawLater, WrittenOnce
  <2>6. SnapshotIsLater'
    BY <1>1, <1>2, <2>1 DEF Calm, SnapshotIsLater, SawLater, WrittenOnce
  <2>7. PatchIsLater'
    BY <1>1, <1>2, <2>1 DEF Calm, PatchIsLater, SawLater, WrittenOnce
  <2>8. SawAll'
    BY <1>1, <1>2, <1>3, <2>1 DEF Calm, SawAll, SawLater, WrittenOnce
  <2> QED BY <2>1, <2>2, <2>4, <2>5, <2>6, <2>7, <2>8 DEF Calm
<1> QED BY <1>4, <1>5, <1>6 DEF TreeIInv

\* A hunk is read under the lock: whatever was landed of any patch was all landed
\* before the snapshot began.
LEMMA ReadHunkKeeps ==
  ASSUME TreeIInv, NEW t \in Isolated, NEW u \in Hunk, ReadHunk(t, u)
  PROVE  TreeIInv'
<1> DEFINE read == [v \in DOMAIN origin[t] \cup {u} |-> IF v = u THEN workspace[u] ELSE origin[t][v]]
<1>1. /\ phase[t] = "snapshot" /\ u \notin DOMAIN origin[t]
      /\ origin \in [Isolated -> Snapshot] /\ origin' = [origin EXCEPT ![t] = read]
      /\ UNCHANGED <<workspace, turnOf, phase, changed, landed, orphan, overran, keystrokes>>
  BY DEF ReadHunk, TreeIInv, TreeTypes
<1>2. /\ DOMAIN origin[t] \subseteq Hunk /\ \A v \in DOMAIN origin[t] : origin[t][v] \in HunkContent
      /\ workspace[u] \in HunkContent
  BY SnapshotFacts DEF TreeIInv, TreeTypes
<1>3. /\ DOMAIN read = DOMAIN origin[t] \cup {u} /\ read[u] = workspace[u]
      /\ \A v \in DOMAIN origin[t] : read[v] = origin[t][v]
  BY <1>1
<1>4. read \in [DOMAIN origin[t] \cup {u} -> HunkContent]
  BY <1>2
<1>5. read \in Snapshot
  <2>1. DOMAIN origin[t] \cup {u} \in SUBSET Hunk
    BY <1>2
  <2> HIDE DEF read
  <2> QED BY <1>4, <2>1 DEF Snapshot
<1> HIDE DEF read
<1>6. /\ origin' \in [Isolated -> Snapshot] /\ origin'[t] = read
      /\ \A s \in Isolated \ {t} : origin'[s] = origin[s]
  BY <1>1, <1>5
<1>7. changed[t] = {} /\ landed[t] = {} /\ ~Sharer(t)
  BY <1>1 DEF TreeIInv, ChangesInStep, Sharer
<1>8. TreeTypes' /\ LockInStep'
  BY <1>1, <1>6 DEF TreeIInv, TreeTypes, LockInStep
<1>9. ChangesInStep'
  BY <1>1, <1>6, <1>7 DEF TreeIInv, ChangesInStep
<1>10. ASSUME ~overran'
       PROVE  Calm'
  <2>1. Calm /\ orphan' = {} /\ ~overran
    BY <1>1, <1>10 DEF TreeIInv, Calm
  <2>2. LandedInTurn'
    BY <1>1, <2>1 DEF Calm, LandedInTurn
  <2>3. \A v \in Hunk : \A c : Explained(v, c)' <=> Explained(v, c)
    BY <1>1 DEF Explained, Sharer
  <2>4. Explained(u, workspace[u]) /\ workspace[u] # t
    BY <1>7, <2>1 DEF Calm, ContentsKnown, Explained
  <2>5. ContentsKnown'
    <3>1. \A v \in Hunk : Explained(v, workspace[v])'
      BY <1>1, <2>1, <2>3 DEF Calm, ContentsKnown
    <3>2. ASSUME NEW s \in Isolated, NEW v \in DOMAIN origin'[s]
          PROVE  (Explained(v, origin[s][v]) /\ origin[s][v] # s)'
      <4> DEFINE c == origin'[s][v]
      <4>1. Explained(v, origin[s][v])' <=> Explained(v, c)
        BY <1>1 DEF Explained, Sharer
      <4>2. CASE s = t /\ v = u
        BY <1>3, <1>6, <2>4, <4>1, <4>2
      <4>3. CASE s = t /\ v # u
        BY <1>3, <1>6, <2>1, <3>2, <4>1, <4>3 DEF Calm, ContentsKnown
      <4>4. CASE s # t
        BY <1>6, <2>1, <3>2, <4>1, <4>4 DEF Calm, ContentsKnown
      <4> QED BY <4>2, <4>3, <4>4
    <3> QED BY <3>1, <3>2 DEF ContentsKnown
  <2>6. \A s \in Isolated : landed[s] # {} => s # t /\ phase[s] = "done" /\ landed[s] = changed[s]
    BY <1>1, <1>7, <2>1 DEF TreeIInv, LockInStep, Calm, LandedInTurn
  <2>7. \A s \in Isolated : \A v \in landed[s] : WrittenOnce(v, origin[s][v])' <=> WrittenOnce(v, origin[s][v])
    BY <1>1, <1>6, <2>6 DEF WrittenOnce
  <2>8. Overwritten'
    BY <1>1, <1>6, <1>7, <2>1, <2>7 DEF Calm, Overwritten
  <2>9. PatchesOrdered' /\ PatchIsLater'
    BY <1>1, <1>6, <1>7, <2>1, <2>7 DEF Calm, PatchesOrdered, PatchIsLater, SawLater
  <2>10. ASSUME NEW s \in Isolated, NEW v \in DOMAIN read \cap landed[s]
         PROVE  SawLater(t, s, v)'
    <3>1. s # t /\ origin'[s] = origin[s]
      BY <1>6, <2>6, <2>10
    <3>2. CASE v = u
      BY <1>3, <1>6, <2>1, <2>7, <2>10, <3>1, <3>2 DEF SawLater, Calm, Overwritten
    <3>3. CASE v # u
      BY <1>1, <1>3, <1>6, <2>1, <2>7, <2>10, <3>1, <3>3 DEF SawLater, Calm, SnapshotIsLater
    <3> QED BY <3>2, <3>3
  <2>11. SnapshotIsLater'
    <3> SUFFICES ASSUME NEW r \in Isolated, NEW s \in Isolated,
                        NEW v \in DOMAIN origin'[r] \cap landed'[s], phase'[r] = "snapshot"
                 PROVE  SawLater(r, s, v)'
      BY DEF SnapshotIsLater
    <3>1. r = t
      BY <1>1 DEF TreeIInv, LockInStep
    <3> QED BY <1>1, <1>6, <2>10, <3>1
  <2>12. SawAll'
    <3> SUFFICES ASSUME NEW r \in Isolated, NEW s \in Isolated,
                        NEW v \in DOMAIN origin'[r] \cap landed'[s], origin'[r][v] = s,
                        NEW w \in changed'[s] \cap DOMAIN origin'[r]
                 PROVE  SawLater(r, s, w)'
      BY DEF SawAll
    <3>1. s # t /\ origin'[s] = origin[s] /\ landed[s] = changed[s] /\ w \in landed[s] /\ v \in landed[s]
      BY <1>1, <1>6, <2>6
    <3>2. CASE r = t
      BY <1>6, <2>10, <3>1, <3>2
    <3>3. CASE r # t
      <4>1. origin'[r] = origin[r] /\ SawLater(r, s, w)
        BY <1>1, <1>6, <2>1, <3>1, <3>3 DEF Calm, SawAll
      <4> QED BY <1>6, <2>7, <3>1, <4>1 DEF SawLater
    <3> QED BY <3>2, <3>3
  <2> QED BY <2>1, <2>2, <2>5, <2>8, <2>9, <2>11, <2>12 DEF Calm
<1> QED BY <1>8, <1>9, <1>10 DEF TreeIInv

\* A step that writes a hunk of the workspace and lands nothing: what it writes was
\* not found there by a task that has patched the hunk, unless a sharing task may
\* write it again.
LEMMA WorkspaceWritten ==
  ASSUME TreeIInv, NEW u \in Hunk, NEW c \in HunkContent,
         workspace' = [workspace EXCEPT ![u] = c],
         UNCHANGED <<turnOf, phase, origin, changed, landed, orphan, overran>>,
         keystrokes' \in 0..MaxKeystrokes, keystrokes <= keystrokes',
         ~overran => Explained(u, c)',
         ~overran => \A t \in Isolated : u \in landed[t] /\ WrittenOnce(u, origin[t][u]) => origin[t][u] # c
  PROVE  TreeIInv'
<1>1. /\ workspace' \in [Hunk -> HunkContent] /\ workspace'[u] = c
      /\ \A v \in Hunk \ {u} : workspace'[v] = workspace[v]
  BY DEF TreeIInv, TreeTypes
<1>2. TreeTypes' /\ LockInStep' /\ ChangesInStep'
  BY <1>1 DEF TreeIInv, TreeTypes, LockInStep, ChangesInStep
<1>3. ASSUME ~overran'
      PROVE  Calm'
  <2>1. Calm /\ orphan' = {} /\ ~overran
    BY <1>3 DEF TreeIInv, Calm
  <2>2. LandedInTurn' /\ SnapshotIsLater' /\ PatchIsLater' /\ SawAll' /\ PatchesOrdered'
    BY <2>1
       DEF Calm, LandedInTurn, SnapshotIsLater, PatchIsLater, SawAll, PatchesOrdered, SawLater,
       WrittenOnce
  <2>3. \A v : \A d : Explained(v, d) => Explained(v, d)'
    BY IsolationAssumption DEF Explained, Sharer, TreeIInv, TreeTypes
  <2>4. \A v \in Hunk : Explained(v, workspace[v])'
    <3> SUFFICES ASSUME NEW v \in Hunk PROVE Explained(v, workspace[v])'
      OBVIOUS
    <3>1. CASE v = u
      BY <1>1, <2>1, <3>1 DEF Explained
    <3>2. CASE v # u
      <4>1. Explained(v, workspace[v])
        BY <2>1 DEF Calm, ContentsKnown
      <4>2. workspace'[v] = workspace[v]
        BY <1>1, <3>2
      <4> QED BY <4>1, <4>2, IsolationAssumption DEF Explained, Sharer, TreeIInv, TreeTypes
    <3> QED BY <3>1, <3>2
  <2>5. ContentsKnown'
    BY <2>1, <2>3, <2>4 DEF Calm, ContentsKnown, Explained
  <2>6. Overwritten'
    <3> SUFFICES ASSUME NEW t \in Isolated, NEW v \in landed[t], WrittenOnce(v, origin[t][v])
                 PROVE  workspace'[v] # origin[t][v]
      BY DEF Overwritten, WrittenOnce
    <3>1. v \in Hunk
      BY DEF TreeIInv, TreeTypes
    <3> QED BY <1>1, <2>1, <3>1 DEF Calm, Overwritten
  <2> QED BY <2>1, <2>2, <2>5, <2>6 DEF Calm
<1> QED BY <1>2, <1>3 DEF TreeIInv

\* A sharing task has no patch, so what it writes may be written again.
LEMMA SharedEditKeeps ==
  ASSUME TreeIInv, NEW t \in Isolated, NEW u \in Hunk, SharedEdit(t, u)
  PROVE  TreeIInv'
<1>1. /\ phase[t] = "shared" /\ workspace' = [workspace EXCEPT ![u] = t]
      /\ UNCHANGED <<turnOf, phase, origin, changed, landed, orphan, overran, keystrokes>>
  BY DEF SharedEdit
<1>2. changed[t] = {} /\ landed[t] = {}
  BY <1>1 DEF TreeIInv, ChangesInStep
<1>3. t \in HunkContent /\ t \notin Nat /\ keystrokes' \in 0..MaxKeystrokes /\ keystrokes <= keystrokes'
  BY <1>1, IsolationAssumption DEF HunkContent, TreeIInv, TreeTypes
<1>4. Explained(u, t)'
  BY <1>1, <1>2, <1>3 DEF Explained, Sharer
<1>5. \A s \in Isolated : u \in landed[s] /\ WrittenOnce(u, origin[s][u]) => origin[s][u] # t
  BY <1>2 DEF WrittenOnce
<1> QED BY <1>1, <1>3, <1>4, <1>5, WorkspaceWritten

\* The user's edit is a number nobody has read yet.
LEMMA UserTypesKeeps ==
  ASSUME TreeIInv, NEW u \in Hunk, UserTypes(u)
  PROVE  TreeIInv'
<1>1. keystrokes \in 0..MaxKeystrokes /\ MaxKeystrokes \in Nat /\ keystrokes < MaxKeystrokes
  BY IsolationAssumption DEF UserTypes, TreeIInv, TreeTypes
<1>2. PICK k \in 0..MaxKeystrokes : k = keystrokes + 1
  BY <1>1
<1>3. /\ keystrokes' = k /\ workspace' = [workspace EXCEPT ![u] = k]
      /\ UNCHANGED <<turnOf, phase, origin, changed, landed, orphan, overran>>
  BY <1>2 DEF UserTypes
<1>4. /\ k \in HunkContent /\ k \notin Isolated /\ k \in Nat
      /\ keystrokes <= k /\ ~(k <= keystrokes)
  BY <1>1, <1>2, IsolationAssumption DEF HunkContent
<1>5. Explained(u, k)'
  BY <1>1, <1>3, <1>4 DEF Explained
<1>6. ASSUME ~overran, NEW t \in Isolated, u \in landed[t]
      PROVE  origin[t][u] # k
  <2>1. DOMAIN origin[t] = Hunk
    BY <1>6 DEF TreeIInv, ChangesInStep
  <2>2. Explained(u, origin[t][u])
    BY <1>6, <2>1 DEF TreeIInv, Calm, ContentsKnown
  <2> QED BY <1>4, <2>2 DEF Explained
<1> QED BY <1>2, <1>3, <1>4, <1>5, <1>6, WorkspaceWritten

\* A hunk of a patch is landed: nobody has read it before, and nobody else lands
\* anything meanwhile.
LEMMA WriteHunkKeeps ==
  ASSUME TreeIInv, NEW t \in Isolated, NEW u \in Hunk, WriteHunk(t, u)
  PROVE  TreeIInv'
<1>1. /\ phase[t] = "apply" \/ t \in orphan
      /\ u \in changed[t] \ landed[t]
      /\ workspace' = [workspace EXCEPT ![u] = t]
      /\ landed' = [landed EXCEPT ![t] = landed[t] \cup {u}]
      /\ UNCHANGED <<turnOf, phase, origin, changed, orphan, overran, keystrokes>>
  BY DEF WriteHunk
<1>2. t \in HunkContent /\ t \notin Nat
  BY IsolationAssumption DEF HunkContent
<1>3. /\ workspace' \in [Hunk -> HunkContent] /\ workspace'[u] = t
      /\ \A v \in Hunk \ {u} : workspace'[v] = workspace[v]
  BY <1>1, <1>2 DEF TreeIInv, TreeTypes
<1>4. /\ landed' \in [Isolated -> SUBSET Hunk] /\ landed'[t] = landed[t] \cup {u}
      /\ \A s \in Isolated \ {t} : landed'[s] = landed[s]
  BY <1>1 DEF TreeIInv, TreeTypes
<1>5. TreeTypes' /\ LockInStep'
  BY <1>1, <1>3, <1>4 DEF TreeIInv, TreeTypes, LockInStep
<1>6. ChangesInStep'
  BY <1>1, <1>4 DEF TreeIInv, ChangesInStep
<1>7. ASSUME ~overran'
      PROVE  Calm'
  <2>1. Calm /\ orphan' = {} /\ phase[t] = "apply"
    BY <1>1, <1>7 DEF TreeIInv, Calm
  <2>2. /\ ~Sharer(t) /\ ~Explained(u, t) /\ DOMAIN origin[t] = Hunk
        /\ \A s \in Isolated : \A v \in landed'[s] : v \in DOMAIN origin[s] /\ v \in Hunk
    BY <1>1, <1>2, <1>4, <1>5, <1>6, <2>1
       DEF Sharer, Explained, TreeIInv, ChangesInStep, TreeTypes
  <2>3. \A s \in Isolated : u \in DOMAIN origin[s] => origin[s][u] # t
    BY <2>1, <2>2 DEF Calm, ContentsKnown
  <2>4. \A s \in Isolated : \A v \in DOMAIN origin[s] :
          WrittenOnce(v, origin[s][v])' => WrittenOnce(v, origin[s][v])
    BY <1>1, <1>4, <2>3 DEF WrittenOnce
  <2>5. \A s \in Isolated : phase[s] \in {"snapshot", "apply"} => s = t
    BY <2>1 DEF TreeIInv, LockInStep
  <2>6. LandedInTurn'
    BY <1>1, <1>4, <2>1 DEF Calm, LandedInTurn
  <2>7. \A v : \A c \in HunkContent : Explained(v, c) => Explained(v, c)'
    BY <1>1, <1>4 DEF Explained, Sharer
  <2>8. ContentsKnown'
    <3>1. \A v \in Hunk : Explained(v, workspace[v])'
      <4> SUFFICES ASSUME NEW v \in Hunk PROVE Explained(v, workspace[v])'
        OBVIOUS
      <4>1. CASE v = u
        BY <1>2, <1>3, <1>4, <4>1 DEF Explained
      <4>2. CASE v # u
        <5>1. Explained(v, workspace[v]) /\ workspace'[v] = workspace[v]
          BY <1>3, <2>1, <4>2 DEF Calm, ContentsKnown
        <5> QED BY <1>1, <1>4, <5>1 DEF Explained, Sharer
      <4> QED BY <4>1, <4>2
    <3>2. ASSUME NEW s \in Isolated, NEW v \in DOMAIN origin[s]
          PROVE  Explained(v, origin[s][v])' /\ origin[s][v] # s
      <4>1. Explained(v, origin[s][v]) /\ origin[s][v] # s
        BY <2>1 DEF Calm, ContentsKnown
      <4> QED BY <1>1, <1>4, <4>1 DEF Explained, Sharer
    <3> QED BY <1>1, <3>1, <3>2 DEF ContentsKnown
  <2>9. Overwritten'
    <3> SUFFICES ASSUME NEW s \in Isolated, NEW v \in landed'[s], WrittenOnce(v, origin[s][v])'
                 PROVE  workspace'[v] # origin[s][v]
      BY <1>1 DEF Overwritten
    <3>1. CASE v = u
      BY <1>3, <2>2, <2>3, <3>1
    <3>2. CASE v # u
      <4>1. v \in landed[s] /\ WrittenOnce(v, origin[s][v]) /\ workspace'[v] = workspace[v]
        BY <1>3, <1>4, <2>2, <2>4, <3>2
      <4> QED BY <2>1, <4>1 DEF Calm, Overwritten
    <3> QED BY <3>1, <3>2
  <2>10. SnapshotIsLater'
    BY <1>1, <2>1, <2>5 DEF SnapshotIsLater
  <2>11. PatchIsLater'
    <3> SUFFICES ASSUME NEW r \in Isolated, NEW s \in Isolated \ {r},
                        NEW v \in changed[r] \cap landed'[s], phase[r] = "apply"
                 PROVE  SawLater(r, s, v)'
      BY <1>1 DEF PatchIsLater
    <3>1. r = t /\ v \in landed[s]
      BY <1>4, <2>5
    <3>2. SawLater(r, s, v)
      BY <2>1, <3>1 DEF Calm, PatchIsLater
    <3> QED BY <1>1, <2>2, <2>4, <3>2 DEF SawLater
  <2>12. SawAll'
    <3> SUFFICES ASSUME NEW r \in Isolated, NEW s \in Isolated,
                        NEW v \in DOMAIN origin[r] \cap landed'[s], origin[r][v] = s,
                        NEW w \in changed[s] \cap DOMAIN origin[r]
                 PROVE  SawLater(r, s, w)'
      BY <1>1 DEF SawAll
    <3>1. v \in landed[s]
      BY <1>4, <2>3
    <3>2. SawLater(r, s, w) /\ w \in DOMAIN origin[s]
      BY <2>1, <3>1 DEF Calm, SawAll, TreeIInv, ChangesInStep, TreeTypes
    <3> QED BY <1>1, <2>4, <3>2 DEF SawLater
  <2>13. PatchesOrdered'
    <3> SUFFICES ASSUME NEW r \in Isolated, NEW s \in Isolated \ {r},
                        NEW v \in landed'[r] \cap landed'[s]
                 PROVE  SawLater(r, s, v)'
      BY DEF PatchesOrdered
    <3>1. CASE v \in landed[r] /\ v \in landed[s]
      <4>1. SawLater(r, s, v)
        BY <2>1, <3>1 DEF Calm, PatchesOrdered
      <4> QED BY <1>1, <2>2, <2>4, <4>1 DEF SawLater
    <3>2. CASE r = t /\ v = u /\ v \in landed[s]
      <4>1. SawLater(r, s, v)
        BY <1>1, <2>1, <3>2 DEF Calm, PatchIsLater
      <4> QED BY <1>1, <2>2, <2>4, <4>1 DEF SawLater
    <3>3. CASE s = t /\ v = u /\ v \in landed[r]
      <4>1. SawLater(s, r, v)
        BY <1>1, <2>1, <3>3 DEF Calm, PatchIsLater
      <4>2. origin[r][v] = origin[s][v] => ~WrittenOnce(v, origin[s][v])
        BY <4>1 DEF SawLater
      <4> QED BY <1>1, <2>2, <2>4, <4>2 DEF SawLater
    <3> QED BY <1>4, <3>1, <3>2, <3>3
  <2> QED BY <2>1, <2>6, <2>8, <2>9, <2>10, <2>11, <2>12, <2>13 DEF Calm
<1> QED BY <1>5, <1>6, <1>7 DEF TreeIInv

\* Before the first task nothing was read, changed or landed.
LEMMA TreeInit ==
  ASSUME WorktreeInit
  PROVE  TreeIInv
<1>1. /\ workspace = [u \in Hunk |-> 0] /\ turnOf = "nobody" /\ phase = [t \in Isolated |-> "new"]
      /\ origin = [t \in Isolated |-> <<>>] /\ changed = [t \in Isolated |-> {}]
      /\ landed = [t \in Isolated |-> {}] /\ orphan = {} /\ overran = FALSE /\ keystrokes = 0
  BY DEF WorktreeInit
<1>2. 0 \in 0..MaxKeystrokes /\ 0 \in HunkContent
  BY IsolationAssumption DEF HunkContent
<1>3. <<>> \in Snapshot /\ DOMAIN <<>> = {}
  <2>1. <<>> \in [{} -> HunkContent]
    OBVIOUS
  <2> QED BY <2>1 DEF Snapshot
<1>4. TreeTypes
  <2>1. workspace \in [Hunk -> HunkContent] /\ keystrokes \in 0..MaxKeystrokes
    BY <1>1, <1>2
  <2>2. origin \in [Isolated -> Snapshot]
    BY <1>1, <1>3
  <2> QED BY <1>1, <2>1, <2>2 DEF TreeTypes, Phase
<1>5. LockInStep /\ ChangesInStep
  BY <1>1, <1>3, IsolationAssumption DEF LockInStep, ChangesInStep
<1>6. \A t \in Isolated : phase[t] = "new" /\ landed[t] = {} /\ changed[t] = {} /\ DOMAIN origin[t] = {}
  BY <1>1, <1>3
<1>7. ContentsKnown
  BY <1>1, <1>6, IsolationAssumption DEF ContentsKnown, Explained
<1>8. Calm
  BY <1>1, <1>6, <1>7 DEF Calm, LandedInTurn, Overwritten, SnapshotIsLater, PatchIsLater, SawAll,
     PatchesOrdered
<1> QED BY <1>4, <1>5, <1>8 DEF TreeIInv

\* Every step of a task, of its agent, of git and of the user keeps it.
LEMMA TreeNext ==
  ASSUME TreeIInv, [WorktreeNext]_worktreeVars
  PROVE  TreeIInv'
<1>1. ASSUME NEW t \in Isolated,
             \/ BeginSnapshot(t) \/ Isolate(t) \/ SharedEnds(t) \/ BeginSettle(t) \/ CheckPatch(t)
             \/ Settled(t) \/ Abandon(t)
      PROVE  TreeIInv'
  BY <1>1, BeginSnapshotKeeps, IsolateKeeps, SharedEndsKeeps, BeginSettleKeeps, CheckPatchKeeps,
     SettledKeeps, AbandonKeeps
<1>2. ASSUME NEW t \in Isolated, NEW u \in Hunk,
             ReadHunk(t, u) \/ SharedEdit(t, u) \/ WriteHunk(t, u)
      PROVE  TreeIInv'
  BY <1>2, ReadHunkKeeps, SharedEditKeeps, WriteHunkKeeps
<1>3. ASSUME NEW t \in Isolated, NEW edited \in SUBSET Hunk, AgentEnds(t, edited)
      PROVE  TreeIInv'
  BY <1>3, AgentEndsKeeps
<1>4. ASSUME NEW u \in Hunk, UserTypes(u)
      PROVE  TreeIInv'
  BY <1>4, UserTypesKeeps
<1>5. CASE UNCHANGED worktreeVars
  BY <1>5 DEF worktreeVars, TreeIInv, TreeTypes, LockInStep, ChangesInStep, Calm, LandedInTurn,
     ContentsKnown, Explained, Sharer, Overwritten, SnapshotIsLater, PatchIsLater, SawAll,
     PatchesOrdered, SawLater, WrittenOnce
<1> QED BY <1>1, <1>2, <1>3, <1>4, <1>5 DEF WorktreeNext

\* The invariant of isolated tasks: the lock is held through snapshots and applies
\* and, while every git is waited for, contents are written once, patches follow
\* what they saw, and no snapshot is taken between two writes of a patch.
THEOREM WorktreeInvariance ==
  WorktreeSpec => []TreeIInv
<1>1. WorktreeInit => TreeIInv
  BY TreeInit
<1>2. TreeIInv /\ [WorktreeNext]_worktreeVars => TreeIInv'
  BY TreeNext
<1> QED BY <1>1, <1>2, PTL DEF WorktreeSpec

\* The types of the worktrees' state.
THEOREM WorktreeTypeCorrect ==
  WorktreeSpec => []WorktreeTypeOK
<1>1. TreeIInv => WorktreeTypeOK
  <2> SUFFICES ASSUME TreeIInv PROVE WorktreeTypeOK
    OBVIOUS
  <2>1. \A t \in Isolated : \A u \in DOMAIN origin[t] : u \in Hunk /\ origin[t][u] \in HunkContent
    BY SnapshotFacts DEF TreeIInv
  <2>2. phase \in [Isolated -> {"new", "snapshot", "agent", "shared", "settle", "check", "apply",
                               "done", "failed", "kept", "dropped"}]
    BY DEF TreeIInv, TreeTypes, Phase
  <2> QED BY <2>1, <2>2 DEF TreeIInv, TreeTypes, WorktreeTypeOK
<1> QED BY <1>1, WorktreeInvariance, PTL

\* isolate and settle_isolated of executor.rs, apply_worktree of git.rs: as long as
\* every git was waited for, snapshots hold all or nothing of a patch, a patch
\* lands whole or not at all, and no landed work is undone by a task that had not
\* seen it, for any number of tasks, hunks and edits of the user.
THEOREM IsolationIsKept ==
  WorktreeSpec => []IsolationHolds
<1>1. TreeIInv => IsolationHolds
  <2> SUFFICES ASSUME TreeIInv, ~overran PROVE SnapshotsAreWhole /\ LandedWorkStays
    BY DEF IsolationHolds, SnapshotsAreWhole, LandedWorkStays
  <2>1. Calm
    BY DEF TreeIInv
  <2>2. SnapshotsAreWhole
    <3> SUFFICES ASSUME NEW t \in Isolated, NEW s \in Isolated, DOMAIN origin[t] = Hunk,
                        NEW v \in landed[s], origin[t][v] = s,
                        NEW u \in changed[s], WrittenOnce(u, origin[s][u])
                 PROVE  origin[t][u] # origin[s][u]
      BY DEF SnapshotsAreWhole
    <3>1. v \in Hunk /\ u \in Hunk
      BY DEF TreeIInv, TreeTypes
    <3>2. SawLater(t, s, u)
      BY <2>1, <3>1 DEF Calm, SawAll
    <3> QED BY <3>2 DEF SawLater
  <2>3. LandedWorkStays
    <3> SUFFICES ASSUME NEW t \in Isolated
                 PROVE  /\ phase[t] = "done" => landed[t] = changed[t]
                        /\ phase[t] = "kept" => landed[t] = {}
                        /\ \A s \in Isolated \ {t} : \A u \in landed[t] \cap landed[s] :
                             WrittenOnce(u, origin[t][u]) => origin[s][u] # origin[t][u]
      BY DEF LandedWorkStays
    <3>1. /\ phase[t] = "done" => landed[t] = changed[t]
          /\ phase[t] = "kept" => landed[t] = {}
      BY <2>1 DEF Calm, LandedInTurn
    <3>2. \A s \in Isolated \ {t} : \A u \in landed[t] \cap landed[s] : SawLater(s, t, u)
      BY <2>1 DEF Calm, PatchesOrdered
    <3> QED BY <3>1, <3>2 DEF SawLater
  <2> QED BY <2>2, <2>3
<1> QED BY <1>1, WorktreeInvariance, PTL

-----------------------------------------------------------------------------
(* Skills.                                                                 *)

SkillJob == [pc : {"idle", "replace", "place", "record", "save"}, package : Packages,
             enabled : BOOLEAN, asked : BOOLEAN]

SkillTypes ==
  /\ offered \in Offers /\ files \in Packages /\ published \in 0..MaxPublished
  /\ lockfile \in Record /\ memory \in [Process -> Record] /\ guide \in [Process -> Packages]
  /\ task \in [Process -> SkillJob] /\ approved \in 0..Untrusted /\ torn \in BOOLEAN

\* What validation let in and agents can be guided by has earned some trust.
Decent(pkg) == HasInstructions(pkg) => TrustOf(pkg) <= Community

\* The files earned the trust a record speaks of, which was approved if it is enabled.
Earned(record) ==
  /\ HasInstructions(files) => TrustOf(files) <= record.trust
  /\ record.enabled => record.trust <= approved

\* What an operation under way has in hand and in place, whatever happened before.
JobTold(p) ==
  /\ task[p].pc = "idle" => ~task[p].asked
  /\ task[p].pc \in {"replace", "place", "record"} =>
       task[p].package \in Offers \cup {Generated} /\ Decent(task[p].package)
  /\ task[p].pc = "place" => HasFiles(task[p].package)
  /\ task[p].pc = "record" /\ HasFiles(task[p].package) => files = task[p].package
  /\ task[p].pc = "save" /\ task[p].asked => Earned(memory[p])

\* With every change told to installed.json: before an operation has moved files,
\* the records in memory and on disk are kept and so is what is served; what is
\* about to be saved is kept; and an update that stays enabled was approved.
InStep(p) ==
  /\ task[p].pc \in {"idle", "replace", "place"} =>
       /\ Earned(memory[p]) /\ Earned(lockfile)
       /\ guide[p] # NoPackage => TrustOf(guide[p]) <= approved
  /\ task[p].pc = "save" => Earned(memory[p])
  /\ task[p].pc \in {"replace", "place", "record"} /\ task[p].enabled /\ ~task[p].asked =>
       TrustOf(task[p].package) <= approved

SkillIInv ==
  /\ SkillTypes /\ Decent(files)
  /\ \A p \in Process : JobTold(p) /\ (~torn => InStep(p))

\* Every package has a level of trust; no package, and one of CUMA's own making,
\* has the least; neither of them holds instructions.
LEMMA TrustFacts ==
  /\ \A pkg : TrustOf(pkg) \in Trusted..Untrusted
  /\ TrustOf(NoPackage) = Untrusted /\ TrustOf(Generated) = Untrusted
  /\ NoPackage \in Packages /\ Generated \in Packages
  /\ ~HasInstructions(NoPackage) /\ ~HasInstructions(Generated)
  /\ HasFiles(Generated)
<1>1. \A pkg : TrustOf(pkg) \in Trusted..Untrusted
  BY DEF TrustOf, Trusted, Verified, Community, Untrusted
<1>2. TrustOf(NoPackage) = Untrusted
  BY DEF TrustOf, NoPackage, IsLocal, IsSecure
<1>3. TrustOf(Generated) = Untrusted
  BY DEF TrustOf, Generated
<1>4. ~HasInstructions(NoPackage) /\ ~HasInstructions(Generated)
  BY DEF HasInstructions, Generated
<1>5. HasFiles(Generated)
  BY DEF HasFiles, Generated
<1> QED BY <1>1, <1>2, <1>3, <1>4, <1>5 DEF Packages

\* Trust is a number, and nothing is less trusted than Untrusted.
LEMMA TrustIsNumber ==
  /\ \A pkg : TrustOf(pkg) \in Nat /\ TrustOf(pkg) <= Untrusted
  /\ Community \in Nat /\ Untrusted \in Nat /\ Community <= Untrusted
  BY TrustFacts DEF Trusted, Untrusted, Community

\* What validation lets in is decent, and a manifest alone is worth Community.
LEMMA OfferFacts ==
  ASSUME SkillAssumption, NEW pkg \in Offers
  PROVE  /\ Installable(pkg) => Decent(pkg)
         /\ ~HasFiles(pkg) => TrustOf(pkg) = Community
<1>1. Installable(pkg) => Decent(pkg)
  BY DEF Installable, Decent, HasInstructions, TrustOf, IsSecure, Trusted, Verified, Community
<1>2. ~HasFiles(pkg) => TrustOf(pkg) = Community
  <2> SUFFICES ASSUME ~HasFiles(pkg) PROVE TrustOf(pkg) = Community
    OBVIOUS
  <2>1. pkg.origin = "file" /\ pkg.signature = "Absent" /\ pkg.published = "none"
    BY DEF SkillAssumption
  <2> QED BY <2>1 DEF TrustOf, IsLocal, IsSecure
<1> QED BY <1>1, <1>2

\* The records that stand for nothing have their types.
LEMMA NothingTyped ==
  /\ NoRecord \in Record /\ NoRecord.trust = Untrusted /\ NoRecord.enabled = FALSE
  /\ NoJob \in SkillJob /\ NoJob.pc = "idle" /\ NoJob.asked = FALSE
<1>1. NoPackage \in Packages
  BY DEF Packages
<1>2. Untrusted \in Trusted..Untrusted
  BY DEF Trusted, Untrusted
<1>3. NoRecord \in Record
  BY <1>1, <1>2 DEF NoRecord, Record
<1>4. NoJob \in SkillJob
  BY <1>1 DEF NoJob, SkillJob
<1> QED BY <1>3, <1>4 DEF NoRecord, NoJob

\* A record that stands for nothing is kept, whatever the files are.
LEMMA NothingKept ==
  ASSUME NEW record, record.trust = Untrusted, record.enabled = FALSE
  PROVE  Earned(record)
  BY TrustIsNumber DEF Earned

\* The registry offers something else.
LEMMA PublishKeeps ==
  ASSUME SkillAssumption, SkillIInv, RegistryPublishes
  PROVE  SkillIInv'
<1>1. /\ offered' \in Offers /\ published < MaxPublished /\ published' = published + 1
      /\ UNCHANGED <<files, lockfile, memory, guide, task, approved, torn>>
  BY DEF RegistryPublishes
<1>2. published' \in 0..MaxPublished
  BY <1>1 DEF SkillAssumption, SkillIInv, SkillTypes
<1>3. SkillTypes'
  BY <1>1, <1>2 DEF SkillIInv, SkillTypes
<1>4. ASSUME NEW p \in Process
      PROVE  (JobTold(p) => JobTold(p)') /\ (InStep(p) => InStep(p)')
  BY <1>1 DEF JobTold, InStep, Earned
<1>5. Decent(files)'
  BY <1>1 DEF SkillIInv
<1> QED BY <1>1, <1>3, <1>4, <1>5 DEF SkillIInv

\* An install, an update or a generated skill is begun.
LEMMA BeginKeeps ==
  ASSUME SkillAssumption, SkillIInv, NEW p \in Process,
         Install(p) \/ Satisfy(p) \/ InstallGenerated(p) \/ Update(p)
  PROVE  SkillIInv'
<1>1. /\ task[p].pc = "idle" /\ task \in [Process -> SkillJob] /\ memory[p] \in Record
      /\ UNCHANGED <<offered, published, files, lockfile, memory, guide, approved, torn>>
  BY DEF Install, Satisfy, InstallGenerated, Update, SkillIInv, SkillTypes
<1>2. offered \in Offers /\ (Installable(offered) => Decent(offered)) /\ Decent(Generated)
  BY OfferFacts, TrustFacts DEF SkillIInv, SkillTypes, Decent
<1>3. PICK pkg \in Offers \cup {Generated}, enabled \in BOOLEAN, byHand \in BOOLEAN :
        /\ Begin(p, pkg, enabled, byHand) /\ Decent(pkg)
        /\ enabled /\ ~byHand => memory[p].enabled /\ TrustOf(pkg) <= memory[p].trust
  <2>1. CASE Install(p)
    <3>1. (TrustOf(offered) # Untrusted) \in BOOLEAN
      OBVIOUS
    <3> QED BY <1>2, <2>1, <3>1 DEF Install
  <2>2. CASE Satisfy(p)
    BY <1>2, <2>2 DEF Satisfy
  <2>3. CASE InstallGenerated(p)
    BY <1>2, <2>3 DEF InstallGenerated
  <2>4. CASE Update(p)
    <3> DEFINE may == UpdateEnabled(memory[p], offered)
    <3>1. memory[p].enabled \in BOOLEAN
      BY <1>1 DEF Record
    <3>2. may \in BOOLEAN
      BY <3>1 DEF UpdateEnabled
    <3>3. may => memory[p].enabled /\ TrustOf(offered) <= memory[p].trust
      BY DEF UpdateEnabled
    <3>4. Begin(p, offered, may, FALSE) /\ Decent(offered)
      BY <1>2, <2>4 DEF Update
    <3> HIDE DEF may
    <3> QED BY <1>2, <3>2, <3>3, <3>4
  <2> QED BY <2>1, <2>2, <2>3, <2>4
<1>4. PICK e \in SkillJob :
        /\ e = [pc |-> "replace", package |-> pkg, enabled |-> enabled, asked |-> byHand]
        /\ task' = [task EXCEPT ![p] = e]
  BY <1>3 DEF Begin, SkillJob, Packages
<1>5. e.pc = "replace" /\ e.package = pkg /\ e.enabled = enabled /\ e.asked = byHand
  BY <1>4
<1>6. /\ task' \in [Process -> SkillJob] /\ task'[p] = e
      /\ \A q \in Process : q = p
  BY <1>1, <1>4 DEF SkillAssumption
<1>7. SkillTypes' /\ Decent(files)'
  BY <1>1, <1>6 DEF SkillIInv, SkillTypes
<1>8. JobTold(p)'
  BY <1>3, <1>5, <1>6 DEF JobTold
<1>9. ASSUME ~torn'
      PROVE  InStep(p)'
  <2>1. /\ Earned(memory[p]) /\ Earned(lockfile)
        /\ guide[p] # NoPackage => TrustOf(guide[p]) <= approved
    BY <1>1, <1>9 DEF SkillIInv, InStep
  <2>2. Earned(memory[p])' /\ Earned(lockfile)'
    BY <1>1, <2>1 DEF Earned
  <2>3. enabled /\ ~byHand => TrustOf(pkg) <= approved
    <3>1. TrustOf(pkg) \in Nat /\ memory[p].trust \in Nat /\ approved \in Nat
      BY <1>1, TrustIsNumber DEF SkillIInv, SkillTypes, Record, Trusted, Untrusted
    <3> QED BY <1>3, <2>1, <3>1 DEF Earned
  <2> QED BY <1>1, <1>5, <1>6, <2>1, <2>2, <2>3 DEF InStep
<1> QED BY <1>6, <1>7, <1>8, <1>9 DEF SkillIInv

\* A step of commit up to the record: files go or come, or the disk refuses.
LEMMA MoveKeeps ==
  ASSUME SkillAssumption, SkillIInv, NEW p \in Process, NEW e \in SkillJob,
         task[p].pc \in {"replace", "place"}, task' = [task EXCEPT ![p] = e],
         \/ /\ e.pc \in {"place", "record"} /\ e.package = task[p].package
            /\ e.enabled = task[p].enabled /\ e.asked = task[p].asked
         \/ e = NoJob,
         e.pc = "place" => HasFiles(task[p].package),
         e.pc # "record" => files' \in {files, NoPackage},
         e.pc = "record" => files' = IF HasFiles(task[p].package) THEN task[p].package ELSE files,
         UNCHANGED <<offered, published, lockfile, memory, guide, approved, torn>>
  PROVE  SkillIInv'
<1>1. /\ task \in [Process -> SkillJob] /\ task[p] \in SkillJob /\ task[p].package \in Packages
      /\ \A q \in Process : q = p
      /\ JobTold(p) /\ (~torn => InStep(p)) /\ Decent(files)
  BY DEF SkillIInv, SkillTypes, SkillAssumption, SkillJob
<1>2. task' \in [Process -> SkillJob] /\ task'[p] = e
  BY <1>1
<1>3. files' \in Packages
  BY <1>1, TrustFacts DEF SkillIInv, SkillTypes, SkillJob
<1>4. Decent(files)'
  <2>1. Decent(NoPackage)
    BY TrustFacts DEF Decent
  <2>2. e.pc = "record" /\ HasFiles(task[p].package) => Decent(task[p].package)
    BY <1>1 DEF JobTold
  <2> QED BY <1>1, <2>1, <2>2 DEF SkillJob
<1>5. SkillTypes'
  BY <1>2, <1>3 DEF SkillIInv, SkillTypes
<1>6. JobTold(p)'
  <2>1. CASE e = NoJob
    BY <1>2, <2>1, NothingTyped DEF JobTold
  <2>2. CASE e # NoJob
    BY <1>1, <1>2, <2>2 DEF JobTold
  <2> QED BY <2>1, <2>2
<1>7. ASSUME ~torn', e.pc # "record"
      PROVE  Earned(memory[p])' /\ Earned(lockfile)'
  <2>1. Earned(memory[p]) /\ Earned(lockfile)
    BY <1>1, <1>7 DEF InStep
  <2> QED BY <1>7, <2>1, TrustFacts DEF Earned
<1>8. ASSUME ~torn'
      PROVE  InStep(p)'
  <2>1. CASE e = NoJob
    BY <1>1, <1>2, <1>7, <1>8, <2>1, NothingTyped DEF InStep
  <2>2. CASE e # NoJob
    BY <1>1, <1>2, <1>7, <1>8, <2>2 DEF InStep
  <2> QED BY <2>1, <2>2
<1> QED BY <1>1, <1>4, <1>5, <1>6, <1>8 DEF SkillIInv

\* The record of commit: it speaks of the files in place, or of none and then of
\* no more trust than any files there have.
LEMMA RecordKeeps ==
  ASSUME SkillAssumption, SkillIInv, NEW p \in Process, NEW e \in SkillJob, NEW r \in Record,
         task[p].pc = "record", task' = [task EXCEPT ![p] = e],
         e.pc = "save" /\ e.asked = task[p].asked,
         r.trust = TrustOf(task[p].package) /\ r.enabled = task[p].enabled,
         memory' = [memory EXCEPT ![p] = r],
         approved' = IF task[p].asked THEN TrustOf(task[p].package) ELSE approved,
         UNCHANGED <<offered, published, files, lockfile, guide, torn>>
  PROVE  SkillIInv'
<1>1. /\ task \in [Process -> SkillJob] /\ memory \in [Process -> Record]
      /\ \A q \in Process : q = p
      /\ JobTold(p) /\ (~torn => InStep(p)) /\ Decent(files)
  BY DEF SkillIInv, SkillTypes, SkillAssumption
<1>2. /\ task' \in [Process -> SkillJob] /\ task'[p] = e
      /\ memory' \in [Process -> Record] /\ memory'[p] = r
  BY <1>1
<1>3. approved' \in 0..Untrusted /\ approved \in Nat
  BY TrustFacts DEF SkillIInv, SkillTypes, Trusted, Untrusted
<1>4. SkillTypes' /\ Decent(files)'
  BY <1>1, <1>2, <1>3 DEF SkillIInv, SkillTypes
<1>5. HasInstructions(files) => TrustOf(files) <= r.trust
  <2>1. CASE HasFiles(task[p].package)
    BY <1>1, <2>1, TrustIsNumber DEF JobTold
  <2>2. CASE ~HasFiles(task[p].package)
    <3>1. task[p].package \in Offers
      BY <1>1, <2>2, TrustFacts DEF JobTold
    <3>2. r.trust = Community
      BY <2>2, <3>1, OfferFacts
    <3> QED BY <1>1, <3>2 DEF Decent
  <2> QED BY <2>1, <2>2
<1>6. ASSUME task[p].asked \/ ~torn
      PROVE  Earned(memory[p])'
  <2>1. r.enabled => r.trust <= approved'
    <3>1. CASE task[p].asked
      BY <3>1, TrustIsNumber
    <3>2. CASE ~task[p].asked
      BY <1>1, <1>6, <3>2 DEF InStep
    <3> QED BY <3>1, <3>2
  <2> QED BY <1>2, <1>5, <2>1 DEF Earned
<1>7. JobTold(p)'
  BY <1>2, <1>6 DEF JobTold
<1>8. ~torn' => InStep(p)'
  BY <1>2, <1>6 DEF InStep
<1> QED BY <1>1, <1>4, <1>7, <1>8 DEF SkillIInv

\* commit: the files are replaced if there are new ones, and then the record.
LEMMA CommitKeeps ==
  ASSUME SkillAssumption, SkillIInv, NEW p \in Process, Commit(p)
  PROVE  SkillIInv'
<1>1. /\ task \in [Process -> SkillJob] /\ task[p] \in SkillJob /\ memory \in [Process -> Record]
      /\ UNCHANGED <<offered, published, lockfile, guide, torn>>
  BY DEF Commit, SkillIInv, SkillTypes
<1>2. ASSUME NEW pc \in {"place", "record", "save"}
      PROVE  /\ [task[p] EXCEPT !.pc = pc] \in SkillJob
             /\ [task[p] EXCEPT !.pc = pc].pc = pc
             /\ [task[p] EXCEPT !.pc = pc].package = task[p].package
             /\ [task[p] EXCEPT !.pc = pc].enabled = task[p].enabled
             /\ [task[p] EXCEPT !.pc = pc].asked = task[p].asked
  BY <1>1 DEF SkillJob
<1>3. CASE task[p].pc = "replace" /\ HasFiles(task[p].package)
  <2>1. UNCHANGED <<memory, approved>> /\ files' \in {files, NoPackage}
    BY <1>3 DEF Commit, RemovalFails
  <2>2. \/ task' = [task EXCEPT ![p] = [task[p] EXCEPT !.pc = "place"]]
        \/ task' = [task EXCEPT ![p] = NoJob]
    BY <1>1, <1>3 DEF Commit
  <2> QED BY <1>1, <1>2, <1>3, <2>1, <2>2, MoveKeeps, NothingTyped
<1>4. CASE task[p].pc = "replace" /\ ~HasFiles(task[p].package)
  <2>1. UNCHANGED <<files, memory, approved>>
    BY <1>4 DEF Commit
  <2>2. task' = [task EXCEPT ![p] = [task[p] EXCEPT !.pc = "record"]]
    BY <1>1, <1>4 DEF Commit
  <2> QED BY <1>1, <1>2, <1>4, <2>1, <2>2, MoveKeeps
<1>5. CASE task[p].pc = "place"
  <2>1. UNCHANGED <<memory, approved>>
    BY <1>5 DEF Commit
  <2>2. \/ files' = task[p].package /\ task' = [task EXCEPT ![p] = [task[p] EXCEPT !.pc = "record"]]
        \/ files' = files /\ task' = [task EXCEPT ![p] = NoJob]
    BY <1>1, <1>5 DEF Commit
  <2>3. HasFiles(task[p].package)
    BY <1>5 DEF SkillIInv, JobTold
  <2> QED BY <1>1, <1>2, <1>5, <2>1, <2>2, <2>3, MoveKeeps, NothingTyped
<1>6. CASE task[p].pc = "record"
  <2> DEFINE trust == TrustOf(task[p].package)
             new == [package |-> task[p].package, trust |-> trust, enabled |-> task[p].enabled]
  <2>1. trust \in Trusted..Untrusted /\ task[p].package \in Packages /\ task[p].enabled \in BOOLEAN
    BY <1>1, TrustFacts DEF SkillJob
  <2>2. /\ memory' = [memory EXCEPT ![p] = new] /\ UNCHANGED files
        /\ approved' = IF task[p].asked THEN trust ELSE approved
    BY <1>6 DEF Commit
  <2>3. task' = [task EXCEPT ![p] = [task[p] EXCEPT !.pc = "save"]]
    BY <1>1, <1>6 DEF Commit
  <2>4. new \in Record /\ new.trust = TrustOf(task[p].package) /\ new.enabled = task[p].enabled
    <3> HIDE DEF trust
    <3>1. new \in Record /\ new.trust = trust /\ new.enabled = task[p].enabled
      BY <2>1 DEF Record
    <3> QED BY <3>1 DEF trust
  <2> HIDE DEF new
  <2> QED BY <1>1, <1>2, <1>6, <2>2, <2>3, <2>4, RecordKeeps
<1> QED BY <1>3, <1>4, <1>5, <1>6 DEF Commit

\* What rebuild_guides serves under a kept record was approved.
LEMMA GuideApproved ==
  ASSUME SkillIInv, NEW record \in Record, Earned(record)
  PROVE  Guide(record, files) # NoPackage => TrustOf(Guide(record, files)) <= approved
<1>1. TrustOf(files) \in Nat /\ record.trust \in Nat /\ approved \in Nat
  BY TrustIsNumber DEF SkillIInv, SkillTypes, Record, Trusted, Untrusted
<1> QED BY <1>1 DEF Guide, Earned

\* save: installed.json and the guides follow the record.
LEMMA SaveKeeps ==
  ASSUME SkillAssumption, SkillIInv, NEW p \in Process, Save(p)
  PROVE  SkillIInv'
<1>1. /\ task[p].pc = "save" /\ task \in [Process -> SkillJob] /\ memory[p] \in Record
      /\ guide' = [guide EXCEPT ![p] = Guide(memory[p], files)] /\ guide \in [Process -> Packages]
      /\ task' = [task EXCEPT ![p] = NoJob] /\ \A q \in Process : q = p
      /\ UNCHANGED <<offered, published, files, memory, approved>>
      /\ JobTold(p) /\ (~torn => InStep(p))
  BY DEF Save, SkillIInv, SkillTypes, SkillAssumption
<1>2. (lockfile' = memory[p] /\ torn' = (torn /\ ~task[p].asked)) \/ (torn' = TRUE /\ lockfile' = lockfile)
  BY DEF Save
<1>3. Guide(memory[p], files) \in Packages
  BY TrustFacts DEF Guide, SkillIInv, SkillTypes
<1>4. /\ guide' \in [Process -> Packages] /\ guide'[p] = Guide(memory[p], files)
      /\ task' \in [Process -> SkillJob] /\ task'[p] = NoJob
  BY <1>1, <1>3, NothingTyped
<1>5. lockfile' \in Record
  BY <1>1, <1>2 DEF SkillIInv, SkillTypes
<1>6. torn' \in BOOLEAN
  BY <1>2 DEF SkillIInv, SkillTypes
<1>7. SkillTypes' /\ Decent(files)'
  BY <1>1, <1>4, <1>5, <1>6 DEF SkillIInv, SkillTypes
<1>8. JobTold(p)'
  BY <1>4, NothingTyped DEF JobTold
<1>9. ASSUME ~torn'
      PROVE  InStep(p)'
  <2>1. lockfile' = memory[p] /\ Earned(memory[p])
    BY <1>1, <1>2, <1>9 DEF JobTold, InStep
  <2>2. Earned(memory[p])' /\ Earned(lockfile)'
    BY <1>1, <2>1 DEF Earned
  <2>3. guide'[p] # NoPackage => TrustOf(guide'[p]) <= approved
    BY <1>1, <1>4, <2>1, GuideApproved
  <2> QED BY <1>1, <1>4, <2>2, <2>3, NothingTyped DEF InStep
<1> QED BY <1>1, <1>7, <1>8, <1>9 DEF SkillIInv

\* A skill is enabled or disabled, which is the operator's approval or its end;
\* removed; or saved along with another one.
LEMMA SetKeeps ==
  ASSUME SkillAssumption, SkillIInv, NEW p \in Process,
         \/ \E enabled \in BOOLEAN : SetEnabled(p, enabled)
         \/ RemoveSkill(p) \/ SaveForAnother(p)
  PROVE  SkillIInv'
<1>1. /\ task[p].pc = "idle" /\ task \in [Process -> SkillJob] /\ task[p] \in SkillJob
      /\ memory \in [Process -> Record] /\ memory[p] \in Record
      /\ \A q \in Process : q = p
      /\ UNCHANGED <<offered, published, lockfile, guide, torn>>
      /\ JobTold(p) /\ (~torn => InStep(p)) /\ Decent(files)
  BY DEF SetEnabled, RemoveSkill, SaveForAnother, SkillIInv, SkillTypes, SkillAssumption
<1>2. PICK e \in SkillJob :
        /\ task' = [task EXCEPT ![p] = e] /\ e.asked = task[p].asked
        /\ e.pc = "save" \/ (e = task[p] /\ RemoveSkill(p))
  <2>1. /\ [task[p] EXCEPT !.pc = "save"] \in SkillJob /\ [task[p] EXCEPT !.pc = "save"].pc = "save"
        /\ [task[p] EXCEPT !.pc = "save"].asked = task[p].asked
    BY <1>1 DEF SkillJob
  <2>2. \/ task' = [task EXCEPT ![p] = [task[p] EXCEPT !.pc = "save"]]
        \/ task' = [task EXCEPT ![p] = task[p]] /\ RemoveSkill(p)
    BY <1>1 DEF SetEnabled, RemoveSkill, SaveForAnother
  <2>3. CASE task' = [task EXCEPT ![p] = [task[p] EXCEPT !.pc = "save"]]
    BY <2>1, <2>3
  <2>4. CASE task' = [task EXCEPT ![p] = task[p]] /\ RemoveSkill(p)
    BY <1>1, <2>4
  <2> QED BY <2>2, <2>3, <2>4
<1>3. task' \in [Process -> SkillJob] /\ task'[p] = e
  BY <1>1, <1>2
<1>4. PICK r \in Record :
        /\ memory' = [memory EXCEPT ![p] = r]
        /\ \/ /\ r.trust = memory[p].trust /\ files' = files /\ ~RemoveSkill(p)
              /\ \/ r.enabled = memory[p].enabled /\ approved' = approved
                 \/ r.enabled = FALSE /\ approved' = 0
                 \/ r.enabled = TRUE /\ approved' = memory[p].trust
           \/ r = NoRecord /\ files' \in {files, NoPackage} /\ approved' = approved
  <2>1. ASSUME NEW enabled \in BOOLEAN, SetEnabled(p, enabled), ~RemoveSkill(p)
        PROVE  \E r \in Record :
                 /\ memory' = [memory EXCEPT ![p] = r]
                 /\ r.trust = memory[p].trust
                 /\ files' = files
                 /\ \/ r.enabled = FALSE /\ approved' = 0
                    \/ r.enabled = TRUE /\ approved' = memory[p].trust
    <3>1. /\ [memory[p] EXCEPT !.enabled = enabled] \in Record
          /\ [memory[p] EXCEPT !.enabled = enabled].trust = memory[p].trust
          /\ [memory[p] EXCEPT !.enabled = enabled].enabled = enabled
      BY <1>1 DEF Record
    <3>2. /\ memory' = [memory EXCEPT ![p] = [memory[p] EXCEPT !.enabled = enabled]]
          /\ files' = files /\ approved' = IF enabled THEN memory[p].trust ELSE 0
      BY <1>1, <2>1 DEF SetEnabled
    <3> QED BY <3>1, <3>2
  <2>2. CASE RemoveSkill(p)
    BY <2>2, NothingTyped DEF RemoveSkill, RemovalFails
  <2>3. CASE SaveForAnother(p) /\ ~RemoveSkill(p)
    <3>1. memory' = [memory EXCEPT ![p] = memory[p]] /\ files' = files /\ approved' = approved
      BY <1>1, <2>3 DEF SaveForAnother
    <3> QED BY <1>1, <2>3, <3>1
  <2> QED BY <2>1, <2>2, <2>3
<1>5. memory' \in [Process -> Record] /\ memory'[p] = r
  BY <1>1, <1>4
<1>6. files' \in Packages /\ Decent(files)'
  BY <1>1, <1>4, TrustFacts DEF SkillIInv, SkillTypes, Decent
<1>7. memory[p].trust \in 1..4 /\ Trusted = 1 /\ Untrusted = 4
  BY <1>1 DEF Record, Trusted, Untrusted
<1>8. approved' \in 0..Untrusted
  BY <1>4, <1>7 DEF SkillIInv, SkillTypes
<1>9. SkillTypes'
  BY <1>1, <1>3, <1>5, <1>6, <1>8 DEF SkillIInv, SkillTypes
<1>10. JobTold(p)'
  BY <1>1, <1>2, <1>3 DEF JobTold
<1>11. ASSUME ~torn'
       PROVE  InStep(p)'
  <2>1. /\ Earned(memory[p]) /\ Earned(lockfile)
        /\ guide[p] # NoPackage => TrustOf(guide[p]) <= approved
    BY <1>1, <1>11 DEF InStep
  <2>2. Earned(memory[p])'
    <3>1. CASE r = NoRecord
      BY <1>5, <3>1, NothingTyped, TrustIsNumber DEF Earned
    <3>2. CASE r # NoRecord
      <4>1. r.trust = memory[p].trust /\ files' = files
        BY <1>4, <3>2
      <4>2. r.enabled => r.trust <= approved'
        <5>1. CASE r.enabled = memory[p].enabled /\ approved' = approved
          BY <2>1, <4>1, <5>1 DEF Earned
        <5>2. CASE r.enabled = FALSE
          BY <5>2
        <5>3. CASE approved' = memory[p].trust
          BY <1>7, <4>1, <5>3
        <5> QED BY <1>4, <3>2, <5>1, <5>2, <5>3
      <4> QED BY <1>5, <2>1, <4>1, <4>2 DEF Earned
    <3> QED BY <3>1, <3>2
  <2>3. CASE e.pc = "save"
    BY <1>3, <2>2, <2>3 DEF InStep
  <2>4. CASE e.pc # "save"
    <3>1. e = task[p] /\ files' \in {files, NoPackage} /\ approved' = approved
      BY <1>2, <1>4, <2>4
    <3>2. Earned(lockfile)'
      BY <1>1, <2>1, <3>1, TrustFacts DEF Earned
    <3> QED BY <1>1, <1>3, <2>1, <2>2, <3>1, <3>2 DEF InStep
  <2> QED BY <2>3, <2>4
<1> QED BY <1>1, <1>6, <1>9, <1>10, <1>11 DEF SkillIInv

\* The process starts again from installed.json and the files there are.
LEMMA SkillRestartKeeps ==
  ASSUME SkillAssumption, SkillIInv, NEW p \in Process, Restart(p)
  PROVE  SkillIInv'
<1>1. /\ memory' = [memory EXCEPT ![p] = lockfile] /\ memory \in [Process -> Record]
      /\ guide' = [guide EXCEPT ![p] = Guide(lockfile, files)] /\ guide \in [Process -> Packages]
      /\ task' = [task EXCEPT ![p] = NoJob] /\ task \in [Process -> SkillJob] /\ task[p] \in SkillJob
      /\ \A q \in Process : q = p
      /\ UNCHANGED <<offered, published, files, lockfile, approved>>
      /\ ~torn => InStep(p)
  BY DEF Restart, SkillIInv, SkillTypes, SkillAssumption
<1>2. torn' = (torn \/ task[p].pc \in {"record", "save"})
  BY DEF Restart
<1>3. Guide(lockfile, files) \in Packages
  BY TrustFacts DEF Guide, SkillIInv, SkillTypes
<1>4. /\ memory' \in [Process -> Record] /\ memory'[p] = lockfile
      /\ guide' \in [Process -> Packages] /\ guide'[p] = Guide(lockfile, files)
      /\ task' \in [Process -> SkillJob] /\ task'[p] = NoJob
  BY <1>1, <1>3, NothingTyped DEF SkillIInv, SkillTypes
<1>5. torn' \in BOOLEAN
  BY <1>2
<1>6. SkillTypes' /\ Decent(files)'
  BY <1>1, <1>4, <1>5 DEF SkillIInv, SkillTypes
<1>7. JobTold(p)'
  BY <1>4, NothingTyped DEF JobTold
<1>8. ASSUME ~torn'
      PROVE  InStep(p)'
  <2>1. Earned(lockfile)
    BY <1>1, <1>2, <1>8 DEF InStep, SkillJob
  <2>2. Earned(memory[p])' /\ Earned(lockfile)'
    BY <1>1, <1>4, <2>1 DEF Earned
  <2>3. guide'[p] # NoPackage => TrustOf(guide'[p]) <= approved
    BY <1>1, <1>4, <2>1, GuideApproved DEF SkillIInv, SkillTypes
  <2> QED BY <1>1, <1>4, <2>2, <2>3, NothingTyped DEF InStep
<1> QED BY <1>1, <1>6, <1>7, <1>8 DEF SkillIInv

\* Nothing is installed at first.
LEMMA SkillInitIInv ==
  ASSUME SkillAssumption, SkillInit
  PROVE  SkillIInv
<1>1. /\ offered \in Offers /\ published = 0 /\ files = NoPackage /\ lockfile = NoRecord
      /\ memory = [p \in Process |-> NoRecord] /\ guide = [p \in Process |-> NoPackage]
      /\ task = [p \in Process |-> NoJob] /\ approved = 0 /\ torn = FALSE
  BY DEF SkillInit
<1>2. 0 \in 0..MaxPublished /\ 0 \in 0..Untrusted
  BY DEF SkillAssumption, Untrusted
<1>3. SkillTypes /\ Decent(files)
  BY <1>1, <1>2, TrustFacts, NothingTyped DEF SkillTypes, Decent
<1>4. ASSUME NEW p \in Process
      PROVE  JobTold(p) /\ InStep(p)
  <2>1. memory[p] = NoRecord /\ guide[p] = NoPackage /\ task[p] = NoJob
    BY <1>1
  <2>2. Earned(memory[p]) /\ Earned(lockfile)
    BY <1>1, <2>1, NothingKept, NothingTyped
  <2> QED BY <2>1, <2>2, NothingTyped DEF JobTold, InStep
<1> QED BY <1>3, <1>4 DEF SkillIInv

\* Every operation of the manager, every restart and every change of the registry
\* keeps it.
LEMMA SkillNextIInv ==
  ASSUME SkillAssumption, SkillIInv, [SkillNext]_skillVars
  PROVE  SkillIInv'
<1>1. CASE RegistryPublishes
  BY <1>1, PublishKeeps
<1>2. ASSUME NEW p \in Process,
             \/ Install(p) \/ Satisfy(p) \/ InstallGenerated(p) \/ Update(p) \/ Commit(p) \/ Save(p)
             \/ Restart(p)
      PROVE  SkillIInv'
  BY <1>2, BeginKeeps, CommitKeeps, SaveKeeps, SkillRestartKeeps
<1>3. ASSUME NEW p \in Process,
             \/ \E enabled \in BOOLEAN : SetEnabled(p, enabled)
             \/ RemoveSkill(p) \/ SaveForAnother(p)
      PROVE  SkillIInv'
  BY <1>3, SetKeeps
<1>4. CASE UNCHANGED skillVars
  <2>1. UNCHANGED <<offered, published, files, lockfile, memory, guide, task, approved, torn>>
    BY <1>4 DEF skillVars
  <2>2. ASSUME NEW p \in Process
        PROVE  (JobTold(p) => JobTold(p)') /\ (InStep(p) => InStep(p)')
    BY <2>1 DEF JobTold, InStep, Earned
  <2> QED BY <2>1, <2>2 DEF SkillIInv, SkillTypes, Decent
<1> QED BY <1>1, <1>2, <1>3, <1>4 DEF SkillNext

\* The invariant of one process's skills: as long as installed.json was told of every
\* change, the files have earned the trust that its record and the one in memory
\* speak of, and that trust was approved if the skill is enabled.
THEOREM SkillInvariance ==
  ASSUME SkillAssumption
  PROVE  SkillSpec => []SkillIInv
<1>1. SkillInit => SkillIInv
  BY SkillInitIInv
<1>2. SkillIInv /\ [SkillNext]_skillVars => SkillIInv'
  BY SkillNextIInv
<1> QED BY <1>1, <1>2, PTL DEF SkillSpec

\* The types of one process's skills.
THEOREM SkillTypeCorrect ==
  ASSUME SkillAssumption
  PROVE  SkillSpec => []SkillTypeOK
<1>1. SkillIInv => SkillTypeOK
  <2> SUFFICES ASSUME SkillIInv PROVE SkillTypeOK
    OBVIOUS
  <2>1. SkillTypes /\ offered \in Package /\ offered \in Packages
    BY DEF SkillIInv, SkillTypes, SkillAssumption, Packages
  <2>2. ASSUME NEW p \in Process
        PROVE  /\ task[p].pc \in {"idle", "replace", "place", "record", "save"}
               /\ task[p].package \in Packages
               /\ {task[p].enabled, task[p].asked} \subseteq BOOLEAN
    <3>1. task[p] \in SkillJob
      BY <2>1 DEF SkillTypes
    <3> QED BY <3>1 DEF SkillJob
  <2> QED BY <2>1, <2>2 DEF SkillTypes, SkillTypeOK
<1> QED BY <1>1, SkillInvariance, PTL

\* commit, update, remove and set_enabled of manager.rs in one process: whatever
\* packages registries come to publish and however often, with files or without, and
\* whatever the disk refuses to remove or to move, a skill guides agents only with
\* files that have earned the trust the operator or the policy approved, until
\* installed.json misses a change and again once the skill was installed anew.
THEOREM SkillsGuideWithinApproval ==
  ASSUME SkillAssumption
  PROVE  SkillSpec => []GuidanceWithinApproval
<1>1. SkillIInv => GuidanceWithinApproval
  <2> SUFFICES ASSUME SkillIInv, ~torn, \A p \in Process : task[p].pc = "idle"
               PROVE  /\ lockfile.enabled /\ HasInstructions(files) => TrustOf(files) <= approved
                      /\ \A p \in Process : guide[p] # NoPackage => TrustOf(guide[p]) <= approved
    BY DEF GuidanceWithinApproval
  <2>1. ASSUME NEW p \in Process
        PROVE  /\ lockfile.enabled /\ HasInstructions(files) => TrustOf(files) <= approved
               /\ guide[p] # NoPackage => TrustOf(guide[p]) <= approved
    <3>1. Earned(lockfile) /\ (guide[p] # NoPackage => TrustOf(guide[p]) <= approved)
      BY DEF SkillIInv, InStep
    <3>2. TrustOf(files) \in Nat /\ lockfile.trust \in Nat /\ approved \in Nat
      BY TrustIsNumber DEF SkillIInv, SkillTypes, Record, Trusted, Untrusted
    <3> QED BY <3>1, <3>2 DEF Earned
  <2> QED BY <2>1 DEF SkillAssumption
<1> QED BY <1>1, SkillInvariance, PTL

-----------------------------------------------------------------------------
(* Harness                                                                 *)

\* The weights in effect fit the strategy in effect, or were written out.
Fits(c) == c.weights \in {"explicit", "zero", Preset(c.strategy)}

\* What a directory's file defined was let in by whoever started CUMA.
LetIn(c) ==
  \A a \in DOMAIN c.agents :
    c.agents[a].definedBy \in Dir =>
      c.agents[a].definedBy = StartedIn \/ Within[c.agents[a].definedBy] \cap server.trusted # {}

\* What the flags and the environment set is what the configuration says.
Holds(c) ==
  /\ \A f \in DOMAIN flags : c[f] = flags[f]
  /\ \A f \in DOMAIN env \ DOMAIN flags : c[f] = env[f]

HarnessIInv ==
  /\ HarnessTypeOK /\ env \in Environment /\ flags \in Flags
  /\ projectFile \in [Dir -> UNION {Project[d] : d \in Dir}]
  /\ Fits(server) /\ LetIn(server) /\ pool = [d \in Dir |-> pool[d]]
  /\ listening = "starting" => \A d \in Dir : pool[d] = NotBuilt
  /\ \A a \in DOMAIN server.agents :
       server.agents[a].definedBy \in Dir => server.agents[a].definedBy = StartedIn
  /\ listening \notin {"starting", "failed"} => Holds(server)
  /\ \A d \in Dir : /\ Fits(pool[d].config) /\ LetIn(pool[d].config)
                    /\ DOMAIN pool[d].agents \subseteq Buildable(pool[d].config)
                    /\ pool[d].built => Holds(pool[d].config)

\* What a layer over another one makes of the fields the properties are about.
LEMMA MergedFields ==
  ASSUME NEW b, NEW a
  PROVE  /\ DOMAIN Merge(b, a) = DOMAIN Default
         /\ Merge(b, a).weights = WeightsOver(b, a)
         /\ Merge(b, a).strategy = Over(b.strategy, a.strategy, "Balanced")
         /\ Merge(b, a).agents = Onto(b.agents, a.agents)
<1>1. /\ DOMAIN Default = {"strategy", "weights", "retries", "parallel", "cost", "allowlist",
                           "trusted", "requireSandbox", "sandbox", "agentSandbox",
                           "memoryServer", "agents", "sandboxes", "mcp"}
      /\ Default["strategy"] = "Balanced"
  BY DEF Default
<1>2. QED  BY <1>1 DEF Merge

\* What the environment and the flags set.
LEMMA SetFields ==
  ASSUME NEW c, DOMAIN c = DOMAIN Default, NEW s, Fits(c),
         DOMAIN s \subseteq DOMAIN Default \ {"weights", "agents"}
  PROVE  /\ DOMAIN Set(c, s) = DOMAIN Default /\ Set(c, s).agents = c.agents /\ Fits(Set(c, s))
         /\ \A f \in DOMAIN s : Set(c, s)[f] = s[f]
         /\ \A f \in DOMAIN Default \ (DOMAIN s \cup {"weights"}) : Set(c, s)[f] = c[f]
<1>1. "strategy" \in DOMAIN c /\ "weights" \in DOMAIN c /\ "agents" \in DOMAIN c
  BY DEF Default
<1>2. DOMAIN Set(c, s) = DOMAIN Default /\ Set(c, s).agents = c.agents
  BY <1>1 DEF Set
<1>3. ASSUME "strategy" \in DOMAIN s PROVE Fits(Set(c, s))
  <2>1. Set(c, s).strategy = s.strategy /\ Set(c, s).weights = Preset(s.strategy)
    BY <1>1, <1>3 DEF Set
  <2>2. QED  BY <1>2, <2>1 DEF Fits
<1>4. ASSUME "strategy" \notin DOMAIN s PROVE Fits(Set(c, s))
  <2>1. Set(c, s).strategy = c.strategy /\ Set(c, s).weights = c.weights
    BY <1>1, <1>4 DEF Set
  <2>2. QED  BY <1>2, <2>1 DEF Fits
<1>5. /\ \A f \in DOMAIN s : Set(c, s)[f] = s[f]
      /\ \A f \in DOMAIN Default \ (DOMAIN s \cup {"weights"}) : Set(c, s)[f] = c[f]
  BY DEF Set
<1>6. Fits(Set(c, s))
  BY <1>3, <1>4
<1>7. QED  BY <1>2, <1>5, <1>6

\* A file over a configuration whose weights fit.
LEMMA MergeFits == ASSUME NEW b, Fits(b), NEW a, Layer(a) PROVE Fits(Merge(b, a))
<1>1. /\ Merge(b, a).weights = WeightsOver(b, a)
      /\ Merge(b, a).strategy = Over(b.strategy, a.strategy, "Balanced")
  BY MergedFields
<1>2. CASE a.weights # "Balanced"
  BY <1>1, <1>2 DEF WeightsOver, Fits, Layer
<1>3. CASE a.weights = "Balanced" /\ a.strategy # "Balanced"
  BY <1>1, <1>3 DEF WeightsOver, Over, Fits
<1>4. CASE a.weights = "Balanced" /\ a.strategy = "Balanced"
  BY <1>1, <1>4 DEF WeightsOver, Over, Fits
<1>5. QED  BY <1>2, <1>3, <1>4

\* Config::load and the flags: weights that fit, and the agents of the two files.
LEMMA LoadedFields ==
  ASSUME NEW g \in Global, NEW d \in Dir, NEW f \in Project[d],
         NEW e \in Environment, NEW s \in Flags
  PROVE  /\ Fits(Set(Load(g, f, e), s))
         /\ \A a \in DOMAIN Set(Load(g, f, e), s).agents :
              Set(Load(g, f, e), s).agents[a].definedBy \in Dir =>
                Set(Load(g, f, e), s).agents[a].definedBy = d
         /\ \A x \in DOMAIN s : Set(Load(g, f, e), s)[x] = s[x]
         /\ \A x \in DOMAIN e \ DOMAIN s : Set(Load(g, f, e), s)[x] = e[x]
<1>1. /\ Layer(g) /\ Layer(f)
      /\ DOMAIN e \subseteq DOMAIN Default \ {"weights", "agents"}
      /\ DOMAIN s \subseteq DOMAIN Default \ {"weights", "agents"}
  BY FilesAssumption
<1>2. Fits(Default) /\ Default.agents = Empty
  BY DEF Fits, Default, Preset
<1>3. PICK one : one = Merge(Default, g)
  OBVIOUS
<1>4. Fits(one) /\ one.agents = Onto(Empty, g.agents)
  BY <1>1, <1>2, <1>3, MergeFits, MergedFields
<1>5. PICK two : two = Merge(one, f)
  OBVIOUS
<1>6. Fits(two) /\ two.agents = Onto(one.agents, f.agents) /\ DOMAIN two = DOMAIN Default
  BY <1>1, <1>4, <1>5, MergeFits, MergedFields
<1>7. PICK three : three = Set(two, e)
  OBVIOUS
<1>8. /\ Fits(three) /\ three.agents = two.agents /\ DOMAIN three = DOMAIN Default
      /\ \A x \in DOMAIN e : three[x] = e[x]
  BY <1>1, <1>6, <1>7, SetFields
<1>9. /\ Fits(Set(three, s)) /\ Set(three, s).agents = two.agents
      /\ \A x \in DOMAIN s : Set(three, s)[x] = s[x]
      /\ \A x \in DOMAIN e \ DOMAIN s : Set(three, s)[x] = e[x]
  <2>1. /\ Fits(Set(three, s)) /\ Set(three, s).agents = two.agents
        /\ \A x \in DOMAIN s : Set(three, s)[x] = s[x]
        /\ \A x \in DOMAIN Default \ (DOMAIN s \cup {"weights"}) : Set(three, s)[x] = three[x]
    BY <1>1, <1>8, SetFields
  <2>2. QED  BY <1>1, <1>8, <2>1
<1>10. Load(g, f, e) = three
  BY <1>3, <1>5, <1>7 DEF Load
<1>11. \A a \in DOMAIN two.agents : two.agents[a].definedBy \in Dir => two.agents[a].definedBy = d
  <2>1. DOMAIN Empty = {}
    BY DEF Empty
  <2>2. DOMAIN one.agents = DOMAIN g.agents /\ \A a \in DOMAIN g.agents : one.agents[a] = g.agents[a]
    BY <1>4, <2>1 DEF Onto
  <2>3. /\ DOMAIN two.agents = DOMAIN f.agents \cup DOMAIN one.agents
        /\ \A a \in DOMAIN two.agents :
             two.agents[a] = IF a \in DOMAIN f.agents THEN f.agents[a] ELSE one.agents[a]
    BY <1>6 DEF Onto
  <2>4. QED  BY <2>2, <2>3, FilesAssumption
<1>12. QED  BY <1>9, <1>10, <1>11

\* A runtime that is detected works and is the one asked for, unless any would do.
LEMMA DetectedWorks ==
  ASSUME NEW wanted, NEW works, Detect(wanted, works) # "none"
  PROVE  /\ Detect(wanted, works) \in works \cap (BuiltIn \ {"auto"})
         /\ wanted \in {"auto", Detect(wanted, works)}
<1> DEFINE usable == {i \in DOMAIN Runtimes : Runtimes[i] \in works /\ wanted \in {"auto", Runtimes[i]}}
<1>1. usable # {} /\ usable \in SUBSET Nat
  BY DEF Detect, Runtimes
<1>2. \E i \in usable : \A k \in usable : i <= k
  BY <1>1, LeastNumber
<1>3. PICK i \in usable : i = CHOOSE j \in usable : \A k \in usable : j <= k
  BY <1>2
<1>4. Detect(wanted, works) = Runtimes[i]
  BY <1>1, <1>3 DEF Detect
<1>5. Runtimes[i] \in BuiltIn \ {"auto"}
  <2>1. i \in {1, 2, 3, 4}
    BY <1>3 DEF Runtimes
  <2>2. QED  BY <2>1 DEF Runtimes, BuiltIn
<1>6. QED  BY <1>3, <1>4, <1>5

\* No agent is built that would be less confined than required.
LEMMA BuiltAreConfined ==
  ASSUME NEW config, NEW a \in Buildable(config), config.requireSandbox, config.sandbox,
         config.agents[a].protocol = "acp", NEW name, name = SandboxOf(config, a),
         NEW wanted, wanted = Asked(config, name)
  PROVE  /\ wanted \in BuiltIn \ {"auto"} => wanted \in Works
         /\ wanted = "auto" => Works # {}
         /\ config.allowlist # {} =>
              \/ wanted \in {"auto", "ai-jail"} /\ "ai-jail" \in Works
              \/ wanted = "none" /\ config.sandboxes[name].kind \notin
                                    {"docker", "arcbox", "kubernetes", "e2b", "command"}
<1>1. ~Shortfall(config, name, Works)
  BY DEF Buildable, Refusals, LocalAgents
<1>2. PICK detected : detected = RuntimeOf(config, name, Works)
  OBVIOUS
<1>3. detected # "none" /\ (config.allowlist # {} => detected \in Filters)
  BY <1>1, <1>2 DEF Shortfall
<1>4. CASE name \in BuiltIn \/ config.sandboxes[name].kind = "native"
  <2>1. detected = Detect(wanted, Works)
    BY <1>2, <1>4 DEF RuntimeOf, Asked
  <2>2. detected \in Works /\ detected \in BuiltIn \ {"auto"} /\ wanted \in {"auto", detected}
    BY <1>3, <2>1, DetectedWorks
  <2>3. config.allowlist # {} => detected = "ai-jail"
    BY <1>3, <2>2 DEF Filters, BuiltIn
  <2>4. QED  BY <2>2, <2>3 DEF BuiltIn
<1>5. CASE ~(name \in BuiltIn \/ config.sandboxes[name].kind = "native")
  <2>1. wanted = "none" /\ detected = config.sandboxes[name].kind
    BY <1>2, <1>5 DEF RuntimeOf, Asked
  <2>2. QED  BY <1>3, <2>1 DEF Filters, BuiltIn
<1>6. QED  BY <1>4, <1>5

\* The initial states: nothing is built, and the default configuration is valid.
LEMMA HarnessInitially == HarnessInit => HarnessIInv
<1> SUFFICES ASSUME HarnessInit PROVE HarnessIInv
  OBVIOUS
<1>1. /\ Default.weights = "Balanced" /\ Default.strategy = "Balanced"
      /\ Default.parallel = 4 /\ Default.retries = 3 /\ Default.cost = Absent
      /\ Default.memoryServer = "none" /\ Default.sandboxes = Empty
      /\ Default.agents = Empty /\ Default.agentSandbox = "auto"
  BY DEF Default
<1>2. DOMAIN Empty = {}
  BY DEF Empty
<1>3. Valid(Default)
  BY <1>1, <1>2 DEF Valid, KnownSandbox, BuiltIn
<1>4. Fits(Default) /\ LetIn(Default)
  BY <1>1, <1>2 DEF Fits, LetIn, Preset
<1>5. NotBuilt.config = Default /\ NotBuilt.agents = Empty /\ NotBuilt.built = FALSE
  BY DEF NotBuilt
<1>6. server = Default /\ \A d \in Dir : pool[d] = NotBuilt
  BY DEF HarnessInit
<1>7. HarnessTypeOK
  BY <1>3, <1>5, <1>6, FilesAssumption DEF HarnessTypeOK, HarnessInit
<1>8. \A d \in Dir : /\ Fits(pool[d].config) /\ LetIn(pool[d].config) /\ ~pool[d].built
                     /\ DOMAIN pool[d].agents \subseteq Buildable(pool[d].config)
  BY <1>2, <1>4, <1>5, <1>6
<1>9. QED
  BY <1>1, <1>2, <1>4, <1>6, <1>7, <1>8 DEF HarnessIInv, HarnessInit

\* Config::load and the flags over it give the server a configuration whose
\* agents are those of the global file and of the directory CUMA was started in.
LEMMA StartKeeps == HarnessIInv /\ Start => HarnessIInv'
<1> SUFFICES ASSUME HarnessIInv, Start PROVE HarnessIInv'
  OBVIOUS
<1>1. UNCHANGED <<globalFile, projectFile, env, flags, fileEdits>>
  BY DEF Start
<1>2. PICK config : config = Set(Load(globalFile, projectFile[StartedIn], env), flags)
  OBVIOUS
<1>3. /\ Fits(config)
      /\ \A a \in DOMAIN config.agents :
           config.agents[a].definedBy \in Dir => config.agents[a].definedBy = StartedIn
      /\ Holds(config)
  <2>1. StartedIn \in Dir /\ globalFile \in Global /\ projectFile[StartedIn] \in Project[StartedIn]
        /\ env \in Environment /\ flags \in Flags
    BY FilesAssumption DEF HarnessIInv, HarnessTypeOK
  <2>2. QED  BY <2>1, <1>2, LoadedFields DEF Holds
<1>4. CASE listening' = "failed" /\ UNCHANGED <<server, pool>>
  BY <1>1, <1>4 DEF HarnessIInv, HarnessTypeOK, LetIn, Buildable, Holds
<1>5. CASE /\ Valid(config) /\ server' = config
           /\ \E built \in Builds(config) :
                /\ pool' = [pool EXCEPT ![StartedIn] = built]
                /\ listening' = IF built.agents = Empty THEN "failed" ELSE "ready"
  <2>1. PICK built \in Builds(config) :
          /\ pool' = [pool EXCEPT ![StartedIn] = built]
          /\ listening' = IF built.agents = Empty THEN "failed" ELSE "ready"
    BY <1>5
  <2>2. built.config = config /\ DOMAIN built.agents = Buildable(config)
    BY <2>1 DEF Builds
  <2>3. /\ pool'[StartedIn] = built /\ \A d \in Dir : d # StartedIn => pool'[d] = NotBuilt
        /\ pool' = [d \in Dir |-> pool'[d]]
    BY <2>1, FilesAssumption DEF HarnessIInv, Start
  <2>4. /\ NotBuilt.config = Default /\ NotBuilt.agents = Empty /\ DOMAIN Empty = {}
        /\ ~NotBuilt.built
    BY DEF NotBuilt, Empty
  <2>5. Default.agents = Empty /\ Fits(Default) /\ Valid(Default)
    BY DEF Fits, Default, Preset, Valid, Empty, KnownSandbox, BuiltIn, Absent
  <2>6. \A d \in Dir : pool'[d].config \in {config, Default}
    BY <2>2, <2>3, <2>4
  <2>7. HarnessTypeOK'
    BY <1>1, <1>5, <2>1, <2>5, <2>6 DEF HarnessIInv, HarnessTypeOK
  <2>8. LetIn(config)' /\ LetIn(Default)'
    BY <1>3, <2>4, <2>5 DEF LetIn
  <2>9. \A d \in Dir : /\ Fits(pool[d].config)' /\ LetIn(pool[d].config)'
                       /\ (DOMAIN pool[d].agents)' \subseteq Buildable(pool[d].config)'
    <3> SUFFICES ASSUME NEW d \in Dir
                 PROVE  /\ Fits(pool[d].config)' /\ LetIn(pool[d].config)'
                        /\ (DOMAIN pool[d].agents)' \subseteq Buildable(pool[d].config)'
      OBVIOUS
    <3>1. CASE d = StartedIn
      BY <3>1, <1>3, <2>2, <2>3, <2>8 DEF Fits, LetIn, Buildable
    <3>2. CASE d # StartedIn
      BY <3>2, <2>3, <2>4, <2>5, <2>8 DEF Fits, LetIn, Buildable
    <3>3. QED  BY <3>1, <3>2
  <2>10. listening' # "starting"
    BY <2>1
  <2>11. Fits(server)' /\ LetIn(server)'
    BY <1>3, <1>5, <2>8 DEF Fits, LetIn
  <2>12. \A a \in DOMAIN server'.agents :
           server'.agents[a].definedBy \in Dir => server'.agents[a].definedBy = StartedIn
    BY <1>3, <1>5
  <2>13. /\ Holds(server)'
         /\ \A d \in Dir : pool'[d].built => Holds(pool[d].config)'
    <3>1. Holds(config)'
      BY <1>1, <1>3 DEF Holds
    <3>2. Holds(server)'
      BY <1>5, <3>1 DEF Holds
    <3>3. ASSUME NEW d \in Dir, pool'[d].built PROVE Holds(pool[d].config)'
      <4>1. pool'[d].config = config
        BY <2>2, <2>3, <2>4, <3>3
      <4>2. QED  BY <3>1, <4>1 DEF Holds
    <3>4. QED  BY <3>2, <3>3
  <2>14. QED
    BY <1>1, <2>3, <2>7, <2>9, <2>10, <2>11, <2>12, <2>13 DEF HarnessIInv
<1>6. QED
  BY <1>2, <1>4, <1>5 DEF Start

\* An editor opens a directory: its own file counts only where it is trusted.
LEMMA OpenWorkspaceKeeps ==
  ASSUME HarnessIInv, NEW d \in Dir, OpenWorkspace(d)
  PROVE  HarnessIInv'
<1>1. UNCHANGED <<globalFile, projectFile, env, flags, server, listening, fileEdits>>
  BY DEF OpenWorkspace
<1>2. PICK config : config = WorkspaceConfig(d)
  OBVIOUS
<1>3. Fits(config) /\ LetIn(config) /\ Holds(config)
  <2>1. CASE TrustedWorkspace(d)
    <3>1. globalFile \in Global /\ projectFile[d] \in Project[d]
          /\ env \in Environment /\ flags \in Flags
      BY DEF HarnessIInv, HarnessTypeOK
    <3>2. /\ Fits(config)
          /\ \A a \in DOMAIN config.agents :
               config.agents[a].definedBy \in Dir => config.agents[a].definedBy = d
          /\ Holds(config)
      BY <2>1, <3>1, <1>2, LoadedFields DEF WorkspaceConfig, Holds
    <3>3. QED  BY <2>1, <3>2 DEF TrustedWorkspace, LetIn
  <2>2. CASE ~TrustedWorkspace(d)
    BY <2>2, <1>2 DEF WorkspaceConfig, HarnessIInv, OpenWorkspace
  <2>3. QED  BY <2>1, <2>2
<1>4. /\ Valid(config) /\ ~pool[d].built /\ listening = "acp"
      /\ \E built \in Builds(config) : pool' = [pool EXCEPT ![d] = built]
  BY <1>2 DEF OpenWorkspace
<1>5. PICK built \in Builds(config) : pool' = [pool EXCEPT ![d] = built]
  BY <1>4
<1>6. built.config = config /\ DOMAIN built.agents = Buildable(config)
  BY <1>5 DEF Builds
<1>7. /\ pool'[d] = built /\ \A o \in Dir : o # d => pool'[o] = pool[o]
      /\ pool' = [o \in Dir |-> pool'[o]]
  BY <1>5 DEF HarnessIInv
<1>8. HarnessTypeOK'
  BY <1>1, <1>4, <1>6, <1>7 DEF HarnessIInv, HarnessTypeOK
<1>9. \A o \in Dir : /\ Fits(pool[o].config)' /\ LetIn(pool[o].config)'
                     /\ (DOMAIN pool[o].agents)' \subseteq Buildable(pool[o].config)'
  <2> SUFFICES ASSUME NEW o \in Dir
               PROVE  /\ Fits(pool[o].config)' /\ LetIn(pool[o].config)'
                      /\ (DOMAIN pool[o].agents)' \subseteq Buildable(pool[o].config)'
    OBVIOUS
  <2>1. CASE o = d
    BY <2>1, <1>1, <1>3, <1>6, <1>7 DEF Fits, LetIn, Buildable
  <2>2. CASE o # d
    <3>1. pool'[o] = pool[o] /\ server' = server
      BY <2>2, <1>1, <1>7
    <3>2. /\ Fits(pool[o].config) /\ LetIn(pool[o].config)
          /\ DOMAIN pool[o].agents \subseteq Buildable(pool[o].config)
      BY DEF HarnessIInv
    <3>3. Fits(pool[o].config)'
      BY <3>1, <3>2 DEF Fits
    <3>4. LetIn(pool[o].config)'
      BY <3>1, <3>2 DEF LetIn
    <3>5. (DOMAIN pool[o].agents)' \subseteq Buildable(pool[o].config)'
      BY <3>1, <3>2 DEF Buildable
    <3>6. QED  BY <3>3, <3>4, <3>5
  <2>3. QED  BY <2>1, <2>2
<1>10. /\ Holds(server)'
       /\ \A o \in Dir : pool'[o].built => Holds(pool[o].config)'
  <2>1. Holds(server)'
    BY <1>1, <1>4 DEF HarnessIInv, Holds
  <2>2. ASSUME NEW o \in Dir, pool'[o].built PROVE Holds(pool[o].config)'
    <3>1. CASE o = d
      BY <1>1, <1>3, <1>6, <1>7, <3>1 DEF Holds
    <3>2. CASE o # d
      BY <1>1, <1>7, <2>2, <3>2 DEF HarnessIInv, Holds
    <3>3. QED  BY <3>1, <3>2
  <2>3. QED  BY <2>1, <2>2
<1>11. QED
  BY <1>1, <1>4, <1>7, <1>8, <1>9, <1>10 DEF HarnessIInv, Fits, LetIn

\* Nothing that is being served looks at the files again.
LEMMA EditFileKeeps == HarnessIInv /\ EditFile => HarnessIInv'
<1> SUFFICES ASSUME HarnessIInv, EditFile PROVE HarnessIInv'
  OBVIOUS
<1>1. UNCHANGED <<env, flags, server, pool, listening>>
  BY DEF EditFile
<1>2. fileEdits' \in 0..MaxFileEdits
  BY FilesAssumption DEF EditFile, HarnessIInv, HarnessTypeOK
<1>3. /\ globalFile' \in Global /\ \A d \in Dir : projectFile'[d] \in Project[d]
      /\ projectFile' \in [Dir -> UNION {Project[d] : d \in Dir}]
  <2>1. CASE globalFile' \in Global /\ UNCHANGED projectFile
    BY <2>1 DEF HarnessIInv, HarnessTypeOK
  <2>2. CASE \E d \in Dir, text \in UNION {Project[x] : x \in Dir} :
               /\ text \in Project[d] /\ projectFile' = [projectFile EXCEPT ![d] = text]
               /\ UNCHANGED globalFile
    BY <2>2 DEF HarnessIInv, HarnessTypeOK
  <2>3. QED  BY <2>1, <2>2 DEF EditFile
<1>4. HarnessTypeOK'
  BY <1>1, <1>2, <1>3 DEF HarnessIInv, HarnessTypeOK
<1>5. listening' \notin {"starting", "failed"} => Holds(server)'
  BY <1>1 DEF HarnessIInv, Holds
<1>6. \A d \in Dir : /\ Fits(pool[d].config)' /\ LetIn(pool[d].config)'
                     /\ DOMAIN pool'[d].agents \subseteq Buildable(pool[d].config)'
                     /\ pool'[d].built => Holds(pool[d].config)'
  BY <1>1 DEF HarnessIInv, Fits, LetIn, Buildable, Holds
<1>7. QED
  BY <1>1, <1>3, <1>4, <1>5, <1>6 DEF HarnessIInv, Fits, LetIn

\* Every step keeps what is served as it was asked for.
LEMMA HarnessStep == HarnessIInv /\ [HarnessNext]_harnessVars => HarnessIInv'
<1> SUFFICES ASSUME HarnessIInv, [HarnessNext]_harnessVars PROVE HarnessIInv'
  OBVIOUS
<1>1. CASE Start
  BY <1>1, StartKeeps
<1>2. ASSUME NEW p \in {"acp", "a2a", "mcp"}, Listen(p) PROVE HarnessIInv'
  <2>1. UNCHANGED <<globalFile, projectFile, env, flags, server, pool, fileEdits>>
    BY <1>2 DEF Listen
  <2>2. listening' \in {"failed", "acp", "a2a", "mcp"}
    BY <1>2 DEF Listen
  <2>3. QED
    BY <1>2, <2>1, <2>2 DEF HarnessIInv, HarnessTypeOK, LetIn, Buildable, Holds, Listen
<1>3. ASSUME NEW d \in Dir, OpenWorkspace(d) PROVE HarnessIInv'
  BY <1>3, OpenWorkspaceKeeps
<1>4. CASE EditFile
  BY <1>4, EditFileKeeps
<1>5. CASE UNCHANGED harnessVars
  BY <1>5 DEF harnessVars, HarnessIInv, HarnessTypeOK, LetIn, Buildable, Holds
<1>6. QED
  BY <1>1, <1>2, <1>3, <1>4, <1>5 DEF HarnessNext

\* The inductive invariant of the harness: the weights of every configuration
\* fit its strategy, the agents a directory's file defined are served only where
\* that directory was let in, and what the flags and the environment set holds.
THEOREM HarnessInvariance == HarnessSpec => []HarnessIInv
<1>1. HarnessInit => HarnessIInv
  BY HarnessInitially
<1>2. HarnessIInv /\ [HarnessNext]_harnessVars => HarnessIInv'
  BY HarnessStep
<1>3. QED  BY <1>1, <1>2, PTL DEF HarnessSpec

\* What a server was started with and what it serves always passed Config::validate.
THEOREM HarnessTypeCorrect == HarnessSpec => []HarnessTypeOK
<1>1. HarnessIInv => HarnessTypeOK
  BY DEF HarnessIInv
<1>2. QED  BY <1>1, HarnessInvariance, PTL

\* Every directory is served as whoever started CUMA asked (harness.rs,
\* is_trusted_workspace, build_orchestrator and merge.rs), whatever the files say,
\* whenever they are edited and however many directories editors open: only files of
\* trusted directories define agents, the flags and variables of the start hold, and
\* with required confinement the sandbox an agent asks for is the one it has.
THEOREM DirectoriesServedAsAsked == HarnessSpec => []ServedAsAsked
<1>1. ASSUME HarnessIInv PROVE ServedAsAsked
  <2>1. OnlyTrustedFilesApply
    <3> SUFFICES ASSUME NEW d \in Dir, NEW a \in DOMAIN pool[d].agents,
                        pool[d].config.agents[a].definedBy \in Dir
                 PROVE  \/ pool[d].config.agents[a].definedBy = StartedIn
                        \/ Within[pool[d].config.agents[a].definedBy] \cap server.trusted # {}
      BY DEF OnlyTrustedFilesApply
    <3>1. a \in DOMAIN pool[d].config.agents
      BY <1>1 DEF HarnessIInv, Buildable
    <3>2. QED  BY <1>1, <3>1 DEF HarnessIInv, LetIn
  <2>2. WeightsFitStrategy
    BY <1>1 DEF HarnessIInv, HarnessTypeOK, Valid, Fits, WeightsFitStrategy
  <2>3. RequiredConfinement
    <3>1. ASSUME NEW d \in Dir, NEW a \in DOMAIN pool[d].agents, NEW config, config = pool[d].config,
                 config.requireSandbox, config.sandbox, config.agents[a].protocol = "acp",
                 NEW name, name = SandboxOf(config, a), NEW wanted, wanted = Asked(config, name)
          PROVE  /\ wanted \in BuiltIn \ {"auto"} => wanted \in Works
                 /\ wanted = "auto" => Works # {}
                 /\ config.allowlist # {} =>
                      \/ wanted \in {"auto", "ai-jail"} /\ "ai-jail" \in Works
                      \/ wanted = "none" /\ config.sandboxes[name].kind \notin
                                            {"docker", "arcbox", "kubernetes", "e2b", "command"}
      <4>1. a \in Buildable(config) /\ a \in DOMAIN config.agents /\ Valid(config)
        BY <1>1, <3>1 DEF HarnessIInv, HarnessTypeOK, Buildable
      <4>2. QED  BY <3>1, <4>1, BuiltAreConfined
    <3>2. QED  BY <3>1, Zenon DEF RequiredConfinement
  <2>4. StartedAsAsked
    BY <1>1 DEF HarnessIInv, Holds, StartedAsAsked
  <2>5. QED  BY <2>1, <2>2, <2>3, <2>4 DEF ServedAsAsked
<1>2. HarnessIInv => ServedAsAsked
  BY <1>1
<1>3. QED  BY <1>2, HarnessInvariance, PTL

-----------------------------------------------------------------------------
(* Planner                                                                 *)

\* No dependencies go round in a circle: every set of tasks has one that waits for
\* none of them.
Acyclic(g) == \A S \in (SUBSET DOMAIN g) \ {{}} : \E t \in S : DOMAIN g[t].deps \cap S = {}

\* What validate accepts is acyclic: were each task of S to wait for one of S,
\* Kahn's algorithm could end with all tasks but those of S. Likewise it could end
\* without a task that names a dependency twice.
LEMMA AcceptedIsAcyclic ==
  ASSUME NEW g, Validate(g)
  PROVE  /\ \A t \in DOMAIN g : \A d \in DOMAIN g[t].deps : d \in DOMAIN g /\ g[t].deps[d] = 1
         /\ Acyclic(g)
<1>1. \A t \in DOMAIN g : DOMAIN g[t].deps \subseteq DOMAIN g
  BY DEF Validate, Dangling
<1>2. ASSUME NEW S \in (SUBSET DOMAIN g) \ {{}}, \A t \in S : DOMAIN g[t].deps \cap S # {}
      PROVE  FALSE
  <2> DEFINE rest == DOMAIN g \ S
  <2>1. Drains(g, rest)
    BY <1>2 DEF Drains, AtZero
  <2>2. PICK t \in S : TRUE
    BY <1>2
  <2>3. t \in Drained(g)
    BY <2>2 DEF Validate
  <2>4. QED  BY <2>1, <2>2, <2>3 DEF Drained
<1>3. ASSUME NEW t \in DOMAIN g, NEW d \in DOMAIN g[t].deps, g[t].deps[d] # 1
      PROVE  FALSE
  <2> DEFINE rest == DOMAIN g \ {t}
  <2>1. Drains(g, rest)
    BY <1>3 DEF Drains, AtZero
  <2>2. t \in Drained(g)
    BY <1>3 DEF Validate
  <2>3. QED  BY <2>1, <2>2 DEF Drained
<1>4. QED  BY <1>1, <1>2, <1>3 DEF Acyclic

\* Each task of q, put after n others, waits for tasks before it and names each once.
InOrder(q, n) ==
  \A i \in 1..Len(q) : \A d \in DOMAIN q[i].deps : d \in 1..(n + i - 1) /\ q[i].deps[d] = 1

\* A graph in order is accepted: the first task that is not visited would be at zero.
LEMMA OrderedIsAccepted ==
  ASSUME NEW g, Len(g) \in Nat, DOMAIN g = 1..Len(g), InOrder(g, 0)
  PROVE  Validate(g)
<1>1. ~Dangling(g)
  BY DEF Dangling, InOrder
<1>2. ASSUME NEW visited \in SUBSET DOMAIN g, Drains(g, visited), NEW t \in DOMAIN g,
             t \notin visited
      PROVE  FALSE
  <2> DEFINE left == DOMAIN g \ visited
  <2>1. left \in SUBSET Nat /\ left # {}
    BY <1>2
  <2>2. PICK n \in left : \A m \in left : n <= m
    BY <2>1, LeastNumber
  <2>3. AtZero(g[n], visited)
    BY <2>2 DEF AtZero, InOrder
  <2>4. QED  BY <1>2, <2>2, <2>3 DEF Drains
<1>3. Drained(g) = DOMAIN g
  BY <1>2 DEF Drained
<1>4. QED  BY <1>1, <1>3 DEF Validate

\* The tasks of the rules' pipelines.
RuleType == {"Inspection", "Research", "Design", "Implementation", "BugFix", "Testing",
             "Validation", "Review", "Documentation"}
RuleTask == [type : RuleType, deps : {After(D) : D \in SUBSET Nat}]

\* Pipelines are put together in order.
LEMMA InOrderTogether ==
  ASSUME NEW p \in Seq(RuleTask), NEW q \in Seq(RuleTask), NEW n \in Nat,
         InOrder(p, n), InOrder(q, n + Len(p))
  PROVE  p \o q \in Seq(RuleTask) /\ Len(p \o q) = Len(p) + Len(q) /\ InOrder(p \o q, n)
<1>1. p \o q \in Seq(RuleTask) /\ Len(p \o q) = Len(p) + Len(q)
  OBVIOUS
<1>2. ASSUME NEW i \in 1..Len(p \o q), NEW d \in DOMAIN (p \o q)[i].deps
      PROVE  d \in 1..(n + i - 1) /\ (p \o q)[i].deps[d] = 1
  <2>1. CASE i <= Len(p)
    BY <1>1, <1>2, <2>1 DEF InOrder
  <2>2. CASE i > Len(p)
    <3>1. (p \o q)[i] = q[i - Len(p)] /\ i - Len(p) \in 1..Len(q)
      BY <1>1, <2>2
    <3>2. QED  BY <1>1, <1>2, <3>1 DEF InOrder
  <2>3. QED  BY <1>1, <2>1, <2>2
<1>3. QED  BY <1>1, <1>2 DEF InOrder

\* One task that waits for tasks before it.
LEMMA OneInOrder ==
  ASSUME NEW type \in RuleType, NEW n \in Nat, NEW D \in SUBSET (1..n)
  PROVE  /\ <<Task(type, After(D))>> \in Seq(RuleTask)
         /\ Len(<<Task(type, After(D))>>) = 1 /\ InOrder(<<Task(type, After(D))>>, n)
<1>1. Task(type, After(D)) \in RuleTask
  BY DEF Task, RuleTask
<1>2. \A d \in DOMAIN After(D) : d \in 1..n /\ After(D)[d] = 1
  BY DEF After, SetToBag
<1>3. QED  BY <1>1, <1>2 DEF InOrder, Task

\* Two tasks, of which the second may wait for the first.
LEMMA TwoInOrder ==
  ASSUME NEW a \in RuleType, NEW b \in RuleType, NEW n \in Nat,
         NEW D \in SUBSET (1..n), NEW E \in SUBSET (1..(n + 1))
  PROVE  /\ <<Task(a, After(D)), Task(b, After(E))>> \in Seq(RuleTask)
         /\ Len(<<Task(a, After(D)), Task(b, After(E))>>) = 2
         /\ InOrder(<<Task(a, After(D)), Task(b, After(E))>>, n)
<1>1. Task(a, After(D)) \in RuleTask /\ Task(b, After(E)) \in RuleTask
  <2>1. After(D) \in {After(X) : X \in SUBSET Nat} /\ After(E) \in {After(X) : X \in SUBSET Nat}
    OBVIOUS
  <2>2. QED  BY <2>1 DEF Task, RuleTask
<1>2. /\ \A d \in DOMAIN After(D) : d \in 1..n /\ After(D)[d] = 1
      /\ \A d \in DOMAIN After(E) : d \in 1..(n + 1) /\ After(E)[d] = 1
  BY DEF After, SetToBag
<1>3. QED  BY <1>1, <1>2 DEF InOrder, Task

\* A part of a pipeline that some goals do without.
LEMMA WhenInOrder ==
  ASSUME NEW q \in Seq(RuleTask), NEW n \in Nat, InOrder(q, n), NEW condition
  PROVE  /\ When(condition, q) \in Seq(RuleTask) /\ InOrder(When(condition, q), n)
         /\ Len(When(condition, q)) = IF condition THEN Len(q) ELSE 0
<1>1. <<>> \in Seq(RuleTask) /\ Len(<<>>) = 0 /\ InOrder(<<>>, n)
  BY DEF InOrder
<1>2. QED  BY <1>1 DEF When

\* Preparation is in order, and not empty.
LEMMA PreparationInOrder ==
  ASSUME NEW s \in Shape
  PROVE  /\ Preparation(s) \in Seq(RuleTask) /\ InOrder(Preparation(s), 0)
         /\ Len(Preparation(s)) \in Nat /\ Len(Preparation(s)) >= 1
<1> DEFINE a == <<Task("Inspection", After({}))>>
           b == When(s.research, <<Task("Research", After({1}))>>)
           c == When(s.design, <<Task("Design", After({1}))>>)
<1>1. a \in Seq(RuleTask) /\ Len(a) = 1 /\ InOrder(a, 0)
  <2>1. "Inspection" \in RuleType /\ 0 \in Nat /\ {} \in SUBSET (1..0)
    BY DEF RuleType
  <2>2. QED  BY <2>1, OneInOrder, Zenon
<1>2. b \in Seq(RuleTask) /\ Len(b) \in {0, 1} /\ InOrder(b, 1)
  <2> DEFINE q == <<Task("Research", After({1}))>>
  <2>1. "Research" \in RuleType /\ 1 \in Nat /\ {1} \in SUBSET (1..1)
    BY DEF RuleType
  <2>2. q \in Seq(RuleTask) /\ Len(q) = 1 /\ InOrder(q, 1)
    BY <2>1, OneInOrder, Zenon
  <2>3. b \in Seq(RuleTask) /\ InOrder(b, 1) /\ Len(b) = IF s.research THEN Len(q) ELSE 0
    BY <2>1, <2>2, WhenInOrder, Zenon
  <2>4. QED  BY <2>2, <2>3
<1>3. a \o b \in Seq(RuleTask) /\ Len(a \o b) \in {1, 2} /\ InOrder(a \o b, 0)
  <2>1. InOrder(b, 0 + Len(a)) /\ 0 \in Nat
    BY <1>1, <1>2
  <2>2. a \o b \in Seq(RuleTask) /\ Len(a \o b) = Len(a) + Len(b) /\ InOrder(a \o b, 0)
    BY <1>1, <1>2, <2>1, InOrderTogether, Zenon
  <2>3. \A m \in {0, 1} : 1 + m \in {1, 2}
    OBVIOUS
  <2>4. Len(a) + Len(b) \in {1, 2}
    BY <1>1, <1>2, <2>3, Zenon
  <2>5. QED  BY <2>2, <2>4, Zenon
<1>4. c \in Seq(RuleTask) /\ Len(c) \in {0, 1} /\ InOrder(c, 0 + Len(a \o b))
  <2>1. PICK n \in {1, 2} : n = Len(a \o b)
    BY <1>3
  <2> DEFINE q == <<Task("Design", After({1}))>>
  <2>2. "Design" \in RuleType /\ n \in Nat /\ {1} \in SUBSET (1..n)
    BY DEF RuleType
  <2>3. q \in Seq(RuleTask) /\ Len(q) = 1 /\ InOrder(q, n)
    BY <2>2, OneInOrder, Zenon
  <2>4. c \in Seq(RuleTask) /\ InOrder(c, n) /\ Len(c) = IF s.design THEN Len(q) ELSE 0
    BY <2>2, <2>3, WhenInOrder, Zenon
  <2>5. c \in Seq(RuleTask) /\ InOrder(c, n) /\ Len(c) \in {0, 1}
    BY <2>3, <2>4
  <2>6. n = 0 + Len(a \o b)
    BY <2>1, <1>3
  <2>7. QED  BY <2>5, <2>6
<1>5. (a \o b) \o c \in Seq(RuleTask) /\ InOrder((a \o b) \o c, 0)
      /\ Len((a \o b) \o c) = Len(a \o b) + Len(c)
  BY <1>3, <1>4, InOrderTogether
<1>6. Preparation(s) = (a \o b) \o c
  BY DEF Preparation
<1>7. QED  BY <1>3, <1>4, <1>5, <1>6

\* Every task of q is work, not looking.
AtWork(q) == \A i \in 1..Len(q) : q[i].type \notin Looking

\* Work is put together.
LEMMA AtWorkTogether ==
  ASSUME NEW p \in Seq(RuleTask), NEW q \in Seq(RuleTask), AtWork(p), AtWork(q)
  PROVE  AtWork(p \o q)
<1> SUFFICES ASSUME NEW i \in 1..Len(p \o q) PROVE (p \o q)[i].type \notin Looking
  BY DEF AtWork
<1>1. CASE i <= Len(p)
  BY <1>1 DEF AtWork
<1>2. CASE i > Len(p)
  <2>1. (p \o q)[i] = q[i - Len(p)] /\ i - Len(p) \in 1..Len(q)
    BY <1>2
  <2>2. QED  BY <2>1 DEF AtWork
<1>3. QED  BY <1>1, <1>2

\* The work, its tests, its validation and its review are in order; the work comes
\* first.
LEMMA WorkInOrder ==
  ASSUME NEW s \in Shape, NEW n \in Nat, NEW type \in RuleType \ Looking, NEW always \in BOOLEAN
  PROVE  LET q == <<Task(type, After(1..n))>>
                    \o When(s.tests, <<Task("Testing", After({n + 1}))>>)
                    \o When(always,
                       << Task("Validation", After(IF s.tests THEN {n + 1, n + 1 + 1} ELSE {n + 1})),
                          Task("Review", After({IF s.tests THEN n + 1 + 2 ELSE n + 1 + 1})) >>)
         IN  /\ q \in Seq(RuleTask) /\ InOrder(q, n) /\ Len(q) \in Nat /\ Len(q) >= 1
             /\ AtWork(q) /\ q[1] = Task(type, After(1..n))
<1> DEFINE a == <<Task(type, After(1..n))>>
           b == When(s.tests, <<Task("Testing", After({n + 1}))>>)
           D == IF s.tests THEN {n + 1, n + 1 + 1} ELSE {n + 1}
           E == {IF s.tests THEN n + 1 + 2 ELSE n + 1 + 1}
           r == <<Task("Validation", After(D)), Task("Review", After(E))>>
           c == When(always, r)
           m == IF s.tests THEN n + 2 ELSE n + 1
<1>1. a \in Seq(RuleTask) /\ Len(a) = 1 /\ InOrder(a, n)
  BY OneInOrder
<1>2. /\ b \in Seq(RuleTask) /\ Len(b) = (IF s.tests THEN 1 ELSE 0)
      /\ InOrder(b, n + Len(a))
  <2>1. "Testing" \in RuleType /\ {n + 1} \in SUBSET (1..(n + 1)) /\ n + 1 \in Nat
    BY DEF RuleType
  <2>2. /\ <<Task("Testing", After({n + 1}))>> \in Seq(RuleTask)
        /\ Len(<<Task("Testing", After({n + 1}))>>) = 1
        /\ InOrder(<<Task("Testing", After({n + 1}))>>, n + 1)
    BY <2>1, OneInOrder, Zenon
  <2>3. QED  BY <1>1, <2>1, <2>2, WhenInOrder
<1>3. a \o b \in Seq(RuleTask) /\ n + Len(a \o b) = m /\ m \in Nat /\ InOrder(a \o b, n)
  <2>1. a \o b \in Seq(RuleTask) /\ Len(a \o b) = Len(a) + Len(b) /\ InOrder(a \o b, n)
    BY <1>1, <1>2, InOrderTogether
  <2>2. QED  BY <1>1, <1>2, <2>1
<1>4. r \in Seq(RuleTask) /\ Len(r) = 2 /\ c \in Seq(RuleTask) /\ Len(c) \in {0, 2} /\ InOrder(c, m)
  <2>1. /\ D \in SUBSET (1..m) /\ E \in SUBSET (1..(m + 1)) /\ m \in Nat
        /\ "Validation" \in RuleType /\ "Review" \in RuleType
    BY DEF RuleType
  <2>2. r \in Seq(RuleTask) /\ Len(r) = 2 /\ InOrder(r, m)
    BY <2>1, TwoInOrder, Zenon
  <2>3. c \in Seq(RuleTask) /\ InOrder(c, m) /\ Len(c) = IF always THEN Len(r) ELSE 0
    BY <2>1, <2>2, WhenInOrder, Zenon
  <2>4. QED  BY <2>2, <2>3
<1>5. /\ (a \o b) \o c \in Seq(RuleTask) /\ InOrder((a \o b) \o c, n)
      /\ Len((a \o b) \o c) = Len(a \o b) + Len(c)
  BY <1>3, <1>4, InOrderTogether
<1>6. Len((a \o b) \o c) \in Nat /\ Len((a \o b) \o c) >= 1
  BY <1>3, <1>4, <1>5
<1>7. AtWork(a) /\ AtWork(b) /\ AtWork(c)
  <2>1. AtWork(<<>>)
    BY DEF AtWork
  <2>2. AtWork(a) /\ AtWork(<<Task("Testing", After({n + 1}))>>)
    BY DEF AtWork, Task, Looking
  <2>3. AtWork(r)
    BY DEF AtWork, Task, Looking
  <2>4. QED  BY <2>1, <2>2, <2>3 DEF When
<1>8. AtWork((a \o b) \o c)
  <2>1. AtWork(a \o b)
    BY <1>1, <1>2, <1>7, AtWorkTogether
  <2>2. QED  BY <1>3, <1>4, <1>7, <2>1, AtWorkTogether
<1>9. ((a \o b) \o c)[1] = Task(type, After(1..n))
  <2>1. a[1] = Task(type, After(1..n))
    OBVIOUS
  <2>2. (a \o b)[1] = a[1] /\ Len(a \o b) >= 1
    BY <1>1, <1>2
  <2>3. ((a \o b) \o c)[1] = (a \o b)[1]
    BY <1>3, <1>4, <1>5, <2>2
  <2>4. QED  BY <2>1, <2>2, <2>3
<1>10. QED  BY <1>5, <1>6, <1>8, <1>9

\* The rules' plan of every goal is in order, so that validate accepts it, and the
\* first task after the preparation waits for all of it.
LEMMA RulesAreAccepted ==
  ASSUME NEW s \in Shape, NEW always \in BOOLEAN
  PROVE  LET rules == RulesPlan(s, always)
         IN  /\ rules \in Seq(RuleTask) /\ Len(rules) >= 2 /\ InOrder(rules, 0) /\ Validate(rules)
             /\ \E t \in DOMAIN rules :
                  /\ rules[t].type \notin Looking
                  /\ \A k \in DOMAIN rules : rules[k].type \in Looking => k \in DOMAIN rules[t].deps
<1> DEFINE p == Preparation(s)
           n == Len(p)
           q == FinishPlan(s, p, always)
           rules == RulesPlan(s, always)
<1>1. p \in Seq(RuleTask) /\ n \in Nat /\ n >= 1 /\ InOrder(p, 0)
  BY PreparationInOrder
<1>2. /\ q \in Seq(RuleTask) /\ InOrder(q, n) /\ Len(q) \in Nat /\ Len(q) >= 1
      /\ AtWork(q) /\ \E type \in RuleType \ Looking : q[1] = Task(type, After(1..n))
  <2>1. ASSUME NEW type \in RuleType \ Looking, q = <<Task(type, After(1..n))>>
        PROVE  /\ q \in Seq(RuleTask) /\ InOrder(q, n) /\ Len(q) \in Nat /\ Len(q) >= 1
               /\ AtWork(q) /\ q[1] = Task(type, After(1..n))
    <3>1. q \in Seq(RuleTask) /\ InOrder(q, n) /\ Len(q) = 1
      BY <1>1, <2>1, OneInOrder
    <3>2. q[1] = Task(type, After(1..n))
      BY <2>1
    <3>3. AtWork(q)
      BY <3>1, <3>2 DEF AtWork, Task
    <3>4. QED  BY <3>1, <3>2, <3>3
  <2>2. CASE s.investigation /\ ~s.changes
    <3>1. q = <<Task("BugFix", After(1..n))>>
      BY <2>2 DEF FinishPlan, Prerequisites
    <3>2. "BugFix" \in RuleType \ Looking
      BY DEF RuleType, Looking
    <3>3. QED  BY <2>1, <3>1, <3>2
  <2>3. CASE s.review /\ ~s.changes /\ ~s.investigation
    <3>1. q = <<Task("Review", After(1..n))>>
      BY <2>3 DEF FinishPlan, Prerequisites
    <3>2. "Review" \in RuleType \ Looking
      BY DEF RuleType, Looking
    <3>3. QED  BY <2>1, <3>1, <3>2
  <2>4. CASE s.docs /\ ~s.changes /\ ~s.investigation /\ ~s.review
    <3>1. q = <<Task("Documentation", After(1..n))>>
      BY <2>4 DEF FinishPlan, Prerequisites
    <3>2. "Documentation" \in RuleType \ Looking
      BY DEF RuleType, Looking
    <3>3. QED  BY <2>1, <3>1, <3>2
  <2>5. CASE ~(s.investigation /\ ~s.changes) /\ ~(s.review /\ ~s.changes /\ ~s.investigation)
             /\ ~(s.docs /\ ~s.changes /\ ~s.investigation /\ ~s.review)
    <3>1. PICK type \in RuleType \ Looking :
            type = IF s.investigation THEN "BugFix" ELSE "Implementation"
      BY DEF RuleType, Looking
    <3>2. q = <<Task(type, After(1..n))>>
                \o When(s.tests, <<Task("Testing", After({n + 1}))>>)
                \o When(always,
                   << Task("Validation", After(IF s.tests THEN {n + 1, n + 1 + 1} ELSE {n + 1})),
                      Task("Review", After({IF s.tests THEN n + 1 + 2 ELSE n + 1 + 1})) >>)
      BY <2>5, <3>1 DEF FinishPlan, Prerequisites
    <3>3. /\ q \in Seq(RuleTask) /\ InOrder(q, n) /\ Len(q) \in Nat /\ Len(q) >= 1
          /\ AtWork(q) /\ q[1] = Task(type, After(1..n))
      <4> DEFINE w == <<Task(type, After(1..n))>>
                        \o When(s.tests, <<Task("Testing", After({n + 1}))>>)
                        \o When(always,
                  << Task("Validation", After(IF s.tests THEN {n + 1, n + 1 + 1} ELSE {n + 1})),
                     Task("Review", After({IF s.tests THEN n + 1 + 2 ELSE n + 1 + 1})) >>)
      <4>1. n \in Nat
        BY <1>1
      <4>2. /\ w \in Seq(RuleTask) /\ InOrder(w, n) /\ Len(w) \in Nat /\ Len(w) >= 1
            /\ AtWork(w) /\ w[1] = Task(type, After(1..n))
        <5> HIDE DEF n
        <5>1. QED  BY <4>1, WorkInOrder, Zenon
      <4>3. q = w
        BY <3>2
      <4> HIDE DEF w, q, n
      <4>4. QED  BY <4>2, <4>3
    <3>4. QED  BY <3>1, <3>3
  <2>6. QED  BY <2>2, <2>3, <2>4, <2>5
<1>3. p \o q \in Seq(RuleTask) /\ InOrder(p \o q, 0) /\ Len(p \o q) = n + Len(q)
  BY <1>1, <1>2, InOrderTogether
<1>4. rules = p \o q
  BY DEF RulesPlan
<1>5. rules \in Seq(RuleTask) /\ Len(rules) >= 2 /\ InOrder(rules, 0)
  BY <1>1, <1>2, <1>3, <1>4
<1>6. Len(rules) \in Nat /\ DOMAIN rules = 1..Len(rules)
  BY <1>5
<1>7. /\ n + 1 \in DOMAIN rules /\ rules[n + 1].type \notin Looking
      /\ DOMAIN rules[n + 1].deps = 1..n
  <2>1. PICK type \in RuleType \ Looking : q[1] = Task(type, After(1..n))
    BY <1>2
  <2>2. n + 1 \in DOMAIN rules /\ rules[n + 1] = q[1]
    BY <1>1, <1>2, <1>3, <1>4, <1>6
  <2>3. DOMAIN After(1..n) = 1..n
    BY DEF After, SetToBag
  <2>4. QED  BY <2>1, <2>2, <2>3 DEF Task
<1>8. ASSUME NEW k \in DOMAIN rules, rules[k].type \in Looking PROVE k \in 1..n
  <2>1. CASE k > n
    <3>1. rules[k] = q[k - n] /\ k - n \in 1..Len(q)
      BY <1>1, <1>2, <1>3, <1>4, <1>6, <2>1
    <3>2. QED  BY <1>2, <1>8, <3>1 DEF AtWork
  <2>2. QED  BY <1>1, <1>6, <2>1
<1>9. \E t \in DOMAIN rules :
        /\ rules[t].type \notin Looking
        /\ \A k \in DOMAIN rules : rules[k].type \in Looking => k \in DOMAIN rules[t].deps
  BY <1>7, <1>8
<1>10. Validate(rules)
  BY <1>5, <1>6, OrderedIsAccepted
<1>11. QED  BY <1>5, <1>9, <1>10

\* A task of the model's plan: a usable line, with what it knew of the lines before.
LineTask(lines) ==
  UNION {{Task(lines[i].type, KnownDeps(lines[i].deps, k)) : k \in Nat} :
           i \in {i \in DOMAIN lines : Usable(lines[i])}}

\* The graphs parse_plan has after each line, up to the nth.
IsParse(f, lines, n) ==
  f = [i \in 0..n |-> IF i = 0 THEN <<>> ELSE ParseLine(f[i - 1], lines[i])]

\* There is such a sequence of graphs: the first line without one would extend the
\* graphs of the lines before it.
LEMMA ParseExists ==
  ASSUME NEW lines, Len(lines) \in Nat
  PROVE  \E f : IsParse(f, lines, Len(lines))
<1> DEFINE N == {n \in 0..Len(lines) : ~\E f : IsParse(f, lines, n)}
<1>1. SUFFICES ASSUME N # {} PROVE FALSE
  <2>1. Len(lines) \in 0..Len(lines)
    OBVIOUS
  <2>2. QED  BY <1>1, <2>1
<1>2. PICK n \in N : \A m \in N : n <= m
  <2>1. N \in SUBSET Nat
    OBVIOUS
  <2>2. QED  BY <1>1, <2>1, LeastNumber
<1>3. CASE n = 0
  <2>1. IsParse([i \in 0..0 |-> <<>>], lines, 0)
    BY DEF IsParse
  <2>2. QED  BY <1>2, <1>3, <2>1
<1>4. CASE n # 0
  <2>1. n \in Nat /\ n - 1 \in 0..Len(lines) /\ n - 1 \notin N
    BY <1>2, <1>4
  <2>2. PICK f : IsParse(f, lines, n - 1)
    BY <2>1
  <2> DEFINE g == [i \in 0..n |-> IF i = n THEN ParseLine(f[n - 1], lines[n]) ELSE f[i]]
  <2>3. ASSUME NEW i \in 0..n
        PROVE  g[i] = IF i = 0 THEN <<>> ELSE ParseLine(g[i - 1], lines[i])
    <3>1. CASE i = n
      BY <1>4, <2>1, <3>1
    <3>2. CASE i # n
      <4>1. i \in 0..(n - 1) /\ (i # 0 => i - 1 \in 0..(n - 1))
        BY <2>1, <3>2
      <4>2. g[i] = f[i] /\ (i # 0 => g[i - 1] = f[i - 1])
        BY <2>1, <3>2, <4>1
      <4>3. f[i] = IF i = 0 THEN <<>> ELSE ParseLine(f[i - 1], lines[i])
        BY <2>2, <4>1 DEF IsParse
      <4>4. QED  BY <4>2, <4>3
    <3>3. QED  BY <3>1, <3>2
  <2>4. IsParse(g, lines, n)
    BY <2>3 DEF IsParse
  <2>5. QED  BY <1>2, <2>4
<1>5. QED  BY <1>3, <1>4

\* Every task of the model's plan comes from a usable line.
LEMMA ParsedFromLines ==
  ASSUME NEW lines, Len(lines) \in Nat, DOMAIN lines = 1..Len(lines)
  PROVE  Parsed(lines) \in Seq(LineTask(lines))
<1>1. PICK f : IsParse(f, lines, Len(lines)) /\ Parsed(lines) = f[Len(lines)]
  <2>1. PICK h : IsParse(h, lines, Len(lines))
    BY ParseExists
  <2>2. QED  BY <2>1 DEF IsParse, Parsed
<1> DEFINE N == {n \in 0..Len(lines) : f[n] \notin Seq(LineTask(lines))}
<1>2. SUFFICES ASSUME N # {} PROVE FALSE
  <2>1. Len(lines) \in 0..Len(lines)
    OBVIOUS
  <2>2. QED  BY <1>1, <1>2, <2>1
<1>3. PICK n \in N : \A m \in N : n <= m
  <2>1. N \in SUBSET Nat
    OBVIOUS
  <2>2. QED  BY <1>2, <2>1, LeastNumber
<1>4. CASE n = 0
  BY <1>1, <1>3, <1>4 DEF IsParse
<1>5. CASE n # 0
  <2>1. n \in DOMAIN lines /\ n - 1 \in 0..Len(lines) /\ n - 1 \notin N
    BY <1>3, <1>5
  <2>2. f[n - 1] \in Seq(LineTask(lines))
    BY <2>1
  <2>3. f[n] = ParseLine(f[n - 1], lines[n])
    BY <1>1, <1>3, <1>5 DEF IsParse
  <2>4. Usable(lines[n]) =>
          Task(lines[n].type, KnownDeps(lines[n].deps, Len(f[n - 1]))) \in LineTask(lines)
    <3>1. Len(f[n - 1]) \in Nat
      BY <2>2
    <3>2. QED  BY <2>1, <3>1 DEF LineTask
  <2>5. f[n] \in Seq(LineTask(lines))
    BY <2>2, <2>3, <2>4 DEF ParseLine
  <2>6. QED  BY <1>3, <2>5
<1>6. QED  BY <1>4, <1>5

PlanIInv == PlanTypeOK /\ PlansCanFinish

\* The model's plan is accepted, and of lines somebody can run.
LEMMA ModelKeepsPlans ==
  ASSUME PlanIInv, PlanWithModel
  PROVE  PlanIInv'
<1>1. PICK lines \in Reply :
        /\ ModelPlan(lines) /\ reply' = lines /\ plan' = Parsed(lines) /\ planner' = "model"
        /\ worded /\ worded' = worded
  BY DEF PlanWithModel
<1>2. plan' \in Seq(LineTask(lines)) /\ Len(plan') >= 2 /\ Validate(plan')
  BY <1>1, ParsedFromLines, ReplyAssumption DEF ModelPlan
<1>3. DOMAIN plan' = 1..Len(plan') /\ \A t \in DOMAIN plan' : plan'[t] \in LineTask(lines)
  BY <1>2
<1>4. ASSUME NEW t \in DOMAIN plan'
      PROVE  /\ IsABag(plan'[t].deps) /\ DOMAIN plan'[t].deps \subseteq Nat
             /\ Routable # {} => plan'[t].type \in Routable
  <2>1. PICK i \in {i \in DOMAIN lines : Usable(lines[i])}, k \in Nat :
          plan'[t] = Task(lines[i].type, KnownDeps(lines[i].deps, k))
    <3>1. plan'[t] \in LineTask(lines)
      BY <1>3, <1>4
    <3>2. QED  BY <3>1 DEF LineTask
  <2>2. plan'[t].type = lines[i].type /\ plan'[t].deps = KnownDeps(lines[i].deps, k)
    BY <2>1 DEF Task
  <2>3. IsABag(lines[i].deps) /\ DOMAIN lines[i].deps \subseteq Nat
    BY <2>1, ReplyAssumption
  <2>4. IsABag(KnownDeps(lines[i].deps, k)) /\ DOMAIN KnownDeps(lines[i].deps, k) \subseteq Nat
    BY <2>3 DEF KnownDeps, IsABag
  <2>5. QED  BY <2>1, <2>2, <2>4 DEF Usable
<1>5. PlanTypeOK'
  BY <1>1, <1>3, <1>4 DEF PlanIInv, PlanTypeOK
<1>6. PlansCanFinish'
  BY <1>1, <1>2, <1>4, AcceptedIsAcyclic DEF PlansCanFinish, Acyclic
<1>7. QED  BY <1>5, <1>6 DEF PlanIInv

\* The rules' plan is accepted whatever the goal's shape.
LEMMA RulesKeepPlans ==
  ASSUME PlanIInv, PlanWithRules
  PROVE  PlanIInv'
<1>1. PICK s \in Shape, always \in BOOLEAN :
        /\ plan' = RulesPlan(s, always) /\ planner' = "rules" /\ reply' = reply
        /\ worded /\ worded' = worded
  BY RulesAreAccepted DEF PlanWithRules
<1>2. /\ plan' \in Seq(RuleTask) /\ Validate(plan')
      /\ \E t \in DOMAIN plan' :
           /\ plan'[t].type \notin Looking
           /\ \A k \in DOMAIN plan' : plan'[k].type \in Looking => k \in DOMAIN plan'[t].deps
  BY <1>1, RulesAreAccepted
<1>3. DOMAIN plan' = 1..Len(plan') /\ \A t \in DOMAIN plan' : plan'[t] \in RuleTask
  BY <1>2
<1>4. ASSUME NEW t \in DOMAIN plan'
      PROVE  IsABag(plan'[t].deps) /\ DOMAIN plan'[t].deps \subseteq Nat
  <2>1. PICK D \in SUBSET Nat : plan'[t].deps = After(D)
    BY <1>3, <1>4 DEF RuleTask
  <2>2. QED  BY <2>1 DEF After, SetToBag, IsABag
<1>5. PlanTypeOK'
  BY <1>1, <1>3, <1>4 DEF PlanTypeOK, PlanIInv
<1>6. PlansCanFinish'
  BY <1>1, <1>2, AcceptedIsAcyclic DEF PlansCanFinish, Acyclic
<1>7. QED  BY <1>5, <1>6 DEF PlanIInv

\* Every goal but an empty one, whatever a model replied, ends in a plan that can be
\* walked to its end: dependencies are tasks of the plan, each named once, and go round
\* in no circle. Somebody can run what a model planned; in what the rules planned there
\* is work that waits for all the looking (parse_plan, HeuristicPlanner::plan,
\* TaskGraph::validate).
THEOREM PlansAlwaysCanFinish == PlanSpec => [](PlanTypeOK /\ PlansCanFinish)
<1>1. PlanInit => PlanIInv
  BY DEF PlanInit, PlanIInv, PlanTypeOK, PlansCanFinish
<1>2. PlanIInv /\ [PlanNext]_planVars => PlanIInv'
  <2>1. CASE UNCHANGED planVars
    BY <2>1 DEF planVars, PlanIInv, PlanTypeOK, PlansCanFinish
  <2>2. ASSUME PlanIInv, RejectGoal PROVE PlanIInv'
    BY <2>2 DEF RejectGoal, PlanIInv, PlanTypeOK, PlansCanFinish
  <2>3. QED  BY <2>1, <2>2, ModelKeepsPlans, RulesKeepPlans DEF PlanNext
<1>3. PlanIInv => PlanTypeOK /\ PlansCanFinish
  BY DEF PlanIInv
<1>4. QED  BY <1>1, <1>2, <1>3, PTL DEF PlanSpec

-----------------------------------------------------------------------------
(* The components side by side.                                            *)

\* A step is about one component and leaves the others as they are.
LEMMA OnePartSteps ==
  ASSUME [Next]_vars
  PROVE  /\ [SyncNext]_syncVars /\ [LaunchNext]_launchVars /\ [BridgeNext]_bridgeVars
         /\ [WorktreeNext]_worktreeVars /\ [SkillNext]_skillVars /\ [ConfineNext]_confineVars
         /\ [MemoryNext]_memoryVars /\ [NotesNext]_noteVars /\ [HarnessNext]_harnessVars
         /\ [PlanNext]_planVars /\ [TuiNext]_tuiVars
         /\ focus' = focus
BY DEF Next, vars

\* A behaviour of the components on the user's machine together is one of each of
\* them: what holds of one on its own holds of it beside the others.
THEOREM EachPartRuns ==
  Spec => /\ SyncSpec /\ LaunchSpec /\ BridgeSpec /\ WorktreeSpec /\ SkillSpec /\ ConfineSpec
          /\ MemorySpec /\ NotesSpec /\ HarnessSpec /\ PlanSpec /\ TuiSpec
<1>1. Init => /\ SyncInit /\ LaunchInit /\ BridgeInit /\ WorktreeInit /\ SkillInit /\ ConfineInit
              /\ MemoryInit /\ NotesInit /\ HarnessInit /\ PlanInit /\ TuiInit
  BY DEF Init
<1>2. [Next]_vars =>
        /\ [SyncNext]_syncVars /\ [LaunchNext]_launchVars /\ [BridgeNext]_bridgeVars
        /\ [WorktreeNext]_worktreeVars /\ [SkillNext]_skillVars /\ [ConfineNext]_confineVars
        /\ [MemoryNext]_memoryVars /\ [NotesNext]_noteVars /\ [HarnessNext]_harnessVars
        /\ [PlanNext]_planVars /\ [TuiNext]_tuiVars
  BY OnePartSteps
<1> QED BY <1>1, <1>2, PTL
        DEF Spec, SyncSpec, LaunchSpec, BridgeSpec, WorktreeSpec, SkillSpec, ConfineSpec,
            MemorySpec, NotesSpec, HarnessSpec, PlanSpec, TuiSpec

\* The variables of all components on the user's machine keep their types (TypeOK).
THEOREM LocalTypeCorrect == Spec => []TypeOK
<1>1. Init => focus \in Component
  BY DEF Init
<1>2. focus \in Component /\ [Next]_vars => (focus \in Component)'
  BY OnePartSteps
<1>3. Spec => [](focus \in Component)
  BY <1>1, <1>2, PTL DEF Spec
<1>4. SkillSpec => []SkillTypeOK
  BY SkillTypeCorrect, InstancesAssumption
<1>5. (LaunchIInv => LaunchTypeOK) /\ (ConfineIInv => ConfineTypeOK)
  BY DEF LaunchIInv, ConfineIInv
<1>6. /\ focus \in Component /\ SyncTypeOK /\ LaunchTypeOK /\ BridgeTypeOK /\ WorktreeTypeOK
      /\ SkillTypeOK /\ ConfineTypeOK /\ MemoryTypeOK /\ NotesTypeOK /\ HarnessTypeOK
      /\ PlanTypeOK /\ TuiTypeOK
      => TypeOK
  BY DEF TypeOK
<1> QED BY <1>3, <1>4, <1>5, <1>6, EachPartRuns, SyncTypeCorrect, LaunchInvariance,
           BridgeTypeCorrect, WorktreeTypeCorrect, ConfineInvariance, MemoryTypeCorrect,
           PagesAreTrue, HarnessTypeCorrect, PlansAlwaysCanFinish, TuiTypeCorrect, PTL

\* Side by side the components keep what each of them promises, for every layout of
\* the machine and every package that InstancesAssumption admits.
THEOREM LocalKeepsPromises ==
  Spec => [](/\ MergeKeepsBoth /\ SandboxesAreFaithful /\ IsolationHolds
             /\ GuidanceWithinApproval /\ ProfileHolds /\ OverrunIsBounded /\ RecordsAreTrue
             /\ ServedAsAsked /\ PlansCanFinish /\ ScreenIsCurrent)
<1>1. SkillSpec => []GuidanceWithinApproval
  BY SkillsGuideWithinApproval, InstancesAssumption
<1>2. ConfineSpec => []ProfileHolds
  BY ProfilesHold, InstancesAssumption
<1> QED BY <1>1, <1>2, EachPartRuns, MergesKeepBoth, SandboxesStayFaithful, IsolationIsKept,
           OverrunsAreBounded, RecordsStayTrue, DirectoriesServedAsAsked, PlansAlwaysCanFinish,
           ScreenStaysCurrent, PTL DEF SandboxSpec, RecordsSpec

=============================================================================
