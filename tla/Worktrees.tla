----------------------------- MODULE Worktrees -----------------------------
(***************************************************************************)
(* Tasks isolated in git worktrees (isolate and settle_isolated of         *)
(* executor.rs, git.rs of cuma-workspace): each task starts from a         *)
(* snapshot of the workspace in a worktree of its own, and what it changed *)
(* is applied back as a patch, one task at a time.                         *)
(*                                                                         *)
(* A hunk is a group of lines that git patches as one; its content is the  *)
(* task that wrote it, or the number of the user's edit, 0 being what the  *)
(* session found.  git reads and writes the files one by one,              *)
(* and a git that outlives its timeout, or the call that started it, goes  *)
(* on: only what runs under isolation_lock is ordered.                     *)
(***************************************************************************)
EXTENDS Naturals, FiniteSets

CONSTANTS Isolated,     \* the tasks, all of which may write
          Hunk,
          MaxKeystrokes \* edits of the user

\* A task is neither a number nor the absence of one, and edits are numbered.
ASSUME IsolationAssumption ==
  "nobody" \notin Isolated /\ Isolated \cap Nat = {} /\ MaxKeystrokes \in Nat

VARIABLES workspace,   \* what each hunk holds
          turnOf,      \* who holds isolation_lock, or "nobody"
          phase,       \* where each task is
          origin,      \* each task's snapshot, as far as it was read
          changed,     \* the hunks it changed in its worktree
          landed,      \* the hunks git has written for it
          orphan,      \* tasks whose git apply still runs though nobody waits for it
          overran,     \* history: some git went on after its timeout or its caller
          keystrokes

worktreeVars == <<workspace, turnOf, phase, origin, changed, landed, orphan, overran,
                  keystrokes>>

HunkContent == (0..MaxKeystrokes) \cup Isolated

WorktreeTypeOK ==
  /\ workspace \in [Hunk -> HunkContent]
  /\ turnOf \in Isolated \cup {"nobody"}
  /\ phase \in [Isolated -> {"new", "snapshot", "agent", "shared", "settle", "check", "apply",
                            "done", "failed", "kept", "dropped"}]
  /\ \A t \in Isolated : \A u \in DOMAIN origin[t] : u \in Hunk /\ origin[t][u] \in HunkContent
  /\ changed \in [Isolated -> SUBSET Hunk] /\ landed \in [Isolated -> SUBSET Hunk]
  /\ orphan \subseteq Isolated /\ overran \in BOOLEAN /\ keystrokes \in 0..MaxKeystrokes

WorktreeInit ==
  /\ workspace = [u \in Hunk |-> 0]
  /\ turnOf = "nobody"
  /\ phase = [t \in Isolated |-> "new"]
  /\ origin = [t \in Isolated |-> <<>>]
  /\ changed = [t \in Isolated |-> {}] /\ landed = [t \in Isolated |-> {}]
  /\ orphan = {} /\ overran = FALSE /\ keystrokes = 0

-----------------------------------------------------------------------------
\* isolate: the lock is taken before the snapshot.
BeginSnapshot(t) ==
  /\ phase[t] = "new" /\ turnOf = "nobody"
  /\ turnOf' = t /\ phase' = [phase EXCEPT ![t] = "snapshot"]
  /\ UNCHANGED <<workspace, origin, changed, landed, orphan, overran, keystrokes>>

\* snapshot: git add -A reads one file after the other.
ReadHunk(t, u) ==
  /\ phase[t] = "snapshot" /\ u \notin DOMAIN origin[t]
  /\ origin' = [origin EXCEPT ![t] = [v \in DOMAIN origin[t] \cup {u} |->
                                    IF v = u THEN workspace[u] ELSE origin[t][v]]]
  /\ UNCHANGED <<workspace, turnOf, phase, changed, landed, orphan, overran, keystrokes>>

\* create_detached_worktree; when git fails the task shares the workspace.
Isolate(t) ==
  /\ phase[t] = "snapshot"
  /\ \/ /\ DOMAIN origin[t] = Hunk
        /\ phase' = [phase EXCEPT ![t] = "agent"]
     \/ phase' = [phase EXCEPT ![t] = "shared"]
  /\ turnOf' = "nobody"
  /\ UNCHANGED <<workspace, origin, changed, landed, orphan, overran, keystrokes>>

\* execute_task in the worktree: the agent edits what it likes and ends; failed
\* work is discarded with the worktree.
AgentEnds(t, edited) ==
  /\ phase[t] = "agent"
  /\ \/ /\ changed' = [changed EXCEPT ![t] = edited]
        /\ phase' = [phase EXCEPT ![t] = "settle"]
     \/ /\ phase' = [phase EXCEPT ![t] = "failed"]
        /\ UNCHANGED changed
  /\ UNCHANGED <<workspace, turnOf, origin, landed, orphan, overran, keystrokes>>

\* execute_task in the workspace itself, which is written as the agent goes.
SharedEdit(t, u) ==
  /\ phase[t] = "shared"
  /\ workspace' = [workspace EXCEPT ![u] = t]
  /\ UNCHANGED <<turnOf, phase, origin, changed, landed, orphan, overran, keystrokes>>

SharedEnds(t) ==
  /\ phase[t] = "shared"
  /\ \E end \in {"done", "failed"} : phase' = [phase EXCEPT ![t] = end]
  /\ UNCHANGED <<workspace, turnOf, origin, changed, landed, orphan, overran, keystrokes>>

-----------------------------------------------------------------------------
\* The lock is let go between the check and the application.
LockForNobody(t) == "nobody"

LockFor(t) == t

\* settle_isolated: no changes, nothing to apply; otherwise in turn.
BeginSettle(t) ==
  /\ phase[t] = "settle" /\ turnOf = "nobody"
  /\ IF changed[t] = {}
     THEN phase' = [phase EXCEPT ![t] = "done"] /\ UNCHANGED turnOf
     ELSE phase' = [phase EXCEPT ![t] = "check"] /\ turnOf' = LockFor(t)
  /\ UNCHANGED <<workspace, origin, changed, landed, orphan, overran, keystrokes>>

\* git apply verifies the whole patch before it writes any of it.
Applies(t) == \A u \in changed[t] : workspace[u] = origin[t][u]

\* apply_worktree: a patch that no longer applies leaves the worktree for a human.
CheckPatch(t) ==
  /\ phase[t] = "check"
  /\ IF Applies(t)
     THEN phase' = [phase EXCEPT ![t] = "apply"] /\ UNCHANGED turnOf
     ELSE phase' = [phase EXCEPT ![t] = "kept"] /\ turnOf' = "nobody"
  /\ UNCHANGED <<workspace, origin, changed, landed, orphan, overran, keystrokes>>

WriteHunk(t, u) ==
  /\ phase[t] = "apply" \/ t \in orphan
  /\ u \in changed[t] \ landed[t]
  /\ workspace' = [workspace EXCEPT ![u] = t]
  /\ landed' = [landed EXCEPT ![t] = @ \cup {u}]
  /\ UNCHANGED <<turnOf, phase, origin, changed, orphan, overran, keystrokes>>

\* The changed paths become artifacts, and the worktree is removed.
Settled(t) ==
  /\ phase[t] = "apply" /\ landed[t] = changed[t]
  /\ phase' = [phase EXCEPT ![t] = "done"]
  /\ turnOf' = "nobody"
  /\ UNCHANGED <<workspace, origin, changed, landed, orphan, overran, keystrokes>>

\* GIT_TIMEOUT fires, or the session is dropped: nobody waits for git any more,
\* the lock is free, and git is not killed.
Abandon(t) ==
  /\ phase[t] \notin {"new", "done", "failed", "kept", "dropped"}
  /\ \/ phase[t] = "apply" /\ phase' = [phase EXCEPT ![t] = "kept"]
     \/ phase' = [phase EXCEPT ![t] = "dropped"]
  /\ orphan' = IF phase[t] = "apply" THEN orphan \cup {t} ELSE orphan
  /\ overran' = (overran \/ phase[t] = "apply")
  /\ turnOf' = IF turnOf = t THEN "nobody" ELSE turnOf
  /\ UNCHANGED <<workspace, origin, changed, landed, keystrokes>>

UserTypes(u) ==
  /\ keystrokes < MaxKeystrokes
  /\ keystrokes' = keystrokes + 1
  /\ workspace' = [workspace EXCEPT ![u] = keystrokes']
  /\ UNCHANGED <<turnOf, phase, origin, changed, landed, orphan, overran>>

WorktreeNext ==
  \/ \E t \in Isolated :
       \/ BeginSnapshot(t) \/ Isolate(t) \/ SharedEnds(t) \/ BeginSettle(t) \/ CheckPatch(t)
       \/ Settled(t) \/ Abandon(t)
       \/ \E u \in Hunk : ReadHunk(t, u) \/ SharedEdit(t, u) \/ WriteHunk(t, u)
       \/ \E edited \in SUBSET Hunk : AgentEnds(t, edited)
  \/ \E u \in Hunk : UserTypes(u)

WorktreeSpec == WorktreeInit /\ [][WorktreeNext]_worktreeVars

-----------------------------------------------------------------------------
\* An edit of the user and a patch write a hunk once; only a task that shares the
\* workspace may write the same again.
WrittenOnce(u, content) == content \in Isolated => u \in landed[content]

\* settle_isolated lands all of a task's changes or keeps its worktree, and what
\* it landed is not undone by a task that never saw it: "If the changes no longer
\* apply ... nothing is applied" (git.rs).  Of two tasks that landed the same hunk
\* one started from what the other one left, or from later work.
LandedWorkStays ==
  ~overran =>
    \A t \in Isolated :
      /\ phase[t] = "done" => landed[t] = changed[t]
      /\ phase[t] = "kept" => landed[t] = {}
      /\ \A s \in Isolated \ {t} : \A u \in landed[t] \cap landed[s] :
           WrittenOnce(u, origin[t][u]) => origin[s][u] # origin[t][u]

\* isolation_lock "Serializes snapshots and applies" (executor.rs): as long as
\* every git was waited for, the snapshot a task starts from holds all of another
\* task's patch, or what came after it, or none of it.
SnapshotsAreWhole ==
  ~overran =>
    \A t, s \in Isolated :
      (DOMAIN origin[t] = Hunk /\ s \in {origin[t][u] : u \in landed[s]}) =>
        \A u \in changed[s] : WrittenOnce(u, origin[s][u]) => origin[t][u] # origin[s][u]

\* Isolated tasks neither see nor undo half of each other's work.
IsolationHolds == SnapshotsAreWhole /\ LandedWorkStays
=============================================================================
