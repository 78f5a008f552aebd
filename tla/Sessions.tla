------------------------------ MODULE Sessions ------------------------------
(***************************************************************************)
(* Sessions that walk their task graphs in waves, side by side, over one   *)
(* workspace and one ownership ledger (cuma-orchestrator executor.rs:      *)
(* run_session, execute_graph, admit_concurrently).                        *)
(*                                                                         *)
(* A session's own code runs without yielding between two of its awaits,   *)
(* but sessions run on different threads, so every access to the ledger,   *)
(* which is a lock of its own, is a step.  What one task does between the  *)
(* start of its wave and its result is module TaskExecution; here it is    *)
(* one step that picks the result.                                         *)
(***************************************************************************)
EXTENDS TaskGraph, PathClaims

CONSTANTS Session,
          Plan,         \* session -> its planned tasks, in planner order
          ReadOnly,     \* planned tasks whose risk is ReadOnly
          Names,        \* planned task -> the paths its description names
          Name,         \* path component names
          Index,        \* files of the workspace
          Artifact,     \* paths an agent may report as changed
          MaxParallel,  \* limits.max_parallel_tasks
          MaySplit,     \* planned tasks that may overflow an agent's context
          Isolation     \* limits.isolation is `worktree'

ASSUME PlanAssumption ==
  /\ Plan \in [Session -> Seq(Planned)]
  /\ Planned = UNION {Range(Plan[s]) : s \in Session}
  /\ \A s, r \in Session : s # r => Range(Plan[s]) \cap Range(Plan[r]) = {}
  /\ \A s \in Session, t \in Planned :
        t \in Range(Plan[s]) => Deps[t] \subseteq Range(Plan[s])
ASSUME LimitAssumption == MaxParallel \in Nat \ {0}
\* Only a planned task is split: a half never is.
ASSUME SplitAssumption == MaySplit \subseteq Planned
\* What the ledger is asked about are paths of the workspace.
ASSUME WorkspaceAssumption ==
  /\ "." \notin Name
  /\ \A f \in Index : f \in Seq(Name) /\ f # <<>>
  /\ Names \in [Planned -> SUBSET Spellings(Name)]
  /\ Artifact \subseteq Spellings(Name)

VARIABLES
  claims,     \* the ownership ledger: path -> task
  pc,         \* session -> where it is
  order,      \* session -> the tasks of its graph, in insertion order
  status,     \* task -> its status in its session's graph
  artifacts,  \* task -> the paths its row lists as changed
  pass,       \* session -> passes of execute_graph's loop so far
  queue,      \* session -> ready tasks of this wave not yet asked for
  wave,       \* session -> tasks of this wave not yet folded back
  alone,      \* session -> whether one task ran in this wave
  result,     \* task -> what its run on its own copy of the graph ended with
  deferredTo  \* session -> the sessions whose claims ever deferred its tasks

vars == <<claims, pc, order, status, artifacts, pass, queue, wave, alone,
          result, deferredTo>>

Outcome == {"completed", "failed", "replanned", "unmerged"}

Tasks(s) == Range(order[s])

SessionOf(t) == CHOOSE s \in Session : Base(t) \in Range(Plan[s])

IsReadOnly(t) == Base(t) \in ReadOnly

\* As many passes as it takes to run every task once at full width.
MaxPassesAtWidth(s) == Len(Plan[s]) \div MaxParallel

MaxPasses(s) == 2 * Len(Plan[s]) + 4

TypeOK ==
  /\ claims \in [DOMAIN claims -> Task]
  /\ pc \in [Session -> {"planning", "pass", "admit", "wave", "fold", "done",
                         "rejected", "dropping", "aborted"}]
  /\ order \in [Session -> Seq(Task)]
  /\ status \in [Task -> Status]
  /\ artifacts \in [Task -> SUBSET Artifact]
  /\ pass \in [Session -> Nat]
  /\ queue \in [Session -> SUBSET Task]
  /\ wave \in [Session -> SUBSET Task]
  /\ alone \in [Session -> BOOLEAN]
  /\ result \in [Task -> {"none", "running"} \cup Outcome]
  /\ deferredTo \in [Session -> SUBSET Session]

Init ==
  /\ claims = [p \in {} |-> p]
  /\ pc = [s \in Session |-> "planning"]
  /\ order = [s \in Session |-> <<>>]
  /\ status = [t \in Task |-> "Pending"]
  /\ artifacts = [t \in Task |-> {}]
  /\ pass = [s \in Session |-> 0]
  /\ queue = [s \in Session |-> {}]
  /\ wave = [s \in Session |-> {}]
  /\ alone = [s \in Session |-> FALSE]
  /\ result = [t \in Task |-> "none"]
  /\ deferredTo = [s \in Session |-> {}]

-----------------------------------------------------------------------------
(* run_session up to the loop.                                             *)

Planning(s) ==
  /\ pc[s] = "planning"
  /\ pc' = [pc EXCEPT ![s] = "pass"]
  /\ order' = [order EXCEPT ![s] = Plan[s]]
  /\ UNCHANGED <<claims, status, artifacts, pass, queue, wave, alone, result,
                 deferredTo>>

\* The planner fails or its graph does not validate.
PlanRejected(s) ==
  /\ pc[s] = "planning"
  /\ pc' = [pc EXCEPT ![s] = "rejected"]
  /\ UNCHANGED <<claims, order, status, artifacts, pass, queue, wave, alone,
                 result, deferredTo>>

-----------------------------------------------------------------------------
(* execute_graph: the head of a pass, admission, the wave, the fold.       *)

LoopEnds(s) ==
  \/ pass[s] = MaxPasses(s)
  \/ IsComplete(Tasks(s), status)
  \/ Ready(Tasks(s), status) = {}

BeginPass(s) ==
  /\ pc[s] = "pass"
  /\ ~LoopEnds(s)
  /\ pass' = [pass EXCEPT ![s] = @ + 1]
  /\ queue' = [queue EXCEPT ![s] =
                 Take(order[s], Ready(Tasks(s), status), MaxParallel)]
  /\ pc' = [pc EXCEPT ![s] = "admit"]
  /\ UNCHANGED <<claims, order, status, artifacts, wave, alone, result,
                 deferredTo>>

\* The loop is over, and with it the session.
Finish(s) ==
  /\ pc[s] = "pass"
  /\ LoopEnds(s)
  /\ pc' = [pc EXCEPT ![s] = "done"]
  /\ UNCHANGED <<claims, order, status, artifacts, pass, queue, wave, alone,
                 result, deferredTo>>

\* What task t asks the ledger for.
Writes(t) ==
  PredictWrites(Names[Base(t)], Index,
                UNION {artifacts[d] : d \in Dependencies(t)})

\* The tasks whose claims are in its way.
Blockers(t) ==
  {claims[h] : h \in {p \in DOMAIN claims :
     /\ claims[p] # t
     /\ \E raw \in Writes(t) : Overlaps(Normalize(raw), p)}}

\* admit_concurrently with a ledger that is never asked.
AskNobody(s, t) ==
  /\ claims' = claims
  /\ wave' = [wave EXCEPT ![s] = @ \cup {t}]
  /\ deferredTo' = deferredTo

\* admit_concurrently asks for one task's paths.
AskOne(s, t) ==
  LET held == Conflict(claims, t, Writes(t))
      free == IsReadOnly(t) \/ ~held
  IN  /\ claims' = IF IsReadOnly(t) \/ held THEN claims
                   ELSE Insert(claims, t, Writes(t))
      /\ wave' = IF free THEN [wave EXCEPT ![s] = @ \cup {t}] ELSE wave
      /\ deferredTo' =
           IF free THEN deferredTo
           ELSE [deferredTo EXCEPT ![s] = @ \cup
                   {SessionOf(u) : u \in Blockers(t)}]

Admit(s) ==
  /\ pc[s] = "admit"
  /\ queue[s] # {}
  /\ LET t == Earliest(order[s], queue[s])
     IN  AskOne(s, t) /\ queue' = [queue EXCEPT ![s] = @ \ {t}]
  /\ UNCHANGED <<pc, order, status, artifacts, pass, alone, result>>

\* A pass that admits nothing and is not counted.
LaunchUncounted(s) ==
  /\ pc[s] = "admit"
  /\ queue[s] = {}
  /\ pc' = [pc EXCEPT ![s] = IF wave[s] = {} THEN "pass" ELSE "wave"]
  /\ alone' = [alone EXCEPT ![s] = Cardinality(wave[s]) = 1]
  /\ result' = [t \in Task |-> IF t \in wave[s] THEN "running" ELSE result[t]]
  /\ pass' = IF wave[s] = {} THEN [pass EXCEPT ![s] = @ - 1] ELSE pass
  /\ UNCHANGED <<claims, order, status, artifacts, queue, wave, deferredTo>>

\* Every admitted task starts on a copy of the graph.  With nothing admitted
\* the pass is over at once.
Launch(s) ==
  /\ pc[s] = "admit"
  /\ queue[s] = {}
  /\ pc' = [pc EXCEPT ![s] = IF wave[s] = {} THEN "pass" ELSE "wave"]
  /\ alone' = [alone EXCEPT ![s] = Cardinality(wave[s]) = 1]
  /\ result' = [t \in Task |-> IF t \in wave[s] THEN "running" ELSE result[t]]
  /\ UNCHANGED <<claims, order, status, artifacts, pass, queue, wave,
                 deferredTo>>

\* Task t of session s ends: see TaskExecution for how.  A task is split when
\* it overflowed a context and is not itself a half; with worktree isolation
\* the work may then fail to merge back.
TaskEnds(s, t) ==
  /\ pc[s] = "wave"
  /\ result[t] = "running"
  /\ \E o \in Outcome, changed \in SUBSET Artifact :
       /\ o \in {"replanned", "unmerged"} => t \in MaySplit
       /\ o = "unmerged" => Isolation /\ ~IsReadOnly(t)
       /\ changed # {} => \/ o = "completed"
                          \/ o = "replanned" /\ Isolation /\ ~IsReadOnly(t)
       /\ result' = [result EXCEPT ![t] = o]
       /\ artifacts' = [artifacts EXCEPT ![t] = changed]
  /\ UNCHANGED <<claims, pc, order, status, pass, queue, wave, alone,
                 deferredTo>>

\* A join that waits for success.
JoinCompleted(s) ==
  /\ pc[s] = "wave"
  /\ \A t \in wave[s] : result[t] = "completed"
  /\ pc' = [pc EXCEPT ![s] = "fold"]
  /\ UNCHANGED <<claims, order, status, artifacts, pass, queue, wave, alone,
                 result, deferredTo>>

\* join_all returns when the last task of the wave has ended.
Join(s) ==
  /\ pc[s] = "wave"
  /\ \A t \in wave[s] : result[t] # "running"
  /\ pc' = [pc EXCEPT ![s] = "fold"]
  /\ UNCHANGED <<claims, order, status, artifacts, pass, queue, wave, alone,
                 result, deferredTo>>

\* The result of the run taken for the status.
RowStatusVerbatim(t) == result[t]

\* The status of t's row in the copy it ran on.
RowStatus(t) ==
  CASE result[t] = "completed" -> "Completed"
    [] result[t] = "replanned" -> "Skipped"
    [] OTHER                   -> "Failed"

\* Fold t's row back: the whole copy when the copy grew and t ran alone,
\* otherwise the row, and the cascade when the run did not end well.
FoldRow(s, t) ==
  LET row    == [status EXCEPT ![t] = RowStatus(t)]
      grew   == result[t] \in {"replanned", "unmerged"}
      failed == result[t] \in {"failed", "unmerged"}
      skip   == CascadeSkip(Tasks(s), row, t)
  IN  \/ /\ grew /\ alone[s]
         /\ status' = row
         /\ order' = [order EXCEPT ![s] = @ \o <<Half(t, 1), Half(t, 2)>>]
      \/ /\ ~(grew /\ alone[s])
         /\ status' = IF failed
                      THEN [u \in Task |-> IF u \in skip THEN "Skipped" ELSE row[u]]
                      ELSE row
         /\ order' = order

\* The fold of one result: release its claims, then its row.  After the last
\* one the claims guard is dropped, which releases nothing any more.
Fold(s) ==
  /\ pc[s] = "fold"
  /\ LET t == Earliest(order[s], wave[s])
     IN  /\ claims' = Retain(claims, t)
         /\ FoldRow(s, t)
         /\ wave' = [wave EXCEPT ![s] = @ \ {t}]
         /\ pc' = IF wave[s] = {t} THEN [pc EXCEPT ![s] = "pass"] ELSE pc
  /\ UNCHANGED <<artifacts, pass, queue, alone, result, deferredTo>>

-----------------------------------------------------------------------------
(* A run dropped at an await: a cancelled A2A task, an abandoned prompt.   *)

\* Only awaits can be dropped at: planning, and the wait for the wave.
Abort(s) ==
  /\ \/ pc[s] = "planning"
     \/ pc[s] = "wave" /\ \E t \in wave[s] : result[t] = "running"
  /\ pc' = [pc EXCEPT ![s] = IF wave[s] = {} THEN "aborted" ELSE "dropping"]
  /\ UNCHANGED <<claims, order, status, artifacts, pass, queue, wave, alone,
                 result, deferredTo>>

\* A guard that is dropped without releasing anything.
DropWithoutRelease(s) ==
  /\ pc[s] = "dropping"
  /\ wave' = [wave EXCEPT ![s] = {}]
  /\ pc' = [pc EXCEPT ![s] = "aborted"]
  /\ UNCHANGED <<claims, order, status, artifacts, pass, queue, alone, result,
                 deferredTo>>

\* ClaimsGuard::drop releases the tasks of the wave one after the other.
DropClaims(s) ==
  /\ pc[s] = "dropping"
  /\ LET t == Earliest(order[s], wave[s])
     IN  /\ claims' = Retain(claims, t)
         /\ wave' = [wave EXCEPT ![s] = @ \ {t}]
         /\ pc' = IF wave[s] = {t} THEN [pc EXCEPT ![s] = "aborted"] ELSE pc
  /\ UNCHANGED <<order, status, artifacts, pass, queue, alone, result,
                 deferredTo>>

Step(s) ==
  \/ Planning(s)
  \/ PlanRejected(s)
  \/ BeginPass(s)
  \/ Finish(s)
  \/ Admit(s)
  \/ Launch(s)
  \/ \E t \in wave[s] : TaskEnds(s, t)
  \/ Join(s)
  \/ Fold(s)
  \/ DropClaims(s)

Next == \E s \in Session : Step(s) \/ Abort(s)

\* A session's thread keeps running, and execute_task ends every task it is
\* given (TaskExecution, EveryTaskEnds).
Spec == Init /\ [][Next]_vars /\ \A s \in Session : WF_vars(Step(s))

-----------------------------------------------------------------------------
(* Properties.                                                             *)

\* What the ledger has granted, as the tasks that are admitted and not yet
\* folded back.
Granted ==
  [t \in Task |->
     IF t \in wave[SessionOf(t)] /\ ~IsReadOnly(t)
     THEN {[names   |-> Names[Base(t)],
            outputs |-> UNION {artifacts[d] : d \in Dependencies(t)}]}
     ELSE {}]

Asked == {[names |-> Names[t], outputs |-> o] : t \in Planned, o \in SUBSET Artifact}

Ledger == INSTANCE Ownership WITH Request <- Asked, granted <- Granted

\* The waves use the ledger the way its promise assumes, over every
\* interleaving of admissions, folds and aborts of every session: a writer is
\* admitted exactly when it was granted its paths and holds them until its
\* result is folded or its session's guard is dropped.
LedgerHonoured == Ledger!Init /\ [][Ledger!Next]_Ledger!vars

\* A claim belongs to a task of a wave that is still going on: no path stays
\* locked for later sessions, however the wave ended (ClaimsGuard).
NoLeakedClaims ==
  \A p \in DOMAIN claims : claims[p] \in wave[SessionOf(claims[p])]

\* A task starts only behind dependencies that completed, however the graph was
\* rewritten while it waited.
RunsBehindCompleted ==
  \A t \in Task : result[t] # "none" =>
     \A d \in Dependencies(t) : status[d] = "Completed"

\* A task that is terminal in its session's graph never changes again, so two
\* results folded one after the other cannot overwrite each other's rows.
TerminalIsFinal ==
  \A t \in Task : status[t] \in Terminal => status'[t] = status[t]

\* The dependency d can never complete and its failure cascades.
Blocks(s, d) ==
  \/ status[d] = "Failed" /\ Half(d, 1) \notin Tasks(s)
  \/ status[d] = "Skipped" /\ result[d] # "replanned"

\* Between two folds, exactly the tasks behind a failed one are skipped,
\* directly or through others, and no task that could still run.
CascadeIsExact ==
  \A s \in Session : \A t \in Tasks(s) :
     (status[t] = "Skipped" /\ result[t] # "replanned")
       <=> \E d \in Dependencies(t) : Blocks(s, d)

\* t stands behind a task that re-planning replaced, directly or through others.
BehindSplit(s, t) ==
  \A S \in SUBSET Tasks(s) :
     /\ \A d \in Tasks(s) : result[d] \in {"replanned", "unmerged"} => d \in S
     /\ \A u \in Tasks(s) : Dependencies(u) \cap S # {} => u \in S
     => t \in S

\* A session that ends with unfinished tasks has one of three reasons: they
\* stand behind a task that was split, another session's claims deferred a task
\* of this one until the passes ran out, or re-planning grew the graph beyond
\* the passes that the first plan was given.
StallHasCause ==
  \A s \in Session : pc[s] = "done" =>
     \A t \in Tasks(s) :
        \/ status[t] \in Terminal
        \/ BehindSplit(s, t)
        \/ deferredTo[s] \ {s} # {}
        \/ Len(order[s]) > 2 * Len(Plan[s]) + 4

\* The phases of a session, from the last to the first of a pass.
Phase == [done |-> 0, rejected |-> 0, aborted |-> 0, pass |-> 1, fold |-> 2,
          dropping |-> 2, wave |-> 3, admit |-> 4, planning |-> 5]

\* What is left of the phase: tasks to ask for, to wait for, to fold or to drop.
Work(s) ==
  Cardinality(CASE pc[s] = "admit" -> queue[s]
                [] pc[s] = "wave"  -> {t \in wave[s] : result[t] = "running"}
                [] OTHER           -> wave[s])

\* Session s comes nearer to its end: it begins one of the passes it has, or goes
\* on to a later phase of this one, or has less to do in the same phase.
Advances(s) ==
  \/ pass'[s] \in (pass[s] + 1)..MaxPasses(s)
  \/ /\ pass'[s] = pass[s]
     /\ \/ Phase[pc'[s]] < Phase[pc[s]]
        \/ Phase[pc'[s]] = Phase[pc[s]] /\ Work(s)' < Work(s)

\* Every step, also an abort, brings one session nearer to its end and takes no
\* other one back: however splits grow the graph, deferrals empty the waves and
\* sessions block each other, nobody goes round in circles.
SessionsAdvance ==
  \E s \in Session :
     /\ Advances(s)
     /\ \A r \in Session \ {s} : pass'[r] = pass[r] /\ pc'[r] = pc[r] /\ Work(r)' = Work(r)

\* The walk never turns back: no row that is terminal changes (TerminalIsFinal) and
\* every step comes nearer to the end (SessionsAdvance).
WalkNeverTurnsBack == [][TerminalIsFinal /\ SessionsAdvance]_vars

\* Every session ends: its loop is bounded and every wave it waits for ends.
SessionsEnd ==
  \A s \in Session : <>(pc[s] \in {"done", "rejected", "aborted"})

\* "A task whose paths are already claimed is dropped from this wave rather than
\* failed -- it becomes ready again once the holder finishes" (executor.rs,
\* admit_concurrently): no session ends while one of its tasks is ready.
DeferredTasksRun ==
  \A s \in Session : pc[s] = "done" => Ready(Tasks(s), status) = {}

\* "Walk the DAG until every task is terminal" (executor.rs, execute_graph).
WalksToTheEnd ==
  \A s \in Session : pc[s] = "done" => IsComplete(Tasks(s), status)
=============================================================================
