--------------------------- MODULE Machine_proofs ---------------------------
(***************************************************************************)
(* Proofs about what CUMA does with a sandbox, with what it remembers, on  *)
(* the terminal and with an agent it confines: the merge of SandboxSync,   *)
(* the launch and the relay of Sandboxes, the ledger, the history and the  *)
(* notes of Records, the view model of Tui and the profile of Confine.     *)
(* They share no state; each part is about one of them.                    *)
(***************************************************************************)
EXTENDS SandboxSync, Records, Sandboxes, Tui, Confine,
        NaturalsInduction, WellFoundedInduction, FiniteSetTheorems, SequenceTheorems, TLAPS

-----------------------------------------------------------------------------
(* SandboxSync                                                             *)

\* What the merge has done to a path nobody edited since the comparison: one that
\* is still to be applied was as recorded, one that was applied is the agent's, and
\* all others are as they were found.
PathsInStep ==
  /\ merge.todo \cap merge.applied = {}
  /\ merge.phase = "away" => merge.todo = {} /\ merge.applied = {} /\ late = {}
  /\ merge.phase = "merged" => merge.todo = {}
  /\ merge.phase # "away" =>
       \A p \in Path \ late :
         /\ p \in merge.todo => ours[p] = base[p]
         /\ p \in merge.applied => p \in Changed /\ ours[p] = base[p] /\ here[p] = theirs[p]
         /\ p \notin merge.todo \cup merge.applied => here[p] = ours[p]
         /\ merge.phase \in {"applying", "merged"} /\ p \in Changed =>
              p \in merge.todo \cup merge.applied \/ ours[p] = theirs[p]
  /\ merge.todo \subseteq Changed

SyncIInv == SyncTypeOK /\ DirsOf(here) \subseteq dirs /\ PathsInStep

\* A directory contains a path that is there.
LEMMA DirsArePaths ==
  ASSUME NEW t \in Tree PROVE DirsOf(t) \subseteq Path
  BY SyncAssumption DEF DirsOf

\* The invariant holds when the copy is handed over.
LEMMA SyncInitially == ASSUME SyncInit PROVE SyncIInv
<1>1. base \in Tree
  BY SyncAssumption DEF SyncInit, Recorded, Tree
<1>2. SyncTypeOK
  BY <1>1, DirsArePaths, SyncAssumption DEF SyncInit, SyncTypeOK
<1>3. QED  BY <1>2 DEF SyncInit, SyncIInv, PathsInStep

\* Every step keeps it: a file is written only where the way is free, and only
\* paths that were as recorded are ever written.
LEMMA SyncStep ==
  ASSUME SyncIInv, [SyncNext]_syncVars PROVE SyncIInv'
<1> USE DEF SyncIInv
<1>1. CASE AgentWorks
  <2>1. SyncTypeOK' /\ DirsOf(here)' \subseteq dirs'
    BY <1>1 DEF AgentWorks, SyncTypeOK, DirsOf
  <2>2. PathsInStep'
    BY <1>1 DEF AgentWorks, PathsInStep
  <2>3. QED  BY <2>1, <2>2
<1>2. CASE UserEdits
  <2>1. PICK p \in Path, c \in Content \cup {Nothing} :
           /\ [here EXCEPT ![p] = c] \in Tree
           /\ here' = [here EXCEPT ![p] = c]
           /\ late' = IF merge.phase = "applying" THEN late \cup {p} ELSE late
    BY <1>2 DEF UserEdits
  <2>2. DirsOf(here') \subseteq Path
    BY <2>1, DirsArePaths
  <2>3. SyncTypeOK'
    <3>1. edits' \in 0..MaxUserEdits
      BY <1>2, SyncAssumption DEF UserEdits, SyncTypeOK
    <3>2. here' \in Tree /\ late' \subseteq Path /\ dirs' \subseteq Path
      BY <1>2, <2>1, <2>2 DEF UserEdits, SyncTypeOK
    <3>3. QED  BY <1>2, <3>1, <3>2 DEF UserEdits, SyncTypeOK
  <2>4. DirsOf(here)' \subseteq dirs'
    BY <1>2 DEF UserEdits, DirsOf
  <2>5. \A q \in Path \ {p} : here'[q] = here[q]
    BY <2>1 DEF SyncTypeOK, Tree
  <2>6. UNCHANGED <<merge, ours, base, theirs>> /\ Changed' = Changed
    BY <1>2 DEF UserEdits, Changed, StaysBehind
  <2>7. merge.phase \in {"away", "applying"}
    BY <1>2 DEF UserEdits
  <2>8. PathsInStep'
    <3>1. CASE merge.phase = "away"
      BY <2>1, <2>6, <3>1 DEF PathsInStep
    <3>2. CASE merge.phase = "applying"
      BY <2>1, <2>5, <2>6, <3>2 DEF PathsInStep
    <3>3. QED  BY <2>7, <3>1, <3>2
  <2>9. QED  BY <2>3, <2>4, <2>8
<1>3. CASE Compare
  <2>1. merge \in [phase : {"away", "applying", "merged", "conflict", "failed"},
                   todo : SUBSET Path, applied : SUBSET Path]
        /\ merge.phase = "away" /\ merge.todo = {} /\ merge.applied = {} /\ late = {}
    BY <1>3 DEF Compare, SyncTypeOK, PathsInStep
  <2>2. UNCHANGED <<here, dirs, base, theirs, edits, late>> /\ ours' = here
    BY <1>3 DEF Compare
  <2>3. Changed' = Changed /\ DirsOf(here)' = DirsOf(here)
    BY <2>2 DEF Changed, StaysBehind, DirsOf
  <2>4. Applicable \subseteq Changed /\ Changed \subseteq Path
    BY DEF Applicable, Changed
  <2>5. \/ merge'.phase \in {"failed", "conflict"} /\ merge'.todo = {} /\ merge'.applied = {}
        \/ /\ merge'.phase = "applying" /\ merge'.todo = Applicable /\ merge'.applied = {}
           /\ Conflicts = {}
    BY <1>3, <2>1 DEF Compare
  <2>6. SyncTypeOK'
    BY <1>3, <2>1, <2>2, <2>4 DEF Compare, SyncTypeOK
  <2>7. PathsInStep'
    <3>1. CASE merge'.phase \in {"failed", "conflict"} /\ merge'.todo = {} /\ merge'.applied = {}
      BY <2>2, <3>1 DEF PathsInStep
    <3>2. CASE merge'.phase = "applying" /\ merge'.todo = Applicable /\ merge'.applied = {}
               /\ Conflicts = {}
      BY <2>2, <2>3, <2>4, <3>2 DEF PathsInStep, Applicable, Conflicts, AsRecorded
    <3>3. QED  BY <2>5, <3>1, <3>2
  <2>8. QED  BY <2>2, <2>3, <2>6, <2>7
<1>4. CASE ApplyOne
  <2>1. PICK p \in Upcoming :
           /\ CanApply(p)
           /\ here' = [here EXCEPT ![p] = theirs[p]]
           /\ merge' = [merge EXCEPT !.todo = @ \ {p}, !.applied = @ \cup {p}]
    BY <1>4 DEF ApplyOne
  <2>2. p \in merge.todo /\ p \in Path
    BY DEF Upcoming, SyncTypeOK
  <2>3. here' \in Tree
    BY <2>1, <2>2, SyncAssumption DEF CanApply, Astray, SyncTypeOK, Tree, DirsOf
  <2>4. DirsOf(here') \subseteq Path
    BY <2>3, DirsArePaths
  <2>5. UNCHANGED <<base, theirs, ours, edits, late>> /\ dirs' = dirs \cup DirsOf(here')
    BY <1>4 DEF ApplyOne
  <2>6. /\ merge' \in [phase : {"away", "applying", "merged", "conflict", "failed"},
                       todo : SUBSET Path, applied : SUBSET Path]
        /\ merge.phase = "applying" /\ merge'.phase = "applying"
        /\ merge'.todo = merge.todo \ {p} /\ merge'.applied = merge.applied \cup {p}
    BY <1>4, <2>1, <2>2 DEF ApplyOne, SyncTypeOK
  <2>7. SyncTypeOK'
    BY <2>3, <2>4, <2>5, <2>6 DEF SyncTypeOK
  <2>8. DirsOf(here)' \subseteq dirs'
    BY <2>5 DEF DirsOf
  <2>9. Changed' = Changed
    BY <2>5 DEF Changed, StaysBehind
  <2>10. here'[p] = theirs[p] /\ \A q \in Path \ {p} : here'[q] = here[q]
    BY <2>1, <2>2 DEF SyncTypeOK, Tree
  <2>11. PathsInStep'
    BY <2>2, <2>5, <2>6, <2>9, <2>10 DEF PathsInStep
  <2>12. QED  BY <2>7, <2>8, <2>11
<1>5. CASE ApplyFails
  <2>1. PICK p \in Upcoming : here' = here \/ here' = [here EXCEPT ![p] = Nothing]
    BY <1>5 DEF ApplyFails
  <2>2. p \in merge.todo /\ p \in Path
    BY DEF Upcoming, SyncTypeOK
  <2>3. here' \in Tree /\ DirsOf(here') \subseteq DirsOf(here)
    BY <2>1, <2>2, SyncAssumption DEF SyncTypeOK, Tree, DirsOf
  <2>4. UNCHANGED <<dirs, base, theirs, ours, edits, late>>
    BY <1>5 DEF ApplyFails
  <2>5. /\ merge' \in [phase : {"away", "applying", "merged", "conflict", "failed"},
                       todo : SUBSET Path, applied : SUBSET Path]
        /\ merge.phase = "applying" /\ merge'.phase = "failed"
        /\ merge'.todo = merge.todo /\ merge'.applied = merge.applied
    BY <1>5 DEF ApplyFails, SyncTypeOK
  <2>6. SyncTypeOK'
    BY <2>3, <2>4, <2>5 DEF SyncTypeOK
  <2>7. DirsOf(here)' \subseteq dirs'
    BY <2>3, <2>4 DEF DirsOf
  <2>8. Changed' = Changed
    BY <2>4 DEF Changed, StaysBehind
  <2>9. \A q \in Path \ {p} : here'[q] = here[q]
    BY <2>1, <2>2 DEF SyncTypeOK, Tree
  <2>10. PathsInStep'
    BY <2>2, <2>4, <2>5, <2>8, <2>9 DEF PathsInStep
  <2>11. QED  BY <2>6, <2>7, <2>10
<1>6. CASE ApplyEnds
  <2>1. UNCHANGED <<here, dirs, base, theirs, ours, edits, late>>
    BY <1>6 DEF ApplyEnds
  <2>2. /\ merge' \in [phase : {"away", "applying", "merged", "conflict", "failed"},
                       todo : SUBSET Path, applied : SUBSET Path]
        /\ merge.phase = "applying" /\ merge'.phase = "merged" /\ merge.todo = {}
        /\ merge'.todo = merge.todo /\ merge'.applied = merge.applied
    BY <1>6 DEF ApplyEnds, SyncTypeOK
  <2>3. SyncTypeOK' /\ DirsOf(here)' \subseteq dirs'
    BY <2>1, <2>2 DEF SyncTypeOK, DirsOf
  <2>4. Changed' = Changed
    BY <2>1 DEF Changed, StaysBehind
  <2>5. PathsInStep'
    BY <2>1, <2>2, <2>4 DEF PathsInStep
  <2>6. QED  BY <2>3, <2>5
<1>7. CASE UNCHANGED syncVars
  BY <1>7 DEF syncVars, SyncTypeOK, PathsInStep, Changed, StaysBehind, DirsOf
<1>8. QED
  BY <1>1, <1>2, <1>3, <1>4, <1>5, <1>6, <1>7 DEF SyncNext

\* The merge's invariant, for every set of paths however they nest, every content
\* and any number of edits by the user.
THEOREM SyncInvariance == SyncSpec => []SyncIInv
<1>1. SyncInit => SyncIInv
  BY SyncInitially
<1>2. SyncIInv /\ [SyncNext]_syncVars => SyncIInv'
  BY SyncStep
<1>3. QED  BY <1>1, <1>2, PTL DEF SyncSpec

\* The types of the merge: the workspace stays a tree, a file never has others
\* beneath it (sync.rs).
THEOREM SyncTypeCorrect == SyncSpec => []SyncTypeOK
<1>1. SyncIInv => SyncTypeOK
  BY DEF SyncIInv
<1>2. QED  BY <1>1, SyncInvariance, PTL

\* Snapshot::merge keeps what the user changed while the agent was away, however it
\* ends, and when it succeeds all that the agent changed.
THEOREM MergesKeepBoth == SyncSpec => []MergeKeepsBoth
<1>1. SyncIInv => MergeKeepsBoth
  BY DEF SyncIInv, PathsInStep, MergeKeepsBoth, UsersChangesSurvive, MergeIsExact, SyncTypeOK,
         Changed
<1>2. QED  BY <1>1, SyncInvariance, PTL

-----------------------------------------------------------------------------
(* RoutingMemory                                                           *)

\* Attempts that will still be charged to the ledger.
InFlight == {j \in Job : job[j].at \in {"running", "written"}}

\* What is in flight was let through by a ledger below the ceiling.
LedgerInStep ==
  Budget # Unknown =>
    spent + Cardinality(InFlight) * MaxCost < Budget + Cardinality(Job) * MaxCost

\* The rows of the attempts table are told apart by task and by count of attempts.
RowsInStep ==
  /\ IsFiniteSet(attempts)
  /\ \A r \in attempts :
       r.id <= tried /\ (job[r.by].at = "running" => r.id < tried)
  /\ \A j \in Job : job[j].at \in {"running", "written", "charged"} => job[j].target \in Index

RoutingIInv == MemoryTypeOK /\ LedgerInStep /\ RowsInStep /\ CountsAgree

-----------------------------------------------------------------------------
\* A product grows with its first factor.
LEMMA TimesMonotone ==
  ASSUME NEW a \in Nat, NEW b \in Nat, NEW m \in Nat, a <= b
  PROVE  a * m <= b * m /\ a * m \in Nat
<1>1. PICK d \in Nat : b = a + d
  <2>1. b - a \in Nat /\ b = a + (b - a)
    OBVIOUS
  <2>2. QED  BY <2>1
<1>2. b * m = a * m + d * m
  BY <1>1
<1>3. a * m \in Nat /\ d * m \in Nat
  OBVIOUS
<1>4. QED  BY <1>2, <1>3

\* One more factor is one more addend.
LEMMA TimesSuccessor ==
  ASSUME NEW a \in Nat, NEW m \in Nat PROVE (a + 1) * m = a * m + m /\ a * m \in Nat
  OBVIOUS

\* What an attempt costs lies within MaxCost.
LEMMA CostIsBounded ==
  ASSUME NEW i \in Index, NEW tokens \in 1..2,
         NEW reported \in {Unknown, MaxCost}
  PROVE  CostOf(i, tokens, reported) \in Unknown..MaxCost
<1>1. Targets[i].price \in Nat \cup {Unknown} /\ MaxCost \in Nat
  BY RoutingAssumption
<1>2. Estimate(Targets[i], tokens) \in Nat \cup {Unknown}
  BY <1>1 DEF Estimate, Unknown
<1>3. QED  BY <1>1, <1>2 DEF CostOf, Least, Unknown

\* The buckets stay buckets.
LEMMA FoldsAreBuckets ==
  ASSUME NEW s \in Bucket, s.successes <= s.attempts,
         NEW o \in [ok : BOOLEAN, latency : Nat, tokens : Nat]
  PROVE  /\ Fold(s, o) \in Bucket /\ Fold(s, o).attempts = s.attempts + 1
         /\ Fold(s, o).successes <= Fold(s, o).attempts
<1>1. \A c, n, x \in Nat : RunningMean(c, n, x) \in Nat
  <2>1. SUFFICES ASSUME NEW c \in Nat, NEW n \in Nat, NEW x \in Nat
                 PROVE  RunningMean(c, n, x) \in Nat
    OBVIOUS
  <2>2. c * n + x \in Nat /\ n + 1 \in Nat /\ n + 1 > 0
    OBVIOUS
  <2>3. QED  BY <2>2 DEF RunningMean
<1>2. s.attempts \in Nat /\ s.successes \in Nat /\ s.latency \in Nat /\ s.tokens \in Nat
  BY DEF Bucket
<1>3. o.latency \in Nat /\ o.tokens \in Nat
  OBVIOUS
<1>4. /\ RunningMean(s.latency, s.attempts, o.latency) \in Nat
      /\ RunningMean(s.tokens, s.attempts, o.tokens) \in Nat
  BY <1>1, <1>2, <1>3
<1>5. s.successes + (IF o.ok THEN 1 ELSE 0) \in Nat
      /\ s.successes + (IF o.ok THEN 1 ELSE 0) <= s.attempts + 1
  BY <1>2
<1>6. QED  BY <1>2, <1>4, <1>5 DEF Fold, Bucket

\* What the database adds to a bucket.
LEMMA TotalsAreBuckets ==
  ASSUME NEW t \in Bucket, t.successes <= t.attempts,
         NEW r \in [id : Nat, by : Job, target : Index, ok : BOOLEAN, tokens : 1..2]
  PROVE  /\ AddTotals(t, r) \in Bucket /\ AddTotals(t, r).attempts = t.attempts + 1
         /\ AddTotals(t, r).successes = t.successes + (IF r.ok THEN 1 ELSE 0)
         /\ AddTotals(t, r).successes <= AddTotals(t, r).attempts
<1>1. t.attempts \in Nat /\ t.successes \in Nat /\ t.latency \in Nat /\ t.tokens \in Nat
      /\ r.tokens \in Nat
  BY DEF Bucket
<1>2. QED  BY <1>1 DEF AddTotals, Bucket

\* What a later process starts from.
LEMMA RestoredAreBuckets ==
  ASSUME NEW t \in Bucket, t.successes <= t.attempts
  PROVE  /\ Restored(t) \in Bucket /\ Restored(t).attempts = t.attempts
         /\ Restored(t).successes <= Restored(t).attempts
<1>1. t.attempts \in Nat /\ t.successes \in Nat /\ t.latency \in Nat /\ t.tokens \in Nat
  BY DEF Bucket
<1>2. \A a, n \in Nat : n # 0 => a \div n \in Nat
  OBVIOUS
<1>3. /\ (IF t.attempts = 0 THEN 0 ELSE t.latency \div t.attempts) \in Nat
      /\ (IF t.successes = 0 THEN 0 ELSE t.tokens \div t.successes) \in Nat
  BY <1>1, <1>2
<1>4. QED  BY <1>1, <1>3 DEF Restored, Bucket

\* The invariant holds when the first process starts.
LEMMA RoutingInitially == ASSUME MemoryInit PROVE RoutingIInv
<1>1. Cardinality(Job) \in Nat /\ Cardinality(Job) >= 1
  BY FS_CardinalityType, FS_EmptySet, RoutingAssumption
<1>2. MemoryTypeOK
  <2>1. Waiting \in [at : {"idle", "running", "written", "charged", "done"},
                     target : Index \cup {0}, ok : BOOLEAN, tokens : 0..2,
                     cost : Unknown..MaxCost, abandoned : SUBSET Index]
    BY RoutingAssumption DEF Waiting, Unknown
  <2>2. NoTotals \in Bucket /\ NoTotals.successes <= NoTotals.attempts
        /\ NoStats \in Bucket /\ NoStats.successes <= NoStats.attempts
    BY DEF NoTotals, NoStats, Bucket
  <2>3. QED  BY <2>1, <2>2, RoutingAssumption DEF MemoryInit, MemoryTypeOK
<1>3. LedgerInStep
  <2>1. InFlight = {}
    BY DEF MemoryInit, Waiting, InFlight
  <2>2. Cardinality(InFlight) = 0
    BY <2>1, FS_EmptySet
  <2>3. 1 * MaxCost <= Cardinality(Job) * MaxCost
    BY <1>1, TimesMonotone, RoutingAssumption
  <2>4. Cardinality(Job) * MaxCost \in Nat /\ Cardinality(Job) * MaxCost >= 1
    BY <1>1, <2>3, RoutingAssumption
  <2>5. Budget # Unknown => Budget \in Nat /\ spent = 0 /\ MaxCost \in Nat
    BY RoutingAssumption DEF MemoryInit
  <2>6. QED  BY <2>2, <2>4, <2>5 DEF LedgerInStep
<1>4. RowsInStep
  BY FS_EmptySet DEF RowsInStep, MemoryInit, Waiting
<1>5. CountsAgree
  <2>1. \A i \in Index : RowsOf(i) = {} /\ {r \in RowsOf(i) : r.ok} = {} /\ Pending(i) = {}
    BY DEF RowsOf, Pending, MemoryInit, Waiting
  <2>2. Cardinality({}) = 0
    BY FS_EmptySet
  <2>3. QED  BY <2>1, <2>2 DEF CountsAgree, MemoryInit, NoTotals, NoStats
<1>6. QED  BY <1>2, <1>3, <1>4, <1>5 DEF RoutingIInv

-----------------------------------------------------------------------------
\* Where a task can be and what is kept of it.
JobState ==
  [at : {"idle", "running", "written", "charged", "done"}, target : Index \cup {0},
   ok : BOOLEAN, tokens : 0..2, cost : Unknown..MaxCost, abandoned : SUBSET Index]

\* The counts do not change when no row, no bucket and no pending task does.
LEMMA CountsUntouched ==
  ASSUME CountsAgree, UNCHANGED <<attempts, totals, history, lost, unread>>,
         \A i \in Index : Pending(i)' = Pending(i)
  PROVE  CountsAgree'
  BY DEF CountsAgree, RowsOf

\* A finite set of tasks stays below the number of all tasks.
LEMMA InFlightFinite ==
  /\ IsFiniteSet(InFlight) /\ Cardinality(InFlight) \in Nat
         /\ Cardinality(Job) \in Nat /\ Cardinality(InFlight) <= Cardinality(Job)
         /\ \A j \in Job \ InFlight : Cardinality(InFlight) + 1 <= Cardinality(Job)
<1>1. InFlight \subseteq Job /\ IsFiniteSet(Job)
  BY RoutingAssumption DEF InFlight
<1>2. /\ IsFiniteSet(InFlight) /\ Cardinality(InFlight) <= Cardinality(Job)
      /\ Cardinality(Job) \in Nat /\ Cardinality(InFlight) \in Nat
  BY <1>1, FS_Subset, FS_CardinalityType
<1>3. ASSUME NEW j \in Job, j \notin InFlight
      PROVE  Cardinality(InFlight) + 1 <= Cardinality(Job)
  <2>1. InFlight \cup {j} \subseteq Job
    BY <1>1, <1>3
  <2>2. Cardinality(InFlight \cup {j}) = Cardinality(InFlight) + 1
    BY <1>2, <1>3, FS_AddElement
  <2>3. Cardinality(InFlight \cup {j}) <= Cardinality(Job)
    BY <1>1, <2>1, FS_Subset
  <2>4. QED  BY <2>2, <2>3
<1>4. QED  BY <1>2, <1>3

\* A routing is let through only below the ceiling, and at most once per task.
LEMMA RouteTaskStep ==
  ASSUME RoutingIInv, NEW j \in Job, RouteTask(j) PROVE RoutingIInv'
<1>1. job \in [Job -> JobState] /\ tried \in 0..MaxTried /\ tried < MaxTried
      /\ job[j].at = "idle" /\ spent \in Nat /\ MaxTried \in Nat
  BY RoutingAssumption DEF RoutingIInv, MemoryTypeOK, JobState, RouteTask
<1>2. UNCHANGED <<spent, history, session, attempts, totals, lost, unread, processes>>
  BY DEF RouteTask
<1>3. CASE job' = [job EXCEPT ![j].at = "done"] /\ tried' = tried
  <2>1. PICK e \in JobState : job' = [job EXCEPT ![j] = e] /\ e.at = "done"
    <3>1. job' = [job EXCEPT ![j] = [job[j] EXCEPT !.at = "done"]]
      BY <1>3
    <3>2. [job[j] EXCEPT !.at = "done"] \in JobState /\ [job[j] EXCEPT !.at = "done"].at = "done"
      BY <1>1 DEF JobState
    <3>3. QED  BY <3>1, <3>2
  <2>2. job' \in [Job -> JobState]
    BY <1>1, <2>1
  <2>3. MemoryTypeOK'
    BY <1>2, <1>3, <2>2 DEF RoutingIInv, MemoryTypeOK, JobState
  <2>4. \A k \in Job : job'[k] = IF k = j THEN e ELSE job[k]
    BY <1>1, <2>1
  <2>5. InFlight' = InFlight
    BY <1>1, <2>1, <2>4 DEF InFlight
  <2>6. LedgerInStep'
    BY <1>2, <2>5 DEF RoutingIInv, LedgerInStep
  <2>7. RowsInStep'
    BY <1>2, <1>3, <2>1, <2>4 DEF RoutingIInv, RowsInStep, MemoryTypeOK
  <2>8. \A i \in Index : Pending(i)' = Pending(i)
    BY <1>1, <2>1, <2>4 DEF Pending
  <2>9. CountsAgree'
    BY <1>2, <2>8, CountsUntouched DEF RoutingIInv
  <2>10. QED  BY <2>3, <2>6, <2>7, <2>9 DEF RoutingIInv
<1>4. ASSUME NEW i \in Candidates(RouterCfg, Targets, JobSpec[j], job[j].abandoned, spent, Budget),
             job' = [job EXCEPT ![j].at = "running", ![j].target = i], tried' = tried + 1
      PROVE  RoutingIInv'
  <2>1. i \in Index /\ (Budget # Unknown => Budget - spent > 0)
    BY <1>4 DEF Candidates, Affordable, Index
  <2>2. PICK e \in JobState : job' = [job EXCEPT ![j] = e] /\ e.at = "running" /\ e.target = i
    <3>1. job' = [job EXCEPT ![j] = [job[j] EXCEPT !.at = "running", !.target = i]]
      BY <1>4
    <3>2. /\ [job[j] EXCEPT !.at = "running", !.target = i] \in JobState
          /\ [job[j] EXCEPT !.at = "running", !.target = i].at = "running"
          /\ [job[j] EXCEPT !.at = "running", !.target = i].target = i
      BY <1>1, <2>1 DEF JobState
    <3>3. QED  BY <3>1, <3>2
  <2>3. job' \in [Job -> JobState]
    BY <1>1, <2>2
  <2>4. tried' \in 0..MaxTried
    BY <1>1, <1>4
  <2>5. MemoryTypeOK'
    BY <1>2, <2>3, <2>4 DEF RoutingIInv, MemoryTypeOK, JobState
  <2>6. \A k \in Job : job'[k] = IF k = j THEN e ELSE job[k]
    BY <1>1, <2>2
  <2>7. InFlight' = InFlight \cup {j} /\ j \notin InFlight
    BY <1>1, <2>2, <2>6 DEF InFlight
  <2>8. LedgerInStep'
    <3>1. Cardinality(InFlight') = Cardinality(InFlight) + 1
      BY <2>7, InFlightFinite, FS_AddElement
    <3>2. /\ Cardinality(InFlight) + 1 <= Cardinality(Job) /\ Cardinality(Job) \in Nat
          /\ Cardinality(InFlight) + 1 \in Nat /\ MaxCost \in Nat
      BY <2>7, InFlightFinite, RoutingAssumption
    <3>3. (Cardinality(InFlight) + 1) * MaxCost <= Cardinality(Job) * MaxCost
          /\ (Cardinality(InFlight) + 1) * MaxCost \in Nat
      BY <3>2, TimesMonotone
    <3>4. Cardinality(Job) * MaxCost \in Nat
      BY <3>2
    <3>5. ASSUME Budget # Unknown
          PROVE  spent + Cardinality(InFlight') * MaxCost < Budget + Cardinality(Job) * MaxCost
      <4>1. Budget \in Nat /\ spent < Budget
        BY <1>1, <2>1, <3>5, RoutingAssumption
      <4>2. QED  BY <1>1, <3>1, <3>3, <3>4, <4>1
    <3>6. QED  BY <1>2, <3>5 DEF LedgerInStep
  <2>9. RowsInStep'
    <3>1. \A r \in attempts : r.id \in Nat /\ r.by \in Job /\ r.id <= tried
      BY DEF RoutingIInv, RowsInStep, MemoryTypeOK
    <3>2. \A r \in attempts : r.id <= tried + 1 /\ r.id < tried + 1
      BY <1>1, <3>1
    <3>3. \A k \in Job : job'[k].at \in {"running", "written", "charged"} =>
                           job'[k].target \in Index
      BY <2>1, <2>2, <2>6 DEF RoutingIInv, RowsInStep
    <3>4. IsFiniteSet(attempts)
      BY DEF RoutingIInv, RowsInStep
    <3>5. QED  BY <1>2, <1>4, <3>2, <3>3, <3>4 DEF RowsInStep
  <2>10. \A k \in Index : Pending(k)' = Pending(k)
    BY <1>1, <2>2, <2>6 DEF Pending
  <2>11. CountsAgree'
    BY <1>2, <2>10, CountsUntouched DEF RoutingIInv
  <2>12. QED  BY <2>5, <2>8, <2>9, <2>11 DEF RoutingIInv
<1>5. QED  BY <1>3, <1>4 DEF RouteTask

\* A set and the part of it that succeeded, with one more row.
LEMMA OneMoreRow ==
  ASSUME NEW S, IsFiniteSet(S), NEW r, r \notin S
  PROVE  /\ Cardinality(S \cup {r}) = Cardinality(S) + 1
         /\ Cardinality({x \in S \cup {r} : x.ok})
              = Cardinality({x \in S : x.ok}) + (IF r.ok THEN 1 ELSE 0)
<1>1. Cardinality(S \cup {r}) = Cardinality(S) + 1
  BY FS_AddElement
<1>2. IsFiniteSet({x \in S : x.ok}) /\ Cardinality({x \in S : x.ok}) \in Nat
  BY FS_Subset, FS_CardinalityType
<1>3. CASE r.ok
  <2>1. {x \in S \cup {r} : x.ok} = {x \in S : x.ok} \cup {r} /\ r \notin {x \in S : x.ok}
    BY <1>3
  <2>2. Cardinality({x \in S : x.ok} \cup {r}) = Cardinality({x \in S : x.ok}) + 1
    BY <1>2, <2>1, FS_AddElement
  <2>3. QED  BY <1>1, <1>3, <2>1, <2>2
<1>4. CASE ~r.ok
  <2>1. {x \in S \cup {r} : x.ok} = {x \in S : x.ok}
    BY <1>4
  <2>2. \A m \in Nat : m + (IF r.ok THEN 1 ELSE 0) = m
    BY <1>4
  <2>3. QED  BY <1>1, <1>2, <2>1, <2>2
<1>5. QED  BY <1>3, <1>4

\* The row and the totals are written together, or the attempt counts as lost.
LEMMA WriteAttemptStep ==
  ASSUME RoutingIInv, NEW j \in Job, WriteAttempt(j) PROVE RoutingIInv'
<1>1. PICK ok \in BOOLEAN, tokens \in 1..2, reported \in {Unknown, MaxCost},
           n \in IF session THEN 0..3 ELSE {0} :
         LET i == job[j].target
             r == [id |-> tried, by |-> j, target |-> i, ok |-> ok, tokens |-> tokens]
             db == Wrote(n, r)
         IN  /\ attempts' = db.attempts /\ totals' = db.totals
             /\ lost' = Logged(i, n)
             /\ job' = [job EXCEPT ![j].at = "written", ![j].ok = ok, ![j].tokens = tokens,
                                   ![j].cost = CostOf(i, tokens, reported)]
  BY DEF WriteAttempt
<1>2. PICK i \in Index : i = job[j].target
  BY DEF WriteAttempt, RoutingIInv, RowsInStep
<1>3. PICK r \in [id : Nat, by : Job, target : Index, ok : BOOLEAN, tokens : 1..2] :
         r = [id |-> tried, by |-> j, target |-> i, ok |-> ok, tokens |-> tokens]
  <2>1. tried \in Nat
    BY DEF RoutingIInv, MemoryTypeOK
  <2>2. [id |-> tried, by |-> j, target |-> i, ok |-> ok, tokens |-> tokens]
          \in [id : Nat, by : Job, target : Index, ok : BOOLEAN, tokens : 1..2]
    BY <2>1
  <2>3. QED  BY <2>2
<1>4. /\ attempts' = (IF n = 3 THEN attempts \cup {r} ELSE attempts)
      /\ totals' = (IF n = 3 THEN [totals EXCEPT ![i] = AddTotals(@, r)] ELSE totals)
      /\ lost' = [lost EXCEPT ![i] = IF n = 3 THEN @ ELSE @ + 1]
  BY <1>1, <1>2, <1>3 DEF Wrote, Logged
<1>5. /\ UNCHANGED <<spent, history, session, unread, tried, processes>> /\ job[j].at = "running"
      /\ job \in [Job -> JobState]
  BY DEF WriteAttempt, RoutingIInv, MemoryTypeOK, JobState
<1>6. PICK e \in JobState : job' = [job EXCEPT ![j] = e] /\ e.at = "written" /\ e.target = i
  <2>1. CostOf(i, tokens, reported) \in Unknown..MaxCost
    BY CostIsBounded
  <2>2. job' = [job EXCEPT ![j] =
                  [job[j] EXCEPT !.at = "written", !.ok = ok, !.tokens = tokens,
                                 !.cost = CostOf(i, tokens, reported)]]
    BY <1>1, <1>2
  <2>3. PICK c \in Unknown..MaxCost : c = CostOf(i, tokens, reported)
    BY <2>1
  <2>4. tokens \in 0..2
    OBVIOUS
  <2>5. /\ [job[j] EXCEPT !.at = "written", !.ok = ok, !.tokens = tokens, !.cost = c] \in JobState
        /\ [job[j] EXCEPT !.at = "written", !.ok = ok, !.tokens = tokens, !.cost = c].at = "written"
        /\ [job[j] EXCEPT !.at = "written", !.ok = ok, !.tokens = tokens, !.cost = c].target = i
    BY <1>2, <1>5, <2>4 DEF JobState
  <2>6. QED  BY <2>2, <2>3, <2>5
<1>7. \A k \in Job : job'[k] = IF k = j THEN e ELSE job[k]
  BY <1>5, <1>6
<1>8. /\ history \in [Index -> Bucket] /\ totals \in [Index -> Bucket] /\ lost \in [Index -> Nat]
      /\ totals[i] \in Bucket /\ totals[i].successes <= totals[i].attempts
      /\ totals[i].attempts \in Nat /\ lost[i] \in Nat
  BY DEF RoutingIInv, MemoryTypeOK, Bucket
<1>9. PICK more \in Bucket : /\ more = AddTotals(totals[i], r)
                             /\ more.attempts = totals[i].attempts + 1
                             /\ more.successes = totals[i].successes + (IF r.ok THEN 1 ELSE 0)
                             /\ more.successes <= more.attempts
  BY <1>8, TotalsAreBuckets
<1>10. totals' = (IF n = 3 THEN [totals EXCEPT ![i] = more] ELSE totals)
  BY <1>4, <1>9
<1>11. MemoryTypeOK'
  <2>1. job' \in [Job -> JobState]
    BY <1>5, <1>6
  <2>2. lost' \in [Index -> Nat]
    BY <1>4, <1>8
  <2>3. /\ totals' \in [Index -> Bucket]
        /\ \A k \in Index : totals'[k].successes <= totals'[k].attempts
    BY <1>8, <1>9, <1>10 DEF RoutingIInv, MemoryTypeOK
  <2>4. attempts' \subseteq [id : Nat, by : Job, target : Index, ok : BOOLEAN, tokens : 1..2]
    BY <1>4 DEF RoutingIInv, MemoryTypeOK
  <2>5. QED  BY <1>5, <2>1, <2>2, <2>3, <2>4 DEF RoutingIInv, MemoryTypeOK, JobState
<1>12. LedgerInStep'
  <2>1. InFlight' = InFlight
    BY <1>5, <1>6, <1>7 DEF InFlight
  <2>2. QED  BY <1>5, <2>1 DEF RoutingIInv, LedgerInStep
<1>13. r.id = tried /\ r.by = j /\ r.target = i
  BY <1>3
<1>14. IsFiniteSet(attempts) /\ r \notin attempts
  BY <1>5, <1>13 DEF RoutingIInv, RowsInStep, MemoryTypeOK
<1>15. RowsInStep'
  <2>1. IsFiniteSet(attempts')
    BY <1>4, <1>14, FS_AddElement
  <2>2. \A x \in attempts' : x.id <= tried /\ (job'[x.by].at = "running" => x.id < tried)
    <3>1. \A x \in attempts : x.by \in Job /\ x.id <= tried
                              /\ (job[x.by].at = "running" => x.id < tried)
      BY DEF RoutingIInv, RowsInStep, MemoryTypeOK
    <3>2. \A x \in attempts : job'[x.by].at = "running" => job[x.by].at = "running"
      BY <1>6, <1>7, <3>1
    <3>3. r.id <= tried /\ job'[r.by].at # "running"
      BY <1>6, <1>7, <1>13 DEF RoutingIInv, MemoryTypeOK
    <3>4. QED  BY <1>4, <3>1, <3>2, <3>3
  <2>3. \A k \in Job : job'[k].at \in {"running", "written", "charged"} => job'[k].target \in Index
    BY <1>6, <1>7 DEF RoutingIInv, RowsInStep
  <2>4. QED  BY <1>5, <2>1, <2>2, <2>3 DEF RowsInStep
<1>16. CountsAgree'
  <2> SUFFICES ASSUME NEW k \in Index
               PROVE  /\ totals'[k].attempts = Cardinality(RowsOf(k)')
                      /\ totals'[k].successes = Cardinality({x \in RowsOf(k)' : x.ok})
                      /\ history[k].attempts + Cardinality(Pending(k)') + unread[k]
                           = totals'[k].attempts + lost'[k]
    BY <1>5 DEF CountsAgree
  <2>1. /\ totals[k].attempts = Cardinality(RowsOf(k))
        /\ totals[k].successes = Cardinality({x \in RowsOf(k) : x.ok})
        /\ history[k].attempts + Cardinality(Pending(k)) + unread[k] = totals[k].attempts + lost[k]
        /\ unread[k] \in Nat
    BY DEF RoutingIInv, CountsAgree, MemoryTypeOK
  <2>2. IsFiniteSet(RowsOf(k)) /\ IsFiniteSet(Pending(k)) /\ Cardinality(Pending(k)) \in Nat
    <3>1. RowsOf(k) \subseteq attempts /\ Pending(k) \subseteq Job /\ IsFiniteSet(Job)
      BY RoutingAssumption DEF RowsOf, Pending
    <3>2. QED  BY <1>14, <3>1, FS_Subset, FS_CardinalityType
  <2>3. CASE k # i
    <3>1. RowsOf(k)' = RowsOf(k)
      BY <1>4, <1>13, <2>3 DEF RowsOf
    <3>2. Pending(k)' = Pending(k)
      BY <1>2, <1>5, <1>6, <1>7, <2>3 DEF Pending
    <3>3. totals'[k] = totals[k] /\ lost'[k] = lost[k]
      BY <1>4, <1>8, <2>3
    <3>4. QED  BY <2>1, <3>1, <3>2, <3>3
  <2>4. CASE k = i
    <3>1. Pending(k)' = Pending(k) \cup {j} /\ j \notin Pending(k)
      BY <1>5, <1>6, <1>7, <2>4 DEF Pending
    <3>2. Cardinality(Pending(k)') = Cardinality(Pending(k)) + 1
      BY <2>2, <3>1, FS_AddElement
    <3>3. history[k].attempts \in Nat
      BY <1>8 DEF Bucket
    <3>4. CASE n = 3
      <4>1. RowsOf(k)' = RowsOf(k) \cup {r} /\ r \notin RowsOf(k)
        BY <1>4, <1>13, <1>14, <2>4, <3>4 DEF RowsOf
      <4>2. /\ Cardinality(RowsOf(k)') = Cardinality(RowsOf(k)) + 1
            /\ Cardinality({x \in RowsOf(k)' : x.ok})
                 = Cardinality({x \in RowsOf(k) : x.ok}) + (IF r.ok THEN 1 ELSE 0)
        BY <2>2, <4>1, OneMoreRow
      <4>3. totals'[k] = more /\ lost'[k] = lost[k]
        BY <1>4, <1>8, <1>10, <2>4, <3>4
      <4>4. QED  BY <1>8, <1>9, <2>1, <2>2, <2>4, <3>2, <3>3, <4>2, <4>3
    <3>5. CASE n # 3
      <4>1. RowsOf(k)' = RowsOf(k)
        BY <1>4, <3>5 DEF RowsOf
      <4>2. totals'[k] = totals[k] /\ lost'[k] = lost[k] + 1
        BY <1>4, <1>8, <2>4, <3>5
      <4>3. QED  BY <1>8, <2>1, <2>2, <2>4, <3>2, <3>3, <4>1, <4>2
    <3>6. QED  BY <3>4, <3>5
  <2>5. QED  BY <2>3, <2>4
<1>17. QED  BY <1>11, <1>12, <1>15, <1>16 DEF RoutingIInv

\* What is charged was in flight, and costs no more than was set aside for it.
LEMMA ChargeStep ==
  ASSUME RoutingIInv, NEW j \in Job, Charge(j) PROVE RoutingIInv'
<1>1. /\ UNCHANGED <<history, session, attempts, totals, lost, unread, tried, processes>>
      /\ job[j].at = "written" /\ job \in [Job -> JobState] /\ spent \in Nat
  BY DEF Charge, RoutingIInv, MemoryTypeOK, JobState
<1>2. PICK c \in Nat : spent' = spent + c /\ c <= MaxCost
  <2>1. job[j].cost \in Unknown..MaxCost /\ MaxCost \in Nat
    BY <1>1, RoutingAssumption DEF JobState
  <2>2. spent' = IF job[j].cost = Unknown THEN spent ELSE spent + job[j].cost
    BY DEF Charge
  <2>3. CASE job[j].cost = Unknown
    BY <1>1, <2>1, <2>2, <2>3
  <2>4. CASE job[j].cost # Unknown
    <3>1. job[j].cost \in Nat /\ job[j].cost <= MaxCost
      BY <2>1, <2>4 DEF Unknown
    <3>2. QED  BY <2>2, <2>4, <3>1
  <2>5. QED  BY <2>3, <2>4
<1>3. PICK e \in JobState :
         job' = [job EXCEPT ![j] = e] /\ e.at = "charged" /\ e.target = job[j].target
  <2>1. job' = [job EXCEPT ![j] = [job[j] EXCEPT !.at = "charged"]]
    BY DEF Charge
  <2>2. /\ [job[j] EXCEPT !.at = "charged"] \in JobState
        /\ [job[j] EXCEPT !.at = "charged"].at = "charged"
        /\ [job[j] EXCEPT !.at = "charged"].target = job[j].target
    BY <1>1 DEF JobState
  <2>3. QED  BY <2>1, <2>2
<1>4. \A k \in Job : job'[k] = IF k = j THEN e ELSE job[k]
  BY <1>1, <1>3
<1>5. MemoryTypeOK'
  <2>1. job' \in [Job -> JobState] /\ spent' \in Nat
    BY <1>1, <1>2, <1>3
  <2>2. QED  BY <1>1, <2>1 DEF RoutingIInv, MemoryTypeOK, JobState
<1>6. LedgerInStep'
  <2>1. InFlight' = InFlight \ {j} /\ j \in InFlight
    BY <1>1, <1>3, <1>4 DEF InFlight
  <2>2. IsFiniteSet(InFlight) /\ Cardinality(InFlight) \in Nat /\ Cardinality(Job) \in Nat
    BY InFlightFinite
  <2>3. Cardinality(InFlight') = Cardinality(InFlight) - 1 /\ Cardinality(InFlight') \in Nat
    BY <2>1, <2>2, FS_RemoveElement, FS_CardinalityType
  <2>4. PICK a \in Nat, b \in Nat, m \in Nat :
           /\ a = Cardinality(InFlight') /\ a + 1 = Cardinality(InFlight)
           /\ b = Cardinality(Job) /\ m = MaxCost
    BY <2>2, <2>3, RoutingAssumption
  <2>5. (a + 1) * m = a * m + m /\ a * m \in Nat /\ b * m \in Nat
    BY TimesSuccessor
  <2>6. ASSUME Budget # Unknown PROVE spent' + a * m < Budget + b * m
    <3>1. spent + (a + 1) * m < Budget + b * m /\ Budget \in Nat
      BY <2>4, <2>6, RoutingAssumption DEF RoutingIInv, LedgerInStep
    <3>2. QED  BY <1>1, <1>2, <2>4, <2>5, <3>1
  <2>7. QED  BY <2>4, <2>6 DEF LedgerInStep
<1>7. RowsInStep'
  <2>1. \A k \in Job : job'[k].at = "running" => job[k].at = "running"
    BY <1>3, <1>4
  <2>2. \A x \in attempts : x.by \in Job
    BY DEF RoutingIInv, MemoryTypeOK
  <2>3. \A k \in Job : job'[k].at \in {"running", "written", "charged"} =>
                         job'[k].target \in Index
    BY <1>1, <1>3, <1>4 DEF RoutingIInv, RowsInStep
  <2>4. QED  BY <1>1, <2>1, <2>2, <2>3 DEF RoutingIInv, RowsInStep
<1>8. \A i \in Index : Pending(i)' = Pending(i)
  BY <1>1, <1>3, <1>4 DEF Pending
<1>9. CountsAgree'
  BY <1>1, <1>8, CountsUntouched DEF RoutingIInv
<1>10. QED  BY <1>5, <1>6, <1>7, <1>9 DEF RoutingIInv

\* What is learned leaves the pending attempts and enters the history at once.
LEMMA LearnStep ==
  ASSUME RoutingIInv, NEW j \in Job, Learn(j) PROVE RoutingIInv'
<1>1. /\ UNCHANGED <<spent, session, attempts, totals, lost, unread, tried, processes>>
      /\ job[j].at = "charged" /\ job \in [Job -> JobState]
  BY DEF Learn, RoutingIInv, MemoryTypeOK, JobState
<1>2. PICK i \in Index : i = job[j].target
  BY <1>1 DEF RoutingIInv, RowsInStep
<1>3. /\ history \in [Index -> Bucket] /\ history[i] \in Bucket
      /\ history[i].successes <= history[i].attempts /\ history[i].attempts \in Nat
  BY DEF RoutingIInv, MemoryTypeOK, Bucket
<1>4. PICK more \in Bucket : /\ history' = [history EXCEPT ![i] = more]
                             /\ more.attempts = history[i].attempts + 1
                             /\ more.successes <= more.attempts
  <2>1. [ok |-> job[j].ok, latency |-> 1, tokens |-> job[j].tokens]
          \in [ok : BOOLEAN, latency : Nat, tokens : Nat]
    BY <1>1 DEF JobState
  <2>2. history' = [history EXCEPT ![i] =
                      Fold(history[i], [ok |-> job[j].ok, latency |-> 1, tokens |-> job[j].tokens])]
    BY <1>2 DEF Learn
  <2>3. QED  BY <1>3, <2>1, <2>2, FoldsAreBuckets
<1>5. PICK e \in JobState : job' = [job EXCEPT ![j] = e] /\ e.at \in {"idle", "done"}
  <2>1. Waiting \in JobState
    BY RoutingAssumption DEF Waiting, JobState, Unknown
  <2>2. CASE job' = [job EXCEPT ![j] = [Waiting EXCEPT !.at = "done"]]
    <3>1. /\ [Waiting EXCEPT !.at = "done"] \in JobState
          /\ [Waiting EXCEPT !.at = "done"].at = "done"
      BY <2>1 DEF JobState
    <3>2. QED  BY <2>2, <3>1
  <2>3. ASSUME NEW left \in {{}, {i}},
               job' = [job EXCEPT ![j] = [Waiting EXCEPT !.abandoned = job[j].abandoned \cup left]]
        PROVE  \E e \in JobState : job' = [job EXCEPT ![j] = e] /\ e.at \in {"idle", "done"}
    <3>1. job[j].abandoned \cup left \subseteq Index
      BY <1>1 DEF JobState
    <3>2. /\ [Waiting EXCEPT !.abandoned = job[j].abandoned \cup left] \in JobState
          /\ [Waiting EXCEPT !.abandoned = job[j].abandoned \cup left].at = "idle"
      BY <2>1, <3>1 DEF JobState, Waiting
    <3>3. QED  BY <2>3, <3>2
  <2>4. QED  BY <1>2, <2>2, <2>3 DEF Learn
<1>6. \A k \in Job : job'[k] = IF k = j THEN e ELSE job[k]
  BY <1>1, <1>5
<1>7. MemoryTypeOK'
  <2>1. job' \in [Job -> JobState]
    BY <1>1, <1>5
  <2>2. history' \in [Index -> Bucket] /\ \A k \in Index : history'[k].successes <= history'[k].attempts
    BY <1>3, <1>4 DEF RoutingIInv, MemoryTypeOK
  <2>3. QED  BY <1>1, <2>1, <2>2 DEF RoutingIInv, MemoryTypeOK, JobState
<1>8. LedgerInStep'
  <2>1. InFlight' = InFlight
    BY <1>1, <1>5, <1>6 DEF InFlight
  <2>2. QED  BY <1>1, <2>1 DEF RoutingIInv, LedgerInStep
<1>9. RowsInStep'
  <2>1. \A k \in Job : job'[k].at = "running" => job[k].at = "running"
    BY <1>5, <1>6
  <2>2. \A x \in attempts : x.by \in Job
    BY DEF RoutingIInv, MemoryTypeOK
  <2>3. \A k \in Job : job'[k].at \in {"running", "written", "charged"} =>
                         job'[k].target \in Index
    BY <1>1, <1>5, <1>6 DEF RoutingIInv, RowsInStep
  <2>4. QED  BY <1>1, <2>1, <2>2, <2>3 DEF RoutingIInv, RowsInStep
<1>10. CountsAgree'
  <2> SUFFICES ASSUME NEW k \in Index
               PROVE  history'[k].attempts + Cardinality(Pending(k)') + unread[k]
                        = totals[k].attempts + lost[k]
    BY <1>1 DEF RoutingIInv, CountsAgree, RowsOf
  <2>1. /\ history[k].attempts + Cardinality(Pending(k)) + unread[k] = totals[k].attempts + lost[k]
        /\ history[k].attempts \in Nat /\ unread[k] \in Nat
    BY DEF RoutingIInv, CountsAgree, MemoryTypeOK, Bucket
  <2>2. IsFiniteSet(Pending(k)) /\ Cardinality(Pending(k)) \in Nat
    <3>1. Pending(k) \subseteq Job /\ IsFiniteSet(Job)
      BY RoutingAssumption DEF Pending
    <3>2. QED  BY <3>1, FS_Subset, FS_CardinalityType
  <2>3. CASE k # i
    <3>1. Pending(k)' = Pending(k)
      BY <1>1, <1>2, <1>5, <1>6, <2>3 DEF Pending
    <3>2. history'[k] = history[k]
      BY <1>3, <1>4, <2>3
    <3>3. QED  BY <2>1, <3>1, <3>2
  <2>4. CASE k = i
    <3>1. Pending(k)' = Pending(k) \ {j} /\ j \in Pending(k)
      BY <1>1, <1>2, <1>5, <1>6, <2>4 DEF Pending
    <3>2. Cardinality(Pending(k)') = Cardinality(Pending(k)) - 1
      BY <2>2, <3>1, FS_RemoveElement
    <3>3. history'[k].attempts = history[k].attempts + 1
      BY <1>3, <1>4, <2>4
    <3>4. QED  BY <2>1, <2>2, <3>2, <3>3
  <2>5. QED  BY <2>3, <2>4
<1>11. QED  BY <1>7, <1>8, <1>9, <1>10 DEF RoutingIInv

\* The next process starts from what the rows add up to, with a ledger of its own.
LEMMA NextProcessStep ==
  ASSUME RoutingIInv, NextProcess PROVE RoutingIInv'
<1>1. /\ job' = [j \in Job |-> Waiting] /\ spent' = 0
      /\ lost' = [i \in Index |-> 0] /\ UNCHANGED <<attempts, totals, tried>>
  BY DEF NextProcess
<1>2. \A j \in Job : job'[j].at = "idle"
  BY <1>1 DEF Waiting
<1>3. \A i \in Index : /\ totals[i] \in Bucket /\ totals[i].successes <= totals[i].attempts
                       /\ totals[i].attempts \in Nat
  BY DEF RoutingIInv, MemoryTypeOK, Bucket
<1>4. /\ history' \in [Index -> Bucket] /\ unread' \in [Index -> Nat]
      /\ \A i \in Index : /\ history'[i].attempts + unread'[i] = totals[i].attempts
                          /\ history'[i].attempts \in Nat /\ unread'[i] \in Nat
                          /\ history'[i].successes <= history'[i].attempts
  <2>1. CASE /\ history' = [i \in Index |-> Restored(totals[i])]
             /\ unread' = [i \in Index |-> 0]
    BY <1>3, <2>1, RestoredAreBuckets
  <2>2. CASE /\ history' = [i \in Index |-> NoStats]
             /\ unread' = [i \in Index |-> totals[i].attempts]
    <3>1. NoStats \in Bucket /\ NoStats.attempts = 0 /\ NoStats.successes = 0
      BY DEF NoStats, Bucket
    <3>2. QED  BY <1>3, <2>2, <3>1
  <2>3. QED  BY <2>1, <2>2 DEF NextProcess
<1>5. MemoryTypeOK'
  <2>1. job' \in [Job -> JobState]
    BY <1>1, RoutingAssumption DEF Waiting, JobState, Unknown
  <2>2. processes' \in 1..MaxProcesses /\ session' \in BOOLEAN
    BY RoutingAssumption DEF NextProcess, RoutingIInv, MemoryTypeOK
  <2>3. lost' \in [Index -> Nat] /\ spent' \in Nat
    BY <1>1
  <2>4. QED  BY <1>1, <1>4, <2>1, <2>2, <2>3 DEF RoutingIInv, MemoryTypeOK, JobState
<1>6. LedgerInStep'
  <2>1. InFlight' = {}
    BY <1>2 DEF InFlight
  <2>2. Cardinality(InFlight') = 0
    BY <2>1, FS_EmptySet
  <2>3. Cardinality(Job) \in Nat /\ Cardinality(Job) >= 1
    BY FS_CardinalityType, FS_EmptySet, RoutingAssumption
  <2>4. 1 * MaxCost <= Cardinality(Job) * MaxCost
    BY <2>3, TimesMonotone, RoutingAssumption
  <2>5. Cardinality(Job) * MaxCost \in Nat /\ Cardinality(Job) * MaxCost >= 1
    BY <2>3, <2>4, RoutingAssumption
  <2>6. Budget # Unknown => Budget \in Nat /\ MaxCost \in Nat
    BY RoutingAssumption
  <2>7. QED  BY <1>1, <2>2, <2>5, <2>6 DEF LedgerInStep
<1>7. RowsInStep'
  <2>1. \A x \in attempts : x.by \in Job
    BY DEF RoutingIInv, MemoryTypeOK
  <2>2. QED  BY <1>1, <1>2, <2>1 DEF RoutingIInv, RowsInStep
<1>8. CountsAgree'
  <2>1. \A i \in Index : Pending(i)' = {}
    BY <1>2 DEF Pending
  <2>2. \A i \in Index : Cardinality(Pending(i)') = 0
    BY <2>1, FS_EmptySet
  <2>3. \A i \in Index : RowsOf(i)' = RowsOf(i)
    BY <1>1 DEF RowsOf
  <2>4. \A i \in Index :
          /\ totals[i].attempts = Cardinality(RowsOf(i)')
          /\ totals[i].successes = Cardinality({r \in RowsOf(i)' : r.ok})
    BY <2>3 DEF RoutingIInv, CountsAgree
  <2>5. \A i \in Index : history'[i].attempts + 0 + unread'[i] = totals[i].attempts + 0
    BY <1>3, <1>4
  <2>6. QED  BY <1>1, <2>2, <2>4, <2>5 DEF CountsAgree
<1>9. QED  BY <1>5, <1>6, <1>7, <1>8 DEF RoutingIInv

\* The invariant of what routing remembers, for every set of tasks and targets,
\* every ceiling and any number of attempts and processes.
THEOREM RoutingInvariance == MemorySpec => []RoutingIInv
<1>1. MemoryInit => RoutingIInv
  BY RoutingInitially
<1>2. RoutingIInv /\ [MemoryNext]_memoryVars => RoutingIInv'
  <2> SUFFICES ASSUME RoutingIInv, [MemoryNext]_memoryVars PROVE RoutingIInv'
    OBVIOUS
  <2>1. CASE \E j \in Job : RouteTask(j) \/ WriteAttempt(j) \/ Charge(j) \/ Learn(j)
    BY <2>1, RouteTaskStep, WriteAttemptStep, ChargeStep, LearnStep
  <2>2. CASE NextProcess
    BY <2>2, NextProcessStep
  <2>3. CASE UNCHANGED memoryVars
    BY <2>3 DEF memoryVars, RoutingIInv, MemoryTypeOK, LedgerInStep, InFlight, RowsInStep,
                CountsAgree, RowsOf, Pending
  <2>4. QED  BY <2>1, <2>2, <2>3 DEF MemoryNext
<1>3. QED  BY <1>1, <1>2, PTL DEF MemorySpec

\* The types of the ledger, the history and the database's tables.
THEOREM MemoryTypeCorrect == MemorySpec => []MemoryTypeOK
<1>1. RoutingIInv => MemoryTypeOK
  BY DEF RoutingIInv
<1>2. QED  BY <1>1, RoutingInvariance, PTL

\* Whatever tasks run at the same time, limits.max_cost_usd is overrun by less than
\* one attempt of each of them: the budget filter (router.rs) lets a task through only
\* while the ledger is below the ceiling, and each task has one attempt in flight.
THEOREM OverrunsAreBounded == MemorySpec => []OverrunIsBounded
<1>1. RoutingIInv => OverrunIsBounded
  <2> SUFFICES ASSUME RoutingIInv, Budget # Unknown
               PROVE  spent < Budget + Cardinality(Job) * MaxCost
    BY DEF OverrunIsBounded
  <2>1. PICK a \in Nat, b \in Nat, m \in Nat :
           a = Cardinality(InFlight) /\ b = Cardinality(Job) /\ m = MaxCost
    BY InFlightFinite, RoutingAssumption
  <2>2. spent + a * m < Budget + b * m /\ Budget \in Nat /\ spent \in Nat
    BY <2>1, RoutingAssumption DEF RoutingIInv, LedgerInStep, MemoryTypeOK
  <2>3. a * m \in Nat /\ b * m \in Nat
    OBVIOUS
  <2>4. QED  BY <2>1, <2>2, <2>3
<1>2. QED  BY <1>1, RoutingInvariance, PTL

\* The attempts and successes of the routing_history table are those of the rows of
\* the attempts table, and what a process knows differs from them by what the
\* database refused, what is being learned just now (store.rs) and, where the history
\* could not be loaded (harness.rs), by what there was before it, over any number of
\* processes.
THEOREM CountsAlwaysAgree == MemorySpec => []CountsAgree
<1>1. RoutingIInv => CountsAgree
  BY DEF RoutingIInv
<1>2. QED  BY <1>1, RoutingInvariance, PTL

\* A nonempty set of naturals has a least element.
LEMMA LeastNumber ==
  ASSUME NEW N \in SUBSET Nat, N # {}
  PROVE  \E n \in N : \A m \in N : n <= m
<1>1. PICK n \in N : \A m \in N : ~(<<m, n>> \in OpToRel(<, Nat))
  BY WFMin, NatLessThanWellFounded
<1>2. \A m \in N : ~(m < n)
  BY <1>1 DEF OpToRel
<1>3. QED  BY <1>2

\* What clamp leaves is a percentage.
LEMMA ClampFacts == \A n \in Int : Clamp(n) \in 0..100
BY DEF Clamp, Least

\* Dividing a number by a positive one yields one, and a percentage of a percentage
\* is one.
LEMMA DivisionFacts ==
  /\ \A n \in Int : \A d \in Nat \ {0} : n \div d \in Int
  /\ \A n \in 0..100 : \A m \in {0, 30, 60, 100} : (n * m) \div 100 \in 0..100
<1>1. ASSUME NEW n \in 0..100, NEW m \in {0, 30, 60, 100} PROVE (n * m) \div 100 \in 0..100
  <2>1. CASE m = 0
    BY <2>1
  <2>2. CASE m = 30
    BY <2>2
  <2>3. CASE m = 60
    BY <2>3
  <2>4. CASE m = 100
    BY <2>4
  <2> QED BY <2>1, <2>2, <2>3, <2>4
<1> QED BY <1>1

\* Every dimension of score.rs is a percentage, whatever a target reports.
LEMMA DimensionsAreClamped ==
  ASSUME NEW i \in Index, NEW j \in Job, NEW s \in Bucket
  PROVE  /\ Quality(Targets[i], JobSpec[j].complexity) \in 0..100
         /\ CostScore(Targets[i]) \in 0..100 /\ LatencyScore(Targets[i]) \in 0..100
         /\ Blend(Reliability(Targets[i]), s, RouterCfg.adaptive, RouterCfg.minSamples) \in 0..100
         /\ ContextScore(Targets[i], JobSpec[j].tokens) \in 0..100
<1> DEFINE t == Targets[i]
           e == JobSpec[j]
<1>1. /\ t.price \in Int /\ t.latency \in Int /\ t.window \in Nat \cup {Unknown}
      /\ t.coding \in Int /\ t.reasoning \in Int /\ t.success \in Int
      /\ e.complexity \in Int /\ e.tokens \in Nat \cup {Unknown}
      /\ t.health \in {"Healthy", "Unknown", "Degraded", "RateLimited", "Unavailable"}
      /\ RouterCfg.adaptive \in Int /\ RouterCfg.minSamples \in Nat
  BY RoutingAssumption, ScoringAssumption DEF Unknown
<1> HIDE DEF t, e
<1>2. Quality(t, e.complexity) \in 0..100
  <2>1. /\ OrNeutral(t.coding, t.coding) * (100 - e.complexity) \in Int
        /\ OrNeutral(t.reasoning, t.reasoning) * e.complexity \in Int
    BY <1>1 DEF OrNeutral
  <2>2. Skill(t, e.complexity) \in Int
    BY <2>1, DivisionFacts DEF Skill
  <2> QED BY <2>2, ClampFacts, DivisionFacts DEF Quality
<1>3. CostScore(t) \in 0..100
  <2>1. Clamp((t.price * 100) \div 30) \in 0..100
    BY <1>1, ClampFacts, DivisionFacts
  <2> QED BY <2>1 DEF CostScore, OrNeutral
<1>4. LatencyScore(t) \in 0..100
  <2>1. Clamp((t.latency * 100) \div 120000) \in 0..100
    BY <1>1, ClampFacts, DivisionFacts
  <2> QED BY <2>1 DEF LatencyScore, OrNeutral
<1>5. Blend(Reliability(t), s, RouterCfg.adaptive, RouterCfg.minSamples) \in 0..100
  <2>1. HealthMultiplier(t.health) \in {0, 30, 60, 100}
    BY <1>1 DEF HealthMultiplier
  <2>2. OrNeutral(t.success, Clamp(t.success)) \in 0..100
    BY <1>1, ClampFacts DEF OrNeutral
  <2>3. Reliability(t) \in 0..100
    BY <2>1, <2>2, DivisionFacts DEF Reliability
  <2> DEFINE floor == IF RouterCfg.minSamples = 0 THEN 1 ELSE RouterCfg.minSamples
             sure  == Least(100, (s.attempts * 100) \div (floor * 2))
             pull  == (Clamp(RouterCfg.adaptive) * sure) \div 100
             seen  == (s.successes * 100) \div s.attempts
             r     == Reliability(t)
             mix   == (r * (100 - pull) + seen * pull) \div 100
  <2>4. s.attempts \in Nat /\ s.successes \in Nat /\ floor \in Nat \ {0}
    BY <1>1 DEF Bucket
  <2>5. CASE RouterCfg.adaptive <= 0 \/ s.attempts < floor
    BY <2>3, <2>5 DEF Blend
  <2>6. CASE ~(RouterCfg.adaptive <= 0 \/ s.attempts < floor)
    <3>1. s.attempts \in Nat \ {0} /\ floor * 2 \in Nat \ {0}
      BY <2>4, <2>6
    <3>2. sure \in Int
      BY <2>4, <3>1, DivisionFacts DEF Least
    <3>3. pull \in Int /\ seen \in Int
      BY <1>1, <2>4, <3>1, <3>2, ClampFacts, DivisionFacts
    <3>4. mix \in Int
      <4> HIDE DEF pull, seen, r
      <4>1. r * (100 - pull) + seen * pull \in Int
        BY <2>3, <3>3 DEF r
      <4> QED BY <4>1, DivisionFacts
    <3>5. Blend(r, s, RouterCfg.adaptive, RouterCfg.minSamples) = Clamp(mix)
      BY <2>6 DEF Blend
    <3> QED BY <3>4, <3>5, ClampFacts
  <2> QED BY <2>5, <2>6
<1>6. ContextScore(t, e.tokens) \in 0..100
  <2>1. CASE Unknown \in {t.window, e.tokens} \/ e.tokens >= t.window
    BY <2>1 DEF ContextScore
  <2>2. CASE ~(Unknown \in {t.window, e.tokens} \/ e.tokens >= t.window)
    <3>1. t.window \in Nat \ {0} /\ e.tokens \in Nat
      BY <1>1, <2>2
    <3> DEFINE full == (e.tokens * 100) \div t.window
    <3>2. full \in Int
      BY <3>1, DivisionFacts
    <3> HIDE DEF full
    <3>3. ((100 - full) * 100) \div 66 \in Int
      BY <3>2, DivisionFacts
    <3>4. ContextScore(t, e.tokens) = Clamp(((100 - full) * 100) \div 66)
      BY <2>2 DEF ContextScore, full
    <3> QED BY <3>3, <3>4, ClampFacts
  <2> QED BY <2>1, <2>2
<1> QED BY <1>2, <1>3, <1>4, <1>5, <1>6 DEF t, e

\* No dimension counts for more than its weight.
LEMMA Weighed ==
  ASSUME NEW x \in 0..100, NEW w \in Nat
  PROVE  x * w \in 0..(100 * w)
<1>1. x * w \in Nat /\ (100 - x) * w \in Nat
  OBVIOUS
<1>2. (100 - x) * w = 100 * w - x * w
  OBVIOUS
<1> QED BY <1>1, <1>2

\* The most a target can score.
FullMarks ==
  LET w == RouterCfg.weights
  IN  100 * w.quality + 100 * w.cost + 100 * w.latency + 100 * w.reliability + 100 * w.context

\* A score lies between nothing and full marks, whatever was learnt.
LEMMA ScoresAreBounded ==
  ASSUME NEW i \in Index, NEW j \in Job, NEW s \in Bucket
  PROVE  /\ FullMarks \in Nat
         /\ Score(RouterCfg, Targets[i], JobSpec[j], s) \in 0..FullMarks
<1> DEFINE w == RouterCfg.weights
           q == Quality(Targets[i], JobSpec[j].complexity)
           c == CostScore(Targets[i])
           l == LatencyScore(Targets[i])
           r == Blend(Reliability(Targets[i]), s, RouterCfg.adaptive, RouterCfg.minSamples)
           x == ContextScore(Targets[i], JobSpec[j].tokens)
<1>1. q \in 0..100 /\ c \in 0..100 /\ l \in 0..100 /\ r \in 0..100 /\ x \in 0..100
  BY DimensionsAreClamped
<1>2. /\ w.quality \in Nat /\ w.cost \in Nat /\ w.latency \in Nat /\ w.reliability \in Nat
      /\ w.context \in Nat
  BY ScoringAssumption
<1>3. Score(RouterCfg, Targets[i], JobSpec[j], s)
        = q * w.quality + c * w.cost + l * w.latency + r * w.reliability + x * w.context
  BY DEF Score
<1> HIDE DEF q, c, l, r, x
<1>4. /\ q * w.quality \in 0..(100 * w.quality) /\ c * w.cost \in 0..(100 * w.cost)
      /\ l * w.latency \in 0..(100 * w.latency)
      /\ r * w.reliability \in 0..(100 * w.reliability)
      /\ x * w.context \in 0..(100 * w.context)
  BY <1>1, <1>2, Weighed
<1> QED BY <1>2, <1>3, <1>4 DEF FullMarks

\* Router::route decides: of the targets the filters leave for a task, exactly one
\* wins, whatever the weights, the reports of the targets and the history. The sort
\* compares numbers within the same bounds, and registry order settles equal scores.
THEOREM OneTargetWins ==
  ASSUME MemoryTypeOK, NEW j \in Job, NEW left \in SUBSET Index, left # {}
  PROVE  \E i \in left :
           /\ Wins(i, left, RouterCfg, Targets, JobSpec[j], history)
           /\ \A k \in left : Wins(k, left, RouterCfg, Targets, JobSpec[j], history) => k = i
<1> DEFINE score(k) == Score(RouterCfg, Targets[k], JobSpec[j], history[k])
<1>1. \A k \in left : k \in Nat /\ score(k) \in 0..FullMarks /\ FullMarks \in Nat
  BY ScoresAreBounded, ScoringAssumption DEF MemoryTypeOK
<1>2. \A i \in left : Wins(i, left, RouterCfg, Targets, JobSpec[j], history)
                      <=> \A k \in left : score(k) < score(i) \/ (score(k) = score(i) /\ i <= k)
  BY DEF Wins
<1> HIDE DEF score
<1> DEFINE misses == {FullMarks - score(k) : k \in left}
<1>3. misses \in SUBSET Nat /\ misses # {}
  BY <1>1
<1>4. PICK m \in misses : \A n \in misses : m <= n
  BY <1>3, LeastNumber
<1>5. PICK b \in left : \A k \in left : score(k) <= score(b)
  <2>1. PICK b \in left : m = FullMarks - score(b)
    BY <1>4
  <2>2. ASSUME NEW k \in left PROVE score(k) <= score(b)
    <3>1. FullMarks - score(b) <= FullMarks - score(k)
      BY <1>4, <2>1
    <3>2. score(k) \in Int /\ score(b) \in Int /\ FullMarks \in Int
      BY <1>1
    <3> HIDE DEF FullMarks
    <3> QED BY <3>1, <3>2
  <2> QED BY <2>2
<1> DEFINE best == {k \in left : score(k) = score(b)}
<1>6. best \in SUBSET Nat /\ best # {}
  BY <1>1, <1>5
<1>7. PICK i \in best : \A k \in best : i <= k
  BY <1>6, LeastNumber
<1>8. \A k \in left : score(k) < score(i) \/ (score(k) = score(i) /\ i <= k)
  BY <1>1, <1>5, <1>7
<1>9. ASSUME NEW k \in left, \A n \in left : score(n) < score(k) \/ (score(n) = score(k) /\ k <= n)
      PROVE  k = i
  <2>1. i \in left /\ i \in Nat /\ k \in Nat /\ score(i) \in Int /\ score(k) \in Int
    BY <1>1, <1>7
  <2>2. score(i) < score(k) \/ (score(i) = score(k) /\ k <= i)
    BY <1>9, <2>1
  <2>3. score(k) < score(i) \/ (score(k) = score(i) /\ i <= k)
    BY <1>8
  <2> QED BY <2>1, <2>2, <2>3
<1> QED BY <1>2, <1>7, <1>8, <1>9

\* Of a nonempty family of subsets of a finite set, one has the fewest elements.
LEMMA SmallestSubset ==
  ASSUME NEW S, IsFiniteSet(S), NEW F \in SUBSET SUBSET S, F # {}
  PROVE  \E s \in F : /\ IsFiniteSet(s)
                      /\ \A t \in F : ~(Cardinality(t) < Cardinality(s))
<1>1. \A s \in F : IsFiniteSet(s) /\ Cardinality(s) \in Nat
  BY FS_Subset, FS_CardinalityType
<1> DEFINE N == {Cardinality(s) : s \in F}
<1>2. PICK n \in N : \A m \in N : n <= m
  <2>1. N \in SUBSET Nat /\ N # {}
    BY <1>1
  <2>2. QED  BY <2>1, LeastNumber
<1>3. PICK s \in F : n = Cardinality(s)
  BY <1>2
<1>4. \A t \in F : Cardinality(s) <= Cardinality(t)
  BY <1>2, <1>3
<1>5. QED  BY <1>1, <1>4

\* The element a sum takes out next.
Pick(s) == CHOOSE x \in s : TRUE
Summed(f, s) == IF s = {} THEN 0 ELSE Pick(s).tokens + f[s \ {Pick(s)}]

\* The sums of the subsets of S with up to n elements, and of all.
Small(S, n) == {s \in SUBSET S : Cardinality(s) <= n}
SumsSmall(f, S, n) == f = [s \in Small(S, n) |-> Summed(f, s)]
Sums(f, S) == f = [s \in SUBSET S |-> Summed(f, s)]

\* An element less is a smaller set.
LEMMA PickedIsSmaller ==
  ASSUME NEW s, IsFiniteSet(s), s # {}
  PROVE  /\ Pick(s) \in s /\ IsFiniteSet(s \ {Pick(s)})
         /\ Cardinality(s) \in Nat /\ Cardinality(s \ {Pick(s)}) = Cardinality(s) - 1
         /\ Cardinality(s \ {Pick(s)}) < Cardinality(s)
<1>1. Pick(s) \in s
  BY DEF Pick
<1>2. /\ IsFiniteSet(s \ {Pick(s)}) /\ Cardinality(s) \in Nat
      /\ Cardinality(s \ {Pick(s)}) = Cardinality(s) - 1
  BY <1>1, FS_RemoveElement, FS_CardinalityType
<1>3. QED  BY <1>1, <1>2

\* There are sums: of the sizes without them, the least would extend a smaller one.
LEMMA SumsExist ==
  ASSUME NEW S, IsFiniteSet(S)
  PROVE  \E f : Sums(f, S)
<1>1. ASSUME NEW n \in Nat PROVE \E f : SumsSmall(f, S, n)
  <2> DEFINE N == {m \in Nat : ~\E f : SumsSmall(f, S, m)}
  <2>1. SUFFICES ASSUME N # {} PROVE FALSE
    BY <1>1
  <2>2. PICK m \in N : \A k \in N : m <= k
    <3>1. N \in SUBSET Nat
      OBVIOUS
    <3>2. QED  BY <2>1, <3>1, LeastNumber
  <2>3. \A s \in SUBSET S : IsFiniteSet(s) /\ Cardinality(s) \in Nat
    BY FS_Subset, FS_CardinalityType
  <2>4. CASE m = 0
    <3>1. \A s \in Small(S, 0) : s = {}
      BY <2>3, FS_EmptySet DEF Small
    <3>2. SumsSmall([s \in Small(S, 0) |-> 0], S, 0)
      BY <3>1 DEF SumsSmall, Summed
    <3>3. QED  BY <2>2, <2>4, <3>2
  <2>5. CASE m # 0
    <3>1. m - 1 \in Nat /\ m - 1 \notin N
      BY <2>2, <2>5
    <3>2. PICK f : SumsSmall(f, S, m - 1)
      BY <3>1
    <3> DEFINE g == [s \in Small(S, m) |-> Summed(f, s)]
    <3>3. ASSUME NEW s \in Small(S, m) PROVE Summed(f, s) = Summed(g, s)
      <4>1. CASE s = {}
        BY <4>1 DEF Summed
      <4>2. CASE s # {}
        <5> DEFINE t == s \ {Pick(s)}
        <5>1. t \in SUBSET S /\ Cardinality(t) \in Nat /\ Cardinality(t) <= m - 1
          BY <2>3, <3>3, <4>2, PickedIsSmaller DEF Small
        <5>2. t \in Small(S, m) /\ t \in Small(S, m - 1)
          BY <2>2, <5>1 DEF Small
        <5>3. f[t] = Summed(f, t)
          BY <3>2, <5>2 DEF SumsSmall
        <5>4. g[t] = Summed(f, t)
          BY <5>2
        <5>5. QED  BY <4>2, <5>3, <5>4 DEF Summed
      <4>3. QED  BY <4>1, <4>2
    <3>4. SumsSmall(g, S, m)
      BY <3>3 DEF SumsSmall
    <3>5. QED  BY <2>2, <3>4
  <2>6. QED  BY <2>4, <2>5
<1>2. Small(S, Cardinality(S)) = SUBSET S /\ Cardinality(S) \in Nat
  BY FS_Subset, FS_CardinalityType DEF Small
<1>3. PICK f : SumsSmall(f, S, Cardinality(S))
  BY <1>1, <1>2
<1>4. QED  BY <1>2, <1>3 DEF SumsSmall, Sums

\* A set has one sum, in whatever set it is summed.
LEMMA SumsAgree ==
  ASSUME NEW S, IsFiniteSet(S), NEW T \in SUBSET S, NEW f, Sums(f, S), NEW g, Sums(g, T),
         NEW s \in SUBSET T
  PROVE  f[s] = g[s]
<1> DEFINE F == {t \in SUBSET T : f[t] # g[t]}
<1>1. SUFFICES ASSUME F # {} PROVE FALSE
  BY <1>1
<1>2. PICK t \in F : IsFiniteSet(t) /\ \A u \in F : ~(Cardinality(u) < Cardinality(t))
  <2>1. F \in SUBSET SUBSET S
    OBVIOUS
  <2>2. QED  BY <1>1, <2>1, SmallestSubset
<1>3. f[t] = Summed(f, t) /\ g[t] = Summed(g, t)
  BY <1>2 DEF Sums
<1>4. CASE t = {}
  BY <1>2, <1>3, <1>4 DEF Summed
<1>5. CASE t # {}
  <2>1. Cardinality(t \ {Pick(t)}) < Cardinality(t)
    BY <1>2, <1>5, PickedIsSmaller
  <2>2. t \ {Pick(t)} \in SUBSET T /\ t \ {Pick(t)} \notin F
    BY <1>2, <2>1
  <2>3. f[t \ {Pick(t)}] = g[t \ {Pick(t)}]
    BY <2>2
  <2>4. QED  BY <1>2, <1>3, <1>5, <2>3 DEF Summed
<1>6. QED  BY <1>4, <1>5

\* Tokens is a sum.
LEMMA TokensIsSum ==
  ASSUME NEW S, IsFiniteSet(S)
  PROVE  \E f : Sums(f, S) /\ Tokens(S) = f[S]
<1>1. PICK f : Sums(f, S)
  BY SumsExist
<1>2. QED  BY <1>1 DEF Tokens, MapThenSumSet, MapThenFoldSet, Sums, Summed, Pick

\* Nothing has no tokens, and otherwise one row is taken out first.
LEMMA TokensUnfold ==
  ASSUME NEW S, IsFiniteSet(S)
  PROVE  Tokens(S) = IF S = {} THEN 0 ELSE Pick(S).tokens + Tokens(S \ {Pick(S)})
<1>1. PICK f : Sums(f, S) /\ Tokens(S) = f[S]
  BY TokensIsSum
<1>2. Tokens(S) = Summed(f, S)
  BY <1>1 DEF Sums
<1>3. CASE S = {}
  BY <1>2, <1>3 DEF Summed
<1>4. CASE S # {}
  <2> DEFINE T == S \ {Pick(S)}
  <2>1. PICK g : Sums(g, T) /\ Tokens(T) = g[T]
    BY <1>4, PickedIsSmaller, TokensIsSum
  <2>2. f[T] = g[T]
    BY <1>1, <2>1, SumsAgree
  <2>3. QED  BY <1>2, <1>4, <2>1, <2>2 DEF Summed
<1>5. QED  BY <1>3, <1>4

\* The tokens of rows are a natural number.
LEMMA TokensType ==
  ASSUME NEW S, IsFiniteSet(S), \A x \in S : x.tokens \in Nat, NEW s \in SUBSET S
  PROVE  Tokens(s) \in Nat
<1> DEFINE F == {t \in SUBSET S : Tokens(t) \notin Nat}
<1>1. SUFFICES ASSUME F # {} PROVE FALSE
  BY <1>1
<1>2. PICK t \in F : IsFiniteSet(t) /\ \A u \in F : ~(Cardinality(u) < Cardinality(t))
  <2>1. F \in SUBSET SUBSET S
    OBVIOUS
  <2>2. QED  BY <1>1, <2>1, SmallestSubset
<1>3. CASE t = {}
  <2>1. Tokens(t) = 0
    BY <1>2, <1>3, TokensUnfold
  <2>2. QED  BY <1>2, <2>1
<1>4. CASE t # {}
  <2> DEFINE u == t \ {Pick(t)}
  <2>1. Pick(t) \in t /\ Cardinality(u) < Cardinality(t)
    BY <1>2, <1>4, PickedIsSmaller
  <2>2. Tokens(u) \in Nat
    BY <1>2, <2>1
  <2>3. Tokens(t) = Pick(t).tokens + Tokens(u)
    BY <1>2, <1>4, TokensUnfold
  <2>4. Pick(t).tokens \in Nat
    BY <1>2, <2>1
  <2>5. Tokens(t) \in Nat
    BY <2>2, <2>3, <2>4
  <2>6. QED  BY <1>2, <2>5
<1>5. QED  BY <1>3, <1>4

\* Which row is taken out first does not matter: in the smallest set where it did,
\* the row and the one taken out first could be swapped.
LEMMA TokensOfRow ==
  ASSUME NEW S, IsFiniteSet(S), \A x \in S : x.tokens \in Nat, NEW s \in SUBSET S, NEW r \in s
  PROVE  Tokens(s) = r.tokens + Tokens(s \ {r})
<1> DEFINE F == {t \in SUBSET S : \E x \in t : Tokens(t) # x.tokens + Tokens(t \ {x})}
<1>1. SUFFICES ASSUME F # {} PROVE FALSE
  BY <1>1
<1>2. PICK t \in F : IsFiniteSet(t) /\ \A u \in F : ~(Cardinality(u) < Cardinality(t))
  <2>1. F \in SUBSET SUBSET S
    OBVIOUS
  <2>2. QED  BY <1>1, <2>1, SmallestSubset
<1>3. PICK x \in t : Tokens(t) # x.tokens + Tokens(t \ {x})
  BY <1>2
<1> DEFINE y == Pick(t)
<1>4. /\ y \in t /\ Cardinality(t) \in Nat /\ Cardinality(t \ {y}) = Cardinality(t) - 1
      /\ Tokens(t) = y.tokens + Tokens(t \ {y})
  BY <1>2, <1>3, PickedIsSmaller, TokensUnfold
<1>5. Cardinality(t \ {x}) < Cardinality(t) /\ Cardinality(t \ {y}) < Cardinality(t)
  <2>1. Cardinality(t \ {x}) = Cardinality(t) - 1
    BY <1>2, FS_RemoveElement
  <2>2. QED  BY <1>4, <2>1
<1>6. x # y
  BY <1>3, <1>4
<1>7. t \ {y} \notin F /\ t \ {x} \notin F
  BY <1>2, <1>5
<1>8. Tokens(t \ {y}) = x.tokens + Tokens((t \ {y}) \ {x})
  BY <1>3, <1>6, <1>7
<1>9. Tokens(t \ {x}) = y.tokens + Tokens((t \ {x}) \ {y})
  BY <1>4, <1>6, <1>7
<1>10. (t \ {x}) \ {y} = (t \ {y}) \ {x}
  OBVIOUS
<1>11. Tokens((t \ {x}) \ {y}) \in Nat /\ x.tokens \in Nat /\ y.tokens \in Nat
  <2>1. (t \ {x}) \ {y} \in SUBSET S /\ x \in S /\ y \in S
    BY <1>2, <1>3, <1>4
  <2>2. QED  BY <2>1, TokensType
<1>12. PICK a \in Nat, b \in Nat, c \in Nat :
         a = x.tokens /\ b = y.tokens /\ c = Tokens((t \ {x}) \ {y})
  BY <1>11
<1>13. Tokens(t) = b + (a + c) /\ Tokens(t \ {x}) = b + c
  BY <1>4, <1>8, <1>9, <1>10, <1>12
<1>14. b + (a + c) = a + (b + c)
  OBVIOUS
<1>15. QED  BY <1>3, <1>12, <1>13, <1>14

\* One more row adds its tokens.
LEMMA TokensOfOneMore ==
  ASSUME NEW S, IsFiniteSet(S), \A x \in S : x.tokens \in Nat, NEW r, r \notin S, r.tokens \in Nat
  PROVE  Tokens(S \cup {r}) = Tokens(S) + r.tokens
<1>1. IsFiniteSet(S \cup {r}) /\ \A x \in S \cup {r} : x.tokens \in Nat
  BY FS_AddElement
<1>2. Tokens(S \cup {r}) = r.tokens + Tokens((S \cup {r}) \ {r})
  BY <1>1, TokensOfRow
<1>3. (S \cup {r}) \ {r} = S
  OBVIOUS
<1>4. Tokens(S) \in Nat
  BY TokensType
<1>5. \A n \in Nat : r.tokens + n = n + r.tokens
  OBVIOUS
<1>6. QED  BY <1>2, <1>3, <1>4, <1>5, Zenon

\* The tokens among what the totals say.
TokensAgree == \A i \in Index : totals[i].tokens = Tokens(RowsOf(i))

\* A step writes no row and no totals, or one row and its tokens into the totals of
\* its target.
LEMMA TokensStayAgreed ==
  ASSUME RoutingIInv, TokensAgree, [MemoryNext]_memoryVars
  PROVE  TokensAgree'
<1>1. CASE UNCHANGED <<attempts, totals>>
  BY <1>1 DEF TokensAgree, RowsOf
<1>2. ASSUME NEW j \in Job, WriteAttempt(j) PROVE TokensAgree'
  <2>1. PICK ok \in BOOLEAN, tokens \in 1..2, n \in 0..3 :
          LET r == [id |-> tried, by |-> j, target |-> job[j].target, ok |-> ok, tokens |-> tokens]
          IN  attempts' = Wrote(n, r).attempts /\ totals' = Wrote(n, r).totals
    BY <1>2 DEF WriteAttempt
  <2> DEFINE i == job[j].target
             r == [id |-> tried, by |-> j, target |-> i, ok |-> ok, tokens |-> tokens]
  <2>2. /\ attempts' = (IF n = 3 THEN attempts \cup {r} ELSE attempts)
        /\ totals' = (IF n = 3 THEN [totals EXCEPT ![i] = AddTotals(@, r)] ELSE totals)
    BY <2>1 DEF Wrote
  <2>3. CASE n # 3
    BY <1>1, <2>2, <2>3
  <2>4. CASE n = 3
    <3>1. /\ i \in Index /\ totals \in [Index -> Bucket] /\ IsFiniteSet(attempts)
          /\ \A x \in attempts : x.tokens \in Nat
          /\ r \notin attempts
      BY <1>2 DEF WriteAttempt, RoutingIInv, RowsInStep, MemoryTypeOK
    <3>2. ASSUME NEW k \in Index PROVE totals'[k].tokens = Tokens(RowsOf(k)')
      <4>1. totals[k].tokens = Tokens(RowsOf(k))
        BY DEF TokensAgree
      <4>2. CASE k # i
        <5>1. RowsOf(k)' = RowsOf(k) /\ totals'[k] = totals[k]
          BY <2>2, <2>4, <3>1, <4>2 DEF RowsOf
        <5>2. QED  BY <4>1, <5>1
      <4>3. CASE k = i
        <5>1. RowsOf(k)' = RowsOf(k) \cup {r} /\ r \notin RowsOf(k)
          BY <2>2, <2>4, <3>1, <4>3 DEF RowsOf
        <5>2. totals'[k].tokens = totals[k].tokens + r.tokens
          BY <2>2, <2>4, <3>1, <4>3 DEF AddTotals
        <5>3. IsFiniteSet(RowsOf(k)) /\ \A x \in RowsOf(k) : x.tokens \in Nat
          BY <3>1, FS_Subset DEF RowsOf
        <5>4. r.tokens \in Nat
          OBVIOUS
        <5>5. Tokens(RowsOf(k) \cup {r}) = Tokens(RowsOf(k)) + r.tokens
          BY <5>1, <5>3, <5>4, TokensOfOneMore
        <5>6. QED  BY <4>1, <5>1, <5>2, <5>5
      <4>4. QED  BY <4>2, <4>3
    <3>3. QED  BY <3>2 DEF TokensAgree
  <2>5. QED  BY <2>3, <2>4
<1>3. QED  BY <1>1, <1>2 DEF MemoryNext, memoryVars, RouteTask, Charge, Learn, NextProcess

\* The routing_history table is the aggregate of the rows of the attempts table, in
\* attempts, successes and tokens, and what a process learned differs from it by what
\* the database refused and what is being learned just now (store.rs), over any
\* number of processes.
THEOREM HistoryAlwaysAgrees == MemorySpec => []HistoryAgrees
<1>1. MemoryInit => TokensAgree
  <2> SUFFICES ASSUME MemoryInit, NEW i \in Index PROVE totals[i].tokens = Tokens(RowsOf(i))
    BY DEF TokensAgree
  <2>1. RowsOf(i) = {} /\ totals[i].tokens = 0
    BY DEF MemoryInit, RowsOf, NoTotals
  <2>2. Tokens({}) = 0
    BY TokensUnfold, FS_EmptySet
  <2>3. QED  BY <2>1, <2>2
<1>2. RoutingIInv /\ TokensAgree /\ [MemoryNext]_memoryVars => TokensAgree'
  BY TokensStayAgreed
<1>3. CountsAgree /\ TokensAgree => HistoryAgrees
  BY DEF HistoryAgrees, TokensAgree
<1>4. QED  BY <1>1, <1>2, <1>3, RoutingInvariance, CountsAlwaysAgree, PTL DEF MemorySpec

-----------------------------------------------------------------------------
(* Long-term memory.                                                       *)

\* A task that is past its first attempt was tried.
TriedInStep ==
  \A t \in Noted :
    /\ at[t] = "new" => tries[t] = 0
    /\ at[t] \in {"handing", "remembering", "settling", "completed", "kept"} => tries[t] > 0

NotesIInv == NotesTypeOK /\ TriedInStep /\ NotesAreTrue

\* What may be said of a task.
Deserved(page) ==
  /\ tries[page.about] > 0
  /\ page.says = "completed" => at[page.about] \in {"settling", "completed", "kept"}
  /\ page.says = "handed over" /\ at[page.about] \notin {"working", "handing"} =>
       tries[page.about] > 1

\* A page stays true of a task that is tried no less, stays completed and does not
\* end without another attempt.
LEMMA StaysDeserved ==
  ASSUME NEW page \in Page, Deserved(page), NEW m \in Nat, NEW n \in Nat, m <= n,
         tries[page.about] = m, tries'[page.about] = n,
         at[page.about] \in {"settling", "completed", "kept"} =>
           at'[page.about] \in {"settling", "completed", "kept"},
         at[page.about] \in {"working", "handing"} =>
           at'[page.about] \in {"working", "handing"} \/ m < n
  PROVE  Deserved(page)'
<1>1. m > 0 /\ n > 0
  <2>1. m > 0
    BY DEF Deserved
  <2>2. QED  BY <2>1
<1>2. page.says = "completed" => at'[page.about] \in {"settling", "completed", "kept"}
  BY Zenon DEF Deserved
<1>3. ASSUME page.says = "handed over", at'[page.about] \notin {"working", "handing"}
      PROVE  n > 1
  <2>1. CASE at[page.about] \in {"working", "handing"}
    <3>1. m < n
      BY <1>3, <2>1, Zenon
    <3>2. QED  BY <1>1, <3>1
  <2>2. CASE at[page.about] \notin {"working", "handing"}
    <3>1. m > 1
      BY <1>3, <2>2, Zenon DEF Deserved
    <3>2. QED  BY <3>1
  <2>3. QED  BY <2>1, <2>2
<1>4. QED  BY <1>1, <1>2, <1>3, Zenon DEF Deserved

\* A step of tasks that takes back no attempt and no completion, and ends none
\* without another attempt, leaves every page as true as it was.
LEMMA PagesStayTrue ==
  ASSUME NotesIInv, NotesTypeOK', TriedInStep',
         \A t \in Noted : /\ tries[t] <= tries'[t]
                          /\ at[t] \in {"settling", "completed", "kept"} =>
                               at'[t] \in {"settling", "completed", "kept"}
                          /\ at[t] \in {"working", "handing"} =>
                               at'[t] \in {"working", "handing"} \/ tries[t] < tries'[t],
         \A page \in (pages \cup landing)' : page \in pages \cup landing \/ Deserved(page)',
         \A t \in Noted : \A page \in notes'[t] : page.about # t
  PROVE  NotesIInv'
<1> SUFFICES ASSUME NEW page \in (pages \cup landing)' PROVE Deserved(page)'
  BY DEF NotesIInv, NotesAreTrue, Deserved
<1>1. CASE page \in pages \cup landing
  <2>1. Deserved(page) /\ page.about \in Noted
    BY <1>1 DEF NotesIInv, NotesAreTrue, NotesTypeOK, Page, Deserved
  <2>2. tries[page.about] \in Nat /\ tries'[page.about] \in Nat
    BY <2>1, NotesAssumption DEF NotesIInv, NotesTypeOK
  <2>3. page \in Page
    BY <1>1 DEF NotesIInv, NotesTypeOK
  <2> QED BY <2>1, <2>2, <2>3, StaysDeserved
<1> QED BY <1>1

\* Every step of a task, of its writes and of the backend keeps it.
LEMMA NotesNextIInv ==
  ASSUME NotesIInv, [NotesNext]_noteVars
  PROVE  NotesIInv'
<1> USE NotesAssumption
<1>1. NotesTypeOK /\ TriedInStep /\ NotesAreTrue
  BY DEF NotesIInv
<1>2. Probed \in {"Unknown", "Present", "Missing"}
  BY <1>1 DEF Probed, NotesTypeOK
<1>3. ASSUME NEW t \in Noted, Recall(t)
      PROVE  NotesIInv'
  <2>1. PICK found \in SUBSET pages : notes' = [notes EXCEPT ![t] = found]
    BY <1>3 DEF Recall
  <2>2. /\ at[t] = "new" /\ known' = Probed /\ at' = [at EXCEPT ![t] = "working"]
        /\ UNCHANGED <<backend, up, tries, pages, landing, outages>>
    BY <1>3 DEF Recall
  <2>3. NotesTypeOK'
    BY <1>1, <1>2, <2>1, <2>2 DEF NotesTypeOK
  <2>4. TriedInStep'
    BY <1>1, <2>2 DEF NotesTypeOK, TriedInStep
  <2>5. \A page \in found : page.about # t
    <3>1. \A page \in found : tries[page.about] > 0
      BY <1>1, <2>1, Zenon DEF NotesAreTrue
    <3>2. ~(tries[t] > 0)
      BY <1>1, <2>2 DEF TriedInStep
    <3>3. QED  BY <3>1, <3>2, Zenon
  <2>6. \A s \in Noted : \A page \in notes'[s] : page.about # s
    BY <1>1, <2>1, <2>5 DEF NotesTypeOK, NotesAreTrue
  <2>7. \A s \in Noted : tries[s] <= tries'[s]
    BY <1>1, <2>2 DEF NotesTypeOK
  <2> QED BY <1>1, <2>2, <2>3, <2>4, <2>6, <2>7, PagesStayTrue DEF NotesTypeOK
<1>4. ASSUME NEW t \in Noted, Attempt(t)
      PROVE  NotesIInv'
  <2>1. PICK next \in {"remembering", "working", "handing", "failed"} : at' = [at EXCEPT ![t] = next]
    BY <1>4 DEF Attempt
  <2>2. /\ at[t] = "working" /\ tries[t] < MaxTries /\ tries' = [tries EXCEPT ![t] = tries[t] + 1]
        /\ UNCHANGED <<backend, up, known, notes, pages, landing, outages>>
    BY <1>4 DEF Attempt
  <2>3. tries[t] + 1 \in 0..MaxTries /\ tries[t] + 1 > 0 /\ tries[t] <= tries[t] + 1
    BY <1>1, <2>2 DEF NotesTypeOK
  <2>4. NotesTypeOK'
    BY <1>1, <2>1, <2>2, <2>3 DEF NotesTypeOK
  <2>5. TriedInStep'
    BY <1>1, <2>1, <2>2, <2>3 DEF NotesTypeOK, TriedInStep
  <2>6. \A s \in Noted : tries[s] <= tries'[s]
    BY <1>1, <2>2, <2>3 DEF NotesTypeOK
  <2>7. \A s \in Noted :
          /\ at[s] \in {"settling", "completed", "kept"} =>
               at'[s] \in {"settling", "completed", "kept"}
          /\ at[s] \in {"working", "handing"} =>
               at'[s] \in {"working", "handing"} \/ tries[s] < tries'[s]
    BY <1>1, <2>1, <2>2, <2>3 DEF NotesTypeOK
  <2>8. \A s \in Noted : \A page \in notes'[s] : page.about # s
    BY <1>1, <2>2, Zenon DEF NotesAreTrue
  <2>9. (pages \cup landing)' = pages \cup landing
    BY <2>2
  <2> QED BY <2>4, <2>5, <2>6, <2>7, <2>8, <2>9, PagesStayTrue
<1>5. ASSUME NEW t \in Noted, Handoff(t) \/ Remember(t)
      PROVE  NotesIInv'
  <2>1. known' = Probed /\ UNCHANGED <<backend, up, tries, notes, outages>>
    BY <1>5 DEF Handoff, Remember
  <2>2. \A s \in Noted : tries[s] <= tries'[s]
    BY <1>1, <2>1 DEF NotesTypeOK
  <2>3. PICK says \in {"handed over", "completed"} :
          /\ Write([about |-> t, says |-> says])
          /\ at' = [at EXCEPT ![t] = IF says = "completed" THEN "settling" ELSE "working"]
          /\ at[t] = IF says = "completed" THEN "remembering" ELSE "handing"
    BY <1>5 DEF Handoff, Remember
  <2>4. PICK page \in Page : page = [about |-> t, says |-> says]
    BY DEF Page
  <2>5. pages' \subseteq pages \cup {page} /\ landing' \subseteq landing \cup {page}
    BY <2>3, <2>4 DEF Write
  <2>6. NotesTypeOK'
    BY <1>1, <1>2, <2>3, <2>1, <2>5 DEF NotesTypeOK
  <2>7. TriedInStep'
    BY <1>1, <2>3, <2>1 DEF NotesTypeOK, TriedInStep
  <2>8. Deserved(page)'
    BY <1>1, <2>3, <2>1, <2>4 DEF NotesTypeOK, TriedInStep, Deserved
  <2>9. \A other \in (pages \cup landing)' : other \in pages \cup landing \/ Deserved(other)'
    BY <2>5, <2>8
  <2> QED BY <1>1, <2>3, <2>1, <2>6, <2>7, <2>2, <2>9, PagesStayTrue DEF NotesTypeOK, NotesAreTrue
<1>6. ASSUME NEW t \in Noted, SettleNoted(t)
      PROVE  NotesIInv'
  <2>1. PICK end \in {"completed", "kept"} : at' = [at EXCEPT ![t] = end]
    BY <1>6 DEF SettleNoted
  <2>2. at[t] = "settling" /\ UNCHANGED <<backend, up, known, tries, notes, pages, landing, outages>>
    BY <1>6 DEF SettleNoted
  <2>3. NotesTypeOK' /\ TriedInStep'
    BY <1>1, <2>1, <2>2 DEF NotesTypeOK, TriedInStep
  <2>4. \A s \in Noted : tries[s] <= tries'[s]
    BY <1>1, <2>2 DEF NotesTypeOK
  <2> QED BY <1>1, <2>1, <2>2, <2>3, <2>4, PagesStayTrue DEF NotesTypeOK, NotesAreTrue
<1>7. ASSUME Lands \/ Outage
      PROVE  NotesIInv'
  <2>1. UNCHANGED <<backend, known, at, tries, notes>>
    BY <1>7 DEF Lands, Outage
  <2>2. up' \in BOOLEAN /\ outages' \in 0..MaxOutages
    <3>1. up' = up \/ up' = ~up
      BY <1>7 DEF Lands, Outage
    <3>2. up' \in BOOLEAN
      BY <1>1, <3>1, Zenon DEF NotesTypeOK
    <3>3. outages' \in 0..MaxOutages
      BY <1>1, <1>7 DEF Lands, Outage, NotesTypeOK
    <3> QED BY <3>2, <3>3
  <2>3. pages' \subseteq pages \cup landing /\ landing' \subseteq landing
    BY <1>7 DEF Lands, Outage
  <2>4. NotesTypeOK' /\ TriedInStep'
    BY <1>1, <2>1, <2>2, <2>3 DEF NotesTypeOK, TriedInStep
  <2>5. \A s \in Noted : tries[s] <= tries'[s]
    BY <1>1, <2>1 DEF NotesTypeOK
  <2> QED BY <1>1, <2>1, <2>3, <2>4, <2>5, PagesStayTrue DEF NotesAreTrue
<1>8. CASE UNCHANGED noteVars
  BY <1>1, <1>8 DEF noteVars, NotesIInv, NotesTypeOK, TriedInStep, NotesAreTrue
<1> QED BY <1>3, <1>4, <1>5, <1>6, <1>7, <1>8 DEF NotesNext

\* remember_success and publish_handoff of executor.rs over the backends of
\* cuma-memory: for any number of tasks and attempts, whatever is late or lost, a
\* page says a task was completed by an agent only if one did complete it (its work
\* may have failed to apply since), or handed over only if it was tried before and
\* again before it ended, and no task is shown its own pages.
THEOREM PagesAreTrue ==
  NotesSpec => [](NotesTypeOK /\ NotesAreTrue)
<1>1. NotesInit => NotesIInv
  BY NotesAssumption DEF NotesInit, NotesIInv, NotesTypeOK, TriedInStep, NotesAreTrue
<1>2. NotesIInv /\ [NotesNext]_noteVars => NotesIInv'
  BY NotesNextIInv
<1>3. NotesIInv => NotesTypeOK /\ NotesAreTrue
  BY DEF NotesIInv
<1> QED BY <1>1, <1>2, <1>3, PTL DEF NotesSpec

\* The routing history agrees with the attempts, of which a process that could not
\* load it knows those since it started, and the pages with what agents did with the
\* tasks they are about (store.rs, harness.rs, remember_success, publish_handoff).
THEOREM RecordsStayTrue == RecordsSpec => []RecordsAreTrue
<1>1. HistoryAgrees /\ NotesAreTrue => RecordsAreTrue
  BY DEF RecordsAreTrue
<1>2. QED  BY <1>1, HistoryAlwaysAgrees, PagesAreTrue, PTL DEF RecordsSpec

-----------------------------------------------------------------------------
(* Tui                                                                     *)

View ==
  [mode : {"Navigating", "Editing"}, screen : {"Chat", "Skills", "Memory"},
   typed : BOOLEAN, running : BOOLEAN, goal : 0..MaxGoals, rows : SUBSET Goal,
   transcript : SUBSET Goal, skills : 0..MaxSkills, cursor : 0..MaxSkills,
   searching : BOOLEAN, query : 0..MaxSearches, quit : BOOLEAN]

\* A session that is under way is the one the loop holds the handle of.
OneUnderWay ==
  \A s \in Goal : step[s] \notin {"unborn", "over", "aborted"} => s = handle

\* Once the first k buffered events are received, the session shown is s.
Shows(k, s) ==
  \/ \E m \in 1..k : /\ bus[m].kind = "SessionStarted" /\ bus[m].of = s
                     /\ \A n \in (m + 1)..k : bus[n].kind # "SessionStarted"
  \/ ui.goal = s /\ \A n \in 1..k : bus[n].kind # "SessionStarted"

\* Output reaches the view while its session is shown, what is buffered and what a
\* session that has yet to answer will publish.
EventsInTurn ==
  /\ \A k \in 1..Len(bus) : bus[k].kind = "AgentOutputReceived" => Shows(k, bus[k].of)
  /\ \A s \in Goal : step[s] \in {"started", "planned"} => Shows(Len(bus), s)

TuiIInv ==
  /\ TuiTypeOK /\ OneUnderWay /\ LastSearchShown
  /\ ~missed => ui.transcript \subseteq {ui.goal} /\ EventsInTurn

-----------------------------------------------------------------------------
\* The smaller of two numbers.
LEMMA MinOfTwo ==
  ASSUME NEW a \in Nat, NEW b \in Nat
  PROVE  Min({a, b}) \in Nat /\ Min({a, b}) <= a /\ Min({a, b}) <= b
<1>1. \E x \in {a, b} : \A y \in {a, b} : x =< y
  <2>1. CASE a <= b
    BY <2>1
  <2>2. CASE b <= a
    BY <2>2
  <2>3. QED  BY <2>1, <2>2
<1>2. Min({a, b}) \in {a, b} /\ \A y \in {a, b} : Min({a, b}) =< y
  BY <1>1 DEF Min
<1>3. QED  BY <1>2

\* Nothing is shown when the interface opens.
LEMMA TuiInitially == ASSUME TuiInit PROVE TuiIInv
<1>1. TuiTypeOK
  <2>1. ui \in View
    BY ScreenAssumption DEF TuiInit, View
  <2>2. bus \in Seq([kind : EventName, of : Goal]) /\ Len(bus) <= TuiCapacity
    BY ScreenAssumption DEF TuiInit
  <2>3. QED  BY <2>1, <2>2, ScreenAssumption DEF TuiInit, TuiTypeOK, View, SessionStep
<1>2. OneUnderWay /\ LastSearchShown
  BY DEF TuiInit, OneUnderWay, LastSearchShown
<1>3. ui.transcript \subseteq {ui.goal} /\ EventsInTurn
  BY DEF TuiInit, EventsInTurn
<1>4. QED  BY <1>1, <1>2, <1>3 DEF TuiIInv

\* What leaves the bus, the session shown and its output alone, and starts no
\* session, keeps the events in turn.
LEMMA EventsUntouched ==
  ASSUME TuiIInv, UNCHANGED <<bus, missed>>, ui'.goal = ui.goal,
         ui'.transcript = ui.transcript,
         \A s \in Goal : step'[s] \in {"started", "planned"} => step[s] \in {"started", "planned"}
  PROVE  ~missed' => ui'.transcript \subseteq {ui'.goal} /\ EventsInTurn'
<1>1. \A k, s : Shows(k, s)' <=> Shows(k, s)
  BY DEF Shows
<1>2. QED  BY <1>1 DEF TuiIInv, EventsInTurn

\* Receiving the oldest event shows what it announces.
LEMMA ReceiveStep == ASSUME TuiIInv, Receive PROVE TuiIInv'
<1>1. PICK e \in [kind : EventName, of : Goal] : e = Head(bus) /\ e = bus[1]
  <2>1. bus \in Seq([kind : EventName, of : Goal]) /\ bus # <<>>
    BY DEF Receive, TuiIInv, TuiTypeOK
  <2>2. PICK Event : Event = [kind : EventName, of : Goal]
    OBVIOUS
  <2>3. bus \in Seq(Event) /\ bus # <<>>
    BY <2>1, <2>2
  <2>4. Head(bus) = bus[1] /\ bus[1] \in Event
    BY <2>3
  <2>5. QED  BY <2>2, <2>4
<1>2. /\ bus' \in Seq([kind : EventName, of : Goal]) /\ Len(bus) \in Nat
      /\ Len(bus') = Len(bus) - 1 /\ Len(bus) >= 1
      /\ \A n \in 1..Len(bus') : bus'[n] = bus[n + 1]
  BY DEF Receive, TuiIInv, TuiTypeOK
<1>3. /\ UNCHANGED <<missed, handle, step, recall, asked, installed>>
      /\ ui' = Apply(ui, e) /\ ui \in View /\ ~ui.quit
  BY <1>1 DEF Receive, TuiIInv, TuiTypeOK, View
<1>4. /\ ui' \in View /\ ui'.searching = ui.searching /\ ui'.quit = ui.quit
      /\ e.kind = "SessionStarted" => ui'.goal = e.of /\ ui'.transcript = {}
      /\ e.kind # "SessionStarted" => ui'.goal = ui.goal
      /\ e.kind = "AgentOutputReceived" => ui'.transcript = ui.transcript \cup {e.of}
      /\ e.kind \notin {"SessionStarted", "AgentOutputReceived"} => ui'.transcript = ui.transcript
  <2>1. e.of \in 0..MaxGoals /\ e.of \in Goal
    BY ScreenAssumption DEF Goal
  <2>2. CASE e.kind = "SessionStarted"
    BY <1>3, <2>1, <2>2 DEF Apply, View
  <2>3. CASE e.kind = "SessionCompleted"
    BY <1>3, <2>1, <2>3 DEF Apply, View
  <2>4. CASE e.kind = "TaskCreated"
    BY <1>3, <2>1, <2>4 DEF Apply, View
  <2>5. CASE e.kind = "AgentOutputReceived"
    BY <1>3, <2>1, <2>5 DEF Apply, View
  <2>6. CASE e.kind \notin {"SessionStarted", "SessionCompleted", "TaskCreated",
                             "AgentOutputReceived"}
    BY <1>3, <2>6 DEF Apply
  <2>7. QED  BY <2>2, <2>3, <2>4, <2>5, <2>6
<1>5. TuiTypeOK'
  <2>1. /\ missed \in BOOLEAN /\ step \in [Goal -> SessionStep] /\ handle \in 0..MaxGoals
        /\ recall \in 0..MaxSearches /\ asked \in 0..MaxSearches /\ installed \in 0..MaxSkills
    BY DEF TuiIInv, TuiTypeOK
  <2>2. Len(bus) <= TuiCapacity
    BY DEF TuiIInv, TuiTypeOK
  <2>3. Len(bus') <= TuiCapacity
    BY <1>2, <2>2, ScreenAssumption
  <2>4. ui' \in View
    BY <1>4
  <2> QED BY <1>2, <1>3, <2>1, <2>3, <2>4 DEF TuiTypeOK, View
<1>6. OneUnderWay' /\ LastSearchShown'
  BY <1>3, <1>4 DEF TuiIInv, OneUnderWay, LastSearchShown
<1>7. ASSUME NEW k \in 1..Len(bus), NEW s, Shows(k, s) PROVE Shows(k - 1, s)'
  <2>1. CASE ui.goal = s /\ \A n \in 1..k : bus[n].kind # "SessionStarted"
    <3>1. ui'.goal = s
      BY <1>1, <1>4, <2>1
    <3>2. \A n \in 1..(k - 1) : n + 1 \in 1..k /\ bus'[n] = bus[n + 1]
      BY <1>2
    <3>3. ASSUME NEW n \in 1..(k - 1) PROVE bus'[n].kind # "SessionStarted"
      <4>1. PICK l \in 1..k : bus'[n] = bus[l]
        BY <3>2
      <4>2. QED  BY <2>1, <4>1
    <3>4. QED  BY <3>1, <3>3 DEF Shows
  <2>2. ASSUME NEW m \in 1..k, bus[m].kind = "SessionStarted", bus[m].of = s,
               \A n \in (m + 1)..k : bus[n].kind # "SessionStarted"
        PROVE  Shows(k - 1, s)'
    <3>1. CASE m = 1
      <4>1. ui'.goal = s
        BY <1>1, <1>4, <2>2, <3>1
      <4>2. ASSUME NEW n \in 1..(k - 1) PROVE bus'[n].kind # "SessionStarted"
        <5>1. n + 1 \in (m + 1)..k /\ n \in 1..Len(bus')
          BY <1>2, <3>1
        <5>2. PICK l \in (m + 1)..k : bus'[n] = bus[l]
          BY <1>2, <5>1
        <5>3. QED  BY <2>2, <5>2
      <4>3. QED  BY <4>1, <4>2 DEF Shows
    <3>2. CASE m > 1
      <4>1. m - 1 \in 1..(k - 1) /\ bus'[m - 1] = bus[m]
        BY <1>2, <3>2
      <4>2. \A n \in ((m - 1) + 1)..(k - 1) : bus'[n].kind # "SessionStarted"
        BY <1>2, <2>2, <3>2
      <4>3. QED  BY <2>2, <4>1, <4>2 DEF Shows
    <3>3. QED  BY <3>1, <3>2
  <2>3. QED  BY <1>7, <2>1, <2>2 DEF Shows
<1>8. ASSUME ~missed PROVE ui'.transcript \subseteq {ui'.goal} /\ EventsInTurn'
  <2>1. EventsInTurn /\ ui.transcript \subseteq {ui.goal}
    BY <1>8 DEF TuiIInv
  <2>2. ui'.transcript \subseteq {ui'.goal}
    <3>1. CASE e.kind = "AgentOutputReceived"
      <4>1. Shows(1, e.of)
        BY <1>1, <1>2, <2>1, <3>1 DEF EventsInTurn
      <4>2. ui.goal = e.of
        BY <1>1, <3>1, <4>1 DEF Shows
      <4>3. QED  BY <1>4, <2>1, <3>1, <4>2
    <3>2. CASE e.kind # "AgentOutputReceived"
      BY <1>4, <2>1, <3>2
    <3>3. QED  BY <3>1, <3>2
  <2>3. ASSUME NEW k \in 1..Len(bus'), bus'[k].kind = "AgentOutputReceived"
        PROVE  Shows(k, bus[k].of)'
    <3>1. k + 1 \in 1..Len(bus) /\ bus'[k] = bus[k + 1] /\ (k + 1) - 1 = k
      BY <1>2
    <3>2. Shows(k + 1, bus[k + 1].of)
      BY <2>1, <2>3, <3>1 DEF EventsInTurn
    <3>3. PICK s : s = bus[k + 1].of
      OBVIOUS
    <3>4. Shows(k, s)'
      BY <1>7, <3>1, <3>2, <3>3
    <3>5. QED  BY <3>1, <3>3, <3>4 DEF Shows
  <2>4. ASSUME NEW s \in Goal, step'[s] \in {"started", "planned"}
        PROVE  Shows(Len(bus), s)'
    <3>1. Shows(Len(bus), s) /\ Len(bus) \in 1..Len(bus)
      BY <1>2, <1>3, <2>1, <2>4 DEF EventsInTurn
    <3>2. PICK k \in 1..Len(bus) : k = Len(bus)
      BY <3>1
    <3>3. Shows(k - 1, s)'
      BY <1>7, <3>1, <3>2
    <3>4. k - 1 = Len(bus')
      BY <1>2, <3>2
    <3>5. QED  BY <3>3, <3>4 DEF Shows
  <2>5. QED  BY <2>2, <2>3, <2>4 DEF EventsInTurn
<1>9. QED  BY <1>3, <1>5, <1>6, <1>8 DEF TuiIInv

\* A session publishes its start before its output, and no other one is under way.
LEMMA SessionRunsStep ==
  ASSUME TuiIInv, NEW s \in Goal, SessionRuns(s) PROVE TuiIInv'
<1>1. PICK news \in EventName, to \in SessionStep :
         /\ step[s] \notin {"unborn", "over", "aborted"}
         /\ step' = [step EXCEPT ![s] = to] /\ Publish(news, s)
         /\ to \in {"started", "planned"} =>
              news = "SessionStarted" \/ (step[s] = "started" /\ news = "TaskPlanned")
         /\ news = "AgentOutputReceived" => step[s] = "planned"
         /\ to \notin {"unborn", "aborted"}
  BY DEF SessionRuns, Becomes, EventName, SessionStep
<1>2. UNCHANGED <<ui, handle, recall, asked, installed>>
  BY DEF SessionRuns
<1>3. PICK e \in [kind : EventName, of : Goal] : e = [kind |-> news, of |-> s]
  OBVIOUS
<1>4. /\ bus \in Seq([kind : EventName, of : Goal]) /\ Len(bus) \in Nat /\ Len(bus) <= TuiCapacity
      /\ TuiCapacity \in Nat \ {0}
  BY ScreenAssumption DEF TuiIInv, TuiTypeOK
<1>5. bus' = IF Len(Append(bus, e)) > TuiCapacity THEN Tail(Append(bus, e)) ELSE Append(bus, e)
  BY <1>1, <1>3 DEF Publish
<1>6. missed' = (missed \/ Len(bus) = TuiCapacity)
  BY <1>1 DEF Publish
<1>7. PICK Event : Event = [kind : EventName, of : Goal]
  OBVIOUS
<1>8. bus' \in Seq(Event) /\ Len(bus') <= TuiCapacity
  <2>1. bus \in Seq(Event) /\ e \in Event
    BY <1>4, <1>7
  <2>2. /\ Append(bus, e) \in Seq(Event) /\ Len(Append(bus, e)) = Len(bus) + 1
        /\ Append(bus, e) # <<>>
    BY <2>1
  <2>3. Tail(Append(bus, e)) \in Seq(Event) /\ Len(Tail(Append(bus, e))) = Len(bus)
    BY <1>4, <2>2
  <2>4. QED  BY <1>4, <1>5, <2>2, <2>3
<1>9. step \in [Goal -> SessionStep] /\ missed \in BOOLEAN /\ ui \in View
  BY DEF TuiIInv, TuiTypeOK, View
<1>10. TuiTypeOK'
  <2>1. step' \in [Goal -> SessionStep] /\ missed' \in BOOLEAN
    BY <1>1, <1>6, <1>9
  <2>2. QED  BY <1>2, <1>7, <1>8, <2>1 DEF TuiIInv, TuiTypeOK
<1>11. \A r \in Goal : step'[r] = IF r = s THEN to ELSE step[r]
  BY <1>1, <1>9
<1>12. s = handle
  BY <1>1 DEF TuiIInv, OneUnderWay
<1>13. OneUnderWay'
  BY <1>2, <1>11, <1>12 DEF TuiIInv, OneUnderWay
<1>14. LastSearchShown'
  BY <1>2 DEF TuiIInv, LastSearchShown
<1>15. ASSUME ~missed' PROVE EventsInTurn' /\ ui'.transcript \subseteq {ui'.goal}
  <2>1. ~missed /\ Len(bus) < TuiCapacity
    <3>1. ~missed /\ Len(bus) # TuiCapacity
      BY <1>6, <1>15, Zenon
    <3>2. QED  BY <1>4, <3>1
  <2>2. EventsInTurn /\ ui.transcript \subseteq {ui.goal}
    BY <2>1 DEF TuiIInv
  <2>3. /\ Len(bus') = Len(bus) + 1 /\ bus'[Len(bus) + 1] = e
        /\ \A n \in 1..Len(bus) : bus'[n] = bus[n]
    <3>1. bus \in Seq(Event) /\ e \in Event
      BY <1>4, <1>7
    <3>2. Len(Append(bus, e)) = Len(bus) + 1
      BY <3>1
    <3>3. bus' = Append(bus, e)
      BY <1>4, <1>5, <2>1, <3>2
    <3>4. QED  BY <3>1, <3>3
  <2>4. \A k \in 0..Len(bus) : \A r : Shows(k, r) => Shows(k, r)'
    BY <1>2, <1>4, <2>3 DEF Shows
  <2>5. ASSUME NEW r, e.kind # "SessionStarted", Shows(Len(bus), r) PROVE Shows(Len(bus), r)'
    <3>1. CASE ui.goal = r /\ \A n \in 1..Len(bus) : bus[n].kind # "SessionStarted"
      <4>1. \A n \in 1..Len(bus') : bus'[n].kind # "SessionStarted"
        BY <1>4, <2>3, <2>5, <3>1
      <4>2. QED  BY <1>2, <3>1, <4>1 DEF Shows
    <3>2. ASSUME NEW m \in 1..Len(bus), bus[m].kind = "SessionStarted", bus[m].of = r,
                 \A n \in (m + 1)..Len(bus) : bus[n].kind # "SessionStarted"
          PROVE  Shows(Len(bus), r)'
      <4>1. m \in 1..Len(bus') /\ bus'[m] = bus[m]
        BY <1>4, <2>3
      <4>2. ASSUME NEW n \in (m + 1)..Len(bus') PROVE bus'[n].kind # "SessionStarted"
        <5>1. CASE n = Len(bus')
          BY <2>3, <2>5, <5>1
        <5>2. CASE n \in (m + 1)..Len(bus)
          <6>1. bus'[n] = bus[n]
            BY <1>4, <2>3, <5>2
          <6>2. QED  BY <3>2, <5>2, <6>1
        <5>3. QED  BY <1>4, <2>3, <5>1, <5>2
      <4>3. QED  BY <3>2, <4>1, <4>2 DEF Shows
    <3>3. QED  BY <2>5, <3>1, <3>2 DEF Shows
  <2>6. news = "SessionStarted" => Shows(Len(bus), s)'
    <3>1. SUFFICES ASSUME news = "SessionStarted" PROVE Shows(Len(bus), s)'
      OBVIOUS
    <3>2. Len(bus') \in 1..Len(bus') /\ bus'[Len(bus')].kind = "SessionStarted"
          /\ bus'[Len(bus')].of = s
      BY <1>3, <1>4, <2>3, <3>1
    <3>3. \A n \in (Len(bus') + 1)..Len(bus') : bus'[n].kind # "SessionStarted"
      BY <1>4, <2>3
    <3>4. QED  BY <3>2, <3>3 DEF Shows
  <2>7. ASSUME NEW k \in 1..Len(bus'), bus'[k].kind = "AgentOutputReceived"
        PROVE  Shows(k, bus[k].of)'
    <3>1. CASE k \in 1..Len(bus)
      <4>1. bus'[k] = bus[k]
        BY <2>3, <3>1
      <4>2. PICK r : r = bus[k].of
        OBVIOUS
      <4>3. Shows(k, r) /\ k \in 0..Len(bus)
        BY <1>4, <2>2, <2>7, <3>1, <4>1, <4>2 DEF EventsInTurn
      <4>4. Shows(k, r)'
        BY <2>4, <4>3
      <4>5. QED  BY <4>1, <4>2, <4>4
    <3>2. CASE k = Len(bus')
      <4>1. bus'[k] = e /\ news = "AgentOutputReceived" /\ e.of = s /\ e.kind = news
        BY <1>3, <1>4, <2>3, <2>7, <3>2
      <4>2. Shows(Len(bus), s)
        BY <1>1, <2>2, <4>1 DEF EventsInTurn
      <4>3. Shows(Len(bus), s)'
        BY <2>5, <4>1, <4>2
      <4>4. QED  BY <3>2, <4>1, <4>3
    <3>3. QED  BY <1>4, <2>3, <3>1, <3>2
  <2>8. ASSUME NEW r \in Goal, step'[r] \in {"started", "planned"} PROVE Shows(Len(bus), r)'
    <3>1. r = s
      BY <1>11, <1>12, <2>8 DEF TuiIInv, OneUnderWay
    <3>2. CASE news = "SessionStarted"
      BY <2>6, <3>1, <3>2
    <3>3. CASE step[s] = "started" /\ news = "TaskPlanned"
      <4>1. Shows(Len(bus), s)
        BY <2>2, <3>3 DEF EventsInTurn
      <4>2. e.kind # "SessionStarted"
        BY <1>3, <3>3
      <4>3. QED  BY <2>5, <3>1, <4>1, <4>2
    <3>4. QED  BY <1>1, <1>11, <2>8, <3>1, <3>2, <3>3
  <2>9. QED  BY <1>2, <2>2, <2>7, <2>8 DEF EventsInTurn
<1>16. QED  BY <1>10, <1>13, <1>14, <1>15 DEF TuiIInv

\* Keys of the editor, of the screens and of the list of skills change neither what
\* the events said nor what is searched for.
LEMMA KeysChangeTheView ==
  ASSUME NEW u \in View
  PROVE  /\ \A v \in {CancelEditing(u), BeginEditing(u), [u EXCEPT !.typed = TRUE],
                      [u EXCEPT !.typed = FALSE]} :
              /\ v \in View /\ v.goal = u.goal /\ v.transcript = u.transcript
              /\ v.searching = u.searching /\ v.quit = u.quit
         /\ \A screen \in {"Chat", "Skills", "Memory"} :
              /\ GoTo(u, screen) \in View /\ GoTo(u, screen).goal = u.goal
              /\ GoTo(u, screen).transcript = u.transcript
              /\ GoTo(u, screen).searching = u.searching /\ GoTo(u, screen).quit = u.quit
         /\ \A down \in BOOLEAN :
              /\ MoveCursor(u, down) \in View /\ MoveCursor(u, down).goal = u.goal
              /\ MoveCursor(u, down).transcript = u.transcript
              /\ MoveCursor(u, down).searching = u.searching /\ MoveCursor(u, down).quit = u.quit
         /\ \A n \in 0..MaxSkills :
              /\ SetSkills(u, n) \in View /\ SetSkills(u, n).goal = u.goal
              /\ SetSkills(u, n).transcript = u.transcript
              /\ SetSkills(u, n).searching = u.searching /\ SetSkills(u, n).quit = u.quit
<1>1. \A v \in {CancelEditing(u), BeginEditing(u), [u EXCEPT !.typed = TRUE],
                [u EXCEPT !.typed = FALSE]} :
        /\ v \in View /\ v.goal = u.goal /\ v.transcript = u.transcript
        /\ v.searching = u.searching /\ v.quit = u.quit
  BY DEF CancelEditing, BeginEditing, View
<1>2. ASSUME NEW screen \in {"Chat", "Skills", "Memory"}
      PROVE  /\ GoTo(u, screen) \in View /\ GoTo(u, screen).goal = u.goal
             /\ GoTo(u, screen).transcript = u.transcript
             /\ GoTo(u, screen).searching = u.searching /\ GoTo(u, screen).quit = u.quit
  BY DEF GoTo, View
<1>3. u.skills \in Nat /\ u.cursor \in Nat /\ u.skills <= MaxSkills /\ u.cursor <= MaxSkills
      /\ MaxSkills \in Nat
  BY ScreenAssumption DEF View
<1>4. ASSUME NEW down \in BOOLEAN
      PROVE  \E c \in 0..MaxSkills : MoveCursor(u, down) = [u EXCEPT !.cursor = c]
  <2>1. CASE u.skills = 0
    BY <1>3, <2>1 DEF MoveCursor
  <2>2. CASE u.skills # 0
    <3>1. PICK x \in Nat :
             x = IF down THEN u.cursor + 1 ELSE IF u.cursor = 0 THEN 0 ELSE u.cursor - 1
      BY <1>3
    <3>2. u.skills - 1 \in Nat
      BY <1>3, <2>2
    <3>3. Min({x, u.skills - 1}) \in Nat /\ Min({x, u.skills - 1}) <= u.skills - 1
      BY <3>2, MinOfTwo
    <3>4. Min({x, u.skills - 1}) \in 0..MaxSkills
      BY <1>3, <3>3
    <3>5. MoveCursor(u, down) = [u EXCEPT !.cursor = Min({x, u.skills - 1})]
      BY <2>2, <3>1 DEF MoveCursor
    <3>6. QED  BY <3>4, <3>5
  <2>3. QED  BY <2>1, <2>2
<1>5. ASSUME NEW n \in 0..MaxSkills
      PROVE  \E c \in 0..MaxSkills : SetSkills(u, n) = [u EXCEPT !.skills = n, !.cursor = c]
  <2>1. PICK x \in Nat : x = IF n = 0 THEN 0 ELSE n - 1
    <3>1. (IF n = 0 THEN 0 ELSE n - 1) \in Nat
      BY <1>3
    <3>2. QED  BY <3>1
  <2>2. Min({u.cursor, x}) \in Nat /\ Min({u.cursor, x}) <= u.cursor
    BY <1>3, MinOfTwo
  <2>3. Min({u.cursor, x}) \in 0..MaxSkills
    BY <1>3, <2>2
  <2>4. SetSkills(u, n) = [u EXCEPT !.skills = n, !.cursor = Min({u.cursor, x})]
    BY <2>1 DEF SetSkills
  <2>5. QED  BY <2>3, <2>4
<1>6. ASSUME NEW down \in BOOLEAN
      PROVE  /\ MoveCursor(u, down) \in View /\ MoveCursor(u, down).goal = u.goal
             /\ MoveCursor(u, down).transcript = u.transcript
             /\ MoveCursor(u, down).searching = u.searching /\ MoveCursor(u, down).quit = u.quit
  <2>1. PICK c \in 0..MaxSkills : MoveCursor(u, down) = [u EXCEPT !.cursor = c]
    BY <1>4
  <2>2. QED  BY <2>1 DEF View
<1>7. ASSUME NEW n \in 0..MaxSkills
      PROVE  /\ SetSkills(u, n) \in View /\ SetSkills(u, n).goal = u.goal
             /\ SetSkills(u, n).transcript = u.transcript
             /\ SetSkills(u, n).searching = u.searching /\ SetSkills(u, n).quit = u.quit
  <2>1. PICK c \in 0..MaxSkills : SetSkills(u, n) = [u EXCEPT !.skills = n, !.cursor = c]
    BY <1>5
  <2>2. QED  BY <2>1 DEF View
<1>8. QED  BY <1>1, <1>2, <1>6, <1>7, Zenon

\* A step that changes the view by keys only.
LEMMA KeyStep ==
  ASSUME TuiIInv, UNCHANGED <<bus, missed, handle, step, recall, asked, installed>>,
         ui' \in View, ui'.goal = ui.goal, ui'.transcript = ui.transcript,
         ui'.searching = ui.searching, ui'.quit = ui.quit
  PROVE  TuiIInv'
<1>1. TuiTypeOK'
  BY DEF TuiIInv, TuiTypeOK, View
<1>2. OneUnderWay' /\ LastSearchShown'
  BY DEF TuiIInv, OneUnderWay, LastSearchShown
<1>3. ~missed' => ui'.transcript \subseteq {ui'.goal} /\ EventsInTurn'
  BY EventsUntouched
<1>4. QED  BY <1>1, <1>2, <1>3 DEF TuiIInv

\* Every step of the loop, of its sessions and of its searches keeps the invariant.
LEMMA TuiStep == ASSUME TuiIInv, [TuiNext]_tuiVars PROVE TuiIInv'
<1>1. ui \in View /\ step \in [Goal -> SessionStep] /\ installed \in 0..MaxSkills
      /\ handle \in 0..MaxGoals
  BY DEF TuiIInv, TuiTypeOK, View
<1>2. CASE Receive
  BY <1>2, ReceiveStep
<1>3. CASE \E s \in Goal : SessionRuns(s)
  BY <1>3, SessionRunsStep
<1>4. ASSUME NEW s \in Goal, SessionFails(s) PROVE TuiIInv'
  <2>1. /\ step' = [step EXCEPT ![s] = "over"] /\ step[s] \notin {"unborn", "spawned", "over", "aborted"}
        /\ UNCHANGED <<ui, bus, missed, handle, recall, asked, installed>>
    BY <1>4 DEF SessionFails
  <2>2. \A r \in Goal : step'[r] = IF r = s THEN "over" ELSE step[r]
    BY <1>1, <2>1
  <2>3. step' \in [Goal -> SessionStep]
    BY <1>1, <2>1 DEF SessionStep
  <2>4. TuiTypeOK'
    BY <2>1, <2>3 DEF TuiIInv, TuiTypeOK
  <2>5. OneUnderWay' /\ LastSearchShown'
    BY <2>1, <2>2 DEF TuiIInv, OneUnderWay, LastSearchShown
  <2>6. ~missed' => ui'.transcript \subseteq {ui'.goal} /\ EventsInTurn'
    BY <2>1, <2>2, EventsUntouched
  <2>7. QED  BY <2>4, <2>5, <2>6 DEF TuiIInv
<1>5. CASE SessionEnds
  <2>1. /\ handle' = 0 /\ step[handle] = "over"
        /\ UNCHANGED <<ui, bus, missed, step, recall, asked, installed>>
    BY <1>5 DEF SessionEnds
  <2>2. TuiTypeOK'
    BY <2>1, ScreenAssumption DEF TuiIInv, TuiTypeOK
  <2>3. OneUnderWay' /\ LastSearchShown'
    BY <2>1 DEF TuiIInv, OneUnderWay, LastSearchShown
  <2>4. ~missed' => ui'.transcript \subseteq {ui'.goal} /\ EventsInTurn'
    BY <2>1, EventsUntouched
  <2>5. QED  BY <2>2, <2>3, <2>4 DEF TuiIInv
<1>6. CASE PressKey
  <2>1. UNCHANGED <<bus, missed, handle, step, recall, asked, installed>>
    BY <1>6 DEF PressKey
  <2>2. \/ ui' \in {CancelEditing(ui), BeginEditing(ui), [ui EXCEPT !.typed = TRUE],
                    [ui EXCEPT !.typed = FALSE]}
        \/ \E screen \in {"Chat", "Skills", "Memory"} : ui' = GoTo(ui, screen)
        \/ \E down \in BOOLEAN : ui' = MoveCursor(ui, down)
    BY <1>6 DEF PressKey
  <2>3. /\ ui' \in View /\ ui'.goal = ui.goal /\ ui'.transcript = ui.transcript
        /\ ui'.searching = ui.searching /\ ui'.quit = ui.quit
    <3>1. CASE ui' \in {CancelEditing(ui), BeginEditing(ui), [ui EXCEPT !.typed = TRUE],
                        [ui EXCEPT !.typed = FALSE]}
      BY <1>1, <3>1, KeysChangeTheView, Zenon
    <3>2. CASE \E screen \in {"Chat", "Skills", "Memory"} : ui' = GoTo(ui, screen)
      <4>1. PICK screen \in {"Chat", "Skills", "Memory"} : ui' = GoTo(ui, screen)
        BY <3>2
      <4>2. QED  BY <1>1, <4>1, KeysChangeTheView, Zenon
    <3>3. CASE \E down \in BOOLEAN : ui' = MoveCursor(ui, down)
      <4>1. PICK down \in BOOLEAN : ui' = MoveCursor(ui, down)
        BY <3>3
      <4>2. QED  BY <1>1, <4>1, KeysChangeTheView, Zenon
    <3>4. QED  BY <2>2, <3>1, <3>2, <3>3
  <2>4. QED  BY <2>1, <2>3, KeyStep
<1>7. CASE PressEnterBlank
  <2>1. UNCHANGED <<bus, missed, handle, step, recall, asked, installed>>
        /\ ui' = CancelEditing(ui)
    BY <1>7 DEF PressEnterBlank
  <2>2. /\ ui' \in View /\ ui'.goal = ui.goal /\ ui'.transcript = ui.transcript
        /\ ui'.searching = ui.searching /\ ui'.quit = ui.quit
    BY <1>1, <2>1, KeysChangeTheView, Zenon
  <2>3. QED  BY <2>1, <2>2, KeyStep
<1>8. CASE ToggleSkill
  <2>1. UNCHANGED <<bus, missed, handle, step, recall, asked, installed>>
        /\ ui' \in {SetSkills(ui, installed), ui}
    BY <1>8 DEF ToggleSkill
  <2>2. /\ ui' \in View /\ ui'.goal = ui.goal /\ ui'.transcript = ui.transcript
        /\ ui'.searching = ui.searching /\ ui'.quit = ui.quit
    <3>1. CASE ui' = ui
      BY <1>1, <3>1
    <3>2. CASE ui' = SetSkills(ui, installed)
      BY <1>1, <3>2, KeysChangeTheView, Zenon
    <3>3. QED  BY <2>1, <3>1, <3>2
  <2>3. QED  BY <2>1, <2>2, KeyStep
<1>9. CASE PressEnterGoal
  <2>1. /\ UNCHANGED <<bus, missed, recall, asked, installed>> /\ ui' = CancelEditing(ui)
        /\ \E s \in Free : SpawnOrRefuse(s)
    BY <1>9 DEF PressEnterGoal
  <2>2. /\ ui' \in View /\ ui'.goal = ui.goal /\ ui'.transcript = ui.transcript
        /\ ui'.searching = ui.searching /\ ui'.quit = ui.quit
    BY <1>1, <2>1, KeysChangeTheView, Zenon
  <2>3. CASE UNCHANGED <<handle, step>>
    BY <2>1, <2>2, <2>3, KeyStep
  <2>4. CASE \E s \in Free : handle = 0 /\ SpawnAnyway(s)
    <3>1. PICK s \in Goal : /\ handle = 0 /\ handle' = s /\ step[s] = "unborn"
                            /\ step' = [step EXCEPT ![s] = "spawned"]
      BY <2>4 DEF Free, SpawnAnyway
    <3>2. \A r \in Goal : step'[r] = IF r = s THEN "spawned" ELSE step[r]
      BY <1>1, <3>1
    <3>3. step' \in [Goal -> SessionStep] /\ handle' \in 0..MaxGoals
      BY <1>1, <3>1, ScreenAssumption DEF SessionStep, Goal
    <3>4. TuiTypeOK'
      BY <2>1, <2>2, <3>3 DEF TuiIInv, TuiTypeOK, View
    <3>5. \A r \in Goal : r # 0
      BY ScreenAssumption DEF Goal
    <3>6. OneUnderWay' /\ LastSearchShown'
      BY <2>1, <2>2, <3>1, <3>2, <3>5 DEF TuiIInv, OneUnderWay, LastSearchShown
    <3>7. ~missed' => ui'.transcript \subseteq {ui'.goal} /\ EventsInTurn'
      BY <2>1, <2>2, <3>2, EventsUntouched
    <3>8. QED  BY <3>4, <3>6, <3>7 DEF TuiIInv
  <2>5. QED  BY <2>1, <2>3, <2>4 DEF SpawnOrRefuse
<1>10. CASE PressEnterQuery
  <2>1. /\ UNCHANGED <<bus, missed, handle, step, installed>> /\ asked' = asked + 1
        /\ ui' = [CancelEditing(ui) EXCEPT !.searching = MemoryAttached]
        /\ recall' = (IF MemoryAttached THEN asked + 1 ELSE 0)
        /\ asked \in 0..MaxSearches /\ asked < MaxSearches /\ MaxSearches \in Nat
    BY <1>10, ScreenAssumption DEF PressEnterQuery, Search, TuiIInv, TuiTypeOK
  <2>2. CancelEditing(ui) \in View /\ CancelEditing(ui).goal = ui.goal
        /\ CancelEditing(ui).transcript = ui.transcript
    BY <1>1, KeysChangeTheView
  <2>3. /\ ui' \in View /\ ui'.goal = ui.goal /\ ui'.transcript = ui.transcript
        /\ ui'.searching = MemoryAttached
    BY <2>1, <2>2, ScreenAssumption DEF View
  <2>4. asked' \in 0..MaxSearches /\ recall' \in 0..MaxSearches /\ asked' # 0
    BY <2>1
  <2>5. TuiTypeOK'
    BY <2>1, <2>3, <2>4 DEF TuiIInv, TuiTypeOK, View
  <2>6. LastSearchShown'
    BY <2>1, <2>3, <2>4, Zenon DEF LastSearchShown
  <2>7. OneUnderWay'
    BY <2>1 DEF TuiIInv, OneUnderWay
  <2>8. ~missed' => ui'.transcript \subseteq {ui'.goal} /\ EventsInTurn'
    BY <2>1, <2>3, EventsUntouched
  <2>9. QED  BY <2>5, <2>6, <2>7, <2>8 DEF TuiIInv
<1>11. CASE RecallEnds
  <2>1. /\ UNCHANGED <<bus, missed, handle, step, asked, installed>> /\ recall' = 0
        /\ recall \in 0..MaxSearches
        /\ ui' \in {[ui EXCEPT !.searching = FALSE, !.query = recall], [ui EXCEPT !.searching = FALSE]}
    BY <1>11 DEF RecallEnds, TuiIInv, TuiTypeOK
  <2>2. /\ ui' \in View /\ ui'.goal = ui.goal /\ ui'.transcript = ui.transcript
        /\ ui'.searching = FALSE
    BY <1>1, <2>1 DEF View
  <2>3. TuiTypeOK'
    BY <2>1, <2>2, ScreenAssumption DEF TuiIInv, TuiTypeOK, View
  <2>4. OneUnderWay' /\ LastSearchShown'
    BY <2>1, <2>2 DEF TuiIInv, OneUnderWay, LastSearchShown
  <2>5. ~missed' => ui'.transcript \subseteq {ui'.goal} /\ EventsInTurn'
    BY <2>1, <2>2, EventsUntouched
  <2>6. QED  BY <2>3, <2>4, <2>5 DEF TuiIInv
<1>12. CASE SkillsChange
  <2>1. UNCHANGED <<ui, bus, missed, handle, step, recall, asked>> /\ installed' \in 0..MaxSkills
    BY <1>12 DEF SkillsChange
  <2>2. TuiTypeOK' /\ OneUnderWay' /\ LastSearchShown'
    BY <2>1 DEF TuiIInv, TuiTypeOK, OneUnderWay, LastSearchShown
  <2>3. ~missed' => ui'.transcript \subseteq {ui'.goal} /\ EventsInTurn'
    BY <2>1, EventsUntouched
  <2>4. QED  BY <2>2, <2>3 DEF TuiIInv
<1>13. CASE Quit
  <2>1. /\ UNCHANGED <<bus, missed, asked, installed>> /\ ui' = [ui EXCEPT !.quit = TRUE]
        /\ step' = [s \in Goal |-> IF Aborted(s) THEN "aborted" ELSE step[s]]
        /\ handle' = 0 /\ recall' = 0
    BY <1>13 DEF Quit
  <2>2. ui' \in View /\ ui'.goal = ui.goal /\ ui'.transcript = ui.transcript /\ ui'.quit = TRUE
    BY <1>1, <2>1 DEF View
  <2>3. step' \in [Goal -> SessionStep]
    BY <1>1, <2>1 DEF SessionStep
  <2>4. TuiTypeOK'
    <3>1. handle' \in 0..MaxGoals /\ recall' \in 0..MaxSearches
      BY <2>1, ScreenAssumption
    <3>2. QED  BY <2>1, <2>2, <2>3, <3>1 DEF TuiIInv, TuiTypeOK, View
  <2>5. \A s \in Goal : step'[s] \in {"unborn", "over", "aborted"}
    BY <2>1 DEF TuiIInv, OneUnderWay, Aborted
  <2>6. OneUnderWay' /\ LastSearchShown'
    BY <2>2, <2>5 DEF OneUnderWay, LastSearchShown
  <2>7. ~missed' => ui'.transcript \subseteq {ui'.goal} /\ EventsInTurn'
    BY <2>1, <2>2, <2>5, EventsUntouched
  <2>8. QED  BY <2>4, <2>6, <2>7 DEF TuiIInv
<1>14. CASE UNCHANGED tuiVars
  <2>1. UNCHANGED <<ui, bus, missed, handle, step, recall, asked, installed>>
    BY <1>14 DEF tuiVars
  <2>2. QED  BY <1>1, <2>1, KeyStep
<1>15. QED
  BY <1>2, <1>3, <1>4, <1>5, <1>6, <1>7, <1>8, <1>9, <1>10, <1>11, <1>12, <1>13, <1>14
  DEF TuiNext

\* The interface's invariant, for every capacity of the bus and any number of goals
\* and searches.
THEOREM TuiInvariance == TuiSpec => []TuiIInv
<1>1. TuiInit => TuiIInv
  BY TuiInitially
<1>2. TuiIInv /\ [TuiNext]_tuiVars => TuiIInv'
  BY TuiStep
<1>3. QED  BY <1>1, <1>2, PTL DEF TuiSpec

\* The types of the view model and of the loop's handles (state.rs, app.rs).
THEOREM TuiTypeCorrect == TuiSpec => []TuiTypeOK
<1>1. TuiIInv => TuiTypeOK
  BY DEF TuiIInv
<1>2. QED  BY <1>1, TuiInvariance, PTL

\* Unless the bus dropped events, the transcript is that of the session shown, and
\* the memory screen waits for the last search, however keys, events and the ends of
\* sessions and searches interleave (app.rs).
THEOREM ScreenStaysCurrent == TuiSpec => []ScreenIsCurrent
<1>1. TuiIInv => ScreenIsCurrent
  BY DEF TuiIInv, ScreenIsCurrent, OneSessionShown
<1>2. QED  BY <1>1, TuiInvariance, PTL

-----------------------------------------------------------------------------
(* SandboxBridge                                                           *)

\* Nothing runs before the relay, and nothing is shown after it.
StagesInStep ==
  /\ stage \in {"fill", "start", "tunnel"} => feeder.state = "idle" /\ guest = "none"
  /\ result # "none" => stage \in {"archive", "fetch", "taken", "failed"}
  /\ feeder.state \in {"reading", "awaiting"} => feeder.next <= input
  /\ feeder.state = "idle" => feeder.next = 0 /\ transit = {} /\ Len(heard) = 0
  /\ emitted <= wrote

\* What crossed so far, in the order of the bridge's stdin.
HeardInOrder == \A i \in 1..Len(heard) : heard[i] = i - 1

\* envd is sent one chunk at a time, the one the agent waits for.
OneChunkUnderWay ==
  service = "e2b" =>
    /\ transit \subseteq {feeder.next}
    /\ feeder.state = "reading" => transit = {}
    /\ guest = "running" =>
         /\ feeder.state = "reading" \/ transit # {} => Len(heard) = feeder.next
         /\ feeder.state = "awaiting" /\ transit = {} => Len(heard) = feeder.next + 1

\* envd reports the exit when all the output is on the stream.
WholeByE2b == service = "e2b" => before = wrote

\* The exit is where its place among the output says.
ExitInTurn ==
  result = "none" =>
    /\ \A k \in 1..Len(stream) :
         stream[k] = "exit" => guest = "exited" /\ shown + k - 1 = before /\ WholeByE2b
    /\ (\A k \in 1..Len(stream) : stream[k] # "exit") => shown + Len(stream) = emitted

BridgeIInv ==
  /\ BridgeTypeOK /\ StagesInStep /\ OneChunkUnderWay /\ ExitInTurn
  /\ HeardInOrder
  /\ result = "exited" => guest = "exited" /\ shown = before /\ WholeByE2b
  /\ stage \in {"start", "tunnel", "relay", "fetch", "taken"} =>
       helper.code = 0 \/ (service = "opensandbox" /\ ~helper.status)

\* The invariant holds before the sandbox is filled.
LEMMA BridgeInitially == ASSUME BridgeInit PROVE BridgeIInv
<1>1. BridgeTypeOK
  BY BridgeAssumption DEF BridgeInit, BridgeTypeOK, Service
<1>2. StagesInStep /\ OneChunkUnderWay /\ ExitInTurn /\ HeardInOrder
  BY BridgeAssumption DEF BridgeInit, StagesInStep, OneChunkUnderWay, ExitInTurn, WholeByE2b, HeardInOrder
<1>3. QED  BY <1>1, <1>2 DEF BridgeIInv, BridgeInit

\* A command that is believed has succeeded, but for an OpenSandbox whose status
\* lacks the exit code.
LEMMA BelievedSucceeded ==
  ASSUME service \in Service, NEW how \in Going, Believed(how)
  PROVE  /\ Left(how).code = 0 \/ (service = "opensandbox" /\ ~Left(how).status)
         /\ Left(how) \in [code : {0, 1}, status : BOOLEAN]
<1>1. how.code \in {0, 1} /\ how.status \in BOOLEAN
  BY DEF Going
<1>2. CASE service = "e2b"
  BY <1>1, <1>2 DEF Believed, RunE2b, Left
<1>3. CASE service = "opensandbox"
  BY <1>1, <1>3 DEF Believed, RunExecd, Left
<1>4. CASE service = "process"
  BY <1>1, <1>4 DEF Believed, RunProcess, Left
<1>5. QED  BY <1>2, <1>3, <1>4 DEF Service

\* The commands around the relay.
LEMMA CommandStep ==
  ASSUME BridgeIInv, Fill \/ UploadFails \/ Archive \/ Fetch
  PROVE  BridgeIInv'
<1>1. UNCHANGED <<service, input, feeder, transit, parked, guest, heard, wrote, emitted, before,
                  stream, shown, result>>
  BY DEF Fill, UploadFails, Archive, Fetch, RelayUnchanged
<1>2. \A how \in Going : Left(how) \in [code : {0, 1}, status : BOOLEAN]
  BY DEF Going, Left
<1>3. service \in Service
  BY DEF BridgeIInv, BridgeTypeOK
<1>4. /\ stage' \in {"start", "archive", "fetch", "taken", "failed"}
      /\ stage \in {"fill", "archive", "fetch"} /\ (stage' = "start" => stage = "fill")
      /\ helper' \in [code : {0, 1}, status : BOOLEAN]
      /\ stage' \in {"start", "tunnel", "relay", "fetch", "taken"} =>
           helper'.code = 0 \/ (service = "opensandbox" /\ ~helper'.status)
  <2>1. CASE Fill
    BY <1>2, <1>3, <2>1, BelievedSucceeded DEF Fill
  <2>2. CASE UploadFails
    BY <2>2 DEF UploadFails, BridgeIInv, BridgeTypeOK
  <2>3. CASE Archive
    BY <1>2, <1>3, <2>3, BelievedSucceeded DEF Archive
  <2>4. CASE Fetch
    BY <2>4 DEF Fetch, BridgeIInv, BridgeTypeOK
  <2>5. QED  BY <2>1, <2>2, <2>3, <2>4
<1>5. BridgeTypeOK'
  BY <1>1, <1>4 DEF BridgeIInv, BridgeTypeOK
<1>6. StagesInStep'
  BY <1>1, <1>4 DEF BridgeIInv, StagesInStep
<1>7. OneChunkUnderWay' /\ ExitInTurn' /\ HeardInOrder'
  BY <1>1 DEF BridgeIInv, OneChunkUnderWay, ExitInTurn, WholeByE2b, HeardInOrder
<1>8. QED  BY <1>1, <1>4, <1>5, <1>6, <1>7 DEF BridgeIInv, WholeByE2b

\* The start of the relay: the agent starts with an idle feeder and has read nothing.
LEMMA StartStep ==
  ASSUME BridgeIInv, StartE2b \/ StartTunnel \/ Attach \/ StartFails
  PROVE  BridgeIInv'
<1>1. /\ UNCHANGED <<service, input, transit, parked, heard, wrote, emitted, before, stream, shown,
                     helper>>
      /\ stage \in {"start", "tunnel"}
  BY DEF StartE2b, StartTunnel, Attach, StartFails, RelayUnchanged
<1>2. /\ feeder.state = "idle" /\ guest = "none" /\ feeder.next = 0 /\ transit = {} /\ Len(heard) = 0
      /\ result = "none" /\ input \in Nat
      /\ feeder \in [state : {"idle", "reading", "awaiting", "ended"}, next : 0..(MaxIn + 1)]
  BY <1>1 DEF BridgeIInv, BridgeTypeOK, StagesInStep
<1>3. \/ /\ stage' = "relay" /\ guest' = "running" /\ feeder' = [feeder EXCEPT !.state = "reading"]
         /\ UNCHANGED result
      \/ stage' = "tunnel" /\ UNCHANGED <<guest, feeder, result>>
      \/ /\ stage' = "archive" /\ result' = "error" /\ UNCHANGED guest
         /\ feeder' = [feeder EXCEPT !.state = "ended"]
  BY DEF StartE2b, StartTunnel, Attach, StartFails, RelayUnchanged, Ends
<1>4. /\ feeder' \in [state : {"idle", "reading", "awaiting", "ended"}, next : 0..(MaxIn + 1)]
      /\ feeder'.next = 0
      /\ feeder'.state = (IF stage' = "relay" THEN "reading"
                          ELSE IF stage' = "tunnel" THEN "idle" ELSE "ended")
  BY <1>2, <1>3
<1>5. BridgeTypeOK'
  BY <1>1, <1>3, <1>4 DEF BridgeIInv, BridgeTypeOK
<1>6. StagesInStep'
  BY <1>1, <1>2, <1>3, <1>4 DEF BridgeIInv, StagesInStep
<1>7. OneChunkUnderWay'
  BY <1>1, <1>2, <1>4 DEF OneChunkUnderWay
<1>8. ExitInTurn'
  <2>1. \A k \in 1..Len(stream) : stream[k] # "exit"
    BY <1>2 DEF BridgeIInv, ExitInTurn, WholeByE2b
  <2>2. QED  BY <1>1, <1>2, <2>1 DEF BridgeIInv, ExitInTurn, WholeByE2b
<1>9. HeardInOrder'
  BY <1>1 DEF BridgeIInv, HeardInOrder
<1>10. QED  BY <1>1, <1>2, <1>3, <1>5, <1>6, <1>7, <1>8, <1>9 DEF BridgeIInv, WholeByE2b

\* A step of the feeder alone.
LEMMA FeederStep ==
  ASSUME BridgeIInv, Send \/ Answered \/ SendFails PROVE BridgeIInv'
<1>1. UNCHANGED <<service, stage, input, parked, guest, heard, wrote, emitted, before, stream,
                  shown, result, helper>>
  BY DEF Send, Answered, SendFails
<1>2. /\ feeder \in [state : {"idle", "reading", "awaiting", "ended"}, next : 0..(MaxIn + 1)]
      /\ input \in 0..MaxIn /\ MaxIn \in Nat /\ transit \subseteq 0..MaxIn
      /\ feeder.state \in {"reading", "awaiting"} /\ feeder.next <= input
      /\ stage \notin {"fill", "start", "tunnel"}
  BY BridgeAssumption DEF BridgeIInv, BridgeTypeOK, StagesInStep, Send, Answered, SendFails
<1>3. CASE Send
  <2>1. feeder.state = "reading" /\ transit' = transit \cup {feeder.next}
        /\ feeder' = [feeder EXCEPT !.state = "awaiting"]
    BY <1>3 DEF Send
  <2>2. /\ feeder' \in [state : {"idle", "reading", "awaiting", "ended"}, next : 0..(MaxIn + 1)]
        /\ feeder'.next = feeder.next /\ feeder'.state = "awaiting"
    BY <1>2, <2>1
  <2>3. feeder.next \in 0..MaxIn
    BY <1>2
  <2>4. BridgeTypeOK'
    BY <1>1, <1>2, <2>1, <2>2, <2>3 DEF BridgeIInv, BridgeTypeOK
  <2>5. StagesInStep'
    BY <1>1, <1>2, <2>1, <2>2 DEF BridgeIInv, StagesInStep
  <2>6. OneChunkUnderWay'
    BY <1>1, <2>1, <2>2 DEF BridgeIInv, OneChunkUnderWay
  <2>7. ExitInTurn' /\ HeardInOrder'
    BY <1>1 DEF BridgeIInv, ExitInTurn, WholeByE2b, HeardInOrder
  <2>8. QED  BY <1>1, <2>4, <2>5, <2>6, <2>7 DEF BridgeIInv, WholeByE2b
<1>4. CASE Answered
  <2>1. /\ feeder.state = "awaiting" /\ (service = "e2b" => feeder.next \notin transit)
        /\ feeder' = [state |-> IF feeder.next = input THEN "ended" ELSE "reading",
                      next |-> feeder.next + 1]
        /\ transit' = transit
    BY <1>4 DEF Answered
  <2>2. PICK nx \in 0..MaxIn : nx = feeder.next
    BY <1>2
  <2>3. /\ feeder'.next = nx + 1 /\ feeder'.state \in {"ended", "reading"}
        /\ feeder'.state = "reading" => nx # input
    BY <2>1, <2>2
  <2>4. nx + 1 \in 0..(MaxIn + 1) /\ (feeder'.state = "reading" => nx + 1 <= input)
    BY <1>2, <2>2, <2>3
  <2>5. feeder' \in [state : {"idle", "reading", "awaiting", "ended"}, next : 0..(MaxIn + 1)]
    BY <2>1, <2>2, <2>4
  <2>6. BridgeTypeOK'
    BY <1>1, <2>1, <2>5 DEF BridgeIInv, BridgeTypeOK
  <2>7. StagesInStep'
    BY <1>1, <1>2, <2>3, <2>4 DEF BridgeIInv, StagesInStep
  <2>8. OneChunkUnderWay'
    <3>1. service = "e2b" => transit = {}
      BY <2>1 DEF BridgeIInv, OneChunkUnderWay
    <3>2. service = "e2b" /\ guest = "running" => Len(heard) = nx + 1
      BY <2>1, <2>2, <3>1 DEF BridgeIInv, OneChunkUnderWay
    <3>3. QED  BY <1>1, <2>1, <2>3, <3>1, <3>2 DEF OneChunkUnderWay
  <2>9. ExitInTurn' /\ HeardInOrder'
    BY <1>1 DEF BridgeIInv, ExitInTurn, WholeByE2b, HeardInOrder
  <2>10. QED  BY <1>1, <2>6, <2>7, <2>8, <2>9 DEF BridgeIInv, WholeByE2b
<1>5. CASE SendFails
  <2>1. /\ feeder.state = "awaiting" /\ transit' \subseteq transit
        /\ feeder' = [feeder EXCEPT !.state = "ended"]
    BY <1>5 DEF SendFails
  <2>2. /\ feeder' \in [state : {"idle", "reading", "awaiting", "ended"}, next : 0..(MaxIn + 1)]
        /\ feeder'.next = feeder.next /\ feeder'.state = "ended"
    BY <1>2, <2>1
  <2>3. BridgeTypeOK'
    BY <1>1, <1>2, <2>1, <2>2 DEF BridgeIInv, BridgeTypeOK
  <2>4. StagesInStep'
    BY <1>1, <1>2, <2>1, <2>2 DEF BridgeIInv, StagesInStep
  <2>5. OneChunkUnderWay'
    BY <1>1, <2>1, <2>2 DEF BridgeIInv, OneChunkUnderWay
  <2>6. ExitInTurn' /\ HeardInOrder'
    BY <1>1 DEF BridgeIInv, ExitInTurn, WholeByE2b, HeardInOrder
  <2>7. QED  BY <1>1, <2>3, <2>4, <2>5, <2>6 DEF BridgeIInv, WholeByE2b
<1>6. QED  BY <1>3, <1>4, <1>5

\* What arrives is heard in its turn: envd is sent one chunk at a time, and the
\* tunnel waits for the next one.
LEMMA ArriveStep ==
  ASSUME BridgeIInv, NEW s \in transit, Arrive(s) PROVE BridgeIInv'
<1>1. UNCHANGED <<service, stage, input, feeder, guest, wrote, emitted, before, stream, shown,
                  result, helper>> /\ transit' = transit \ {s}
  BY DEF Arrive
<1>2. /\ heard \in Seq(0..MaxIn) /\ transit \subseteq 0..MaxIn /\ parked \subseteq 0..MaxIn
      /\ MaxIn \in Nat /\ s \in 0..MaxIn /\ Len(heard) \in Nat /\ HeardInOrder
      /\ feeder.state # "idle"
      /\ feeder \in [state : {"idle", "reading", "awaiting", "ended"}, next : 0..(MaxIn + 1)]
  BY BridgeAssumption DEF BridgeIInv, BridgeTypeOK, StagesInStep
<1>3. CASE service = "e2b"
  <2>1. heard' = (IF guest = "running" THEN Append(heard, s) ELSE heard) /\ parked' = parked
    BY <1>3 DEF Arrive
  <2>2. transit' = {} /\ s = feeder.next /\ feeder.state # "reading"
        /\ (guest = "running" => Len(heard) = s)
    BY <1>1, <1>3 DEF BridgeIInv, OneChunkUnderWay
  <2>3. CASE guest # "running"
    BY <1>1, <1>2, <2>1, <2>2, <2>3
    DEF BridgeIInv, BridgeTypeOK, StagesInStep, OneChunkUnderWay, ExitInTurn, WholeByE2b, HeardInOrder
  <2>4. CASE guest = "running"
    <3>1. /\ heard' \in Seq(0..MaxIn) /\ Len(heard') = s + 1 /\ heard'[s + 1] = s
          /\ \A i \in 1..s : heard'[i] = heard[i]
      BY <1>2, <2>1, <2>2, <2>4
    <3>2. HeardInOrder'
      <4>1. \A i \in 1..s : heard[i] = i - 1
        BY <1>2, <2>2, <2>4 DEF HeardInOrder
      <4>2. ASSUME NEW i \in 1..(s + 1) PROVE heard'[i] = i - 1
        <5>1. CASE i = s + 1
          BY <1>2, <3>1, <5>1
        <5>2. CASE i \in 1..s
          BY <3>1, <4>1, <5>2
        <5>3. QED  BY <1>2, <5>1, <5>2
      <4>3. QED  BY <3>1, <4>2 DEF HeardInOrder
    <3>3. BridgeTypeOK'
      BY <1>1, <1>2, <2>1, <3>1 DEF BridgeIInv, BridgeTypeOK
    <3>4. StagesInStep'
      BY <1>1, <1>2 DEF BridgeIInv, StagesInStep
    <3>5. OneChunkUnderWay'
      BY <1>1, <2>2, <3>1 DEF OneChunkUnderWay
    <3>6. ExitInTurn'
      BY <1>1 DEF BridgeIInv, ExitInTurn, WholeByE2b
    <3>7. QED  BY <1>1, <3>2, <3>3, <3>4, <3>5, <3>6 DEF BridgeIInv, WholeByE2b
  <2>5. QED  BY <2>3, <2>4
<1>4. CASE service # "e2b"
  <2>1. PICK n \in Following(parked \cup {s}) :
           /\ heard' = IF guest = "running"
                       THEN heard \o [i \in 1..n |-> Len(heard) + i - 1] ELSE heard
           /\ parked' = (parked \cup {s}) \ (Len(heard)..(Len(heard) + n - 1))
    BY <1>4 DEF Arrive
  <2>2. n \in Nat /\ \A r \in Len(heard)..(Len(heard) + n - 1) : r \in 0..MaxIn
    BY <1>2 DEF Following
  <2>3. PICK more : more = [i \in 1..n |-> Len(heard) + i - 1]
    OBVIOUS
  <2>4. more \in Seq(0..MaxIn) /\ Len(more) = n /\ \A i \in 1..n : more[i] = Len(heard) + i - 1
    <3>1. \A i \in 1..n : Len(heard) + i - 1 \in 0..MaxIn
      <4>1. \A i \in 1..n : Len(heard) + i - 1 \in Len(heard)..(Len(heard) + n - 1)
        BY <1>2, <2>2
      <4>2. QED  BY <2>2, <4>1
    <3>2. more \in [1..n -> 0..MaxIn]
      BY <2>3, <3>1
    <3>3. QED  BY <2>2, <2>3, <3>2
  <2>5. heard' \in Seq(0..MaxIn) /\ HeardInOrder'
    <3>1. CASE guest # "running"
      BY <1>2, <2>1, <3>1 DEF HeardInOrder
    <3>2. CASE guest = "running"
      <4>1. heard' = heard \o more
        BY <2>1, <2>3, <3>2
      <4>2. /\ heard' \in Seq(0..MaxIn) /\ Len(heard') = Len(heard) + n
            /\ \A i \in 1..Len(heard) : heard'[i] = heard[i]
            /\ \A i \in 1..n : heard'[Len(heard) + i] = more[i]
        <5>1. /\ heard \o more \in Seq(0..MaxIn) /\ Len(heard \o more) = Len(heard) + Len(more)
              /\ \A i \in 1..(Len(heard) + Len(more)) :
                   (heard \o more)[i] = IF i <= Len(heard) THEN heard[i] ELSE more[i - Len(heard)]
          BY <1>2, <2>4, ConcatProperties
        <5>2. \A i \in 1..n : Len(heard) + i \in 1..(Len(heard) + n) /\ ~(Len(heard) + i <= Len(heard))
                              /\ (Len(heard) + i) - Len(heard) = i
          BY <1>2, <2>2
        <5>3. \A i \in 1..Len(heard) : i \in 1..(Len(heard) + n) /\ i <= Len(heard)
          BY <1>2, <2>2
        <5>4. QED  BY <2>4, <4>1, <5>1, <5>2, <5>3
      <4>3. ASSUME NEW i \in 1..Len(heard') PROVE heard'[i] = i - 1
        <5>1. CASE i <= Len(heard)
          BY <1>2, <4>2, <5>1 DEF HeardInOrder
        <5>2. CASE i > Len(heard)
          <6>1. PICK k \in 1..n : i = Len(heard) + k
            <7>1. i - Len(heard) \in 1..n /\ i = Len(heard) + (i - Len(heard))
              BY <1>2, <2>2, <4>2, <5>2
            <7>2. QED  BY <7>1
          <6>2. QED  BY <1>2, <2>4, <4>2, <6>1
        <5>3. QED  BY <1>2, <4>2, <5>1, <5>2
      <4>4. QED  BY <4>2, <4>3 DEF HeardInOrder
    <3>3. QED  BY <3>1, <3>2
  <2>6. parked' \subseteq 0..MaxIn
    BY <1>2, <2>1
  <2>7. BridgeTypeOK'
    BY <1>1, <1>2, <2>5, <2>6 DEF BridgeIInv, BridgeTypeOK
  <2>8. StagesInStep'
    BY <1>1, <1>2 DEF BridgeIInv, StagesInStep
  <2>9. OneChunkUnderWay' /\ ExitInTurn'
    BY <1>1, <1>4 DEF BridgeIInv, OneChunkUnderWay, ExitInTurn, WholeByE2b
  <2>10. QED  BY <1>1, <2>5, <2>7, <2>8, <2>9 DEF BridgeIInv, WholeByE2b
<1>5. QED  BY <1>3, <1>4

\* The agent writes and exits; its output goes on the stream.
LEMMA OutputStep ==
  ASSUME BridgeIInv, AgentWrites \/ AgentExits \/ EmitData \/ EmitExit
  PROVE  BridgeIInv'
<1>1. /\ UNCHANGED <<service, stage, input, feeder, transit, parked, heard, shown, result, helper>>
      /\ HeardInOrder' /\ helper' = helper
  BY DEF AgentWrites, AgentExits, EmitData, EmitExit, BridgeIInv, HeardInOrder
<1>2. /\ wrote \in 0..MaxOut /\ emitted \in 0..MaxOut /\ before \in 0..MaxOut /\ shown \in 0..MaxOut
      /\ MaxOut \in Nat /\ stream \in Seq({"data", "exit"}) /\ Len(stream) \in Nat
      /\ guest \in {"none", "running", "exited"} /\ emitted <= wrote
  BY BridgeAssumption DEF BridgeIInv, BridgeTypeOK, StagesInStep
<1>3. CASE AgentWrites
  <2>1. /\ guest = "running" /\ wrote' \in 0..MaxOut /\ emitted <= wrote'
        /\ UNCHANGED <<guest, emitted, before, stream>>
    BY <1>2, <1>3 DEF AgentWrites
  <2>2. BridgeTypeOK'
    BY <1>1, <1>2, <2>1 DEF BridgeIInv, BridgeTypeOK
  <2>3. StagesInStep' /\ OneChunkUnderWay' /\ ExitInTurn'
    BY <1>1, <2>1 DEF BridgeIInv, StagesInStep, OneChunkUnderWay, ExitInTurn, WholeByE2b
  <2>4. QED  BY <1>1, <2>1, <2>2, <2>3 DEF BridgeIInv, WholeByE2b
<1>4. CASE AgentExits
  <2>1. guest = "running" /\ guest' = "exited" /\ UNCHANGED <<wrote, emitted, before, stream>>
    BY <1>4 DEF AgentExits
  <2>2. BridgeTypeOK'
    BY <1>1, <1>2, <2>1 DEF BridgeIInv, BridgeTypeOK
  <2>3. StagesInStep' /\ OneChunkUnderWay' /\ ExitInTurn'
    BY <1>1, <2>1 DEF BridgeIInv, StagesInStep, OneChunkUnderWay, ExitInTurn, WholeByE2b
  <2>4. QED  BY <1>1, <2>1, <2>2, <2>3 DEF BridgeIInv, WholeByE2b
<1>5. CASE EmitData
  <2>1. /\ emitted < wrote /\ emitted' = emitted + 1 /\ stream' = Append(stream, "data")
        /\ UNCHANGED <<guest, wrote, before>>
    BY <1>5 DEF EmitData
  <2>2. /\ stream' \in Seq({"data", "exit"}) /\ Len(stream') = Len(stream) + 1
        /\ stream'[Len(stream) + 1] = "data" /\ \A k \in 1..Len(stream) : stream'[k] = stream[k]
    BY <1>2, <2>1
  <2>3. emitted' \in 0..MaxOut /\ emitted' <= wrote
    BY <1>2, <2>1
  <2>4. BridgeTypeOK'
    BY <1>1, <1>2, <2>1, <2>2, <2>3 DEF BridgeIInv, BridgeTypeOK
  <2>5. StagesInStep' /\ OneChunkUnderWay'
    BY <1>1, <2>1, <2>3 DEF BridgeIInv, StagesInStep, OneChunkUnderWay
  <2>6. ASSUME result = "none"
        PROVE  /\ \A k \in 1..Len(stream') :
                    stream'[k] = "exit" =>
                      guest = "exited" /\ shown + k - 1 = before /\ WholeByE2b
               /\ (\A k \in 1..Len(stream') : stream'[k] # "exit") => shown + Len(stream') = emitted'
    <3>1. \A k \in 1..Len(stream') : k \in 1..Len(stream) \/ stream'[k] = "data"
      BY <1>2, <2>2
    <3>2. \A k \in 1..Len(stream) :
             stream[k] = "exit" => guest = "exited" /\ shown + k - 1 = before /\ WholeByE2b
      BY <2>6 DEF BridgeIInv, ExitInTurn
    <3>3. ASSUME \A k \in 1..Len(stream') : stream'[k] # "exit"
          PROVE  shown + Len(stream') = emitted'
      <4>1. \A k \in 1..Len(stream) : stream[k] # "exit"
        BY <1>2, <2>2, <3>3
      <4>2. shown + Len(stream) = emitted
        BY <2>6, <4>1 DEF BridgeIInv, ExitInTurn
      <4>3. QED  BY <1>2, <2>1, <2>2, <4>2
    <3>4. QED  BY <2>2, <3>1, <3>2, <3>3
  <2>7. ExitInTurn'
    BY <1>1, <2>1, <2>6 DEF ExitInTurn, WholeByE2b
  <2>8. QED  BY <1>1, <2>1, <2>4, <2>5, <2>7 DEF BridgeIInv, WholeByE2b
<1>6. CASE EmitExit
  <2>1. /\ guest = "exited" /\ result = "none" /\ \A k \in 1..Len(stream) : stream[k] # "exit"
        /\ stream' = Append(stream, "exit") /\ before' = emitted
        /\ service = "e2b" => emitted = wrote
        /\ UNCHANGED <<guest, wrote, emitted>>
    BY <1>6 DEF EmitExit
  <2>2. /\ stream' \in Seq({"data", "exit"}) /\ Len(stream') = Len(stream) + 1
        /\ stream'[Len(stream) + 1] = "exit" /\ \A k \in 1..Len(stream) : stream'[k] = stream[k]
    BY <1>2, <2>1
  <2>3. BridgeTypeOK'
    BY <1>1, <1>2, <2>1, <2>2 DEF BridgeIInv, BridgeTypeOK
  <2>4. StagesInStep' /\ OneChunkUnderWay'
    BY <1>1, <2>1 DEF BridgeIInv, StagesInStep, OneChunkUnderWay
  <2>5. shown + Len(stream) = emitted
    BY <2>1 DEF BridgeIInv, ExitInTurn
  <2>6. ASSUME NEW k \in 1..Len(stream'), stream'[k] = "exit" PROVE shown + k - 1 = before'
    <3>1. k = Len(stream) + 1
      BY <1>2, <2>1, <2>2, <2>6
    <3>2. QED  BY <1>2, <2>1, <2>5, <3>1
  <2>7. Len(stream') \in 1..Len(stream') /\ stream'[Len(stream')] = "exit"
    BY <1>2, <2>2
  <2>8. ExitInTurn'
    BY <1>1, <2>1, <2>6, <2>7 DEF ExitInTurn, WholeByE2b
  <2>9. QED  BY <1>1, <2>1, <2>3, <2>4, <2>8 DEF BridgeIInv, WholeByE2b
<1>7. QED  BY <1>3, <1>4, <1>5, <1>6

\* The bridge reads the stream in order; it reports the exit when that is next.
LEMMA TakeStep ==
  ASSUME BridgeIInv, TakeData \/ TakeExit \/ StreamBreaks PROVE BridgeIInv'
<1>1. /\ UNCHANGED <<service, input, transit, parked, guest, heard, wrote, emitted, before, helper>>
      /\ stage = "relay" /\ result = "none" /\ HeardInOrder'
  BY DEF TakeData, TakeExit, StreamBreaks, BridgeIInv, StagesInStep, BridgeTypeOK, HeardInOrder
<1>2. /\ wrote \in 0..MaxOut /\ emitted \in 0..MaxOut /\ before \in 0..MaxOut /\ shown \in 0..MaxOut
      /\ MaxOut \in Nat /\ stream \in Seq({"data", "exit"}) /\ Len(stream) \in Nat
      /\ feeder \in [state : {"idle", "reading", "awaiting", "ended"}, next : 0..(MaxIn + 1)]
  BY BridgeAssumption DEF BridgeIInv, BridgeTypeOK
<1>3. ASSUME feeder' = [feeder EXCEPT !.state = "ended"], stage' = "archive", shown' = shown,
             result' \in {"exited", "error"}, stream' \in Seq({"data", "exit"}),
             result' = "exited" => guest = "exited" /\ shown = before /\ WholeByE2b
      PROVE  BridgeIInv'
  <2>1. /\ feeder' \in [state : {"idle", "reading", "awaiting", "ended"}, next : 0..(MaxIn + 1)]
        /\ feeder'.state = "ended" /\ feeder'.next = feeder.next
    BY <1>2, <1>3
  <2>2. BridgeTypeOK'
    BY <1>1, <1>2, <1>3, <2>1 DEF BridgeIInv, BridgeTypeOK
  <2>3. StagesInStep' /\ OneChunkUnderWay' /\ ExitInTurn'
    BY <1>1, <1>3, <2>1 DEF BridgeIInv, StagesInStep, OneChunkUnderWay, ExitInTurn, WholeByE2b
  <2>4. QED  BY <1>1, <1>3, <2>2, <2>3 DEF BridgeIInv, WholeByE2b
<1>4. CASE TakeData
  <2>1. /\ stream # <<>> /\ Head(stream) = "data" /\ stream' = Tail(stream) /\ shown' = shown + 1
        /\ UNCHANGED <<stage, feeder, result>>
    BY <1>4 DEF TakeData
  <2>2. /\ Len(stream) >= 1 /\ stream[1] = "data" /\ stream' \in Seq({"data", "exit"})
        /\ Len(stream') = Len(stream) - 1 /\ \A k \in 1..Len(stream') : stream'[k] = stream[k + 1]
    BY <1>2, <2>1
  <2>3. shown + 1 \in 0..MaxOut
    <3>1. CASE \A k \in 1..Len(stream) : stream[k] # "exit"
      <4>1. shown + Len(stream) = emitted
        BY <1>1, <3>1 DEF BridgeIInv, ExitInTurn
      <4>2. QED  BY <1>2, <2>2, <4>1
    <3>2. ASSUME NEW k \in 1..Len(stream), stream[k] = "exit" PROVE shown + 1 \in 0..MaxOut
      <4>1. shown + k - 1 = before
        BY <1>1, <3>2 DEF BridgeIInv, ExitInTurn
      <4>2. k # 1
        BY <2>2, <3>2
      <4>3. QED  BY <1>2, <4>1, <4>2
    <3>3. QED  BY <3>1, <3>2
  <2>4. BridgeTypeOK'
    BY <1>1, <1>2, <2>1, <2>2, <2>3 DEF BridgeIInv, BridgeTypeOK
  <2>5. StagesInStep' /\ OneChunkUnderWay'
    BY <1>1, <2>1 DEF BridgeIInv, StagesInStep, OneChunkUnderWay
  <2>6. ASSUME NEW k \in 1..Len(stream'), stream'[k] = "exit"
        PROVE  guest = "exited" /\ shown' + k - 1 = before /\ WholeByE2b
    <3>1. k + 1 \in 1..Len(stream) /\ stream[k + 1] = "exit"
      BY <1>2, <2>2, <2>6
    <3>2. guest = "exited" /\ shown + (k + 1) - 1 = before /\ WholeByE2b
      BY <1>1, <3>1 DEF BridgeIInv, ExitInTurn
    <3>3. QED  BY <1>2, <2>1, <3>2
  <2>7. ASSUME \A k \in 1..Len(stream') : stream'[k] # "exit"
        PROVE  shown' + Len(stream') = emitted
    <3>1. ASSUME NEW k \in 1..Len(stream) PROVE stream[k] # "exit"
      <4>1. CASE k = 1
        BY <2>2, <4>1
      <4>2. CASE k # 1
        <5>1. k - 1 \in 1..Len(stream') /\ stream'[k - 1] = stream[k]
          BY <1>2, <2>2, <4>2
        <5>2. QED  BY <2>7, <5>1
      <4>3. QED  BY <4>1, <4>2
    <3>2. shown + Len(stream) = emitted
      BY <1>1, <3>1 DEF BridgeIInv, ExitInTurn
    <3>3. QED  BY <1>2, <2>1, <2>2, <3>2
  <2>8. ExitInTurn'
    BY <1>1, <2>1, <2>6, <2>7 DEF ExitInTurn, WholeByE2b
  <2>9. QED  BY <1>1, <2>1, <2>4, <2>5, <2>8 DEF BridgeIInv, WholeByE2b
<1>5. CASE TakeExit
  <2>1. /\ stream # <<>> /\ Head(stream) = "exit" /\ stream' = Tail(stream)
        /\ feeder' = [feeder EXCEPT !.state = "ended"] /\ stage' = "archive" /\ shown' = shown
        /\ result' = "exited"
    BY <1>5 DEF TakeExit, Ends
  <2>2. 1 \in 1..Len(stream) /\ stream[1] = "exit" /\ stream' \in Seq({"data", "exit"})
    BY <1>2, <2>1
  <2>3. guest = "exited" /\ shown + 1 - 1 = before /\ WholeByE2b
    BY <1>1, <2>2 DEF BridgeIInv, ExitInTurn
  <2>4. shown = before
    BY <1>2, <2>3
  <2>5. QED  BY <1>3, <2>1, <2>2, <2>3, <2>4
<1>6. CASE StreamBreaks
  BY <1>2, <1>3, <1>6 DEF StreamBreaks, Ends
<1>7. QED  BY <1>4, <1>5, <1>6

\* The relay's invariant, for any number of chunks either way.
THEOREM BridgeInvariance == BridgeSpec => []BridgeIInv
<1>1. BridgeInit => BridgeIInv
  BY BridgeInitially
<1>2. BridgeIInv /\ [BridgeNext]_bridgeVars => BridgeIInv'
  <2> SUFFICES ASSUME BridgeIInv, [BridgeNext]_bridgeVars PROVE BridgeIInv'
    OBVIOUS
  <2>1. CASE UNCHANGED bridgeVars
    BY <2>1 DEF bridgeVars, BridgeIInv, BridgeTypeOK, StagesInStep, OneChunkUnderWay, ExitInTurn,
                HeardInOrder, WholeByE2b
  <2>2. CASE BridgeNext
    BY <2>2, CommandStep, StartStep, FeederStep, ArriveStep, OutputStep, TakeStep DEF BridgeNext
  <2>3. QED  BY <2>1, <2>2
<1>3. QED  BY <1>1, <1>2, PTL DEF BridgeSpec

\* The types of the relay.
THEOREM BridgeTypeCorrect == BridgeSpec => []BridgeTypeOK
<1>1. BridgeIInv => BridgeTypeOK
  BY DEF BridgeIInv
<1>2. QED  BY <1>1, BridgeInvariance, PTL

\* What crosses into a sandbox over HTTP is heard in order with nothing missing; an
\* exit is reported only after all output is shown with E2B, and with the tunnel
\* all it had read when it announced the exit; and the relay works on what a
\* command that succeeded left behind (relay of e2b.rs and opensandbox.rs, apply of
\* cuma-tunnel.mjs).
THEOREM RelaysAreFaithful == BridgeSpec => []RelayIsFaithful
<1>1. BridgeIInv => RelayIsFaithful
  BY DEF BridgeIInv, HeardInOrder, WholeByE2b, RelayIsFaithful
<1>2. QED  BY <1>1, BridgeInvariance, PTL

-----------------------------------------------------------------------------
(* AgentLaunch, Sandboxes                                                  *)

\* A copy that no session brings back.
Sessionless == copied /\ purpose = "Execute" /\ held = FALSE

\* Where the agent's work is while the call goes on: nowhere before the turn, in
\* the workspace when the sandbox mounts it, and in a copy from the turn until it is
\* merged, unless the copy is gone.  A merge nobody waits for is one of a call that
\* ended.  A launch without a session collects nothing.
WorkInStep ==
  /\ call \in {"open", "populate", "undo", "turn"} => work = "none"
  /\ purpose = "Negotiate" => work = "none"
  /\ ~copied => work \in {"none", "here"} /\ call # "collect"
  /\ call \in {"collect", "merging"} => held = TRUE
  /\ call \in {"running", "collect"} /\ copied =>
       work \in {"none", "inside"} \/ (work = "lost" /\ box = "gone")
  /\ call = "merging" => merging = TRUE /\ work \in {"none", "inside"}
  /\ merging = TRUE => call \in {"merging", "ended"}
  /\ aborting = TRUE => call = "ended"
  /\ call = "remove" /\ collected = "ok" => work \in {"none", "here"} \/ Sessionless
  /\ outcome = "success" =>
       call = "ended" /\ turn # "error" /\ (work \in {"none", "here"} \/ Sessionless)

LaunchIInv == LaunchTypeOK /\ WorkInStep

\* A launch starts without work.
LEMMA LaunchInitially == ASSUME LaunchInit PROVE LaunchIInv
  BY DEF LaunchInit, LaunchIInv, LaunchTypeOK, WorkInStep, Sessionless

\* Opening a sandbox, or failing to, makes no work.
LEMMA OpeningKeepsLaunch ==
  ASSUME LaunchIInv, OpenPrefix \/ Create \/ CreateFails \/ Populate \/ PopulateFails \/ Undo
  PROVE  LaunchIInv'
<1>1. CASE OpenPrefix
  <2>1. {held, merging, aborting, blamed}' \subseteq BOOLEAN
    BY <1>1 DEF LaunchIInv, LaunchTypeOK, OpenPrefix, Is
  <2>2. LaunchTypeOK'
    BY <1>1, <2>1 DEF LaunchIInv, LaunchTypeOK, OpenPrefix, Unlaunched
  <2>3. WorkInStep'
    BY <1>1 DEF LaunchIInv, LaunchTypeOK, WorkInStep, Sessionless, OpenPrefix, Unlaunched
  <2>4. QED  BY <2>2, <2>3 DEF LaunchIInv
<1>2. CASE Create
  BY <1>2 DEF LaunchIInv, LaunchTypeOK, WorkInStep, Sessionless, Create, Unlaunched
<1>3. CASE CreateFails
  BY <1>3 DEF LaunchIInv, LaunchTypeOK, WorkInStep, Sessionless, CreateFails, Unlaunched, Failure
<1>4. CASE Populate
  BY <1>4 DEF LaunchIInv, LaunchTypeOK, WorkInStep, Sessionless, Populate, Unlaunched
<1>5. CASE PopulateFails
  BY <1>5 DEF LaunchIInv, LaunchTypeOK, WorkInStep, Sessionless, PopulateFails, Unlaunched
<1>6. CASE Undo
  BY <1>6 DEF LaunchIInv, LaunchTypeOK, WorkInStep, Sessionless, Undo, RemoveBox, Unlaunched, Failure
<1>7. QED  BY <1>1, <1>2, <1>3, <1>4, <1>5, <1>6

\* The turn leaves its work in the workspace or in the copy.
LEMMA TurnKeepsLaunch ==
  ASSUME LaunchIInv, StartAgent \/ AgentEdits \/ TurnEnds
  PROVE  LaunchIInv'
<1>1. CASE StartAgent
  BY <1>1 DEF LaunchIInv, LaunchTypeOK, WorkInStep, Sessionless, StartAgent, Unlaunched
<1>2. CASE AgentEdits
  BY <1>2 DEF LaunchIInv, LaunchTypeOK, WorkInStep, Sessionless, AgentEdits, Unlaunched
<1>3. CASE TurnEnds
  BY <1>3 DEF LaunchIInv, LaunchTypeOK, WorkInStep, Sessionless, TurnEnds, Collects, Unlaunched
<1>4. QED  BY <1>1, <1>2, <1>3

\* Only a merge that went well lets a copy's task be a success.
LEMMA FinishKeepsLaunch ==
  ASSUME LaunchIInv, Collect \/ CollectFails \/ MergeEnds \/ Finish
  PROVE  LaunchIInv'
<1>1. CASE Collect
  <2>1. {held, merging, aborting, blamed}' \subseteq BOOLEAN
    BY <1>1 DEF LaunchIInv, LaunchTypeOK, Collect
  <2>2. LaunchTypeOK'
    BY <1>1, <2>1 DEF LaunchIInv, LaunchTypeOK, Collect, Unlaunched
  <2>3. WorkInStep'
    BY <1>1 DEF LaunchIInv, LaunchTypeOK, WorkInStep, Sessionless, Collect, Unlaunched
  <2>4. QED  BY <2>2, <2>3 DEF LaunchIInv
<1>2. CASE CollectFails
  BY <1>2 DEF LaunchIInv, LaunchTypeOK, WorkInStep, Sessionless, CollectFails, Unlaunched
<1>3. CASE MergeEnds
  <2>1. {held, merging, aborting, blamed}' \subseteq BOOLEAN
    BY <1>3 DEF LaunchIInv, LaunchTypeOK, MergeEnds, Fate
  <2>2. LaunchTypeOK'
    BY <1>3, <2>1 DEF LaunchIInv, LaunchTypeOK, MergeEnds, Fate, Unlaunched
  <2>3. WorkInStep'
    BY <1>3 DEF LaunchIInv, LaunchTypeOK, WorkInStep, Sessionless, MergeEnds, Fate, Unlaunched
  <2>4. QED  BY <2>2, <2>3 DEF LaunchIInv
<1>4. CASE Finish
  <2>1. PICK came \in {"none", "ok", "error"} :
          (came = "ok" => collected = "ok") /\ outcome' = Settle(came)
    BY <1>4 DEF Finish, LaunchIInv, LaunchTypeOK
  <2>2. /\ outcome' \in Failure \cup {"success"}
        /\ outcome' = "success" => turn # "error" /\ (purpose = "Negotiate" \/ collected = "ok")
    BY <2>1 DEF Settle, Negotiated, FailureOf, Failure, LaunchIInv, LaunchTypeOK
  <2>3. /\ call = "remove" /\ call' = "ended" /\ Unlaunched
        /\ RemoveBox \/ UNCHANGED <<box, blamed>>
        /\ work' = IF work = "inside" /\ box' = "gone" THEN "lost" ELSE work
        /\ UNCHANGED <<held, merging, turn, collected, aborting>>
    BY <1>4 DEF Finish
  <2>4. QED  BY <2>2, <2>3 DEF LaunchIInv, LaunchTypeOK, WorkInStep, Sessionless, RemoveBox, Unlaunched
<1>5. QED  BY <1>1, <1>2, <1>3, <1>4

\* A deadline, an abort, a lease and a crash take work from a copy at most.
LEMMA FailuresKeepLaunch ==
  ASSUME LaunchIInv, Deadline \/ Abort \/ LeaseExpires \/ Crash
  PROVE  LaunchIInv'
<1>1. CASE Deadline
  BY <1>1 DEF LaunchIInv, LaunchTypeOK, WorkInStep, Sessionless, Deadline, Unlaunched
<1>2. CASE Abort
  <2>1. {held, merging, aborting, blamed}' \subseteq BOOLEAN
    BY <1>2 DEF LaunchIInv, LaunchTypeOK, Abort, RemoveBox
  <2>2. LaunchTypeOK'
    BY <1>2, <2>1 DEF LaunchIInv, LaunchTypeOK, Abort, RemoveBox, Unlaunched
  <2>3. WorkInStep'
    BY <1>2 DEF LaunchIInv, LaunchTypeOK, WorkInStep, Sessionless, Abort, RemoveBox, Unlaunched
  <2>4. QED  BY <2>2, <2>3 DEF LaunchIInv
<1>3. CASE LeaseExpires
  BY <1>3 DEF LaunchIInv, LaunchTypeOK, WorkInStep, Sessionless, LeaseExpires, Unlaunched
<1>4. CASE Crash
  BY <1>4 DEF LaunchIInv, LaunchTypeOK, WorkInStep, Sessionless, Crash, Unlaunched
<1>5. QED  BY <1>1, <1>2, <1>3, <1>4

\* The invariant of a launch.
THEOREM LaunchInvariance == LaunchSpec => []LaunchIInv
<1>1. LaunchInit => LaunchIInv
  BY LaunchInitially
<1>2. LaunchIInv /\ [LaunchNext]_launchVars => LaunchIInv'
  <2>1. CASE LaunchNext
    BY <2>1, OpeningKeepsLaunch, TurnKeepsLaunch, FinishKeepsLaunch, FailuresKeepLaunch
       DEF LaunchNext
  <2>2. CASE UNCHANGED launchVars
    BY <2>2 DEF launchVars, LaunchIInv, LaunchTypeOK, WorkInStep, Sessionless
  <2>3. QED  BY <2>1, <2>2
<1>3. QED  BY <1>1, <1>2, PTL DEF LaunchSpec

\* A task that the adapter reports as done has its work in the workspace, in every
\* kind of sandbox and whatever failed or expired on the way (AcpAdapter::execute,
\* SandboxLaunch::finish), but for a copying plugin that opened no session; and the
\* relay of a sandbox behind HTTP carries input and output as RelayIsFaithful says.
THEOREM SandboxesStayFaithful == SandboxSpec => []SandboxesAreFaithful
<1>1. LaunchIInv => SuccessBroughtBack
  BY DEF LaunchIInv, LaunchTypeOK, WorkInStep, Sessionless, SuccessBroughtBack
<1>2. SuccessBroughtBack /\ RelayIsFaithful => SandboxesAreFaithful
  BY DEF SandboxesAreFaithful
<1>3. QED  BY <1>1, <1>2, LaunchInvariance, RelaysAreFaithful, PTL DEF SandboxSpec

-----------------------------------------------------------------------------
(* Confine                                                                 *)

\* A path lies inside another when it has that one's names, in their places.
LEMMA InsideByName ==
  ASSUME NEW Name, NEW p \in Seq(Name), NEW r \in Seq(Name)
  PROVE  Inside(p, r) <=> Len(r) <= Len(p) /\ \A i \in 1 .. Len(r) : p[i] = r[i]
<1>1. SubSeq(r, 1, Len(r)) = r
  BY SubSeqFull
<1>2. ASSUME Len(r) <= Len(p)
      PROVE  /\ SubSeq(p, 1, Len(r)) \in Seq(Name)
             /\ Len(SubSeq(p, 1, Len(r))) = Len(r)
             /\ \A i \in 1 .. Len(r) : SubSeq(p, 1, Len(r))[i] = p[i]
  <2>1. \A i \in 1 .. Len(r) : p[i] \in Name
    BY <1>2
  <2>2. QED  BY <2>1, SubSeqProperties
<1>3. ASSUME Len(r) <= Len(p), \A i \in 1 .. Len(r) : p[i] = r[i]
      PROVE  SubSeq(p, 1, Len(r)) = r
  BY <1>2, <1>3, SeqEqual
<1>4. QED  BY <1>1, <1>2, <1>3 DEF Inside, IsPrefix

\* Two directories that contain a path contain one another.
LEMMA InsideEachOther ==
  ASSUME NEW Name, NEW p \in Seq(Name), NEW r \in Seq(Name), NEW q \in Seq(Name),
         Inside(p, r), Inside(p, q)
  PROVE  Inside(r, q) \/ Inside(q, r)
<1>1. Inside(p, r) <=> Len(r) <= Len(p) /\ \A i \in 1 .. Len(r) : p[i] = r[i]
  BY InsideByName
<1>2. Inside(p, q) <=> Len(q) <= Len(p) /\ \A i \in 1 .. Len(q) : p[i] = q[i]
  BY InsideByName
<1>3. Inside(r, q) <=> Len(q) <= Len(r) /\ \A i \in 1 .. Len(q) : r[i] = q[i]
  BY InsideByName
<1>4. Inside(q, r) <=> Len(r) <= Len(q) /\ \A i \in 1 .. Len(r) : q[i] = r[i]
  BY InsideByName
<1>5. Len(r) \in Nat /\ Len(q) \in Nat
  OBVIOUS
<1>6. QED  BY <1>1, <1>2, <1>3, <1>4, <1>5

\* An entry of a directory: the names of the directory and one more.
EntryOf(e, h, n) ==
  /\ Len(e) = Len(h) + 1
  /\ \A i \in 1 .. Len(h) : e[i] = h[i]
  /\ e[Len(h) + 1] = n

\* What the profile joins to home is an entry of it.
LEMMA AppendedIsEntry ==
  ASSUME NEW Name, NEW h \in Seq(Name), NEW n \in Name
  PROVE  Append(h, n) \in Seq(Name) /\ EntryOf(Append(h, n), h, n)
<1>1. /\ Append(h, n) \in Seq(Name)
      /\ Append(h, n) # << >>
      /\ Len(Append(h, n)) = Len(h) + 1
      /\ \A i \in 1 .. Len(h) : Append(h, n)[i] = h[i]
      /\ Append(h, n)[Len(h) + 1] = n
  BY AppendProperties
<1>2. QED  BY <1>1 DEF EntryOf

\* What contains an entry of home is that entry or contains home.
LEMMA AroundAnEntry ==
  ASSUME NEW Name, NEW h \in Seq(Name), NEW n \in Name, NEW e \in Seq(Name),
         NEW r \in Seq(Name), EntryOf(e, h, n), Inside(e, r)
  PROVE  Inside(r, e) \/ Inside(h, r)
<1>1. Len(r) <= Len(e) /\ \A i \in 1 .. Len(r) : e[i] = r[i]
  BY InsideByName
<1>2. Len(r) \in Nat /\ Len(h) \in Nat
  OBVIOUS
<1>3. CASE Len(r) <= Len(h)
  <2>1. \A i \in 1 .. Len(r) : h[i] = r[i]
    BY <1>1, <1>2, <1>3 DEF EntryOf
  <2>2. QED  BY <2>1, <1>3, InsideByName
<1>4. CASE Len(r) = Len(e)
  <2>1. \A i \in 1 .. Len(e) : r[i] = e[i]
    BY <1>1, <1>4
  <2>2. QED  BY <1>4, <2>1, InsideByName
<1>5. QED  BY <1>1, <1>2, <1>3, <1>4 DEF EntryOf

\* A path inside an entry of home is inside home and inside no other entry.
LEMMA WithinAnEntry ==
  ASSUME NEW Name, NEW h \in Seq(Name), NEW n \in Name, NEW e \in Seq(Name),
         NEW p \in Seq(Name), EntryOf(e, h, n), Inside(p, e)
  PROVE  Inside(p, h) /\ Len(h) < Len(p) /\ p[Len(h) + 1] = n
<1>1. Len(e) <= Len(p) /\ \A i \in 1 .. Len(e) : p[i] = e[i]
  BY InsideByName
<1>2. Len(p) \in Nat /\ Len(h) \in Nat
  OBVIOUS
<1>3. Len(e) = Len(h) + 1 /\ e[Len(h) + 1] = n /\ \A i \in 1 .. Len(h) : e[i] = h[i]
  BY DEF EntryOf
<1>4. Len(h) < Len(p) /\ Len(h) + 1 \in 1 .. Len(e)
  BY <1>1, <1>2, <1>3
<1>5. p[Len(h) + 1] = n
  BY <1>1, <1>3, <1>4
<1>6. \A i \in 1 .. Len(h) : p[i] = h[i]
  <2> SUFFICES ASSUME NEW i \in 1 .. Len(h) PROVE p[i] = h[i]
    OBVIOUS
  <2>1. i \in 1 .. Len(e)
    BY <1>2, <1>3
  <2>2. QED  BY <2>1, <1>1, <1>3
<1>7. QED  BY <1>2, <1>4, <1>5, <1>6, InsideByName

-----------------------------------------------------------------------------
\* A stage has its roots and gives its access.
LEMMA StageFacts ==
  ASSUME NEW R, NEW a PROVE Stage(R, a).roots = R /\ Stage(R, a).access = a
  BY DEF Stage

\* The stages of the mounts.
LEMMA MountFacts ==
  ASSUME NEW l
  PROVE  /\ DOMAIN Mounts(l) = 1 .. 10
         /\ Mounts(l)[1].roots = System /\ Mounts(l)[1].access = "read"
         /\ Mounts(l)[2].roots = {<<"tmp">>, <<"run">>} /\ Mounts(l)[2].access = "none"
         /\ Mounts(l)[3].roots = ShownResolv(l) /\ Mounts(l)[3].access = "read"
         /\ Mounts(l)[4].roots = PrivateHome(l) /\ Mounts(l)[4].access = "none"
         /\ Mounts(l)[5].roots = Home(l, "readable") /\ Mounts(l)[5].access = "read"
         /\ Mounts(l)[6].roots = Home(l, "writable") \cup l.extra \cup l.git /\ Mounts(l)[6].access = "write"
         /\ Mounts(l)[7].roots = ShownExe(l) /\ Mounts(l)[7].access = "read"
         /\ Mounts(l)[8].roots = ShownCommand(l) /\ Mounts(l)[8].access = "read"
         /\ Mounts(l)[9].roots = {l.workspace} /\ Mounts(l)[9].access = "write"
         /\ Mounts(l)[10].roots = Rehidden(l) /\ Mounts(l)[10].access = "none"
<1>1. DOMAIN Mounts(l) = 1 .. 10
  BY DEF Mounts
<1>2. Mounts(l)[1] = Stage(System, "read")
  BY DEF Mounts
<1>3. Mounts(l)[2] = Stage({<<"tmp">>, <<"run">>}, "none")
  BY DEF Mounts
<1>4. Mounts(l)[3] = Stage(ShownResolv(l), "read")
  BY DEF Mounts
<1>5. Mounts(l)[4] = Stage(PrivateHome(l), "none")
  BY DEF Mounts
<1>6. Mounts(l)[5] = Stage(Home(l, "readable"), "read")
  BY DEF Mounts
<1>7. Mounts(l)[6] = Stage(Home(l, "writable") \cup l.extra \cup l.git, "write")
  BY DEF Mounts
<1>8. Mounts(l)[7] = Stage(ShownExe(l), "read")
  BY DEF Mounts
<1>9. Mounts(l)[8] = Stage(ShownCommand(l), "read")
  BY DEF Mounts
<1>10. Mounts(l)[9] = Stage({l.workspace}, "write")
  BY DEF Mounts
<1>11. Mounts(l)[10] = Stage(Rehidden(l), "none")
  BY DEF Mounts
<1>12. QED  BY <1>1, <1>2, <1>3, <1>4, <1>5, <1>6, <1>7, <1>8, <1>9, <1>10, <1>11, StageFacts

\* Stage i covers p.
MountCovers(l, p, i) == \E r \in Mounts(l)[i].roots : Inside(p, r)

\* Which paths each stage covers.
LEMMA MountCoversFacts ==
  ASSUME NEW l, NEW p
  PROVE  /\ MountCovers(l, p, 1) <=> \E r \in System : Inside(p, r)
         /\ MountCovers(l, p, 2) <=> \E r \in {<<"tmp">>, <<"run">>} : Inside(p, r)
         /\ MountCovers(l, p, 3) <=> \E r \in ShownResolv(l) : Inside(p, r)
         /\ MountCovers(l, p, 4) <=> l.home # <<>> /\ Inside(p, l.home)
         /\ MountCovers(l, p, 5) <=> \E r \in Home(l, "readable") : Inside(p, r)
         /\ MountCovers(l, p, 6) <=> \E r \in Home(l, "writable") \cup l.extra \cup l.git : Inside(p, r)
         /\ MountCovers(l, p, 7) <=> \E r \in ShownExe(l) : Inside(p, r)
         /\ MountCovers(l, p, 8) <=> \E r \in ShownCommand(l) : Inside(p, r)
         /\ MountCovers(l, p, 9) <=> Inside(p, l.workspace)
         /\ MountCovers(l, p, 10) <=> \E r \in Rehidden(l) : Inside(p, r)
<1>1. MountCovers(l, p, 1) <=> \E r \in System : Inside(p, r)
  <2>1. Mounts(l)[1].roots = System
    BY MountFacts
  <2>2. QED  BY <2>1 DEF MountCovers
<1>2. MountCovers(l, p, 2) <=> \E r \in {<<"tmp">>, <<"run">>} : Inside(p, r)
  <2>1. Mounts(l)[2].roots = {<<"tmp">>, <<"run">>}
    BY MountFacts
  <2>2. QED  BY <2>1 DEF MountCovers
<1>3. MountCovers(l, p, 3) <=> \E r \in ShownResolv(l) : Inside(p, r)
  <2>1. Mounts(l)[3].roots = ShownResolv(l)
    BY MountFacts
  <2>2. QED  BY <2>1 DEF MountCovers
<1>4. MountCovers(l, p, 4) <=> l.home # <<>> /\ Inside(p, l.home)
  <2>1. Mounts(l)[4].roots = (IF l.home = <<>> THEN {} ELSE {l.home})
    BY MountFacts DEF PrivateHome
  <2>2. QED  BY <2>1, Zenon DEF MountCovers
<1>5. MountCovers(l, p, 5) <=> \E r \in Home(l, "readable") : Inside(p, r)
  <2>1. Mounts(l)[5].roots = Home(l, "readable")
    BY MountFacts
  <2>2. QED  BY <2>1 DEF MountCovers
<1>6. MountCovers(l, p, 6) <=> \E r \in Home(l, "writable") \cup l.extra \cup l.git : Inside(p, r)
  <2>1. Mounts(l)[6].roots = Home(l, "writable") \cup l.extra \cup l.git
    BY MountFacts
  <2>2. QED  BY <2>1 DEF MountCovers
<1>7. MountCovers(l, p, 7) <=> \E r \in ShownExe(l) : Inside(p, r)
  <2>1. Mounts(l)[7].roots = ShownExe(l)
    BY MountFacts
  <2>2. QED  BY <2>1 DEF MountCovers
<1>8. MountCovers(l, p, 8) <=> \E r \in ShownCommand(l) : Inside(p, r)
  <2>1. Mounts(l)[8].roots = ShownCommand(l)
    BY MountFacts
  <2>2. QED  BY <2>1 DEF MountCovers
<1>9. MountCovers(l, p, 9) <=> Inside(p, l.workspace)
  <2>1. Mounts(l)[9].roots = {l.workspace}
    BY MountFacts DEF PrivateHome
  <2>2. QED  BY <2>1, Zenon DEF MountCovers
<1>10. MountCovers(l, p, 10) <=> \E r \in Rehidden(l) : Inside(p, r)
  <2>1. Mounts(l)[10].roots = Rehidden(l)
    BY MountFacts
  <2>2. QED  BY <2>1 DEF MountCovers
<1>11. QED  BY <1>1, <1>2, <1>3, <1>4, <1>5, <1>6, <1>7, <1>8, <1>9, <1>10

\* The last stage that covers a path decides what the agent may do with it.
LEMMA LastDecides ==
  ASSUME NEW l, NEW p, NEW i \in 1 .. 10, MountCovers(l, p, i),
         \A k \in 1 .. 10 : MountCovers(l, p, k) => k <= i
  PROVE  BubblewrapAccess(l, p) = Mounts(l)[i].access
<1>1. Covering(l, p) = {k \in 1 .. 10 : MountCovers(l, p, k)}
  BY MountFacts DEF Covering, MountCovers
<1>2. i \in Covering(l, p) /\ \A k \in Covering(l, p) : k <= i
  BY <1>1
<1>3. ASSUME NEW j \in Covering(l, p), \A k \in Covering(l, p) : k <= j PROVE j = i
  BY <1>1, <1>2, <1>3
<1>4. (CHOOSE j \in Covering(l, p) : \A k \in Covering(l, p) : k <= j) = i
  BY <1>2, <1>3
<1>5. QED  BY <1>2, <1>4 DEF BubblewrapAccess

\* Some stage decides, or nothing is there.
LEMMA OneDecides ==
  ASSUME NEW l, NEW p
  PROVE  \/ BubblewrapAccess(l, p) = "none" /\ \A k \in 1 .. 10 : ~MountCovers(l, p, k)
         \/ \E i \in 1 .. 10 : /\ MountCovers(l, p, i)
                               /\ \A k \in 1 .. 10 : MountCovers(l, p, k) => k <= i
                               /\ BubblewrapAccess(l, p) = Mounts(l)[i].access
<1> DEFINE C(i) == MountCovers(l, p, i)
<1>1. CASE \A k \in 1 .. 10 : ~C(k)
  <2>1. Covering(l, p) = {}
    BY <1>1, MountFacts DEF Covering, MountCovers
  <2>2. QED  BY <1>1, <2>1 DEF BubblewrapAccess
<1>2. CASE \E k \in 1 .. 10 : C(k)
  <2>1. PICK i \in 1 .. 10 : C(i) /\ \A k \in 1 .. 10 : C(k) => k <= i
    <3> HIDE DEF C
    <3>1. \E i \in 1 .. 10 : C(i) /\ \A k \in 1 .. 10 : k > i => ~C(k)
      BY <1>2
    <3>2. QED  BY <3>1
  <2>2. QED  BY <2>1, LastDecides
<1>3. QED  BY <1>1, <1>2

-----------------------------------------------------------------------------
\* The entries of home that the profile sorts.
LEMMA EntriesOfHome ==
  ASSUME NEW Name, LayoutAssumption(Name), NEW l \in Layout, NEW sort, NEW e \in Home(l, sort)
  PROVE  /\ e \in Seq(Name)
         /\ \E n \in DOMAIN HomeDot : HomeDot[n] = sort /\ n \in Name /\ EntryOf(e, l.home, n)
<1>1. PICK n \in DOMAIN HomeDot : HomeDot[n] = sort /\ e = Append(l.home, n)
  BY DEF Home
<1>2. n \in Name /\ l.home \in Seq(Name)
  BY DEF LayoutAssumption
<1>3. QED  BY <1>1, <1>2, AppendedIsEntry

\* A path inside an entry of one kind is inside no entry of another kind.
LEMMA KindsAreApart ==
  ASSUME NEW Name, LayoutAssumption(Name), NEW l \in Layout, NEW p \in Seq(Name),
         NEW sort, NEW e \in Home(l, sort), Inside(p, e),
         NEW other, NEW f \in Home(l, other), Inside(p, f)
  PROVE  sort = other
<1>1. l.home \in Seq(Name)
  BY DEF LayoutAssumption
<1>2. PICK n \in DOMAIN HomeDot : HomeDot[n] = sort /\ n \in Name /\ EntryOf(e, l.home, n)
  BY EntriesOfHome
<1>3. PICK m \in DOMAIN HomeDot : HomeDot[m] = other /\ m \in Name /\ EntryOf(f, l.home, m)
  BY EntriesOfHome
<1>4. e \in Seq(Name) /\ f \in Seq(Name)
  BY EntriesOfHome
<1>5. p[Len(l.home) + 1] = n
  BY <1>1, <1>2, <1>4, WithinAnEntry
<1>6. p[Len(l.home) + 1] = m
  BY <1>1, <1>3, <1>4, WithinAnEntry
<1>7. QED  BY <1>2, <1>3, <1>5, <1>6

\* A path inside an entry of the root's home is in no directory of the system.
LEMMA NotOfTheSystem ==
  ASSUME NEW Name, LayoutAssumption(Name), NEW l \in Layout, NEW p \in Seq(Name),
         NEW sort, NEW e \in Home(l, sort), Inside(p, e),
         NEW d \in SystemName \cup {"tmp", "run"}
  PROVE  l.home = <<>> => ~Inside(p, <<d>>)
<1>1. PICK n \in DOMAIN HomeDot : HomeDot[n] = sort /\ n \in Name /\ EntryOf(e, l.home, n)
  BY EntriesOfHome
<1>2. l.home \in Seq(Name) /\ e \in Seq(Name)
  BY EntriesOfHome DEF LayoutAssumption
<1>3. p[Len(l.home) + 1] = n
  BY <1>1, <1>2, WithinAnEntry
<1>4. l.home = <<>> => p[1] = n
  <2> SUFFICES ASSUME l.home = <<>> PROVE p[1] = n
    OBVIOUS
  <2>1. Len(l.home) = 0
    OBVIOUS
  <2>2. QED  BY <1>3, <2>1
<1>5. n # d
  BY <1>1 DEF LayoutAssumption
<1>6. Inside(p, <<d>>) => p[1] = d
  <2>1. d \in Name /\ <<d>> \in Seq(Name)
    BY DEF LayoutAssumption
  <2>2. Len(<<d>>) = 1 /\ <<d>>[1] = d
    OBVIOUS
  <2>3. Inside(p, <<d>>) <=>
          Len(<<d>>) <= Len(p) /\ \A i \in 1 .. Len(<<d>>) : p[i] = <<d>>[i]
    BY <2>1, InsideByName
  <2>4. QED  BY <2>2, <2>3
<1>7. QED  BY <1>4, <1>5, <1>6

\* A path inside an entry of home is not inside CUMA's executable.
LEMMA NotTheExecutable ==
  ASSUME NEW Name, LayoutAssumption(Name), NEW l \in Layout, NEW p \in Seq(Name),
         NEW sort, NEW h \in Home(l, sort), Inside(p, h), NEW e \in ShownExe(l)
  PROVE  ~Inside(p, e)
<1> SUFFICES ASSUME Inside(p, e) PROVE FALSE
  OBVIOUS
<1>1. l.home \in Seq(Name) /\ e \in Seq(Name) /\ h \in Seq(Name)
  BY EntriesOfHome DEF LayoutAssumption, ShownExe
<1>2. PICK n \in DOMAIN HomeDot : n \in Name /\ EntryOf(h, l.home, n)
  BY EntriesOfHome
<1>3. p[Len(l.home) + 1] = n
  BY <1>1, <1>2, WithinAnEntry
<1>4. Len(l.home) + 1 \in 1 .. Len(e) /\ e[Len(l.home) + 1] \notin DOMAIN HomeDot
  BY <1>1 DEF ShownExe
<1>5. \A k \in 1 .. Len(e) : p[k] = e[k]
  BY <1>1, InsideByName
<1>6. QED  BY <1>2, <1>3, <1>4, <1>5

\* A path inside an entry of the root's home is not inside resolv.conf.
LEMMA NotTheResolver ==
  ASSUME NEW Name, LayoutAssumption(Name), NEW l \in Layout, NEW p \in Seq(Name),
         NEW sort, NEW h \in Home(l, sort), Inside(p, h), NEW r \in ShownResolv(l), Inside(p, r)
  PROVE  l.home # <<>>
<1>1. r \in Seq(Name) /\ <<"run">> \in Seq(Name) /\ <<"tmp">> \in Seq(Name)
  BY DEF LayoutAssumption, ShownResolv
<1>2. PICK d \in {"run", "tmp"} : Inside(r, <<d>>)
  BY DEF ShownResolv
<1>3. <<d>> \in Seq(Name)
  BY <1>1
<1>4. Inside(p, <<d>>)
  <2>1. Len(r) <= Len(p) /\ \A k \in 1 .. Len(r) : p[k] = r[k]
    BY <1>1, InsideByName
  <2>2. Len(<<d>>) <= Len(r) /\ \A k \in 1 .. Len(<<d>>) : r[k] = <<d>>[k]
    BY <1>1, <1>2, <1>3, InsideByName
  <2>3. Len(r) \in Nat /\ Len(p) \in Nat /\ Len(<<d>>) \in Nat
    BY <1>1, <1>3
  <2>4. Len(<<d>>) <= Len(p) /\ \A k \in 1 .. Len(<<d>>) : p[k] = <<d>>[k]
    BY <2>1, <2>2, <2>3
  <2>5. QED  BY <1>3, <2>4, InsideByName
<1>5. QED  BY <1>2, <1>4, NotOfTheSystem

\* Credentials that were not given are not there: the private home hides them, no
\* later mount but the workspace's shows them, and what came with the workspace is
\* hidden again.
LEMMA CredentialsAreAbsent ==
  ASSUME NEW Name, LayoutAssumption(Name), NEW l \in Layout, NEW p \in Seq(Name),
         NEW h \in Home(l, "hidden"), Inside(p, h), ~Given(l, p)
  PROVE  BubblewrapAccess(l, p) = "none"
<1> DEFINE C(i) == MountCovers(l, p, i)
<1>1. l.home \in Seq(Name) /\ l.workspace \in Seq(Name)
  BY DEF LayoutAssumption
<1>2. PICK n \in DOMAIN HomeDot : HomeDot[n] = "hidden" /\ n \in Name /\ EntryOf(h, l.home, n)
  BY EntriesOfHome
<1>3. h \in Seq(Name)
  BY EntriesOfHome
<1>4. Inside(p, l.home)
  BY <1>1, <1>2, <1>3, WithinAnEntry
<1>5. ~C(5)
  BY KindsAreApart, MountCoversFacts
<1>6. ~C(6)
  <2>1. ASSUME NEW r \in l.extra \cup l.git PROVE ~Inside(p, r)
    BY <2>1 DEF Given
  <2>2. ASSUME NEW r \in Home(l, "writable") PROVE ~Inside(p, r)
    BY <2>2, KindsAreApart
  <2>3. QED  BY <2>1, <2>2, MountCoversFacts
<1>7. ~C(7)
  BY NotTheExecutable, MountCoversFacts
<1>8. ~C(8)
  <2>1. \A c \in ShownCommand(l) : ~Inside(p, c)
    BY DEF Given, ShownCommand
  <2>2. QED  BY <2>1, MountCoversFacts
<1>9. C(9) => C(10)
  <2> SUFFICES ASSUME Inside(p, l.workspace) PROVE \E r \in Rehidden(l) : Inside(p, r)
    BY MountCoversFacts
  <2>1. Inside(h, l.workspace) \/ Inside(l.workspace, h)
    BY <1>1, <1>3, InsideEachOther
  <2>2. ~Inside(l.workspace, h)
    BY DEF Given, Credential
  <2>3. QED  BY <2>1, <2>2 DEF Rehidden
<1>10. CASE C(10)
  <2>1. \A k \in 1 .. 10 : C(k) => k <= 10
    OBVIOUS
  <2>2. BubblewrapAccess(l, p) = Mounts(l)[10].access
    BY <1>10, <2>1, LastDecides
  <2>3. QED  BY <2>2, MountFacts
<1>11. CASE ~C(10) /\ l.home # <<>>
  <2>1. C(4)
    BY <1>4, <1>11, MountCoversFacts
  <2>2. \A k \in 1 .. 10 : C(k) => k <= 4
    <3> HIDE DEF C
    <3>1. QED  BY <1>5, <1>6, <1>7, <1>8, <1>9, <1>11
  <2>3. BubblewrapAccess(l, p) = Mounts(l)[4].access
    BY <2>1, <2>2, LastDecides
  <2>4. QED  BY <2>3, MountFacts
<1>12. CASE ~C(10) /\ l.home = <<>>
  <2>1. ~C(1) /\ ~C(2)
    <3>1. \A d \in SystemName \cup {"tmp", "run"} : ~Inside(p, <<d>>)
      BY <1>12, NotOfTheSystem
    <3>2. QED  BY <3>1, MountCoversFacts DEF System
  <2>2. ~C(4)
    BY <1>12, MountCoversFacts
  <2>3. ~C(3)
    BY <1>12, NotTheResolver, MountCoversFacts
  <2>4. \A k \in 1 .. 10 : ~C(k)
    <3> HIDE DEF C
    <3>1. QED  BY <1>5, <1>6, <1>7, <1>8, <1>9, <1>12, <2>1, <2>2, <2>3
  <2>5. QED  BY <2>4, OneDecides
<1>13. QED  BY <1>10, <1>11, <1>12

\* The workspace is mounted last, so nothing shadows it but what is hidden again.
LEMMA WorkspaceIsWritable ==
  ASSUME NEW l, NEW p, Inside(p, l.workspace), ~Credential(l, p)
  PROVE  BubblewrapAccess(l, p) = "write"
<1>1. MountCovers(l, p, 9) /\ ~MountCovers(l, p, 10)
  BY MountCoversFacts DEF Rehidden, Credential
<1>2. \A k \in 1 .. 10 : MountCovers(l, p, k) => k <= 9
  BY <1>1
<1>3. BubblewrapAccess(l, p) = Mounts(l)[9].access
  BY <1>1, <1>2, LastDecides
<1>4. QED  BY <1>3, MountFacts

\* What is granted is an access; it is to write only by the stage of the writable
\* paths or of the workspace; and of a private place only what a later stage shows.
LEMMA ListedIsShown ==
  ASSUME NEW l, NEW p
  PROVE  /\ BubblewrapAccess(l, p) \in {"none", "read", "write"}
         /\ BubblewrapAccess(l, p) = "write" => \E w \in Writable(l) : Inside(p, w)
         /\ BubblewrapAccess(l, p) # "none"
              /\ (\E r \in PrivateHome(l) \cup {<<"tmp">>, <<"run">>} : Inside(p, r)) =>
              \E r \in Shown(l) : Inside(p, r)
<1> DEFINE C(i) == MountCovers(l, p, i)
<1>1. CASE BubblewrapAccess(l, p) = "none"
  BY <1>1
<1>2. ASSUME NEW i \in 1 .. 10, C(i), \A k \in 1 .. 10 : C(k) => k <= i,
             BubblewrapAccess(l, p) = Mounts(l)[i].access
      PROVE  /\ BubblewrapAccess(l, p) \in {"none", "read", "write"}
             /\ BubblewrapAccess(l, p) = "write" => \E w \in Writable(l) : Inside(p, w)
             /\ BubblewrapAccess(l, p) # "none"
                  /\ (\E r \in PrivateHome(l) \cup {<<"tmp">>, <<"run">>} : Inside(p, r)) =>
                  \E r \in Shown(l) : Inside(p, r)
  <2>1. /\ i \in {2, 4, 10} => Mounts(l)[i].access = "none"
        /\ i \in {1, 3, 5, 7, 8} => Mounts(l)[i].access = "read"
        /\ i \in {6, 9} => Mounts(l)[i].access = "write"
    BY MountFacts
  <2>2. i \in {2, 4, 10} \cup {1, 3, 5, 7, 8} \cup {6, 9}
    OBVIOUS
  <2>3. i \in {6, 9} => \E w \in Writable(l) : Inside(p, w)
    BY <1>2, MountCoversFacts, Zenon DEF Writable
  <2>4. i \in {3, 5, 7, 8} => \E r \in Shown(l) : Inside(p, r)
    <3>1. i = 3 => \E r \in Shown(l) : Inside(p, r)
      BY <1>2, MountCoversFacts DEF Shown
    <3>2. i = 5 => \E r \in Shown(l) : Inside(p, r)
      BY <1>2, MountCoversFacts DEF Shown
    <3>3. i = 7 => \E r \in Shown(l) : Inside(p, r)
      BY <1>2, MountCoversFacts DEF Shown
    <3>4. i = 8 => \E r \in Shown(l) : Inside(p, r)
      BY <1>2, MountCoversFacts DEF Shown, ShownCommand
    <3>5. QED  BY <3>1, <3>2, <3>3, <3>4
  <2>5. (\E r \in PrivateHome(l) \cup {<<"tmp">>, <<"run">>} : Inside(p, r)) => i # 1
    <3> SUFFICES ASSUME \E r \in PrivateHome(l) \cup {<<"tmp">>, <<"run">>} : Inside(p, r)
                 PROVE  i # 1
      OBVIOUS
    <3>1. C(2) \/ C(4)
      BY MountFacts DEF MountCovers
    <3>2. QED  BY <1>2, <3>1
  <2>6. QED  BY <1>2, <2>1, <2>2, <2>3, <2>4, <2>5 DEF Shown
<1>3. QED  BY <1>1, <1>2, OneDecides

\* A directory of the system that covers a path below the private home contains home.
LEMMA HomeInSystem ==
  ASSUME NEW Name, LayoutAssumption(Name), NEW l \in Layout, NEW p \in Seq(Name),
         l.home # <<>>, Inside(p, l.home), NEW s \in System, Inside(p, s)
  PROVE  Inside(l.home, s)
<1>1. PICK d \in SystemName : s = <<d>>
  BY DEF System
<1>2. <<d>> \in Seq(Name) /\ l.home \in Seq(Name) /\ Len(<<d>>) = 1
  BY DEF LayoutAssumption
<1>3. Inside(l.home, s) \/ Inside(s, l.home)
  BY <1>1, <1>2, InsideEachOther
<1>4. ASSUME Inside(s, l.home) PROVE Inside(l.home, s)
  <2>1. Len(l.home) <= 1 /\ \A k \in 1 .. Len(l.home) : s[k] = l.home[k]
    BY <1>1, <1>2, <1>4, InsideByName
  <2>2. Len(l.home) = 1
    <3> DEFINE n == Len(l.home)
    <3>1. n \in Nat /\ n # 0
      BY <1>2
    <3>2. n <= 1
      BY <2>1
    <3> HIDE DEF n
    <3>3. n = 1
      BY <3>1, <3>2
    <3>4. QED  BY <3>3 DEF n
  <2>3. Len(s) <= Len(l.home) /\ \A k \in 1 .. Len(s) : l.home[k] = s[k]
    BY <1>1, <1>2, <2>1, <2>2
  <2>4. QED  BY <1>1, <1>2, <2>3, InsideByName
<1>5. QED  BY <1>3, <1>4

\* What the command names is bound unless a mount shows it, and only the private
\* home in a directory of the system or the credentials hidden again cover that.
LEMMA CommandStaysReadable ==
  ASSUME NEW Name, LayoutAssumption(Name), NEW l \in Layout, NEW p \in Seq(Name),
         NEW c \in l.command, Inside(p, c), BubblewrapAccess(l, p) = "none"
  PROVE  Credential(l, p) \/ \E s \in System : Inside(l.home, s)
<1> DEFINE C(i) == MountCovers(l, p, i)
<1>1. c \in Seq(Name) /\ l.home \in Seq(Name)
  BY DEF LayoutAssumption
<1>2. ASSUME NEW root \in Seq(Name), Inside(c, root) PROVE Inside(p, root)
  <2>1. Len(c) <= Len(p) /\ \A k \in 1 .. Len(c) : p[k] = c[k]
    BY <1>1, InsideByName
  <2>2. Len(root) <= Len(c) /\ \A k \in 1 .. Len(root) : c[k] = root[k]
    BY <1>1, <1>2, InsideByName
  <2>3. Len(c) \in Nat /\ Len(p) \in Nat /\ Len(root) \in Nat
    BY <1>1
  <2>4. Len(root) <= Len(p) /\ \A k \in 1 .. Len(root) : p[k] = root[k]
    BY <2>1, <2>2, <2>3
  <2>5. QED  BY <2>4, InsideByName
<1>3. ASSUME NEW root \in System \cup Home(l, "readable") \cup Writable(l) PROVE root \in Seq(Name)
  <2>1. ASSUME root \in System PROVE root \in Seq(Name)
    <3>1. PICK d \in SystemName : root = <<d>>
      BY <2>1 DEF System
    <3>2. d \in Name
      BY <3>1 DEF LayoutAssumption
    <3>3. QED  BY <3>1, <3>2
  <2>2. ASSUME NEW sort, root \in Home(l, sort) PROVE root \in Seq(Name)
    BY <2>2, EntriesOfHome
  <2>3. ASSUME root \in {l.workspace} \cup l.git \cup l.extra PROVE root \in Seq(Name)
    BY <2>3 DEF LayoutAssumption
  <2>4. QED  BY <1>3, <2>1, <2>2, <2>3 DEF Writable
<1>4. (\E root \in System : Inside(p, root)) \/ C(5) \/ C(6) \/ C(8) \/ C(9)
  <2>1. CASE c \in ShownCommand(l)
    BY <2>1, MountCoversFacts
  <2>2. CASE c \notin ShownCommand(l)
    <3>1. PICK root \in System \cup Home(l, "readable") \cup Writable(l) : Inside(c, root)
      BY <2>2 DEF ShownCommand, BwrapShows
    <3>2. Inside(p, root)
      BY <1>2, <1>3, <3>1
    <3>3. QED  BY <3>1, <3>2, MountCoversFacts DEF Writable
  <2>3. QED  BY <2>1, <2>2
<1>5. PICK i \in 1 .. 10 : /\ C(i) /\ \A k \in 1 .. 10 : C(k) => k <= i
                           /\ BubblewrapAccess(l, p) = Mounts(l)[i].access
  <2>1. C(1) \/ C(5) \/ C(6) \/ C(8) \/ C(9)
    BY <1>4, MountCoversFacts
  <2>2. QED  BY <2>1, OneDecides
<1>6. i \in {2, 4, 10}
  <2>1. /\ i \in {1, 3, 5, 7, 8} => Mounts(l)[i].access = "read"
        /\ i \in {6, 9} => Mounts(l)[i].access = "write"
    BY MountFacts
  <2>2. QED  BY <1>5, <2>1
<1>7. CASE i = 10
  BY <1>5, <1>7, MountCoversFacts DEF Rehidden, Credential
<1>8. ASSUME i \in {2, 4} PROVE \E s \in System : Inside(l.home, s)
  <2>1. PICK s \in System : Inside(p, s)
    <3>1. ~C(5) /\ ~C(6) /\ ~C(8) /\ ~C(9)
      <4> HIDE DEF C
      <4>1. QED  BY <1>5, <1>8
    <3>2. QED  BY <1>4, <3>1
  <2>2. i # 2
    <3> SUFFICES ASSUME i = 2 PROVE FALSE
      OBVIOUS
    <3>1. PICK r \in {<<"tmp">>, <<"run">>} : Inside(p, r)
      BY <1>5, MountCoversFacts
    <3>2. PICK d \in SystemName : s = <<d>>
      BY DEF System
    <3>3. <<d>> \in Seq(Name) /\ <<"tmp">> \in Seq(Name) /\ <<"run">> \in Seq(Name)
      BY DEF LayoutAssumption
    <3>4. p[1] = d
      <4>1. Len(<<d>>) = 1 /\ <<d>>[1] = d
        OBVIOUS
      <4>2. \A k \in 1 .. Len(<<d>>) : p[k] = <<d>>[k]
        BY <2>1, <3>2, <3>3, InsideByName
      <4>3. QED  BY <4>1, <4>2
    <3>5. p[1] \in {"tmp", "run"}
      <4>1. Len(r) = 1 /\ r[1] \in {"tmp", "run"} /\ r \in Seq(Name)
        <5>1. CASE r = <<"tmp">>
          BY <3>3, <5>1
        <5>2. CASE r = <<"run">>
          BY <3>3, <5>2
        <5>3. QED  BY <3>1, <5>1, <5>2
      <4>2. \A k \in 1 .. Len(r) : p[k] = r[k]
        BY <3>1, <4>1, InsideByName
      <4>3. QED  BY <4>1, <4>2
    <3>6. QED  BY <3>4, <3>5 DEF SystemName
  <2>3. l.home # <<>> /\ Inside(p, l.home)
    BY <1>5, <1>8, <2>2, MountCoversFacts
  <2>4. QED  BY <2>1, <2>3, HomeInSystem
<1>9. QED  BY <1>6, <1>7, <1>8

\* What was granted is what the arguments of the chosen runtime allow.
ConfineIInv ==
  /\ ConfineTypeOK
  /\ runtime # "none" => grants = [p \in Probe |-> AccessUnder(runtime, layout, p)]

\* launch_prefix decides once, before the agent starts, and the grants stay its.
THEOREM ConfineInvariance == ConfineSpec => []ConfineIInv
<1>1. ConfineInit => ConfineIInv
  BY DEF ConfineInit, ConfineIInv, ConfineTypeOK, Nowhere, Access
<1>2. ASSUME ConfineIInv, [ConfineNext]_confineVars PROVE ConfineIInv'
  <2>1. CASE LaunchPrefix
    <3>1. \A p \in Probe : AccessUnder(runtime', layout, p) \in Access
      <4> SUFFICES ASSUME NEW p \in Probe PROVE AccessUnder(runtime', layout, p) \in Access
        OBVIOUS
      <4>1. RuleAccess(layout, p) \in Access /\ AiJailAccess(layout, p) \in Access
        BY DEF RuleAccess, AiJailAccess, Access
      <4>2. BubblewrapAccess(layout, p) \in Access
        BY ListedIsShown DEF Access
      <4>3. QED  BY <4>1, <4>2 DEF AccessUnder
    <3>2. layout' = layout /\ runtime' \in Runtime /\
          grants' = [p \in Probe |-> AccessUnder(runtime', layout', p)]
      BY <2>1 DEF LaunchPrefix
    <3>3. grants' \in [Probe -> Access]
      BY <3>1, <3>2
    <3>4. QED  BY <3>2, <3>3, <1>2 DEF ConfineIInv, ConfineTypeOK
  <2>2. CASE UNCHANGED confineVars
    BY <1>2, <2>2 DEF confineVars, ConfineIInv, ConfineTypeOK
  <2>3. QED  BY <1>2, <2>1, <2>2 DEF ConfineNext
<1>3. QED  BY <1>1, <1>2, PTL DEF ConfineSpec

\* The table of confine.rs holds for every layout of the machine, whichever dot
\* entries home has and whatever path the agent tries (Profile::bubblewrap,
\* firejail, seatbelt_profile and ai_jail).
THEOREM ProfilesHold ==
  ASSUME NEW Name, LayoutAssumption(Name) PROVE ConfineSpec => []ProfileHolds
<1>1. ASSUME ConfineIInv PROVE ProfileHolds
  <2> DEFINE Row(p) ==
        /\ Credential(layout, p) /\ ~Given(layout, p) => grants[p] \in {"none", "own"}
        /\ Credential(layout, p) /\ runtime \in ByRules => grants[p] = "none"
        /\ Inside(p, layout.workspace) /\ ~Credential(layout, p) => grants[p] = "write"
        /\ grants[p] = "write" =>
             \E w \in Writable(layout) : Inside(p, w) \/ (runtime \in ByRules /\ Inside(p, <<"tmp">>))
        /\ runtime = "bubblewrap" =>
             /\ grants[p] # "none" /\ (\E r \in PrivateHome(layout) \cup {<<"tmp">>, <<"run">>} :
                                         Inside(p, r)) =>
                  \E r \in Shown(layout) : Inside(p, r)
             /\ (\E c \in layout.command : Inside(p, c)) /\ grants[p] = "none" =>
                  Credential(layout, p) \/ \E s \in System : Inside(layout.home, s)
  <2> SUFFICES ASSUME runtime # "none", NEW p \in Probe PROVE Row(p)
    BY DEF ProfileHolds
  <2>1. /\ grants[p] = AccessUnder(runtime, layout, p)
        /\ layout \in Layout /\ p \in Seq(Name) /\ runtime \in Runtime
    BY <1>1 DEF ConfineIInv, ConfineTypeOK, LayoutAssumption
  <2>2. CASE runtime = "bubblewrap"
    <3>1. grants[p] = BubblewrapAccess(layout, p) /\ runtime \notin ByRules
      BY <2>1, <2>2 DEF AccessUnder, ByRules
    <3>2. Credential(layout, p) /\ ~Given(layout, p) => grants[p] = "none"
      BY <2>1, <3>1, CredentialsAreAbsent DEF Credential
    <3>3. Inside(p, layout.workspace) /\ ~Credential(layout, p) => grants[p] = "write"
      BY <3>1, WorkspaceIsWritable
    <3>4. /\ grants[p] = "write" => \E w \in Writable(layout) : Inside(p, w)
          /\ grants[p] # "none" /\ (\E r \in PrivateHome(layout) \cup {<<"tmp">>, <<"run">>} :
                                      Inside(p, r)) =>
               \E r \in Shown(layout) : Inside(p, r)
      BY <3>1, ListedIsShown
    <3>5. (\E c \in layout.command : Inside(p, c)) /\ grants[p] = "none" =>
             Credential(layout, p) \/ \E s \in System : Inside(layout.home, s)
      BY <2>1, <3>1, CommandStaysReadable
    <3>6. QED  BY <3>1, <3>2, <3>3, <3>4, <3>5
  <2>3. CASE runtime = "ai-jail"
    <3>1. grants[p] = AiJailAccess(layout, p) /\ runtime \notin ByRules /\ runtime # "bubblewrap"
      BY <2>1, <2>3 DEF AccessUnder, ByRules
    <3>2. Credential(layout, p) /\ ~Given(layout, p) => grants[p] = "own"
      BY <3>1, Zenon DEF AiJailAccess, MappedFor, Given, Credential
    <3>3. Inside(p, layout.workspace) /\ ~Credential(layout, p) => grants[p] = "write"
      BY <3>1, Zenon DEF AiJailAccess, MappedFor, Credential
    <3>4. grants[p] = "write" => \E w \in Writable(layout) : Inside(p, w)
      BY <3>1 DEF AiJailAccess, MappedFor, Writable
    <3>5. QED  BY <3>1, <3>2, <3>3, <3>4
  <2>4. CASE runtime \in ByRules
    <3>1. grants[p] = RuleAccess(layout, p) /\ runtime # "bubblewrap"
      BY <2>1, <2>4 DEF AccessUnder, ByRules
    <3>2. /\ Credential(layout, p) => grants[p] = "none"
          /\ Inside(p, layout.workspace) /\ ~Credential(layout, p) => grants[p] = "write"
          /\ grants[p] = "write" =>
               \E w \in Writable(layout) : Inside(p, w) \/ (runtime \in ByRules /\ Inside(p, <<"tmp">>))
      BY <2>4, <3>1, Zenon DEF RuleAccess, Writable
    <3>3. QED  BY <3>1, <3>2
  <2>5. QED  BY <2>1, <2>2, <2>3, <2>4 DEF Runtime, ByRules
<1>2. ConfineIInv => ProfileHolds
  BY <1>1
<1>3. QED  BY <1>2, ConfineInvariance, PTL

=============================================================================
