--------------------------- MODULE Sessions_proofs ---------------------------
(***************************************************************************)
(* Proofs about the waves of concurrent sessions, for any number of        *)
(* sessions, plans of any shape and any width of a wave.                   *)
(***************************************************************************)
EXTENDS Sessions, FiniteSetTheorems, TLAPS

-----------------------------------------------------------------------------
(* Facts about tasks and their order.                                      *)

\* A nonempty set of naturals has a least element.
LEMMA LeastNatural ==
  ASSUME NEW N \in SUBSET Nat, N # {}
  PROVE  \E n \in N : \A m \in N : n <= m
<1>1. PICK n \in N : \A m \in N : ~(<<m, n>> \in OpToRel(<, Nat))
  BY WFMin, NatLessThanWellFounded
<1>2. \A m \in N : ~(m < n)
  BY <1>1 DEF OpToRel
<1> QED BY <1>2

\* A half carries the specification of a planned task, and is not planned.
LEMMA TaskFacts ==
  ASSUME NEW t \in Task
  PROVE  /\ Base(t) \in Planned
         /\ t \notin Planned => /\ Half(Base(t), 1) \in Task
                                /\ t = Half(Base(t), 1) \/ t = Half(Base(t), 2)
         /\ Dependencies(t) \subseteq Task
<1>1. CASE t \in Planned
  BY <1>1, DepsAssumption DEF Base, Dependencies, Task
<1>2. CASE t \in Halves /\ t \notin Planned
  <2>1. PICK u \in Planned, i \in {1, 2} : t = <<u, i>>
    BY <1>2 DEF Halves
  <2>2. Base(t) = u /\ t[1] = u /\ t[2] = i
    BY <1>2, <2>1 DEF Base
  <2>3. Half(u, 1) \in Task
    BY <2>1 DEF Half, Halves, Task
  <2> QED BY <1>2, <2>1, <2>2, <2>3, DepsAssumption DEF Dependencies, Task, Half
<1> QED BY <1>1, <1>2 DEF Task

\* The halves of a planned task, and what they wait for.
LEMMA HalfFacts ==
  ASSUME NEW t \in Planned
  PROVE  /\ Half(t, 1) \in Task /\ Half(t, 2) \in Task
         /\ Base(Half(t, 1)) = t /\ Base(Half(t, 2)) = t
         /\ Dependencies(Half(t, 1)) = Dependencies(t)
         /\ Dependencies(Half(t, 2)) = {Half(t, 1)}
         /\ Half(t, 1) # t /\ Half(t, 2) # t /\ Half(t, 1) # Half(t, 2)
<1>1. <<t, 1>> \in Halves /\ <<t, 2>> \in Halves
  BY DEF Halves
<1>2. t \in Task
  BY DEF Task
<1>3. <<t, 1>> \notin Planned /\ <<t, 2>> \notin Planned
  BY <1>2, PlannedAssumption DEF Half
<1> QED BY <1>1, <1>3 DEF Half, Base, Dependencies, Task

\* The position of a task of a graph is where it stands.
LEMMA PositionFacts ==
  ASSUME NEW o \in Seq(Task), NEW t \in Range(o)
  PROVE  Position(o, t) \in Nat /\ o[Position(o, t)] = t
<1>1. Position(o, t) \in DOMAIN o /\ o[Position(o, t)] = t
  BY DEF Position, Range
<1>2. DOMAIN o \subseteq Nat
  OBVIOUS
<1> QED BY <1>1, <1>2

\* The order of ready_tasks has a first task in every nonempty set.
LEMMA EarliestFirst ==
  ASSUME NEW o \in Seq(Task), NEW S \in SUBSET Range(o), S # {}
  PROVE  /\ Earliest(o, S) \in S
         /\ \A u \in S \ {Earliest(o, S)} : Before(o, Earliest(o, S), u)
<1> DEFINE low(t) == 255 - Priority[Base(t)]
<1>0. \A t \in S : t \in Task /\ t \in Range(o)
  BY DEF Range
<1>1. \A t \in S : Priority[Base(t)] \in 0..255 /\ low(t) \in Nat
  <2> SUFFICES ASSUME NEW t \in S
               PROVE  Priority[Base(t)] \in 0..255 /\ low(t) \in Nat
    OBVIOUS
  <2>1. Base(t) \in Planned
    BY <1>0, TaskFacts
  <2>2. Priority[Base(t)] \in 0..255
    BY <2>1, PriorityAssumption
  <2>3. \A x \in 0..255 : 255 - x \in Nat
    OBVIOUS
  <2> QED BY <2>2, <2>3
<1>2. PICK n \in {low(t) : t \in S} : \A m \in {low(t) : t \in S} : n <= m
  <2>1. {low(t) : t \in S} \in SUBSET Nat /\ {low(t) : t \in S} # {}
    BY <1>1
  <2> QED BY <2>1, LeastNatural
<1> DEFINE top == {t \in S : low(t) = n}
<1>3. PICK k \in {Position(o, t) : t \in top} :
           \A m \in {Position(o, t) : t \in top} : k <= m
  <2>1. {Position(o, t) : t \in top} # {}
    BY <1>2
  <2>2. {Position(o, t) : t \in top} \in SUBSET Nat
    BY <1>0, PositionFacts
  <2> QED BY <2>1, <2>2, LeastNatural
<1>4. PICK t \in top : Position(o, t) = k
  BY <1>3
<1>5. ASSUME NEW u \in S \ {t} PROVE Before(o, t, u)
  <2>1. low(t) <= low(u)
    BY <1>2, <1>4
  <2>2. CASE low(t) < low(u)
    <3>0. \A x, y \in 0..255 : 255 - x < 255 - y => x > y
      OBVIOUS
    <3>1. Priority[Base(t)] > Priority[Base(u)]
      BY <1>1, <1>4, <2>2, <3>0
    <3> QED BY <3>1 DEF Before
  <2>3. CASE low(t) = low(u)
    <3>0. \A x, y \in 0..255 : 255 - x = 255 - y => x = y
      OBVIOUS
    <3>1. Priority[Base(t)] = Priority[Base(u)]
      BY <1>1, <1>4, <2>3, <3>0
    <3>2. Position(o, t) <= Position(o, u)
      BY <1>3, <1>4, <2>3
    <3>3. /\ Position(o, t) \in Nat /\ Position(o, u) \in Nat
          /\ o[Position(o, t)] = t /\ o[Position(o, u)] = u
      BY <1>0, <1>4, PositionFacts
    <3>4. Position(o, t) < Position(o, u)
      BY <3>2, <3>3
    <3> QED BY <3>1, <3>4 DEF Before
  <2>4. low(t) \in Nat /\ low(u) \in Nat
    BY <1>1, <1>4
  <2> QED BY <2>1, <2>2, <2>3, <2>4
<1>6. \E x \in S : \A u \in S \ {x} : Before(o, x, u)
  BY <1>4, <1>5
<1> QED BY <1>6 DEF Earliest

\* The earliest of some tasks of a graph is one of them.
LEMMA EarliestIn ==
  ASSUME NEW o \in Seq(Task), NEW S \in SUBSET Range(o), S # {}
  PROVE  Earliest(o, S) \in S
BY EarliestFirst

\* Plans do not share tasks, so a task of a plan knows its session.
LEMMA SessionOfTask ==
  ASSUME NEW s \in Session, NEW t, Base(t) \in Range(Plan[s])
  PROVE  SessionOf(t) = s
BY PlanAssumption DEF SessionOf

\* Every task belongs to a session.
LEMMA SessionOfType ==
  ASSUME NEW t \in Task
  PROVE  SessionOf(t) \in Session
<1>1. Base(t) \in Planned
  BY TaskFacts
<1>2. \E s \in Session : Base(t) \in Range(Plan[s])
  BY <1>1, PlanAssumption
<1> QED BY <1>2 DEF SessionOf

-----------------------------------------------------------------------------
(* The inductive invariant.                                                *)

\* A session's graph holds tasks of its own plan, with what they depend on.
GraphsArePlans ==
  \A s \in Session : \A t \in Tasks(s) :
     Base(t) \in Range(Plan[s]) /\ Dependencies(t) \subseteq Tasks(s)

\* What a session has queued or admitted when, and that all of it may run.
WavesAreReady ==
  \A s \in Session :
     /\ queue[s] \cup wave[s] \subseteq Tasks(s)
     /\ queue[s] \cap wave[s] = {}
     /\ pc[s] # "admit" => queue[s] = {}
     /\ pc[s] \in {"planning", "pass", "done", "rejected", "aborted"} => wave[s] = {}
     /\ pc[s] \in {"wave", "fold", "dropping"} => wave[s] # {}
     /\ \A t \in queue[s] \cup wave[s] :
           /\ status[t] = "Pending"
           /\ \A d \in Dependencies(t) : status[d] = "Completed"
     /\ pc[s] = "wave" => \A t \in wave[s] : result[t] # "none"
     /\ pc[s] = "fold" => \A t \in wave[s] : result[t] \in Outcome

\* What the rows of the graphs can say.
RowsAreTrue ==
  /\ status \in [Task -> {"Pending", "Completed", "Failed", "Skipped"}]
  /\ \A t \in Task : status[t] \in {"Completed", "Failed"} => result[t] # "none"
  /\ \A t \in Task : status[t] # "Pending" \/ result[t] # "none" =>
        t \in Tasks(SessionOf(t))
  /\ \A t \in Task : result[t] \in {"replanned", "unmerged"} => t \in Planned
  /\ \A s \in Session : \A t \in Planned :
        Half(t, 1) \in Tasks(s) \/ Half(t, 2) \in Tasks(s) => status[t] \in Terminal
  /\ \A s \in Session : pc[s] = "planning" => order[s] = <<>>

IInv ==
  /\ TypeOK
  /\ GraphsArePlans
  /\ WavesAreReady
  /\ RowsAreTrue
  /\ NoLeakedClaims
  /\ RunsBehindCompleted

\* A task of a graph belongs to that session and to no other.
LEMMA TasksKnowTheirSession ==
  ASSUME IInv, NEW s \in Session, NEW t \in Tasks(s)
  PROVE  /\ SessionOf(t) = s
         /\ t \in Task
         /\ \A r \in Session : t \in Tasks(r) => r = s
<1>1. \A r \in Session : \A u \in Tasks(r) : SessionOf(u) = r
  BY SessionOfTask DEF IInv, GraphsArePlans
<1>2. t \in Task
  BY DEF IInv, TypeOK, Tasks, Range
<1> QED BY <1>1, <1>2

\* Before planning, graphs are empty, no wave runs and nothing is claimed.
LEMMA InitIInv == Init => IInv
<1> SUFFICES ASSUME Init PROVE IInv
  OBVIOUS
<1>1. \A s \in Session : Tasks(s) = {}
  BY DEF Init, Tasks, Range
<1>2. TypeOK
  BY DEF Init, TypeOK, Status
<1>3. GraphsArePlans
  BY <1>1 DEF GraphsArePlans
<1>4. WavesAreReady
  BY DEF Init, WavesAreReady
<1>5. RowsAreTrue
  BY <1>1 DEF Init, RowsAreTrue
<1>6. NoLeakedClaims /\ RunsBehindCompleted
  BY DEF Init, NoLeakedClaims, RunsBehindCompleted
<1> QED BY <1>2, <1>3, <1>4, <1>5, <1>6 DEF IInv

\* Planning fills the graph with the plan, every task of which is pending.
LEMMA PlanningIInv ==
  ASSUME IInv, NEW s \in Session, Planning(s)
  PROVE  IInv'
<1> USE DEF IInv
<1>0. Plan[s] \in Seq(Task)
  <2>1. Plan[s] \in Seq(Planned) /\ Planned \subseteq Task
    BY PlanAssumption DEF Task
  <2> QED BY <2>1
<1>1. \A r \in Session : order'[r] = IF r = s THEN Plan[s] ELSE order[r]
  BY DEF Planning, TypeOK
<1>2. \A r \in Session : Tasks(r)' = IF r = s THEN Range(Plan[s]) ELSE Tasks(r)
  BY <1>1 DEF Tasks
<1>3. Tasks(s) = {}
  BY DEF Planning, RowsAreTrue, Tasks, Range
<1>4. \A r \in Session : Tasks(r) \subseteq Tasks(r)'
  BY <1>2, <1>3
<1>5. TypeOK'
  BY <1>0 DEF Planning, TypeOK
<1>6. GraphsArePlans'
  <2> SUFFICES ASSUME NEW r \in Session, NEW t \in Tasks(r)'
               PROVE  /\ Base(t) \in Range(Plan[r])
                      /\ Dependencies(t) \subseteq Tasks(r)'
    BY DEF GraphsArePlans
  <2>1. CASE r = s
    <3>1. t \in Range(Plan[s]) /\ t \in Planned
      BY <1>2, <2>1, PlanAssumption DEF Range
    <3> QED BY <1>2, <2>1, <3>1, PlanAssumption DEF Base, Dependencies
  <2>2. CASE r # s
    BY <1>2, <2>2 DEF GraphsArePlans
  <2> QED BY <2>1, <2>2
<1>7. WavesAreReady'
  BY <1>4 DEF Planning, WavesAreReady, TypeOK
<1>8. RowsAreTrue'
  <2>1. \A t \in Task : status[t] # "Pending" \/ result[t] # "none" =>
           t \in Tasks(SessionOf(t))'
    <3> SUFFICES ASSUME NEW t \in Task, t \in Tasks(SessionOf(t)),
                        status[t] # "Pending" \/ result[t] # "none"
                 PROVE  t \in Tasks(SessionOf(t))'
      BY DEF RowsAreTrue
    <3>1. CASE SessionOf(t) = s
      BY <1>3, <3>1
    <3>2. CASE SessionOf(t) # s
      BY <3>2 DEF Planning, Tasks, TypeOK
    <3> QED BY <3>1, <3>2
  <2>2. \A t \in Planned : Half(t, 1) \notin Range(Plan[s]) /\ Half(t, 2) \notin Range(Plan[s])
    <3>1. Range(Plan[s]) \subseteq Planned
      BY PlanAssumption DEF Range
    <3>2. \A t \in Planned : t \in Task
      BY DEF Task
    <3> QED BY <3>1, <3>2, PlannedAssumption
  <2>3. \A r \in Session : pc'[r] = "planning" => order'[r] = <<>>
    BY <1>1 DEF Planning, RowsAreTrue, TypeOK
  <2> QED BY <1>2, <2>1, <2>2, <2>3 DEF Planning, RowsAreTrue
<1>9. NoLeakedClaims' /\ RunsBehindCompleted'
  BY DEF Planning, NoLeakedClaims, RunsBehindCompleted
<1> QED BY <1>5, <1>6, <1>7, <1>8, <1>9

\* The steps that only move a session on: a rejected plan, the end of the loop,
\* the join of a wave and a drop at an await.
LEMMA MoveOnIInv ==
  ASSUME IInv, NEW s \in Session,
         PlanRejected(s) \/ Finish(s) \/ Join(s) \/ Abort(s)
  PROVE  IInv'
<1> USE DEF IInv
<1>1. UNCHANGED <<claims, order, status, artifacts, pass, queue, wave, alone, result, deferredTo>>
  BY DEF PlanRejected, Finish, Join, Abort
<1>2. PICK c : /\ c \in {"rejected", "done", "fold", "aborted", "dropping"}
               /\ pc' = [pc EXCEPT ![s] = c]
               /\ pc[s] # "admit"
               /\ c = "fold" => pc[s] = "wave" /\ \A t \in wave[s] : result[t] # "running"
               /\ c \in {"rejected", "done"} => pc[s] \in {"planning", "pass"}
               /\ c = "aborted" => wave[s] = {}
               /\ c = "dropping" => wave[s] # {}
  <2>1. CASE PlanRejected(s)
    BY <2>1 DEF PlanRejected
  <2>2. CASE Finish(s)
    BY <2>2 DEF Finish
  <2>3. CASE Join(s)
    BY <2>3 DEF Join
  <2>4. CASE Abort(s)
    BY <2>4 DEF Abort
  <2> QED BY <2>1, <2>2, <2>3, <2>4
<1>3. \A r \in Session : Tasks(r)' = Tasks(r)
  BY <1>1 DEF Tasks
<1>4. TypeOK'
  BY <1>1, <1>2 DEF TypeOK
<1>5. GraphsArePlans'
  BY <1>3 DEF GraphsArePlans
<1>6. WavesAreReady'
  <2> SUFFICES ASSUME NEW r \in Session PROVE WavesAreReady!(r)'
    BY DEF WavesAreReady
  <2>1. CASE r = s
    <3>1. \A t \in wave[s] : result[t] # "none" /\ result[t] # "running" => result[t] \in Outcome
      BY DEF TypeOK
    <3> QED BY <1>1, <1>2, <1>3, <2>1, <3>1 DEF WavesAreReady, TypeOK
  <2>2. CASE r # s
    BY <1>1, <1>2, <1>3, <2>2 DEF WavesAreReady, TypeOK
  <2> QED BY <2>1, <2>2
<1>7. RowsAreTrue'
  BY <1>1, <1>2 DEF RowsAreTrue, TypeOK, Tasks
<1>8. NoLeakedClaims' /\ RunsBehindCompleted'
  BY <1>1 DEF NoLeakedClaims, RunsBehindCompleted
<1> QED BY <1>4, <1>5, <1>6, <1>7, <1>8

\* A new pass queues ready tasks.
LEMMA BeginPassIInv ==
  ASSUME IInv, NEW s \in Session, BeginPass(s)
  PROVE  IInv'
<1> USE DEF IInv
<1>1. \A r \in Session : Tasks(r)' = Tasks(r)
  BY DEF BeginPass, Tasks
<1>2. queue'[s] \subseteq Ready(Tasks(s), status)
  BY DEF BeginPass, TypeOK, Take
<1>3. \A t \in queue'[s] :
        /\ t \in Tasks(s) /\ t \in Task
        /\ status[t] = "Pending"
        /\ \A d \in Dependencies(t) : status[d] = "Completed"
  BY <1>2, TasksKnowTheirSession DEF Ready, RowsAreTrue
<1>4. TypeOK'
  <2>1. queue'[s] \in SUBSET Task
    BY <1>3
  <2> QED BY <2>1 DEF BeginPass, TypeOK
<1>5. GraphsArePlans'
  BY <1>1 DEF GraphsArePlans
<1>6. WavesAreReady'
  <2> SUFFICES ASSUME NEW r \in Session PROVE WavesAreReady!(r)'
    BY DEF WavesAreReady
  <2>1. CASE r = s
    <3>1. wave'[s] = {} /\ pc'[s] = "admit" /\ status' = status
      BY DEF BeginPass, WavesAreReady, TypeOK
    <3> QED BY <1>1, <1>3, <2>1, <3>1
  <2>2. CASE r # s
    BY <1>1, <2>2 DEF BeginPass, WavesAreReady, TypeOK
  <2> QED BY <2>1, <2>2
<1>7. RowsAreTrue'
  BY DEF BeginPass, RowsAreTrue, TypeOK, Tasks
<1>8. NoLeakedClaims' /\ RunsBehindCompleted'
  BY DEF BeginPass, NoLeakedClaims, RunsBehindCompleted
<1> QED BY <1>4, <1>5, <1>6, <1>7, <1>8

\* The rows of the ledger after a grant.
LEMMA InsertFacts ==
  ASSUME NEW c, NEW t, NEW paths
  PROVE  \A p \in DOMAIN Insert(c, t, paths) :
            \/ Insert(c, t, paths)[p] = t
            \/ p \in DOMAIN c /\ Insert(c, t, paths)[p] = c[p]
BY DEF Insert

\* The rows of the ledger after a release.
LEMMA RetainFacts ==
  ASSUME NEW c, NEW t, NEW S, c \in [DOMAIN c -> S]
  PROVE  /\ Retain(c, t) \in [DOMAIN Retain(c, t) -> S]
         /\ \A p \in DOMAIN Retain(c, t) :
               p \in DOMAIN c /\ c[p] # t /\ Retain(c, t)[p] = c[p]
BY DEF Retain, HeldBy

\* Admission moves one task from the queue to the wave or defers it; what the
\* ledger grants belongs to the admitted task.
LEMMA AdmitIInv ==
  ASSUME IInv, NEW s \in Session, Admit(s)
  PROVE  IInv'
<1> USE DEF IInv
<1> DEFINE t == Earliest(order[s], queue[s])
<1>1. t \in queue[s]
  <2>1. order[s] \in Seq(Task) /\ queue[s] \in SUBSET Range(order[s]) /\ queue[s] # {}
    BY DEF Admit, WavesAreReady, TypeOK, Tasks
  <2> QED BY <2>1, EarliestIn
<1> HIDE DEF t
<1>2. t \in Tasks(s) /\ t \in Task /\ SessionOf(t) = s /\ t \notin wave[s]
  BY <1>1, TasksKnowTheirSession DEF WavesAreReady
<1>3. AskOne(s, t) /\ queue' = [queue EXCEPT ![s] = @ \ {t}]
  BY DEF Admit, t
<1>4. /\ UNCHANGED <<pc, order, status, artifacts, pass, alone, result>>
      /\ pc[s] = "admit"
  BY DEF Admit
<1>5. wave' = [wave EXCEPT ![s] = @ \cup {t}] \/ wave' = wave
  BY <1>3 DEF AskOne
<1>6. \/ claims' = claims
      \/ claims' = Insert(claims, t, Writes(t)) /\ wave' = [wave EXCEPT ![s] = @ \cup {t}]
  BY <1>3 DEF AskOne
<1>7. \A r \in Session : Tasks(r)' = Tasks(r)
  BY <1>4 DEF Tasks
<1>8. TypeOK'
  <2>1. claims' \in [DOMAIN claims' -> Task]
    <3>1. CASE claims' = claims
      BY <3>1 DEF TypeOK
    <3>2. CASE claims' = Insert(claims, t, Writes(t))
      BY <1>2, <3>2 DEF TypeOK, Insert
    <3> QED BY <1>6, <3>1, <3>2
  <2>2. deferredTo' \in [Session -> SUBSET Session]
    <3>1. \A u \in Blockers(t) : SessionOf(u) \in Session
      <4> SUFFICES ASSUME NEW p \in DOMAIN claims PROVE SessionOf(claims[p]) \in Session
        BY DEF Blockers
      <4> QED BY SessionOfType DEF TypeOK
    <3> QED BY <1>3, <3>1 DEF AskOne, TypeOK
  <2>3. wave' \in [Session -> SUBSET Task]
    <3>1. wave[s] \cup {t} \in SUBSET Task
      BY <1>2 DEF TypeOK
    <3> QED BY <1>5, <3>1 DEF TypeOK
  <2>4. queue' \in [Session -> SUBSET Task]
    BY <1>3 DEF TypeOK
  <2> QED BY <1>4, <2>1, <2>2, <2>3, <2>4 DEF TypeOK
<1>9. GraphsArePlans'
  BY <1>7 DEF GraphsArePlans
<1>10. WavesAreReady'
  <2> SUFFICES ASSUME NEW r \in Session PROVE WavesAreReady!(r)'
    BY DEF WavesAreReady
  <2>1. CASE r = s
    <3>1. queue'[s] = queue[s] \ {t} /\ wave'[s] \in {wave[s], wave[s] \cup {t}}
      BY <1>3, <1>5 DEF TypeOK
    <3> QED BY <1>1, <1>4, <1>7, <2>1, <3>1 DEF WavesAreReady
  <2>2. CASE r # s
    <3>1. queue'[r] = queue[r] /\ wave'[r] = wave[r]
      BY <1>3, <1>5, <2>2 DEF TypeOK
    <3> QED BY <1>4, <1>7, <3>1 DEF WavesAreReady
  <2> QED BY <2>1, <2>2
<1>11. RowsAreTrue'
  BY <1>4 DEF RowsAreTrue, Tasks
<1>12. NoLeakedClaims'
  <2> SUFFICES ASSUME NEW p \in DOMAIN claims'
               PROVE  claims'[p] \in wave'[SessionOf(claims'[p])]
    BY DEF NoLeakedClaims
  <2>1. CASE p \in DOMAIN claims /\ claims'[p] = claims[p]
    <3>1. claims[p] \in wave[SessionOf(claims[p])]
      BY <2>1 DEF NoLeakedClaims
    <3>2. SessionOf(claims[p]) \in Session
      BY <2>1, SessionOfType DEF TypeOK
    <3>3. \A r \in Session : wave[r] \subseteq wave'[r]
      BY <1>5 DEF TypeOK
    <3> QED BY <2>1, <3>1, <3>2, <3>3
  <2>2. CASE wave' = [wave EXCEPT ![s] = @ \cup {t}] /\ claims'[p] = t
    BY <1>2, <2>2 DEF TypeOK
  <2> QED BY <1>6, <2>1, <2>2, InsertFacts
<1>13. RunsBehindCompleted'
  BY <1>4 DEF RunsBehindCompleted
<1> QED BY <1>8, <1>9, <1>10, <1>11, <1>12, <1>13

\* The wave starts: every admitted task runs, behind completed dependencies.
LEMMA LaunchIInv ==
  ASSUME IInv, NEW s \in Session, Launch(s)
  PROVE  IInv'
<1> USE DEF IInv
<1>1. /\ UNCHANGED <<claims, order, status, artifacts, pass, queue, wave, deferredTo>>
      /\ pc[s] = "admit" /\ queue[s] = {}
      /\ pc' = [pc EXCEPT ![s] = IF wave[s] = {} THEN "pass" ELSE "wave"]
      /\ alone' = [alone EXCEPT ![s] = Cardinality(wave[s]) = 1]
      /\ result' = [t \in Task |-> IF t \in wave[s] THEN "running" ELSE result[t]]
  BY DEF Launch
<1>2. \A r \in Session : Tasks(r)' = Tasks(r)
  BY <1>1 DEF Tasks
<1>3. \A t \in Task : result'[t] # "none" => t \in wave[s] \/ result[t] # "none"
  BY <1>1
<1>4. \A t \in Task : result[t] # "none" => result'[t] # "none"
  BY <1>1
<1>5. \A t \in wave[s] : t \in Task /\ t \in Tasks(s) /\ SessionOf(t) = s
                           /\ result'[t] # "none"
  BY <1>1, TasksKnowTheirSession DEF WavesAreReady
<1>6. TypeOK'
  <2>1. pc' \in [Session -> {"planning", "pass", "admit", "wave", "fold", "done",
                             "rejected", "dropping", "aborted"}]
    BY <1>1 DEF TypeOK
  <2>2. alone' \in [Session -> BOOLEAN]
    BY <1>1 DEF TypeOK
  <2>3. result' \in [Task -> {"none", "running"} \cup Outcome]
    BY <1>1 DEF TypeOK
  <2> QED BY <1>1, <2>1, <2>2, <2>3 DEF TypeOK
<1>7. GraphsArePlans'
  BY <1>2 DEF GraphsArePlans
<1>8. WavesAreReady'
  <2> SUFFICES ASSUME NEW r \in Session PROVE WavesAreReady!(r)'
    BY DEF WavesAreReady
  <2>1. CASE r = s
    <3>1. pc'[s] = IF wave[s] = {} THEN "pass" ELSE "wave"
      BY <1>1 DEF TypeOK
    <3> QED BY <1>1, <1>2, <1>5, <2>1, <3>1 DEF WavesAreReady
  <2>2. CASE r # s
    <3>1. pc'[r] = pc[r]
      BY <1>1, <2>2 DEF TypeOK
    <3>2. \A t \in wave[r] : result'[t] = result[t]
      BY <1>1, <1>5, <2>2, TasksKnowTheirSession DEF WavesAreReady, TypeOK
    <3> QED BY <1>1, <1>2, <3>1, <3>2 DEF WavesAreReady
  <2> QED BY <2>1, <2>2
<1>9. RowsAreTrue'
  <2>1. \A t \in Task : status[t] # "Pending" \/ result'[t] # "none" =>
           t \in Tasks(SessionOf(t))
    BY <1>3, <1>5 DEF RowsAreTrue
  <2>2. \A r \in Session : pc'[r] = "planning" => order[r] = <<>>
    BY <1>1 DEF RowsAreTrue, TypeOK
  <2>3. \A t \in Task : result'[t] \in {"replanned", "unmerged"} => t \in Planned
    BY <1>1 DEF RowsAreTrue
  <2> QED BY <1>1, <1>4, <2>1, <2>2, <2>3 DEF RowsAreTrue, Tasks
<1>10. NoLeakedClaims'
  BY <1>1 DEF NoLeakedClaims
<1>11. RunsBehindCompleted'
  <2> SUFFICES ASSUME NEW t \in Task, result'[t] # "none", NEW d \in Dependencies(t)
               PROVE  status[d] = "Completed"
    BY <1>1 DEF RunsBehindCompleted
  <2>1. CASE t \in wave[s]
    BY <2>1 DEF WavesAreReady
  <2>2. CASE result[t] # "none"
    BY <2>2 DEF RunsBehindCompleted
  <2> QED BY <1>3, <2>1, <2>2
<1> QED BY <1>6, <1>7, <1>8, <1>9, <1>10, <1>11

\* A running task ends.
LEMMA TaskEndsIInv ==
  ASSUME IInv, NEW s \in Session, NEW t \in wave[s], TaskEnds(s, t)
  PROVE  IInv'
<1> USE DEF IInv
<1>1. UNCHANGED <<claims, pc, order, status, pass, queue, wave, alone, deferredTo>>
  BY DEF TaskEnds
<1>2. PICK o \in Outcome, changed \in SUBSET Artifact :
        /\ result' = [result EXCEPT ![t] = o]
        /\ artifacts' = [artifacts EXCEPT ![t] = changed]
        /\ o \in {"replanned", "unmerged"} => t \in MaySplit
  BY DEF TaskEnds
<1>3. t \in Task /\ t \in Tasks(s) /\ SessionOf(t) = s /\ result[t] = "running"
  BY TasksKnowTheirSession DEF WavesAreReady, TaskEnds
<1>4. \A u \in Task : (result'[u] # "none") <=> (result[u] # "none")
  BY <1>2, <1>3 DEF TypeOK, Outcome
<1>5. TypeOK'
  BY <1>1, <1>2 DEF TypeOK
<1>6. GraphsArePlans'
  BY <1>1 DEF GraphsArePlans, Tasks
<1>7. WavesAreReady'
  <2>1. \A r \in Session : \A u \in wave[r] :
           u \in Task /\ (result[u] \in Outcome => result'[u] \in Outcome)
    BY <1>2 DEF TypeOK
  <2> QED BY <1>1, <1>4, <2>1 DEF WavesAreReady, Tasks
<1>8. RowsAreTrue'
  <2>1. \A u \in Task : result'[u] \in {"replanned", "unmerged"} => u \in Planned
    BY <1>2, SplitAssumption DEF RowsAreTrue, TypeOK
  <2> QED BY <1>1, <1>4, <2>1 DEF RowsAreTrue, Tasks
<1>9. NoLeakedClaims' /\ RunsBehindCompleted'
  BY <1>1, <1>4 DEF NoLeakedClaims, RunsBehindCompleted
<1> QED BY <1>5, <1>6, <1>7, <1>8, <1>9

\* The claims guard releases one task of an abandoned wave.
LEMMA DropClaimsIInv ==
  ASSUME IInv, NEW s \in Session, DropClaims(s)
  PROVE  IInv'
<1> USE DEF IInv
<1> DEFINE t == Earliest(order[s], wave[s])
<1>1. t \in wave[s]
  <2>1. order[s] \in Seq(Task) /\ wave[s] \in SUBSET Range(order[s]) /\ wave[s] # {}
    BY DEF DropClaims, WavesAreReady, TypeOK, Tasks
  <2> QED BY <2>1, EarliestIn
<1> HIDE DEF t
<1>2. t \in Tasks(s) /\ t \in Task /\ SessionOf(t) = s
  BY <1>1, TasksKnowTheirSession DEF WavesAreReady
<1>3. /\ UNCHANGED <<order, status, artifacts, pass, queue, alone, result, deferredTo>>
      /\ claims' = Retain(claims, t)
      /\ wave' = [wave EXCEPT ![s] = @ \ {t}]
      /\ pc' = IF wave[s] = {t} THEN [pc EXCEPT ![s] = "aborted"] ELSE pc
      /\ pc[s] = "dropping"
  BY DEF DropClaims, t
<1>4. \A r \in Session : Tasks(r)' = Tasks(r)
  BY <1>3 DEF Tasks
<1>5. \A r \in Session : wave'[r] = wave[r] \ {t}
  BY <1>1, <1>2, <1>3, TasksKnowTheirSession DEF WavesAreReady, TypeOK
<1>0. /\ claims' \in [DOMAIN claims' -> Task]
      /\ \A p \in DOMAIN claims' :
            p \in DOMAIN claims /\ claims[p] # t /\ claims'[p] = claims[p]
  <2>1. claims \in [DOMAIN claims -> Task]
    BY DEF TypeOK
  <2> QED BY <1>3, <2>1, RetainFacts
<1>6. TypeOK'
  <2>1. claims' \in [DOMAIN claims' -> Task]
    BY <1>0
  <2> QED BY <1>3, <2>1 DEF TypeOK
<1>7. GraphsArePlans'
  BY <1>4 DEF GraphsArePlans
<1>8. WavesAreReady'
  <2> SUFFICES ASSUME NEW r \in Session PROVE WavesAreReady!(r)'
    BY DEF WavesAreReady
  <2>1. CASE r = s
    <3>1. pc'[s] = IF wave[s] = {t} THEN "aborted" ELSE "dropping"
      BY <1>3 DEF TypeOK
    <3> QED BY <1>1, <1>3, <1>4, <1>5, <2>1, <3>1 DEF WavesAreReady
  <2>2. CASE r # s
    <3>1. pc'[r] = pc[r] /\ wave'[r] = wave[r]
      BY <1>3, <2>2 DEF TypeOK
    <3> QED BY <1>3, <1>4, <3>1 DEF WavesAreReady
  <2> QED BY <2>1, <2>2
<1>9. RowsAreTrue'
  BY <1>3 DEF RowsAreTrue, Tasks, TypeOK
<1>10. NoLeakedClaims'
  <2> SUFFICES ASSUME NEW p \in DOMAIN claims'
               PROVE  claims'[p] \in wave'[SessionOf(claims'[p])]
    BY DEF NoLeakedClaims
  <2>1. p \in DOMAIN claims /\ claims'[p] = claims[p] /\ claims[p] # t
    BY <1>0
  <2>2. claims[p] \in wave[SessionOf(claims[p])] /\ SessionOf(claims[p]) \in Session
    BY <2>1, SessionOfType DEF NoLeakedClaims, TypeOK
  <2> QED BY <1>5, <2>1, <2>2
<1>11. RunsBehindCompleted'
  BY <1>3 DEF RunsBehindCompleted
<1> QED BY <1>6, <1>7, <1>8, <1>9, <1>10, <1>11

-----------------------------------------------------------------------------
(* The fold.                                                               *)

\* What cascade_skip marks, for any graph: tasks that are not terminal and
\* depend on the failed task or on another marked one, and all of those.
LEMMA CascadeFacts ==
  ASSUME NEW tasks, NEW st, NEW failed \in tasks, st[failed] \in Terminal
  PROVE  LET L == CascadeSkip(tasks, st, failed)
         IN  /\ \A u \in L : u \in tasks /\ st[u] \notin Terminal
             /\ \A u \in L : \E d \in Dependencies(u) : d = failed \/ d \in L
             /\ \A u \in tasks : \A d \in Dependencies(u) :
                   st[u] \notin Terminal /\ (d = failed \/ d \in L) => u \in L
<1> DEFINE L    == CascadeSkip(tasks, st, failed)
           open == {t \in tasks : st[t] \notin Terminal}
<1>1. L = {t \in open : \A S \in SUBSET tasks : CascadeClosed(open, failed, S) => t \in S}
  BY DEF CascadeSkip
<1> HIDE DEF L
<1>2. \A u \in open : \A d \in Dependencies(u) : d = failed \/ d \in L => u \in L
  <2> SUFFICES ASSUME NEW u \in open, NEW d \in Dependencies(u), d = failed \/ d \in L,
                      NEW S \in SUBSET tasks, CascadeClosed(open, failed, S)
               PROVE  u \in S
    BY <1>1
  <2>1. d \in S
    BY <1>1 DEF CascadeClosed
  <2> QED BY <2>1 DEF CascadeClosed
<1> DEFINE F == {failed} \cup {u \in L : \E d \in Dependencies(u) : d = failed \/ d \in L}
<1>3. CascadeClosed(open, failed, F)
  <2>1. ASSUME NEW u \in open, Dependencies(u) \cap F # {} PROVE u \in F
    <3>1. PICK d \in Dependencies(u) : d = failed \/ d \in L
      BY <2>1
    <3>2. u \in L
      BY <1>2, <3>1
    <3> QED BY <3>1, <3>2
  <2> QED BY <2>1 DEF CascadeClosed
<1>4. F \in SUBSET tasks
  BY <1>1
<1>5. \A u \in L : u \in F
  BY <1>1, <1>3, <1>4
<1>6. \A u \in L : u # failed
  BY <1>1
<1> QED BY <1>1, <1>2, <1>5, <1>6 DEF L

\* The tasks of a graph that re-planning added two to.
LEMMA AppendRange ==
  ASSUME NEW T, NEW o \in Seq(T), NEW a \in T, NEW b \in T
  PROVE  o \o <<a, b>> \in Seq(T) /\ Range(o \o <<a, b>>) = Range(o) \cup {a, b}
<1> DEFINE q == o \o <<a, b>>
<1>1. /\ q \in Seq(T) /\ Len(q) = Len(o) + 2 /\ Len(o) \in Nat
      /\ \A i \in 1..Len(o) : q[i] = o[i]
      /\ q[Len(o) + 1] = a /\ q[Len(o) + 2] = b
  OBVIOUS
<1> HIDE DEF q
<1>2. DOMAIN q = 1..(Len(o) + 2) /\ DOMAIN o = 1..Len(o)
  BY <1>1
<1>3. \A i \in DOMAIN q : i \in DOMAIN o \/ i = Len(o) + 1 \/ i = Len(o) + 2
  BY <1>1, <1>2
<1>4. Len(o) + 1 \in DOMAIN q /\ Len(o) + 2 \in DOMAIN q /\ \A i \in DOMAIN o : i \in DOMAIN q
  BY <1>1, <1>2
<1>5. Range(q) = Range(o) \cup {a, b}
  BY <1>1, <1>2, <1>3, <1>4 DEF Range
<1> QED BY <1>1, <1>5 DEF q

\* Task t's result is the one that is folded, and what that does besides its row.
FoldOf(s, t) ==
  /\ t \in Tasks(s) /\ t \in Task /\ SessionOf(t) = s
  /\ status[t] = "Pending" /\ result[t] \in Outcome
  /\ \A d \in Dependencies(t) : status[d] = "Completed"
  /\ FoldRow(s, t)
  /\ claims' = Retain(claims, t)
  /\ wave' = [wave EXCEPT ![s] = @ \ {t}]
  /\ pc' = IF wave[s] = {t} THEN [pc EXCEPT ![s] = "pass"] ELSE pc
  /\ pc[s] = "fold"
  /\ UNCHANGED <<artifacts, pass, queue, alone, result, deferredTo>>

\* What it does to the rows: t's row gets its terminal status and pending rows
\* behind unfinished ones may be skipped; a row that is not pending stays.
RowsAfterFold(s, t) ==
  /\ status' \in [Task -> {"Pending", "Completed", "Failed", "Skipped"}]
  /\ status'[t] = RowStatus(t) /\ RowStatus(t) \in {"Completed", "Failed", "Skipped"}
  /\ \A u \in Task : status[u] # "Pending" => status'[u] = status[u]
  /\ \A u \in Task \ {t} : status'[u] # status[u] =>
        /\ u \in Tasks(s) /\ status'[u] = "Skipped"
        /\ \E d \in Dependencies(u) : status[d] # "Completed"
  /\ \/ order' = order
     \/ /\ t \in Planned /\ result[t] \in {"replanned", "unmerged"}
        /\ order' = [order EXCEPT ![s] = @ \o <<Half(t, 1), Half(t, 2)>>]

\* What it does to the graphs: the session's graph may grow by t's halves.
GraphAfterFold(s, t) ==
  /\ order' \in [Session -> Seq(Task)]
  /\ \A r \in Session : Tasks(r) \subseteq Tasks(r)'
  /\ \A r \in Session : r # s => Tasks(r)' = Tasks(r) /\ order'[r] = order[r]
  /\ \A u \in Tasks(s)' : \/ u \in Tasks(s)
                          \/ t \in Planned /\ u \in {Half(t, 1), Half(t, 2)}
  /\ order' = order => Tasks(s)' = Tasks(s)
  /\ order' # order =>
        t \in Planned /\ Tasks(s)' = Tasks(s) \cup {Half(t, 1), Half(t, 2)}

\* There is a task whose result is folded next.
LEMMA FoldFacts ==
  ASSUME IInv, NEW s \in Session, Fold(s)
  PROVE  \E t \in wave[s] : FoldOf(s, t)
<1> USE DEF IInv, FoldOf
<1> DEFINE t == Earliest(order[s], wave[s])
<1>1. t \in wave[s]
  <2>1. order[s] \in Seq(Task) /\ wave[s] \in SUBSET Range(order[s]) /\ wave[s] # {}
    BY DEF Fold, WavesAreReady, TypeOK, Tasks
  <2> QED BY <2>1, EarliestIn
<1>2. /\ FoldRow(s, t) /\ claims' = Retain(claims, t)
      /\ wave' = [wave EXCEPT ![s] = @ \ {t}]
      /\ pc' = IF wave[s] = {t} THEN [pc EXCEPT ![s] = "pass"] ELSE pc
      /\ pc[s] = "fold"
      /\ UNCHANGED <<artifacts, pass, queue, alone, result, deferredTo>>
  BY DEF Fold
<1> HIDE DEF t
<1>3. t \in Tasks(s) /\ t \in Task /\ SessionOf(t) = s
  BY <1>1, TasksKnowTheirSession DEF WavesAreReady
<1>4. /\ status[t] = "Pending" /\ result[t] \in Outcome
      /\ \A d \in Dependencies(t) : status[d] = "Completed"
  BY <1>1, <1>2 DEF WavesAreReady
<1> QED BY <1>1, <1>2, <1>3, <1>4

\* The rows after a fold, with the cascade and without it.
LEMMA FoldRowFacts ==
  ASSUME IInv, NEW s \in Session, NEW t \in Tasks(s), t \in Task, FoldRow(s, t),
         status[t] = "Pending", result[t] \in Outcome
  PROVE  RowsAfterFold(s, t)
<1> USE DEF IInv, RowsAfterFold
<1> DEFINE row  == [status EXCEPT ![t] = RowStatus(t)]
           skip == CascadeSkip(Tasks(s), row, t)
<1>1. RowStatus(t) \in {"Completed", "Failed", "Skipped"}
  BY DEF RowStatus
<1>2. /\ row \in [Task -> {"Pending", "Completed", "Failed", "Skipped"}]
      /\ row[t] = RowStatus(t)
      /\ \A u \in Task \ {t} : row[u] = status[u]
  BY <1>1 DEF RowsAreTrue
<1>3. /\ \/ status' = row
         \/ status' = [u \in Task |-> IF u \in skip THEN "Skipped" ELSE row[u]]
      /\ \/ order' = order
         \/ /\ result[t] \in {"replanned", "unmerged"}
            /\ order' = [order EXCEPT ![s] = @ \o <<Half(t, 1), Half(t, 2)>>]
  BY DEF FoldRow
<1> HIDE DEF row
<1>4. /\ \A u \in skip : u \in Tasks(s) /\ row[u] \notin Terminal
      /\ \A u \in skip : \E d \in Dependencies(u) : d = t \/ d \in skip
  <2>1. row[t] \in Terminal
    BY <1>1, <1>2 DEF Terminal
  <2> QED BY <2>1, CascadeFacts
<1> HIDE DEF skip
<1>5. \A u \in skip : /\ u \in Tasks(s) /\ u \in Task /\ u # t
                      /\ status[u] = "Pending"
                      /\ \E d \in Dependencies(u) : status[d] # "Completed"
  <2> SUFFICES ASSUME NEW u \in skip
               PROVE  /\ u \in Tasks(s) /\ u \in Task /\ u # t
                      /\ status[u] = "Pending"
                      /\ \E d \in Dependencies(u) : status[d] # "Completed"
    OBVIOUS
  <2>1. \A x \in skip : x \in Tasks(s) /\ x \in Task /\ x # t /\ status[x] = "Pending"
    BY <1>1, <1>2, <1>4, TasksKnowTheirSession DEF Terminal, RowsAreTrue
  <2>2. PICK d \in Dependencies(u) : d = t \/ d \in skip
    BY <1>4
  <2>3. status[d] # "Completed"
    BY <2>1, <2>2
  <2> QED BY <2>1, <2>2, <2>3
<1>6. CASE status' = row
  BY <1>1, <1>2, <1>3, <1>6 DEF RowsAreTrue
<1>7. CASE status' = [u \in Task |-> IF u \in skip THEN "Skipped" ELSE row[u]]
  <2>1. status' \in [Task -> {"Pending", "Completed", "Failed", "Skipped"}]
    BY <1>2, <1>7
  <2>2. status'[t] = RowStatus(t)
    BY <1>2, <1>5, <1>7
  <2>3. \A u \in Task : status[u] # "Pending" => status'[u] = status[u]
    BY <1>2, <1>5, <1>7
  <2>4. \A u \in Task \ {t} : status'[u] # status[u] =>
               /\ u \in Tasks(s) /\ status'[u] = "Skipped"
               /\ \E d \in Dependencies(u) : status[d] # "Completed"
    BY <1>2, <1>5, <1>7
  <2> QED BY <1>1, <1>3, <2>1, <2>2, <2>3, <2>4 DEF RowsAreTrue
<1> QED BY <1>3, <1>6, <1>7

\* The graphs after a fold.
LEMMA FoldGraph ==
  ASSUME IInv, NEW s \in Session, NEW t \in Tasks(s), t \in Task,
         \/ order' = order
         \/ /\ t \in Planned
            /\ order' = [order EXCEPT ![s] = @ \o <<Half(t, 1), Half(t, 2)>>]
  PROVE  GraphAfterFold(s, t)
<1> USE DEF IInv, GraphAfterFold
<1>1. CASE order' = order
  BY <1>1 DEF Tasks, TypeOK
<1>2. CASE /\ t \in Planned
           /\ order' = [order EXCEPT ![s] = @ \o <<Half(t, 1), Half(t, 2)>>]
  <2>1. order[s] \in Seq(Task) /\ Half(t, 1) \in Task /\ Half(t, 2) \in Task
    BY <1>2, HalfFacts DEF TypeOK
  <2>2. /\ order'[s] \in Seq(Task)
        /\ Range(order'[s]) = Range(order[s]) \cup {Half(t, 1), Half(t, 2)}
    BY <1>2, <2>1, AppendRange DEF TypeOK
  <2>3. \A r \in Session : r # s => order'[r] = order[r]
    BY <1>2 DEF TypeOK
  <2>4. order' \in [Session -> Seq(Task)]
    <3>1. order[s] \o <<Half(t, 1), Half(t, 2)>> \in Seq(Task)
      BY <2>1, AppendRange
    <3> QED BY <1>2, <3>1 DEF TypeOK
  <2> QED BY <1>2, <2>2, <2>3, <2>4 DEF Tasks
<1> QED BY <1>1, <1>2

\* A fold keeps the rest of the wave runnable: what it skips stood behind a task
\* that had not completed, and no task of a wave does.
LEMMA FoldIInv ==
  ASSUME IInv, NEW s \in Session, Fold(s)
  PROVE  IInv'
<1> USE DEF IInv, FoldOf, RowsAfterFold, GraphAfterFold
<1>1. PICK t \in wave[s] : FoldOf(s, t)
  BY FoldFacts
<1>2. RowsAfterFold(s, t)
  BY <1>1, FoldRowFacts
<1>3. GraphAfterFold(s, t)
  BY <1>1, <1>2, FoldGraph
<1>4. \A r \in Session : wave'[r] = wave[r] \ {t}
  BY <1>1, TasksKnowTheirSession DEF WavesAreReady, TypeOK
<1>5. /\ claims' \in [DOMAIN claims' -> Task]
      /\ \A p \in DOMAIN claims' :
            p \in DOMAIN claims /\ claims[p] # t /\ claims'[p] = claims[p]
  <2>1. claims \in [DOMAIN claims -> Task]
    BY DEF TypeOK
  <2> QED BY <1>1, <2>1, RetainFacts
<1>6. \A u \in Task : status[u] = "Completed" => status'[u] = "Completed"
  BY <1>2
<1>7. TypeOK'
  <2>1. status' \in [Task -> Status]
    BY <1>2 DEF Status
  <2>2. pc' \in [Session -> {"planning", "pass", "admit", "wave", "fold", "done",
                             "rejected", "dropping", "aborted"}]
    BY <1>1 DEF TypeOK
  <2>3. wave' \in [Session -> SUBSET Task]
    BY <1>1 DEF TypeOK
  <2> QED BY <1>1, <1>3, <1>5, <2>1, <2>2, <2>3 DEF TypeOK
<1>8. GraphsArePlans'
  <2> SUFFICES ASSUME NEW r \in Session, NEW u \in Tasks(r)'
               PROVE  /\ Base(u) \in Range(Plan[r])
                      /\ Dependencies(u) \subseteq Tasks(r)'
    BY DEF GraphsArePlans
  <2>1. CASE u \in Tasks(r)
    BY <1>3, <2>1 DEF GraphsArePlans
  <2>2. CASE r = s /\ u \notin Tasks(s)
    <3>1. t \in Planned /\ u \in {Half(t, 1), Half(t, 2)} /\ order' # order
      BY <1>3, <2>2
    <3>2. Base(t) = t /\ Base(u) = t
      BY <3>1, HalfFacts DEF Base
    <3>3. Dependencies(u) \subseteq Dependencies(t) \cup {Half(t, 1)}
      BY <3>1, HalfFacts
    <3>4. Dependencies(t) \subseteq Tasks(s) /\ Base(t) \in Range(Plan[s])
      BY <1>1 DEF GraphsArePlans
    <3> QED BY <1>3, <2>2, <3>1, <3>2, <3>3, <3>4
  <2> QED BY <1>3, <2>1, <2>2
<1>9. WavesAreReady'
  <2>1. ASSUME NEW r \in Session, NEW u \in queue[r] \cup wave[r], u # t
        PROVE  /\ status'[u] = "Pending"
               /\ \A d \in Dependencies(u) : status'[d] = "Completed"
    <3>1. /\ u \in Task /\ status[u] = "Pending"
          /\ \A d \in Dependencies(u) : status[d] = "Completed"
      BY <2>1, TasksKnowTheirSession DEF WavesAreReady
    <3>2. Dependencies(u) \subseteq Task
      BY <3>1, TaskFacts
    <3> QED BY <1>2, <1>6, <2>1, <3>1, <3>2
  <2>2. \A r \in Session : t \notin queue[r]
    BY <1>1, TasksKnowTheirSession DEF WavesAreReady
  <2> SUFFICES ASSUME NEW r \in Session PROVE WavesAreReady!(r)'
    BY DEF WavesAreReady
  <2>3. CASE r = s
    <3>1. pc'[s] = IF wave[s] = {t} THEN "pass" ELSE "fold"
      BY <1>1 DEF TypeOK
    <3>2. queue[s] = {}
      BY <1>1 DEF WavesAreReady
    <3>3. (wave[s] \ {t} = {}) <=> (wave[s] = {t})
      BY <1>1
    <3> QED BY <1>1, <1>3, <1>4, <2>1, <2>3, <3>1, <3>2, <3>3 DEF WavesAreReady
  <2>4. CASE r # s
    <3>1. pc'[r] = pc[r]
      BY <1>1, <2>4 DEF TypeOK
    <3>2. t \notin wave[r] /\ t \notin queue[r]
      BY <1>1, <2>2, <2>4, TasksKnowTheirSession DEF WavesAreReady
    <3> QED BY <1>1, <1>3, <1>4, <2>1, <3>1, <3>2 DEF WavesAreReady
  <2> QED BY <2>3, <2>4
<1>10. RowsAreTrue'
  <2>1. \A u \in Task : status'[u] \in {"Completed", "Failed"} => result'[u] # "none"
    BY <1>1, <1>2 DEF RowsAreTrue, Outcome
  <2>2. ASSUME NEW u \in Task, status'[u] # "Pending" \/ result'[u] # "none"
        PROVE  u \in Tasks(SessionOf(u))'
    <3>1. u \in Tasks(s) \/ status[u] # "Pending" \/ result[u] # "none"
      BY <1>1, <1>2, <2>2
    <3>2. u \in Tasks(SessionOf(u)) /\ SessionOf(u) \in Session
      BY <3>1, TasksKnowTheirSession, SessionOfType DEF RowsAreTrue
    <3>3. Tasks(SessionOf(u)) \subseteq Tasks(SessionOf(u))'
      BY <1>3, <3>2 DEF SessionOf, Tasks
    <3> QED BY <3>2, <3>3
  <2>3. ASSUME NEW r \in Session, NEW u \in Planned,
               Half(u, 1) \in Tasks(r)' \/ Half(u, 2) \in Tasks(r)'
        PROVE  status'[u] \in Terminal
    <3>1. u \in Task
      BY DEF Task
    <3>2. CASE Half(u, 1) \in Tasks(r) \/ Half(u, 2) \in Tasks(r)
      <4>1. status[u] # "Pending" /\ status[u] \in Terminal
        BY <3>2 DEF RowsAreTrue, Terminal
      <4> QED BY <1>2, <3>1, <4>1
    <3>3. CASE u = t
      BY <1>2, <3>3 DEF Terminal
    <3>4. \A i, j \in {1, 2} : Half(u, i) = Half(t, j) => u = t
      BY DEF Half
    <3> QED BY <1>3, <2>3, <3>2, <3>3, <3>4
  <2>4. \A r \in Session : pc'[r] = "planning" => order'[r] = <<>>
    <3> SUFFICES ASSUME NEW r \in Session, pc'[r] = "planning" PROVE order'[r] = <<>>
      OBVIOUS
    <3>1. r # s /\ pc[r] = "planning"
      BY <1>1 DEF TypeOK
    <3> QED BY <1>3, <3>1 DEF RowsAreTrue
  <2> QED BY <1>1, <1>2, <2>1, <2>2, <2>3, <2>4 DEF RowsAreTrue
<1>11. NoLeakedClaims'
  <2> SUFFICES ASSUME NEW p \in DOMAIN claims'
               PROVE  claims'[p] \in wave'[SessionOf(claims'[p])]
    BY DEF NoLeakedClaims
  <2>1. p \in DOMAIN claims /\ claims'[p] = claims[p] /\ claims[p] # t
    BY <1>5
  <2>2. claims[p] \in wave[SessionOf(claims[p])] /\ SessionOf(claims[p]) \in Session
    BY <2>1, SessionOfType DEF NoLeakedClaims, TypeOK
  <2> QED BY <1>4, <2>1, <2>2
<1>12. RunsBehindCompleted'
  <2> SUFFICES ASSUME NEW u \in Task, result[u] # "none", NEW d \in Dependencies(u)
               PROVE  status'[d] = "Completed"
    BY <1>1 DEF RunsBehindCompleted
  <2>1. status[d] = "Completed" /\ d \in Task
    BY TaskFacts DEF RunsBehindCompleted
  <2> QED BY <1>6, <2>1
<1> QED BY <1>7, <1>8, <1>9, <1>10, <1>11, <1>12

\* The invariant is inductive.
LEMMA StepIInv ==
  ASSUME IInv, [Next]_vars
  PROVE  IInv'
<1>1. CASE UNCHANGED vars
  BY <1>1 DEF vars, IInv, TypeOK, GraphsArePlans, WavesAreReady, RowsAreTrue,
              NoLeakedClaims, RunsBehindCompleted, Tasks
<1>2. CASE Next
  BY <1>2, PlanningIInv, MoveOnIInv, BeginPassIInv, AdmitIInv, LaunchIInv,
     TaskEndsIInv, DropClaimsIInv, FoldIInv DEF Next, Step
<1> QED BY <1>1, <1>2

\* The inductive invariant of a session: graphs are those of the plans, waves
\* were ready when they were admitted, rows tell the truth, and claims and
\* dependencies hold.
THEOREM Invariance == Spec => []IInv
BY InitIInv, StepIInv, PTL DEF Spec

-----------------------------------------------------------------------------
(* The cascade.                                                            *)

\* A task with a blocked dependency, or skipped without having been replaced, has
\* not run, and a task in a wave is neither.
LEMMA RunnersAreNotBlocked ==
  ASSUME IInv, NEW s \in Session, NEW t \in Task, NEW d \in Dependencies(t),
         result[t] # "none"
  PROVE  ~Blocks(s, d)
BY DEF IInv, RunsBehindCompleted, Blocks

\* The steps that leave the graphs alone change the results of pending tasks only.
LEMMA QuietStepCascade ==
  ASSUME IInv, CascadeIsExact, UNCHANGED <<status, order>>,
         \A t \in Task : status[t] = "Skipped" => result'[t] = result[t]
  PROVE  CascadeIsExact'
<1>1. \A s \in Session : Tasks(s)' = Tasks(s)
  BY DEF Tasks
<1>2. \A s \in Session : \A d \in Task : Blocks(s, d)' = Blocks(s, d)
  BY <1>1 DEF Blocks
<1>3. \A s \in Session : \A t \in Tasks(s) : t \in Task /\ Dependencies(t) \subseteq Task
  BY TasksKnowTheirSession, TaskFacts
<1> QED BY <1>1, <1>2, <1>3 DEF CascadeIsExact

\* A planned graph has nothing skipped and nothing blocked.
LEMMA PlanningCascade ==
  ASSUME IInv, CascadeIsExact, NEW s \in Session, Planning(s)
  PROVE  CascadeIsExact'
<1> USE DEF IInv
<1>1. Tasks(s) = {}
  BY DEF Planning, RowsAreTrue, Tasks, Range
<1>2. \A r \in Session : Tasks(r)' = IF r = s THEN Range(Plan[s]) ELSE Tasks(r)
  BY DEF Planning, TypeOK, Tasks
<1>3. UNCHANGED <<status, result>>
  BY DEF Planning
<1>4. \A t \in Range(Plan[s]) : status[t] = "Pending" /\ Dependencies(t) \subseteq Range(Plan[s])
  <2> SUFFICES ASSUME NEW t \in Range(Plan[s])
               PROVE  status[t] = "Pending" /\ Dependencies(t) \subseteq Range(Plan[s])
    OBVIOUS
  <2>1. t \in Planned /\ Base(t) = t /\ t \in Task
    BY PlanAssumption DEF Range, Base, Task
  <2>2. SessionOf(t) = s
    BY <2>1, SessionOfTask
  <2> QED BY <1>1, <2>1, <2>2, PlanAssumption DEF RowsAreTrue, Dependencies
<1>5. \A r \in Session : r # s => \A d : Blocks(r, d)' = Blocks(r, d)
  BY <1>2, <1>3 DEF Blocks
<1>6. \A d \in Range(Plan[s]) : ~Blocks(s, d)'
  BY <1>3, <1>4 DEF Blocks
<1> QED BY <1>2, <1>3, <1>4, <1>5, <1>6 DEF CascadeIsExact

\* A fold without the cascade: the folded task blocks nobody, because it completed
\* or because its halves replace it.
LEMMA FoldWithoutCascade ==
  ASSUME IInv, CascadeIsExact, NEW s \in Session, NEW t \in wave[s], FoldOf(s, t),
         RowsAfterFold(s, t), GraphAfterFold(s, t),
         status' = [status EXCEPT ![t] = RowStatus(t)],
         \/ result[t] \in {"completed", "replanned"} /\ order' = order
         \/ result[t] \in {"replanned", "unmerged"} /\ order' # order
  PROVE  CascadeIsExact'
<1> USE DEF IInv, FoldOf, RowsAfterFold, GraphAfterFold
<1>1. \A u \in Task : status'[u] = IF u = t THEN RowStatus(t) ELSE status[u]
  BY DEF RowsAreTrue
<1>2. \A i \in {1, 2} : \A d : Half(d, 1) = Half(t, i) => d = t
  BY DEF Half
<1>3. ~Blocks(s, t)'
  <2>1. CASE result[t] = "completed"
    BY <2>1 DEF Blocks, RowStatus
  <2>2. CASE result[t] = "replanned"
    BY <2>2 DEF Blocks, RowStatus
  <2>3. CASE result[t] = "unmerged"
    BY <2>3 DEF Blocks, RowStatus
  <2> QED BY <2>1, <2>2, <2>3
<1>4. ~Blocks(s, t)
  BY DEF Blocks
<1>5. \A d \in Task \ {t} : Blocks(s, d)' = Blocks(s, d)
  <2> SUFFICES ASSUME NEW d \in Task, d # t PROVE Blocks(s, d)' = Blocks(s, d)
    OBVIOUS
  <2>1. (Half(d, 1) \in Tasks(s)') <=> (Half(d, 1) \in Tasks(s))
    BY <1>2
  <2> QED BY <1>1, <2>1 DEF Blocks
<1>6. \A d \in Task : Blocks(s, d)' = Blocks(s, d)
  BY <1>3, <1>4, <1>5 DEF Blocks
<1>7. \A r \in Session : r # s => \A d \in Tasks(r) : status'[d] = status[d] /\ Blocks(r, d)' = Blocks(r, d)
  <2>1. \A r \in Session : r # s => \A d \in Tasks(r) : d \in Task /\ d # t
    BY TasksKnowTheirSession
  <2> QED BY <1>1, <2>1 DEF Blocks
<1> SUFFICES ASSUME NEW r \in Session, NEW u \in Tasks(r)'
             PROVE  (status'[u] = "Skipped" /\ result'[u] # "replanned")
                      <=> \E d \in Dependencies(u) : Blocks(r, d)'
  BY DEF CascadeIsExact
<1>8. CASE r # s
  <2>1. u \in Tasks(r) /\ Dependencies(u) \subseteq Tasks(r)
    BY <1>8 DEF GraphsArePlans
  <2> QED BY <1>7, <1>8, <2>1 DEF CascadeIsExact
<1>9. CASE r = s /\ u \in Tasks(s) /\ u # t
  <2>1. u \in Task /\ Dependencies(u) \subseteq Task
    BY <1>9, TasksKnowTheirSession, TaskFacts
  <2> QED BY <1>1, <1>6, <1>9, <2>1 DEF CascadeIsExact
<1>10. CASE r = s /\ u = t
  <2>1. ~(RowStatus(t) = "Skipped" /\ result[t] # "replanned")
    BY DEF RowStatus
  <2>2. \A d \in Dependencies(t) : d \in Task /\ ~Blocks(s, d)
    BY TaskFacts DEF Blocks
  <2> QED BY <1>1, <1>6, <1>10, <2>1, <2>2
<1>11. CASE r = s /\ u \notin Tasks(s)
  <2>1. t \in Planned /\ u \in {Half(t, 1), Half(t, 2)}
    BY <1>11
  <2>2. /\ u \in Task /\ u # t /\ Base(u) = t /\ Half(t, 1) \in Task
        /\ Dependencies(u) = Dependencies(t) \/ Dependencies(u) = {Half(t, 1)}
    BY <2>1, HalfFacts
  <2>3. \A h \in {Half(t, 1), Half(t, 2)} : h \in Task /\ status[h] = "Pending"
    <3>1. \A h \in {Half(t, 1), Half(t, 2)} : h \in Task /\ h \notin Tasks(s) /\ SessionOf(h) = s
      <4>1. status[t] \notin Terminal
        BY DEF Terminal
      <4>2. Half(t, 1) \notin Tasks(s) /\ Half(t, 2) \notin Tasks(s)
        BY <2>1, <4>1 DEF RowsAreTrue
      <4>3. Base(t) = t /\ Base(t) \in Range(Plan[s])
        BY <2>1 DEF GraphsArePlans, Base
      <4> QED BY <2>1, <4>2, <4>3, HalfFacts, SessionOfTask
    <3> QED BY <3>1 DEF RowsAreTrue
  <2>4. \A d \in Dependencies(u) : ~Blocks(s, d) /\ d \in Task
    <3>1. \A d \in Dependencies(t) : d \in Task /\ ~Blocks(s, d)
      BY TaskFacts DEF Blocks
    <3>2. ~Blocks(s, Half(t, 1))
      BY <2>3 DEF Blocks
    <3> QED BY <2>2, <3>1, <3>2
  <2>5. status'[u] = "Pending"
    BY <1>1, <2>1, <2>2, <2>3
  <2> QED BY <1>6, <1>11, <2>4, <2>5
<1> QED BY <1>8, <1>9, <1>10, <1>11

\* A fold with the cascade: what it skips is what the failed task now blocks.
LEMMA FoldWithCascade ==
  ASSUME IInv, CascadeIsExact, NEW s \in Session, NEW t \in wave[s], FoldOf(s, t),
         NEW row, row = [status EXCEPT ![t] = RowStatus(t)],
         NEW L, L = CascadeSkip(Tasks(s), row, t),
         \A u \in Task : status'[u] = IF u \in L THEN "Skipped" ELSE row[u],
         result[t] \in {"failed", "unmerged"}, order' = order
  PROVE  CascadeIsExact'
<1> USE DEF IInv
<1>1. /\ RowStatus(t) = "Failed" /\ row[t] = "Failed"
      /\ \A u \in Task : u # t => row[u] = status[u]
  BY DEF FoldOf, RowStatus, RowsAreTrue
<1>2. /\ t \in Tasks(s) /\ t \in Task /\ status[t] = "Pending" /\ result' = result
      /\ \A d \in Dependencies(t) : status[d] = "Completed"
  BY DEF FoldOf
<1>3. /\ \A u \in L : u \in Tasks(s) /\ row[u] \notin Terminal
      /\ \A u \in L : \E d \in Dependencies(u) : d = t \/ d \in L
      /\ \A u \in Tasks(s) : \A d \in Dependencies(u) :
            row[u] \notin Terminal /\ (d = t \/ d \in L) => u \in L
  <2>1. row[t] \in Terminal
    BY <1>1 DEF Terminal
  <2> QED BY <1>2, <2>1, CascadeFacts
<1>4. \A u \in L : u \in Task /\ u # t /\ status[u] = "Pending"
  BY <1>1, <1>3, TasksKnowTheirSession DEF Terminal, RowsAreTrue
<1>5. \A u \in L : result[u] = "none"
  <2> SUFFICES ASSUME NEW u \in L PROVE result[u] = "none"
    OBVIOUS
  <2>1. PICK d \in Dependencies(u) : d = t \/ d \in L
    BY <1>3
  <2>2. status[d] # "Completed"
    BY <1>2, <1>4, <2>1
  <2> QED BY <1>4, <2>1, <2>2 DEF RunsBehindCompleted
<1>6. \A r \in Session : Tasks(r)' = Tasks(r)
  BY DEF Tasks
<1>7. Half(t, 1) \notin Tasks(s)
  <2>1. CASE t \in Planned
    BY <1>2, <2>1 DEF RowsAreTrue, Terminal
  <2>2. CASE t \notin Planned
    <3>1. Half(t, 1) \notin Task
      <4>1. Half(t, 1) \notin Planned
        BY <1>2, PlannedAssumption
      <4>2. Half(t, 1) \notin Halves
        BY <2>2 DEF Half, Halves
      <4> QED BY <4>1, <4>2 DEF Task
    <3> QED BY <3>1, TasksKnowTheirSession
  <2> QED BY <2>1, <2>2
<1>8. \A d \in Task : d \in L \/ d = t => Blocks(s, d)'
  BY <1>1, <1>2, <1>4, <1>5, <1>6, <1>7 DEF Blocks
<1>9. \A d \in Task : d \notin L /\ d # t =>
        /\ status'[d] = status[d]
        /\ \A r \in Session : Blocks(r, d)' = Blocks(r, d)
  BY <1>1, <1>2, <1>6 DEF Blocks
<1>10. \A d \in Task : d \in L \/ d = t => ~Blocks(s, d)
  BY <1>2, <1>4 DEF Blocks
<1> SUFFICES ASSUME NEW r \in Session, NEW u \in Tasks(r)
             PROVE  (status'[u] = "Skipped" /\ result[u] # "replanned")
                      <=> \E d \in Dependencies(u) : Blocks(r, d)'
  BY <1>2, <1>6 DEF CascadeIsExact
<1>11. u \in Task /\ Dependencies(u) \subseteq Task /\ Dependencies(u) \subseteq Tasks(r)
  BY TasksKnowTheirSession, TaskFacts DEF GraphsArePlans
<1>12. CASE r # s
  <2>1. \A d \in Tasks(r) : d \notin L /\ d # t /\ d \in Task
    BY <1>2, <1>3, <1>12, TasksKnowTheirSession
  <2>2. status'[u] = status[u] /\ \A d \in Dependencies(u) : Blocks(r, d)' = Blocks(r, d)
    BY <1>9, <1>11, <2>1
  <2>3. (status[u] = "Skipped" /\ result[u] # "replanned")
           <=> \E d \in Dependencies(u) : Blocks(r, d)
    BY DEF CascadeIsExact
  <2> QED BY <2>2, <2>3
<1>13. CASE r = s /\ u \in L
  <2>1. \E d \in Dependencies(u) : Blocks(s, d)'
    BY <1>3, <1>8, <1>11, <1>13
  <2>2. status'[u] = "Skipped" /\ result[u] # "replanned"
    BY <1>5, <1>11, <1>13
  <2> QED BY <1>13, <2>1, <2>2
<1>14. CASE r = s /\ u = t
  <2>1. \A d \in Dependencies(t) : d \notin L /\ d # t /\ ~Blocks(s, d)
    BY <1>2, <1>4 DEF Blocks
  <2> QED BY <1>1, <1>2, <1>4, <1>9, <1>11, <1>14, <2>1
<1>15. CASE r = s /\ u \notin L /\ u # t /\ status[u] = "Pending"
  <2>1. \A d \in Dependencies(u) : d \notin L /\ d # t
    BY <1>1, <1>3, <1>11, <1>15 DEF Terminal
  <2> QED BY <1>9, <1>11, <1>15, <2>1 DEF CascadeIsExact
<1>16. CASE r = s /\ u \notin L /\ u # t /\ status[u] = "Skipped" /\ result[u] = "none"
  <2>1. PICK d \in Dependencies(u) : Blocks(s, d)
    BY <1>16 DEF CascadeIsExact
  <2>2. d \notin L /\ d # t /\ d \in Task
    BY <1>10, <1>11, <2>1
  <2>3. Blocks(s, d)'
    BY <1>9, <2>1, <2>2
  <2> QED BY <1>9, <1>11, <1>16, <2>3
<1>17. CASE r = s /\ u \notin L /\ u # t /\ status[u] # "Pending" /\ result[u] # "none"
  <2>1. \A d \in Dependencies(u) : d \notin L /\ d # t /\ status[d] = "Completed"
    BY <1>2, <1>4, <1>11, <1>17 DEF RunsBehindCompleted
  <2> QED BY <1>9, <1>11, <1>17, <2>1 DEF CascadeIsExact
<1> QED BY <1>11, <1>12, <1>13, <1>14, <1>15, <1>16, <1>17 DEF RowsAreTrue

\* Every step keeps the skipped tasks exactly the blocked ones.
LEMMA StepCascade ==
  ASSUME IInv, CascadeIsExact, [Next]_vars
  PROVE  CascadeIsExact'
<1> USE DEF IInv
<1>1. CASE UNCHANGED <<status, order, result>>
  BY <1>1, QuietStepCascade
<1>2. ASSUME NEW s \in Session, Planning(s) PROVE CascadeIsExact'
  BY <1>2, PlanningCascade
<1>3. ASSUME NEW s \in Session, Launch(s) PROVE CascadeIsExact'
  <2>1. \A t \in Task : status[t] = "Skipped" => result'[t] = result[t]
    BY <1>3 DEF Launch, WavesAreReady
  <2> QED BY <1>3, <2>1, QuietStepCascade DEF Launch
<1>4. ASSUME NEW s \in Session, NEW t \in wave[s], TaskEnds(s, t) PROVE CascadeIsExact'
  <2>1. status[t] # "Skipped"
    BY DEF WavesAreReady
  <2>2. \A u \in Task : status[u] = "Skipped" => result'[u] = result[u]
    BY <1>4, <2>1 DEF TaskEnds, TypeOK
  <2> QED BY <1>4, <2>2, QuietStepCascade DEF TaskEnds
<1>5. ASSUME NEW s \in Session, Fold(s) PROVE CascadeIsExact'
  <2>1. PICK t \in wave[s] : FoldOf(s, t)
    BY <1>5, FoldFacts
  <2>2. RowsAfterFold(s, t)
    BY <2>1, FoldRowFacts DEF FoldOf
  <2>3. GraphAfterFold(s, t)
    BY <2>1, <2>2, FoldGraph DEF FoldOf, RowsAfterFold
  <2>4. FoldRow(s, t) /\ result[t] \in {"completed", "failed", "replanned", "unmerged"}
    BY <2>1 DEF FoldOf, Outcome
  <2>5. CASE result[t] \in {"replanned", "unmerged"} /\ alone[s]
    <3>1. /\ status' = [status EXCEPT ![t] = RowStatus(t)]
          /\ order' = [order EXCEPT ![s] = @ \o <<Half(t, 1), Half(t, 2)>>]
      BY <2>4, <2>5 DEF FoldRow
    <3>2. order' # order
      <4>1. order[s] \in Seq(Task)
        BY DEF TypeOK
      <4>2. order'[s] = order[s] \o <<Half(t, 1), Half(t, 2)>>
        BY <3>1 DEF TypeOK
      <4>3. \A q \in Seq(Task) : q # q \o <<Half(t, 1), Half(t, 2)>>
        <5> SUFFICES ASSUME NEW q \in Seq(Task) PROVE q # q \o <<Half(t, 1), Half(t, 2)>>
          OBVIOUS
        <5>1. Len(q \o <<Half(t, 1), Half(t, 2)>>) = Len(q) + 2 /\ Len(q) \in Nat
          OBVIOUS
        <5> QED BY <5>1
      <4> QED BY <4>1, <4>2, <4>3
    <3> QED BY <2>1, <2>2, <2>3, <2>5, <3>1, <3>2, FoldWithoutCascade
  <2>6. CASE ~(result[t] \in {"replanned", "unmerged"} /\ alone[s])
             /\ result[t] \in {"completed", "replanned"}
    <3>1. status' = [status EXCEPT ![t] = RowStatus(t)] /\ order' = order
      BY <2>4, <2>6 DEF FoldRow
    <3> QED BY <2>1, <2>2, <2>3, <2>6, <3>1, FoldWithoutCascade
  <2>7. CASE ~(result[t] \in {"replanned", "unmerged"} /\ alone[s])
             /\ result[t] \in {"failed", "unmerged"}
    <3> DEFINE row == [status EXCEPT ![t] = RowStatus(t)]
               L   == CascadeSkip(Tasks(s), row, t)
    <3>1. /\ order' = order
          /\ \A u \in Task : status'[u] = IF u \in L THEN "Skipped" ELSE row[u]
      BY <2>4, <2>7 DEF FoldRow
    <3> QED BY <2>1, <2>7, <3>1, FoldWithCascade
  <2> QED BY <2>4, <2>5, <2>6, <2>7
<1>6. \/ UNCHANGED <<status, order, result>>
      \/ \E s \in Session : \/ Planning(s) \/ Launch(s) \/ Fold(s)
                            \/ \E t \in wave[s] : TaskEnds(s, t)
  BY DEF Next, Step, vars, PlanRejected, BeginPass, Finish, Admit, Join, DropClaims, Abort
<1> QED BY <1>1, <1>2, <1>3, <1>4, <1>5, <1>6

-----------------------------------------------------------------------------
(* The waves and the ledger's promise.                                     *)

\* The ledger's specification uses the same operators on paths and rows.
LEMMA SameOperators ==
  /\ \A names, outputs :
        Ledger!PredictWrites(names, Index, outputs) = PredictWrites(names, Index, outputs)
  /\ \A c, t, paths : Ledger!Conflict(c, t, paths) = Conflict(c, t, paths)
  /\ \A c, t, paths : Ledger!Insert(c, t, paths) = Insert(c, t, paths)
  /\ \A c, t : Ledger!Retain(c, t) = Retain(c, t)
<1>1. \A p, q : Ledger!StartsWith(p, q) = StartsWith(p, q)
  BY DEF Ledger!StartsWith, StartsWith
<1>2. \A raw : Ledger!Normalize(raw) = Normalize(raw)
  BY DEF Ledger!Normalize, Normalize, Ledger!Root, Root
<1>3. \A p, q : Ledger!Overlaps(p, q) = Overlaps(p, q)
  BY <1>1 DEF Ledger!Overlaps, Overlaps, Ledger!Root, Root
<1>4. \A raw : Ledger!Resolve(Index, raw) = Resolve(Index, raw)
  <2>1. \A raw : Ledger!Contains(Index, raw) = Contains(Index, raw)
    BY <1>1 DEF Ledger!Contains, Contains
  <2>2. \A raw : Ledger!EndingWith(Index, raw) = EndingWith(Index, raw)
    BY DEF Ledger!EndingWith, EndingWith, Ledger!EndsWith, EndsWith
  <2> QED BY <2>1, <2>2 DEF Ledger!Resolve, Resolve
<1>5. \A names, outputs :
        Ledger!PredictWrites(names, Index, outputs) = PredictWrites(names, Index, outputs)
  BY <1>4 DEF Ledger!PredictWrites, PredictWrites
<1>6. \A c, t, paths : Ledger!Conflict(c, t, paths) = Conflict(c, t, paths)
  BY <1>2, <1>3 DEF Ledger!Conflict, Conflict
<1>7. \A c, t, paths : Ledger!Insert(c, t, paths) = Insert(c, t, paths)
  BY <1>2 DEF Ledger!Insert, Insert
<1>8. \A c, t : Ledger!Retain(c, t) = Retain(c, t)
  BY DEF Ledger!Retain, Retain, Ledger!HeldBy, HeldBy
<1> QED BY <1>5, <1>6, <1>7, <1>8

\* The request behind a task's claims.
RequestOf(t) == [names   |-> Names[Base(t)],
                 outputs |-> UNION {artifacts[d] : d \in Dependencies(t)}]

\* It is one the ledger can be asked, and Writes is its prediction.
LEMMA RequestFacts ==
  ASSUME IInv, NEW t \in Task
  PROVE  RequestOf(t) \in Asked /\ Ledger!Predicted(RequestOf(t)) = Writes(t)
<1>1. Base(t) \in Planned /\ Dependencies(t) \subseteq Task
  BY TaskFacts
<1>2. \A d \in Dependencies(t) : artifacts[d] \in SUBSET Artifact
  BY <1>1 DEF IInv, TypeOK
<1>3. UNION {artifacts[d] : d \in Dependencies(t)} \in SUBSET Artifact
  BY <1>2
<1>4. RequestOf(t) \in Asked
  BY <1>1, <1>3 DEF RequestOf, Asked
<1> QED BY <1>4, SameOperators DEF RequestOf, Ledger!Predicted, Writes

\* A step that changes neither waves nor artifacts grants nothing.
LEMMA QuietGranted ==
  ASSUME UNCHANGED <<wave, artifacts>>
  PROVE  Granted' = Granted
BY DEF Granted

\* A writer that is admitted has claimed; a reader, or a deferred task, has not.
LEMMA AdmitLedger ==
  ASSUME IInv, NEW s \in Session, Admit(s)
  PROVE  [Ledger!Next]_Ledger!vars
<1> USE DEF IInv
<1> DEFINE t == Earliest(order[s], queue[s])
<1>1. t \in queue[s]
  <2>1. order[s] \in Seq(Task) /\ queue[s] \in SUBSET Range(order[s]) /\ queue[s] # {}
    BY DEF Admit, WavesAreReady, TypeOK, Tasks
  <2> QED BY <2>1, EarliestIn
<1>2. AskOne(s, t) /\ artifacts' = artifacts
  BY DEF Admit
<1> HIDE DEF t
<1>3. t \in Task /\ SessionOf(t) = s /\ t \notin wave[s]
  BY <1>1, TasksKnowTheirSession DEF WavesAreReady
<1>4. CASE wave' = wave
  <2>1. claims' = claims
    BY <1>2, <1>3, <1>4 DEF AskOne, TypeOK
  <2> QED BY <1>2, <1>4, <2>1, QuietGranted DEF Ledger!vars
<1>5. CASE wave' # wave
  <2>1. wave' = [wave EXCEPT ![s] = @ \cup {t}]
    BY <1>2, <1>5 DEF AskOne
  <2>2. \A u \in Task : u \in wave'[SessionOf(u)] <=> u = t \/ u \in wave[SessionOf(u)]
    BY <1>3, <2>1, SessionOfType DEF TypeOK
  <2>3. CASE IsReadOnly(t)
    <3>1. claims' = claims
      BY <1>2, <2>3 DEF AskOne
    <3>2. Granted' = Granted
      BY <1>2, <2>2, <2>3 DEF Granted
    <3> QED BY <3>1, <3>2 DEF Ledger!vars
  <2>4. CASE ~IsReadOnly(t)
    <3>1. ~Conflict(claims, t, Writes(t)) /\ claims' = Insert(claims, t, Writes(t))
      BY <1>2, <1>5, <2>4 DEF AskOne
    <3>2. \A u \in Task : Granted'[u] = IF u = t THEN {RequestOf(t)} ELSE Granted[u]
      BY <1>2, <2>2, <2>4 DEF Granted, RequestOf
    <3>3. Granted[t] = {} /\ Granted \in [Task -> {Granted[u] : u \in Task}]
      BY <1>3 DEF Granted
    <3>4. Granted' = [Granted EXCEPT ![t] = @ \cup {RequestOf(t)}]
      <4>1. Granted' = [u \in Task |-> Granted'[u]]
        BY DEF Granted
      <4>2. [Granted EXCEPT ![t] = @ \cup {RequestOf(t)}]
              = [u \in Task |-> IF u = t THEN Granted[t] \cup {RequestOf(t)} ELSE Granted[u]]
        BY <1>3, <3>3
      <4> QED BY <3>2, <3>3, <4>1, <4>2
    <3>5. Ledger!Claim(t, RequestOf(t))
      BY <1>3, <3>1, <3>4, RequestFacts, SameOperators DEF Ledger!Claim
    <3> QED BY <1>3, <3>5, RequestFacts DEF Ledger!Next
  <2> QED BY <2>3, <2>4
<1> QED BY <1>4, <1>5

\* A task that leaves its wave releases its claims.
LEMMA LeaveLedger ==
  ASSUME IInv, NEW s \in Session, NEW t \in wave[s],
         wave' = [wave EXCEPT ![s] = @ \ {t}], claims' = Retain(claims, t),
         artifacts' = artifacts
  PROVE  [Ledger!Next]_Ledger!vars
<1> USE DEF IInv
<1>1. t \in Task /\ SessionOf(t) = s
  BY TasksKnowTheirSession DEF WavesAreReady
<1>2. \A u \in Task : u \in wave'[SessionOf(u)] <=> u # t /\ u \in wave[SessionOf(u)]
  BY <1>1, SessionOfType DEF TypeOK
<1>3. \A u \in Task : Granted'[u] = IF u = t THEN {} ELSE Granted[u]
  BY <1>2 DEF Granted
<1>4. Granted' = [Granted EXCEPT ![t] = {}]
  <2>1. Granted' = [u \in Task |-> Granted'[u]] /\ Granted = [u \in Task |-> Granted[u]]
    BY DEF Granted
  <2> QED BY <1>1, <1>3, <2>1
<1>5. Ledger!Release(t)
  BY <1>4, SameOperators DEF Ledger!Release
<1> QED BY <1>1, <1>5 DEF Ledger!Next

\* What a running task changes is no admitted task's input: they wait for it.
LEMMA TaskEndsLedger ==
  ASSUME IInv, NEW s \in Session, NEW t \in wave[s], TaskEnds(s, t)
  PROVE  [Ledger!Next]_Ledger!vars
<1> USE DEF IInv
<1>1. \A u \in Task \ {t} : artifacts'[u] = artifacts[u]
  BY DEF TaskEnds, TypeOK
<1>2. \A u \in Task : u \in wave[SessionOf(u)] => t \notin Dependencies(u)
  BY SessionOfType DEF WavesAreReady
<1>3. \A u \in Task : u \in wave[SessionOf(u)] =>
        UNION {artifacts'[d] : d \in Dependencies(u)} = UNION {artifacts[d] : d \in Dependencies(u)}
  <2> SUFFICES ASSUME NEW u \in Task, u \in wave[SessionOf(u)]
               PROVE  \A d \in Dependencies(u) : artifacts'[d] = artifacts[d]
    OBVIOUS
  <2> QED BY <1>1, <1>2, TaskFacts
<1>4. wave' = wave /\ claims' = claims
  BY DEF TaskEnds
<1>5. Granted' = Granted
  BY <1>3, <1>4 DEF Granted
<1> QED BY <1>4, <1>5 DEF Ledger!vars

\* Every step of a session is a step of the ledger or leaves it alone.
LEMMA StepLedger ==
  ASSUME IInv, [Next]_vars
  PROVE  [Ledger!Next]_Ledger!vars
<1>1. CASE UNCHANGED <<wave, artifacts, claims>>
  BY <1>1, QuietGranted DEF Ledger!vars
<1>2. ASSUME NEW s \in Session, Fold(s) PROVE [Ledger!Next]_Ledger!vars
  BY <1>2, FoldFacts, LeaveLedger DEF FoldOf
<1>3. ASSUME NEW s \in Session, DropClaims(s) PROVE [Ledger!Next]_Ledger!vars
  <2> DEFINE t == Earliest(order[s], wave[s])
  <2>1. t \in wave[s]
    <3>1. order[s] \in Seq(Task) /\ wave[s] \in SUBSET Range(order[s]) /\ wave[s] # {}
      BY <1>3 DEF IInv, DropClaims, WavesAreReady, TypeOK, Tasks
    <3> QED BY <3>1, EarliestIn
  <2>2. /\ wave' = [wave EXCEPT ![s] = @ \ {t}] /\ claims' = Retain(claims, t)
        /\ artifacts' = artifacts
    BY <1>3 DEF DropClaims
  <2> QED BY <2>1, <2>2, LeaveLedger
<1>4. \/ UNCHANGED <<wave, artifacts, claims>>
      \/ \E s \in Session : \/ Admit(s) \/ Fold(s) \/ DropClaims(s)
                            \/ \E t \in wave[s] : TaskEnds(s, t)
  BY DEF Next, Step, vars, Planning, PlanRejected, BeginPass, Finish, Launch, Join, Abort
<1> QED BY <1>1, <1>2, <1>3, <1>4, AdmitLedger, TaskEndsLedger

-----------------------------------------------------------------------------
(* Progress: what the passes of a session pay for.                         *)

\* The tasks of a session that are over.
Ended(s) == {t \in Tasks(s) : status[t] \in Terminal}

\* While no other session deferred its tasks, every pass of a session ends at
\* least one task; a loop that is over has met its condition; and a task whose
\* halves are in the graph asked for them.
PassesPay(s) ==
  /\ deferredTo[s] \subseteq {s} =>
        /\ pc[s] \in {"planning", "pass", "done"} => pass[s] <= Cardinality(Ended(s))
        /\ pc[s] \in {"admit", "wave", "fold"} => pass[s] <= Cardinality(Ended(s)) + 1
        /\ pc[s] = "admit" => queue[s] \cup wave[s] # {}
  /\ pc[s] = "done" => LoopEnds(s)
  /\ \A t \in Planned : Half(t, 1) \in Tasks(s) =>
        t \in Tasks(s) /\ result[t] \in {"replanned", "unmerged"}

\* A graph has at most as many tasks as rows.
LEMMA TasksAreFinite ==
  ASSUME NEW o \in Seq(Task)
  PROVE  IsFiniteSet(Range(o)) /\ Cardinality(Range(o)) <= Len(o)
<1>1. Len(o) \in Nat /\ DOMAIN o = 1..Len(o)
  OBVIOUS
<1>2. IsFiniteSet(1..Len(o)) /\ Cardinality(1..Len(o)) = Len(o)
  BY <1>1, FS_Interval
<1>3. o \in Surjection(1..Len(o), Range(o))
  BY <1>1 DEF Surjection, Range
<1> QED BY <1>2, <1>3, FS_Surjection

\* So the ended tasks can be counted.
LEMMA EndedFacts ==
  ASSUME IInv, NEW s \in Session
  PROVE  /\ IsFiniteSet(Tasks(s)) /\ IsFiniteSet(Ended(s))
         /\ Cardinality(Ended(s)) \in Nat /\ Len(order[s]) \in Nat
         /\ Cardinality(Ended(s)) <= Len(order[s])
         /\ Cardinality(Ended(s)) = Len(order[s]) => Ended(s) = Tasks(s)
<1>1. order[s] \in Seq(Task)
  BY DEF IInv, TypeOK
<1>2. IsFiniteSet(Tasks(s)) /\ Cardinality(Tasks(s)) <= Len(order[s]) /\ Len(order[s]) \in Nat
  BY <1>1, TasksAreFinite DEF Tasks
<1>3. Ended(s) \in SUBSET Tasks(s)
  BY DEF Ended
<1>4. /\ IsFiniteSet(Ended(s)) /\ Cardinality(Ended(s)) <= Cardinality(Tasks(s))
      /\ Cardinality(Tasks(s)) = Cardinality(Ended(s)) => Tasks(s) = Ended(s)
  BY <1>2, <1>3, FS_Subset
<1>5. Cardinality(Ended(s)) \in Nat /\ Cardinality(Tasks(s)) \in Nat
  BY <1>2, <1>4, FS_CardinalityType
<1> QED BY <1>2, <1>4, <1>5

\* The order of ready_tasks is strict.
LEMMA BeforeAsymmetric ==
  ASSUME NEW o, NEW t, NEW u,
         Priority[Base(t)] \in Nat, Priority[Base(u)] \in Nat,
         Position(o, t) \in Nat, Position(o, u) \in Nat
  PROVE  ~(Before(o, t, u) /\ Before(o, u, t))
<1> DEFINE p == Priority[Base(t)]  q == Priority[Base(u)]
           x == Position(o, t)     y == Position(o, u)
<1>1. p \in Nat /\ q \in Nat /\ x \in Nat /\ y \in Nat
  OBVIOUS
<1>2. Before(o, t, u) <=> p > q \/ (p = q /\ x < y)
  BY DEF Before
<1>3. Before(o, u, t) <=> q > p \/ (q = p /\ y < x)
  BY DEF Before
<1> HIDE DEF p, q, x, y
<1> QED BY <1>1, <1>2, <1>3

\* The first ready task is always among those a pass takes.
LEMMA TakeTakes ==
  ASSUME NEW o \in Seq(Task), NEW S \in SUBSET Range(o), S # {}, NEW n \in Nat \ {0}
  PROVE  Take(o, S, n) # {}
<1>1. PICK e \in S : \A u \in S \ {e} : Before(o, e, u)
  BY EarliestFirst
<1>2. \A u \in S : ~Before(o, u, e)
  <2> SUFFICES ASSUME NEW u \in S, Before(o, u, e) PROVE FALSE
    OBVIOUS
  <2>1. u \in Task /\ e \in Task /\ u \in Range(o) /\ e \in Range(o)
    BY <1>1 DEF Range
  <2>2. /\ Priority[Base(u)] \in Nat /\ Priority[Base(e)] \in Nat
        /\ Position(o, u) \in Nat /\ Position(o, e) \in Nat
    <3>1. Base(u) \in Planned /\ Base(e) \in Planned
      BY <2>1, TaskFacts
    <3>2. Priority[Base(u)] \in 0..255 /\ Priority[Base(e)] \in 0..255
      BY <3>1, PriorityAssumption
    <3>3. \A p \in 0..255 : p \in Nat
      OBVIOUS
    <3> QED BY <2>1, <3>2, <3>3, PositionFacts
  <2>3. u = e \/ Before(o, e, u)
    BY <1>1
  <2> QED BY <2>2, <2>3, BeforeAsymmetric
<1>3. {u \in S : Before(o, u, e)} = {}
  BY <1>2
<1>4. Cardinality({u \in S : Before(o, u, e)}) < n
  <2>1. Cardinality({u \in S : Before(o, u, e)}) = 0
    BY <1>3, FS_EmptySet
  <2> QED BY <2>1
<1> QED BY <1>1, <1>4 DEF Take

\* Everything a session keeps about its own walk.
Walk(r) == <<pc[r], order[r], pass[r], queue[r], wave[r], alone[r], deferredTo[r]>>

\* A session's step leaves the walks and the rows of the others alone.
LEMMA OthersUndisturbed ==
  ASSUME IInv, NEW s \in Session, Step(s) \/ Abort(s), NEW r \in Session, r # s
  PROVE  /\ UNCHANGED Walk(r)
         /\ \A t \in Tasks(r) : status'[t] = status[t] /\ result'[t] = result[t]
<1> USE DEF IInv, Walk
<1>1. \A t \in Tasks(r) : t \in Task /\ t \notin Tasks(s) /\ t \notin wave[s]
  BY TasksKnowTheirSession DEF WavesAreReady
<1>2. CASE Fold(s)
  <2>1. PICK t \in wave[s] : FoldOf(s, t)
    BY <1>2, FoldFacts
  <2>2. RowsAfterFold(s, t)
    BY <2>1, FoldRowFacts DEF FoldOf
  <2>3. \A u \in Tasks(r) : status'[u] = status[u]
    BY <1>1, <2>1, <2>2 DEF RowsAfterFold, FoldOf
  <2>4. order'[r] = order[r]
    BY <2>2 DEF RowsAfterFold, TypeOK
  <2>5. UNCHANGED <<pc[r], wave[r], pass, queue, alone, deferredTo, result>>
    BY <2>1 DEF FoldOf, TypeOK
  <2> QED BY <2>3, <2>4, <2>5
<1>3. CASE Launch(s)
  BY <1>1, <1>3 DEF Launch, TypeOK
<1>4. ASSUME NEW t \in wave[s], TaskEnds(s, t)
      PROVE  /\ UNCHANGED Walk(r)
             /\ \A u \in Tasks(r) : status'[u] = status[u] /\ result'[u] = result[u]
  BY <1>1, <1>4 DEF TaskEnds, TypeOK
<1>5. CASE Admit(s)
  BY <1>5 DEF Admit, AskOne, TypeOK
<1>6. CASE Planning(s) \/ PlanRejected(s) \/ BeginPass(s) \/ Finish(s) \/ Join(s)
             \/ DropClaims(s) \/ Abort(s)
  BY <1>6 DEF Planning, PlanRejected, BeginPass, Finish, Join, DropClaims, Abort, TypeOK
<1> QED BY <1>2, <1>3, <1>4, <1>5, <1>6 DEF Step

\* A walk that is left alone keeps its account.
LEMMA UndisturbedPays ==
  ASSUME IInv, NEW r \in Session, PassesPay(r), UNCHANGED Walk(r),
         \A t \in Tasks(r) : status'[t] = status[t] /\ result'[t] = result[t]
  PROVE  PassesPay(r)'
<1> USE DEF IInv
<1>1. /\ pc'[r] = pc[r] /\ order'[r] = order[r] /\ pass'[r] = pass[r]
      /\ queue'[r] = queue[r] /\ wave'[r] = wave[r] /\ deferredTo'[r] = deferredTo[r]
  BY DEF Walk
<1>2. Tasks(r)' = Tasks(r)
  BY <1>1 DEF Tasks
<1>3. Ended(r)' = Ended(r)
  BY <1>2 DEF Ended
<1>4. LoopEnds(r)' = LoopEnds(r)
  <2>1. IsComplete(Tasks(r), status)' = IsComplete(Tasks(r), status)
    BY <1>2 DEF IsComplete
  <2>2. Ready(Tasks(r), status)' = Ready(Tasks(r), status)
    BY <1>2 DEF Ready
  <2> QED BY <1>1, <2>1, <2>2 DEF LoopEnds, MaxPasses
<1> QED BY <1>1, <1>2, <1>3, <1>4 DEF PassesPay

\* A fold ends at least the task it folds.
LEMMA FoldPays ==
  ASSUME IInv, NEW s \in Session, PassesPay(s), Fold(s)
  PROVE  PassesPay(s)'
<1> USE DEF IInv
<1>1. PICK t \in wave[s] : FoldOf(s, t)
  BY FoldFacts
<1>2. RowsAfterFold(s, t)
  BY <1>1, FoldRowFacts DEF FoldOf
<1>3. GraphAfterFold(s, t)
  BY <1>1, <1>2, FoldGraph DEF FoldOf, RowsAfterFold
<1>4. IInv'
  BY FoldIInv
<1>5. t \in Tasks(s) /\ t \in Task /\ status[t] = "Pending" /\ result' = result
  BY <1>1 DEF FoldOf
<1>6. Ended(s) \cup {t} \subseteq Ended(s)' /\ t \notin Ended(s)
  <2>1. t \in Ended(s)'
    BY <1>2, <1>3, <1>5 DEF Ended, RowsAfterFold, GraphAfterFold, Terminal
  <2>2. ASSUME NEW u \in Ended(s) PROVE u \in Ended(s)'
    <3>1. u \in Tasks(s) /\ status[u] \in Terminal /\ u \in Task /\ status[u] # "Pending"
      BY TasksKnowTheirSession DEF Ended, Terminal
    <3> QED BY <1>2, <1>3, <3>1 DEF Ended, RowsAfterFold, GraphAfterFold
  <2>3. t \notin Ended(s)
    BY <1>5 DEF Ended, Terminal
  <2> QED BY <2>1, <2>2, <2>3
<1>7. /\ Cardinality(Ended(s)) + 1 <= Cardinality(Ended(s)')
      /\ Cardinality(Ended(s)') \in Nat
  <2>1. IsFiniteSet(Ended(s)) /\ Cardinality(Ended(s)) \in Nat
    BY EndedFacts
  <2>2. IsFiniteSet(Ended(s)')
    <3>1. order'[s] \in Seq(Task)
      BY <1>4 DEF TypeOK
    <3>2. IsFiniteSet(Tasks(s)')
      BY <3>1, TasksAreFinite DEF Tasks
    <3>3. Ended(s)' \in SUBSET (Tasks(s)')
      BY DEF Ended
    <3> QED BY <3>2, <3>3, FS_Subset
  <2>3. /\ IsFiniteSet(Ended(s) \cup {t})
        /\ Cardinality(Ended(s) \cup {t}) = Cardinality(Ended(s)) + 1
    BY <1>6, <2>1, FS_AddElement
  <2>4. Cardinality(Ended(s) \cup {t}) <= Cardinality(Ended(s)')
    BY <1>6, <2>2, FS_Subset
  <2> QED BY <2>2, <2>3, <2>4, FS_CardinalityType
<1>8. /\ pc[s] = "fold" /\ pc'[s] \in {"fold", "pass"} /\ pass' = pass
      /\ deferredTo' = deferredTo
  BY <1>1 DEF FoldOf, TypeOK
<1>9. deferredTo'[s] \subseteq {s} => pass'[s] <= Cardinality(Ended(s)')
  <2> SUFFICES ASSUME deferredTo[s] \subseteq {s}
               PROVE  pass[s] <= Cardinality(Ended(s)')
    BY <1>8
  <2>1. pass[s] <= Cardinality(Ended(s)) + 1 /\ pass[s] \in Nat
    BY <1>8 DEF PassesPay, TypeOK
  <2>2. Cardinality(Ended(s)) \in Nat
    BY EndedFacts
  <2> QED BY <1>7, <2>1, <2>2
<1>10. \A u \in Planned : Half(u, 1) \in Tasks(s)' =>
          u \in Tasks(s)' /\ result'[u] \in {"replanned", "unmerged"}
  <2> SUFFICES ASSUME NEW u \in Planned, Half(u, 1) \in Tasks(s)'
               PROVE  u \in Tasks(s)' /\ result[u] \in {"replanned", "unmerged"}
    BY <1>5
  <2>1. CASE Half(u, 1) \in Tasks(s)
    BY <1>3, <2>1 DEF PassesPay, GraphAfterFold
  <2>2. CASE Half(u, 1) \notin Tasks(s)
    <3>1. order' # order /\ Half(u, 1) \in {Half(t, 1), Half(t, 2)}
      BY <1>3, <2>2 DEF GraphAfterFold
    <3>2. u = t
      BY <3>1 DEF Half
    <3> QED BY <1>2, <1>3, <1>5, <3>1, <3>2 DEF RowsAfterFold, GraphAfterFold
  <2> QED BY <2>1, <2>2
<1>11. /\ deferredTo'[s] \subseteq {s} =>
            /\ pc'[s] \in {"planning", "pass", "done"} => pass'[s] <= Cardinality(Ended(s)')
            /\ pc'[s] \in {"admit", "wave", "fold"} => pass'[s] <= Cardinality(Ended(s)') + 1
            /\ pc'[s] = "admit" => queue'[s] \cup wave'[s] # {}
  <2>1. pass'[s] \in Nat
    BY <1>4 DEF TypeOK
  <2> QED BY <1>7, <1>8, <1>9, <2>1
<1> QED BY <1>8, <1>10, <1>11 DEF PassesPay

\* Admission defers the first task of a wave only for another session's claims.
LEMMA AdmitPays ==
  ASSUME IInv, NEW s \in Session, PassesPay(s), Admit(s)
  PROVE  PassesPay(s)'
<1> USE DEF IInv
<1> DEFINE t == Earliest(order[s], queue[s])
<1>1. AskOne(s, t) /\ queue' = [queue EXCEPT ![s] = @ \ {t}]
  BY DEF Admit
<1> HIDE DEF t
<1>2. pc[s] = "admit" /\ UNCHANGED <<pc, order, status, pass, result>>
  BY DEF Admit
<1>3. Tasks(s)' = Tasks(s) /\ Ended(s)' = Ended(s)
  BY <1>2 DEF Tasks, Ended
<1>4. deferredTo[s] \subseteq deferredTo'[s]
  BY <1>1 DEF AskOne, TypeOK
<1>5. ASSUME deferredTo'[s] \subseteq {s} PROVE wave'[s] # {}
  <2>1. CASE IsReadOnly(t) \/ ~Conflict(claims, t, Writes(t))
    <3>1. wave' = [wave EXCEPT ![s] = @ \cup {t}]
      BY <1>1, <2>1 DEF AskOne
    <3>2. t \in wave'[s]
      BY <3>1 DEF TypeOK
    <3> QED BY <3>2
  <2>2. CASE ~IsReadOnly(t) /\ Conflict(claims, t, Writes(t))
    <3>1. PICK raw \in Writes(t), p \in DOMAIN claims :
            claims[p] # t /\ Overlaps(Normalize(raw), p)
      BY <2>2 DEF Conflict
    <3>2. claims[p] \in Blockers(t)
      BY <3>1 DEF Blockers
    <3>3. deferredTo'[s] = deferredTo[s] \cup {SessionOf(u) : u \in Blockers(t)}
      BY <1>1, <2>2 DEF AskOne, TypeOK
    <3>4. SessionOf(claims[p]) = s
      BY <1>5, <3>2, <3>3
    <3>5. claims[p] \in wave[s]
      BY <3>4 DEF NoLeakedClaims
    <3>6. wave' = wave
      BY <1>1, <2>2 DEF AskOne
    <3> QED BY <3>5, <3>6
  <2> QED BY <2>1, <2>2
<1> QED BY <1>2, <1>3, <1>4, <1>5 DEF PassesPay

\* Every other step of a session keeps its account too.
LEMMA WalkPays ==
  ASSUME IInv, NEW s \in Session, PassesPay(s), Step(s) \/ Abort(s)
  PROVE  PassesPay(s)'
<1> USE DEF IInv
<1>1. CASE Planning(s)
  <2>1. Tasks(s) = {} /\ Ended(s) = {}
    BY <1>1 DEF Planning, RowsAreTrue, Tasks, Range, Ended
  <2>2. /\ pc[s] = "planning" /\ pc'[s] = "pass" /\ UNCHANGED <<pass, deferredTo>>
        /\ Tasks(s)' = Range(Plan[s]) /\ order'[s] \in Seq(Task)
    <3>1. order'[s] = Plan[s]
      BY <1>1 DEF Planning, TypeOK
    <3>2. IInv'
      BY <1>1, PlanningIInv
    <3> QED BY <1>1, <3>1, <3>2 DEF Planning, TypeOK, Tasks
  <2>3. deferredTo[s] \subseteq {s} => pass[s] <= 0
    BY <2>1, <2>2, FS_EmptySet DEF PassesPay
  <2>4. Cardinality(Ended(s)') \in Nat
    <3>1. IsFiniteSet(Tasks(s)')
      BY <2>2, TasksAreFinite DEF Tasks
    <3>2. Ended(s)' \in SUBSET (Tasks(s)')
      BY DEF Ended
    <3> QED BY <3>1, <3>2, FS_Subset, FS_CardinalityType
  <2>5. \A t \in Planned : Half(t, 1) \notin Tasks(s)'
    <3>1. Range(Plan[s]) \subseteq Planned
      BY PlanAssumption DEF Range
    <3>2. \A t \in Planned : t \in Task
      BY DEF Task
    <3> QED BY <2>2, <3>1, <3>2, PlannedAssumption
  <2>6. pass[s] \in Nat
    BY DEF TypeOK
  <2> QED BY <2>2, <2>3, <2>4, <2>5, <2>6 DEF PassesPay
<1>2. CASE BeginPass(s)
  <2>1. /\ pc[s] = "pass" /\ pc'[s] = "admit" /\ pass'[s] = pass[s] + 1
        /\ UNCHANGED <<order, status, result, deferredTo>>
        /\ queue'[s] = Take(order[s], Ready(Tasks(s), status), MaxParallel)
    BY <1>2 DEF BeginPass, TypeOK
  <2>2. Tasks(s)' = Tasks(s) /\ Ended(s)' = Ended(s)
    BY <2>1 DEF Tasks, Ended
  <2>3. queue'[s] # {}
    <3>1. Ready(Tasks(s), status) \in SUBSET Range(order[s]) /\ Ready(Tasks(s), status) # {}
      BY <1>2 DEF BeginPass, LoopEnds, Ready, Tasks
    <3>2. order[s] \in Seq(Task)
      BY DEF TypeOK
    <3> QED BY <2>1, <3>1, <3>2, TakeTakes, LimitAssumption
  <2>4. Cardinality(Ended(s)) \in Nat /\ pass[s] \in Nat
    BY EndedFacts DEF TypeOK
  <2> QED BY <2>1, <2>2, <2>3, <2>4 DEF PassesPay
<1>3. CASE Finish(s)
  <2>1. /\ pc[s] = "pass" /\ pc'[s] = "done" /\ UNCHANGED <<order, status, result, deferredTo, pass>>
    BY <1>3 DEF Finish, TypeOK
  <2>2. Tasks(s)' = Tasks(s) /\ Ended(s)' = Ended(s)
    BY <2>1 DEF Tasks, Ended
  <2>3. LoopEnds(s)'
    <3>1. LoopEnds(s)
      BY <1>3 DEF Finish
    <3> QED BY <2>1, <2>2, <3>1 DEF LoopEnds
  <2> QED BY <2>1, <2>2, <2>3 DEF PassesPay
<1>4. CASE Launch(s)
  <2>1. /\ pc[s] = "admit" /\ queue[s] = {} /\ UNCHANGED <<order, status, deferredTo, pass, wave>>
        /\ pc'[s] = IF wave[s] = {} THEN "pass" ELSE "wave"
        /\ result' = [t \in Task |-> IF t \in wave[s] THEN "running" ELSE result[t]]
    BY <1>4 DEF Launch, TypeOK
  <2>2. Tasks(s)' = Tasks(s) /\ Ended(s)' = Ended(s)
    BY <2>1 DEF Tasks, Ended
  <2>3. \A t \in Planned : Half(t, 1) \in Tasks(s) => result'[t] = result[t]
    <3> SUFFICES ASSUME NEW t \in Planned, Half(t, 1) \in Tasks(s)
                 PROVE  result'[t] = result[t]
      OBVIOUS
    <3>1. status[t] \in Terminal /\ t \in Task
      BY DEF RowsAreTrue, Task
    <3>2. t \notin wave[s]
      BY <3>1 DEF WavesAreReady, Terminal
    <3> QED BY <2>1, <3>1, <3>2
  <2> QED BY <2>1, <2>2, <2>3 DEF PassesPay
<1>5. ASSUME NEW t \in wave[s], TaskEnds(s, t) PROVE PassesPay(s)'
  <2>1. /\ pc[s] = "wave" /\ UNCHANGED <<pc, order, status, pass, deferredTo>>
        /\ \A u \in Task \ {t} : result'[u] = result[u]
    BY <1>5 DEF TaskEnds, TypeOK
  <2>2. Tasks(s)' = Tasks(s) /\ Ended(s)' = Ended(s)
    BY <2>1 DEF Tasks, Ended
  <2>3. \A u \in Planned : Half(u, 1) \in Tasks(s) => u \in Task /\ u # t
    BY DEF RowsAreTrue, WavesAreReady, Terminal, Task
  <2> QED BY <2>1, <2>2, <2>3 DEF PassesPay
<1>6. CASE PlanRejected(s) \/ DropClaims(s) \/ Abort(s) \/ Join(s)
  <2>1. /\ UNCHANGED <<order, status, result, deferredTo, pass>>
        /\ \/ pc'[s] \in {"rejected", "dropping", "aborted"}
           \/ pc'[s] = "fold" /\ pc[s] = "wave"
    BY <1>6 DEF PlanRejected, DropClaims, Abort, Join, TypeOK
  <2>2. Tasks(s)' = Tasks(s) /\ Ended(s)' = Ended(s)
    BY <2>1 DEF Tasks, Ended
  <2> QED BY <2>1, <2>2 DEF PassesPay
<1> QED BY <1>1, <1>2, <1>3, <1>4, <1>5, <1>6, FoldPays, AdmitPays DEF Step

\* Every session's account is kept by every step.
LEMMA StepPays ==
  ASSUME IInv, \A s \in Session : PassesPay(s), [Next]_vars
  PROVE  \A s \in Session : PassesPay(s)'
<1> SUFFICES ASSUME NEW r \in Session PROVE PassesPay(r)'
  OBVIOUS
<1>1. CASE UNCHANGED vars
  BY <1>1, UndisturbedPays DEF vars, Walk
<1>2. ASSUME NEW s \in Session, Step(s) \/ Abort(s) PROVE PassesPay(r)'
  <2>1. CASE r = s
    BY <1>2, <2>1, WalkPays
  <2>2. CASE r # s
    BY <1>2, <2>2, OthersUndisturbed, UndisturbedPays
  <2> QED BY <2>1, <2>2
<1> QED BY <1>1, <1>2 DEF Next

\* A nonempty set of tasks has one that depends on no task of the set: what
\* validate checks of a plan holds of the split graph as well.
LEMMA SomeTaskIsFirst ==
  ASSUME NEW N \in SUBSET Task, N # {}
  PROVE  \E t \in N : Dependencies(t) \cap N = {}
<1> DEFINE B == {Base(t) : t \in N}
<1>1. B \in SUBSET Planned /\ B # {}
  BY TaskFacts
<1>2. PICK b \in B : Deps[b] \cap B = {}
  BY <1>1, AcyclicAssumption
<1>3. Deps[b] \cap N = {}
  <2> SUFFICES ASSUME NEW d \in Deps[b], d \in N PROVE FALSE
    OBVIOUS
  <2>1. d \in Planned
    BY <1>1, DepsAssumption
  <2>2. Base(d) = d
    BY <2>1 DEF Base
  <2> QED BY <1>2, <2>2
<1>4. PICK t \in N : Base(t) = b
  BY <1>2
<1>5. b \in Planned
  BY <1>1
<1>6. /\ Dependencies(b) = Deps[b] /\ Dependencies(Half(b, 1)) = Deps[b]
      /\ Dependencies(Half(b, 2)) = {Half(b, 1)}
  BY <1>5, HalfFacts DEF Dependencies
<1>7. t = b \/ t = Half(b, 1) \/ t = Half(b, 2)
  <2>1. CASE t \in Planned
    BY <1>4, <2>1 DEF Base
  <2>2. CASE t \notin Planned
    BY <1>4, <2>2, TaskFacts
  <2> QED BY <2>1, <2>2
<1> QED BY <1>3, <1>4, <1>6, <1>7

\* A task that waits for good, with no task ready and every failure cascaded,
\* waits for a task that was split.
LEMMA WaitersAreBehindSplits ==
  ASSUME IInv, CascadeIsExact, NEW s \in Session, PassesPay(s),
         Ready(Tasks(s), status) = {}, NEW t \in Tasks(s), status[t] \notin Terminal
  PROVE  BehindSplit(s, t)
<1> USE DEF IInv
<1> SUFFICES ASSUME NEW S \in SUBSET Tasks(s),
                    \A d \in Tasks(s) : result[d] \in {"replanned", "unmerged"} => d \in S,
                    \A u \in Tasks(s) : Dependencies(u) \cap S # {} => u \in S,
                    t \notin S
             PROVE  FALSE
  BY DEF BehindSplit
<1> DEFINE N == {u \in Tasks(s) : status[u] \notin Terminal /\ u \notin S}
<1>1. N \in SUBSET Task /\ N # {}
  BY TasksKnowTheirSession
<1>2. PICK u \in N : Dependencies(u) \cap N = {}
  BY <1>1, SomeTaskIsFirst
<1>3. u \in Task /\ status[u] = "Pending" /\ Dependencies(u) \subseteq Tasks(s)
  BY <1>1, <1>2 DEF RowsAreTrue, Terminal, GraphsArePlans
<1>4. PICK d \in Dependencies(u) : status[d] # "Completed"
  BY <1>2, <1>3 DEF Ready
<1>5. d \in Tasks(s) /\ d \in Task /\ d \notin S /\ d \notin N
  BY <1>2, <1>3, <1>4, TasksKnowTheirSession
<1>6. status[d] \in {"Failed", "Skipped"}
  BY <1>4, <1>5 DEF RowsAreTrue, Terminal
<1>7. result[d] \notin {"replanned", "unmerged"}
  BY <1>5
<1>8. Half(d, 1) \notin Tasks(s)
  <2>1. CASE d \in Planned
    BY <1>7, <2>1 DEF PassesPay
  <2>2. CASE d \notin Planned
    <3>1. Half(d, 1) \notin Planned
      BY <1>5, PlannedAssumption
    <3>2. Half(d, 1) \notin Halves
      BY <2>2 DEF Half, Halves
    <3> QED BY <3>1, <3>2, TasksKnowTheirSession DEF Task
  <2> QED BY <2>1, <2>2
<1>9. Blocks(s, d)
  BY <1>6, <1>7, <1>8 DEF Blocks
<1>10. status[u] = "Skipped"
  BY <1>2, <1>4, <1>9 DEF CascadeIsExact
<1> QED BY <1>3, <1>10

\* A session that is over is over for one of the reasons StallHasCause names.
LEMMA PassesSuffice ==
  ASSUME IInv, CascadeIsExact, \A s \in Session : PassesPay(s)
  PROVE  StallHasCause
<1> SUFFICES ASSUME NEW s \in Session, pc[s] = "done", NEW t \in Tasks(s),
                    status[t] \notin Terminal, deferredTo[s] \ {s} = {},
                    ~(Len(order[s]) > 2 * Len(Plan[s]) + 4)
             PROVE  BehindSplit(s, t)
  BY DEF StallHasCause
<1>1. pass[s] <= Cardinality(Ended(s)) /\ LoopEnds(s)
  BY DEF PassesPay
<1>2. CASE pass[s] = MaxPasses(s)
  <2>1. /\ Cardinality(Ended(s)) \in Nat /\ Len(order[s]) \in Nat
        /\ Cardinality(Ended(s)) <= Len(order[s])
        /\ Cardinality(Ended(s)) = Len(order[s]) => Ended(s) = Tasks(s)
    BY EndedFacts
  <2>2. Len(Plan[s]) \in Nat
    <3>1. Plan[s] \in Seq(Planned)
      BY PlanAssumption
    <3> QED BY <3>1
  <2>3. Cardinality(Ended(s)) = Len(order[s])
    BY <1>1, <1>2, <2>1, <2>2 DEF MaxPasses
  <2>4. t \in Ended(s)
    BY <2>1, <2>3
  <2> QED BY <2>4 DEF Ended
<1>3. CASE IsComplete(Tasks(s), status)
  BY <1>3 DEF IsComplete
<1>4. CASE Ready(Tasks(s), status) = {}
  BY <1>4, WaitersAreBehindSplits
<1> QED BY <1>1, <1>2, <1>3, <1>4 DEF LoopEnds

-----------------------------------------------------------------------------
(* The results.                                                            *)

\* Every step keeps the state well formed (TypeOK).
THEOREM TypeCorrect == Spec => []TypeOK
<1>1. IInv => TypeOK
  BY DEF IInv
<1> QED BY <1>1, Invariance, PTL

\* No claim outlives its wave, however the wave ends (NoLeakedClaims).
THEOREM ClaimsDoNotLeak == Spec => []NoLeakedClaims
<1>1. IInv => NoLeakedClaims
  BY DEF IInv
<1> QED BY <1>1, Invariance, PTL

\* A task runs only behind completed dependencies, whatever the folds of the
\* same wave did to the graph meanwhile (RunsBehindCompleted).
THEOREM TasksRunBehindCompleted == Spec => []RunsBehindCompleted
<1>1. IInv => RunsBehindCompleted
  BY DEF IInv
<1> QED BY <1>1, Invariance, PTL

\* A fold changes pending rows only, so two results of a wave never overwrite
\* each other's rows (TerminalIsFinal).
THEOREM TerminalRowsAreFinal == Spec => [][TerminalIsFinal]_vars
<1>1. ASSUME IInv, [Next]_vars PROVE [TerminalIsFinal]_vars
  <2> SUFFICES ASSUME status' # status, NEW t \in Task, status[t] \in Terminal
               PROVE  status'[t] = status[t]
    BY DEF TerminalIsFinal
  <2>1. PICK s \in Session : Fold(s)
    BY <1>1 DEF Next, Step, vars, Planning, PlanRejected, BeginPass, Finish, Admit,
                Launch, TaskEnds, Join, DropClaims, Abort
  <2>2. PICK u \in wave[s] : FoldOf(s, u)
    BY <1>1, <2>1, FoldFacts
  <2>3. \A x \in Task : status[x] # "Pending" => status'[x] = status[x]
    BY <1>1, <2>2, FoldRowFacts DEF FoldOf, RowsAfterFold
  <2> QED BY <2>3 DEF Terminal
<1> QED BY <1>1, Invariance, PTL DEF Spec

\* Between two folds the skipped tasks are exactly those behind a failed one
\* (CascadeIsExact): no fold of another result of the wave, and no split, skips a
\* task that could run or leaves one behind a failure waiting.
THEOREM CascadeExactness == Spec => []CascadeIsExact
<1>1. Init => CascadeIsExact
  <2>1. Init => \A s \in Session : Tasks(s) = {}
    BY DEF Init, Tasks, Range
  <2> QED BY <2>1 DEF CascadeIsExact
<1> QED BY <1>1, Invariance, StepCascade, PTL DEF Spec

\* A session leaves a task unfinished only behind a split, for another session's
\* claims, or with a graph that re-planning grew beyond its passes
\* (StallHasCause): the number of passes is enough for every plan.
THEOREM StallsHaveCauses == Spec => []StallHasCause
<1>1. Init => \A s \in Session : PassesPay(s)
  <2> SUFFICES ASSUME Init, NEW s \in Session PROVE PassesPay(s)
    OBVIOUS
  <2>1. Tasks(s) = {} /\ Ended(s) = {} /\ pass[s] = 0 /\ pc[s] = "planning"
    BY DEF Init, Tasks, Range, Ended
  <2>2. pass[s] <= Cardinality(Ended(s))
    BY <2>1, FS_EmptySet
  <2> QED BY <2>1, <2>2 DEF PassesPay
<1>2. (\A s \in Session : PassesPay(s)) /\ IInv /\ [Next]_vars
        => (\A s \in Session : PassesPay(s))'
  BY StepPays
<1>3. IInv /\ CascadeIsExact /\ (\A s \in Session : PassesPay(s)) => StallHasCause
  BY PassesSuffice
<1> QED BY <1>1, <1>2, <1>3, Invariance, CascadeExactness, PTL DEF Spec

\* The waves of all sessions together are a correct client of the ownership
\* ledger (LedgerHonoured): the refinement of its specification.
THEOREM WavesHonourTheLedger == Spec => LedgerHonoured
<1>1. Init => Ledger!Init
  BY SessionOfType DEF Init, Ledger!Init, Granted
<1> QED BY <1>1, Invariance, StepLedger, PTL DEF Spec, LedgerHonoured

-----------------------------------------------------------------------------
(* What the ledger promises holds of the waves.                            *)

Promise == INSTANCE Ownership_proofs WITH Request <- Asked, granted <- Granted

\* The theorems about the ledger speak of the specification the waves implement.
LEMMA PromiseIsLedger ==
  /\ Ledger!Init => Promise!Init
  /\ [Ledger!Next]_Ledger!vars => [Promise!Next]_Promise!vars
<1>1. \A r : Ledger!Predicted(r) = Promise!Predicted(r)
  BY DEF Ledger!Predicted, Ledger!PredictWrites, Ledger!Resolve, Ledger!Contains,
         Ledger!EndingWith, Ledger!EndsWith, Ledger!StartsWith,
         Promise!Predicted, Promise!PredictWrites, Promise!Resolve, Promise!Contains,
         Promise!EndingWith, Promise!EndsWith, Promise!StartsWith
<1>2. \A c, t, paths : Ledger!Conflict(c, t, paths) = Promise!Conflict(c, t, paths)
  BY DEF Ledger!Conflict, Ledger!Overlaps, Ledger!StartsWith, Ledger!Normalize, Ledger!Root,
         Promise!Conflict, Promise!Overlaps, Promise!StartsWith, Promise!Normalize,
         Promise!Root
<1>3. \A c, t, paths : Ledger!Insert(c, t, paths) = Promise!Insert(c, t, paths)
  BY DEF Ledger!Insert, Ledger!Normalize, Ledger!Root,
         Promise!Insert, Promise!Normalize, Promise!Root
<1>4. \A c, t : Ledger!Retain(c, t) = Promise!Retain(c, t)
  BY DEF Ledger!Retain, Ledger!HeldBy, Promise!Retain, Promise!HeldBy
<1>5. \A t, r : Ledger!Claim(t, r) => Promise!Claim(t, r)
  BY <1>1, <1>2, <1>3 DEF Ledger!Claim, Promise!Claim
<1>6. \A t : Ledger!Release(t) => Promise!Release(t)
  BY <1>4 DEF Ledger!Release, Promise!Release
<1> QED BY <1>5, <1>6 DEF Ledger!Init, Promise!Init, Ledger!Next, Promise!Next,
                          Ledger!vars, Promise!vars

\* No two tasks that are admitted at one time, of one session or of several, may
\* write one file of the workspace, however their descriptions spell it: what the
\* claims are for, over every interleaving of admissions, folds, splits and aborts.
THEOREM FilesHaveOneWriter == Spec => []Promise!OneWriterPerFile
<1>1. Promise!RootAssumption
  BY WorkspaceAssumption DEF Promise!RootAssumption
<1>2. Promise!IndexAssumption
  BY WorkspaceAssumption DEF Promise!IndexAssumption
<1>3. Promise!RequestAssumption
  BY WorkspaceAssumption DEF Promise!RequestAssumption, Asked, Promise!Spellings, Spellings
<1>4. Promise!Spec => []Promise!OneWriterPerFile
  BY <1>1, <1>2, <1>3, Promise!OneWriterAtATime, PTL
<1>5. LedgerHonoured => Promise!Spec
  BY PromiseIsLedger, PTL DEF LedgerHonoured, Promise!Spec
<1> QED BY <1>4, <1>5, WavesHonourTheLedger, PTL

-----------------------------------------------------------------------------
(* Termination, as far as it is a matter of safety.                        *)

\* The passes of a session are counted up to their bound.
PassesFit == \A s \in Session : pass[s] <= MaxPasses(s)

\* No step counts a pass beyond the bound.
LEMMA PassesKeepFitting ==
  ASSUME IInv, PassesFit, [Next]_vars
  PROVE  PassesFit'
<1>1. pass \in [Session -> Nat] /\ \A s \in Session : MaxPasses(s) \in Nat
  BY PlanAssumption DEF IInv, TypeOK, MaxPasses
<1>2. CASE UNCHANGED pass
  BY <1>2 DEF PassesFit, MaxPasses
<1>3. ASSUME NEW s \in Session, BeginPass(s) PROVE PassesFit'
  <2>1. pass[s] # MaxPasses(s) /\ pass' = [pass EXCEPT ![s] = pass[s] + 1]
    BY <1>3 DEF BeginPass, LoopEnds
  <2>2. pass[s] + 1 <= MaxPasses(s)
    BY <1>1, <2>1 DEF PassesFit
  <2>3. ASSUME NEW r \in Session PROVE pass'[r] <= MaxPasses(r)
    <3>1. CASE r = s
      BY <1>1, <2>1, <2>2, <3>1
    <3>2. CASE r # s
      BY <1>1, <2>1, <3>2 DEF PassesFit
    <3> QED BY <3>1, <3>2
  <2> QED BY <2>3 DEF PassesFit, MaxPasses
<1> QED BY <1>2, <1>3 DEF Next, Step, vars, Planning, PlanRejected, Finish, Admit, Launch,
                          TaskEnds, Join, Fold, DropClaims, Abort

\* The phases in numbers.
LEMMA PhaseValues ==
  /\ Phase["done"] = 0 /\ Phase["rejected"] = 0 /\ Phase["aborted"] = 0 /\ Phase["pass"] = 1
  /\ Phase["fold"] = 2 /\ Phase["dropping"] = 2 /\ Phase["wave"] = 3 /\ Phase["admit"] = 4
  /\ Phase["planning"] = 5
BY DEF Phase

\* What a session has left in its phase is the number of a finite set of tasks.
Rest(s) == IF pc[s] = "admit" THEN queue[s]
           ELSE IF pc[s] = "wave" THEN {t \in wave[s] : result[t] = "running"}
           ELSE wave[s]

\* Work counts it.
LEMMA WorkIsRest ==
  ASSUME NEW s \in Session
  PROVE  Work(s) = Cardinality(Rest(s)) /\ Work(s)' = Cardinality(Rest(s)')
<1>1. Work(s) = Cardinality(Rest(s))
  <2>1. CASE pc[s] = "admit"
    BY <2>1 DEF Work, Rest
  <2>2. CASE pc[s] = "wave"
    BY <2>2 DEF Work, Rest
  <2>3. CASE pc[s] \notin {"admit", "wave"}
    BY <2>3 DEF Work, Rest
  <2> QED BY <2>1, <2>2, <2>3
<1>2. Work(s)' = Cardinality(Rest(s)')
  <2>1. CASE pc'[s] = "admit"
    BY <2>1 DEF Work, Rest
  <2>2. CASE pc'[s] = "wave"
    BY <2>2 DEF Work, Rest
  <2>3. CASE pc'[s] \notin {"admit", "wave"}
    BY <2>3 DEF Work, Rest
  <2> QED BY <2>1, <2>2, <2>3
<1> QED BY <1>1, <1>2

\* There are finitely many of them.
LEMMA RestIsFinite ==
  ASSUME IInv, NEW s \in Session
  PROVE  IsFiniteSet(Rest(s))
<1>1. IsFiniteSet(Tasks(s))
  BY EndedFacts
<1>2. Rest(s) \in SUBSET Tasks(s)
  BY DEF IInv, WavesAreReady, Rest
<1> QED BY <1>1, <1>2, FS_Subset

\* In one phase, a task less is progress.
LEMMA OneTaskLess ==
  ASSUME IInv, NEW s \in Session, NEW t \in Rest(s), Rest(s)' = Rest(s) \ {t},
         pass'[s] = pass[s], pc'[s] = pc[s]
  PROVE  Advances(s)
<1>1. IsFiniteSet(Rest(s)) /\ Cardinality(Rest(s)) \in Nat
  BY RestIsFinite, FS_CardinalityType
<1>2. Cardinality(Rest(s) \ {t}) = Cardinality(Rest(s)) - 1
  BY <1>1, FS_RemoveElement
<1>3. Work(s) = Cardinality(Rest(s)) /\ Work(s)' = Cardinality(Rest(s)')
  BY WorkIsRest
<1>4. Work(s)' = Cardinality(Rest(s) \ {t})
  BY <1>3, Zenon
<1> DEFINE m == Work(s)'
           n == Work(s)
<1>5. n \in Nat /\ m = n - 1
  BY <1>1, <1>2, <1>3, <1>4
<1> HIDE DEF m, n
<1>6. m < n
  BY <1>5
<1> QED BY <1>6 DEF Advances, m, n

\* A step of a session brings it nearer to its end.
LEMMA StepAdvances ==
  ASSUME IInv, PassesFit', NEW s \in Session, Step(s) \/ Abort(s)
  PROVE  Advances(s)
<1> USE DEF IInv
<1>0. /\ pc \in [Session -> {"planning", "pass", "admit", "wave", "fold", "done",
                             "rejected", "dropping", "aborted"}]
      /\ pass \in [Session -> Nat] /\ queue \in [Session -> SUBSET Task]
      /\ wave \in [Session -> SUBSET Task] /\ result \in [Task -> {"none", "running"} \cup Outcome]
  BY DEF TypeOK
<1>1. CASE Planning(s) \/ PlanRejected(s) \/ Finish(s) \/ Launch(s) \/ Join(s) \/ Abort(s)
  <2>1. pass'[s] = pass[s]
    BY <1>1 DEF Planning, PlanRejected, Finish, Launch, Join, Abort
  <2>2. <<pc[s], pc'[s]>> \in {<<"planning", "pass">>, <<"planning", "rejected">>,
          <<"planning", "aborted">>, <<"planning", "dropping">>, <<"pass", "done">>,
          <<"admit", "pass">>, <<"admit", "wave">>, <<"wave", "fold">>,
          <<"wave", "aborted">>, <<"wave", "dropping">>}
    BY <1>0, <1>1 DEF Planning, PlanRejected, Finish, Launch, Join, Abort
  <2>3. Phase[pc'[s]] < Phase[pc[s]]
    BY <2>2, PhaseValues
  <2> QED BY <2>1, <2>3 DEF Advances
<1>2. CASE BeginPass(s)
  <2>1. pass'[s] = pass[s] + 1 /\ pass'[s] <= MaxPasses(s)
    BY <1>0, <1>2 DEF BeginPass, PassesFit, MaxPasses
  <2>2. pass[s] \in Nat /\ MaxPasses(s) \in Nat
    BY <1>0, PlanAssumption DEF MaxPasses
  <2>3. pass'[s] \in (pass[s] + 1)..MaxPasses(s)
    BY <2>1, <2>2
  <2> QED BY <2>3 DEF Advances
<1>3. CASE Admit(s)
  <2> DEFINE t == Earliest(order[s], queue[s])
  <2>1. order[s] \in Seq(Task) /\ queue[s] \in SUBSET Range(order[s]) /\ queue[s] # {}
    BY <1>3 DEF Admit, WavesAreReady, TypeOK, Tasks
  <2>2. t \in queue[s]
    BY <2>1, EarliestIn
  <2>3. pc[s] = "admit" /\ pc' = pc /\ pass' = pass /\ queue'[s] = queue[s] \ {t}
    BY <1>0, <1>3 DEF Admit
  <2> HIDE DEF t
  <2>4. Rest(s) = queue[s] /\ Rest(s)' = queue[s] \ {t}
    BY <2>3 DEF Rest
  <2> QED BY <2>2, <2>3, <2>4, OneTaskLess
<1>4. ASSUME NEW t \in wave[s], TaskEnds(s, t) PROVE Advances(s)
  <2>1. t \in Task
    BY <1>0
  <2>2. /\ pc[s] = "wave" /\ pc' = pc /\ pass' = pass /\ wave' = wave /\ result[t] = "running"
        /\ \E o \in Outcome : result' = [result EXCEPT ![t] = o]
    BY <1>4 DEF TaskEnds
  <2>3. result'[t] # "running" /\ \A u \in Task \ {t} : result'[u] = result[u]
    BY <1>0, <2>1, <2>2 DEF Outcome
  <2>4. /\ Rest(s) = {u \in wave[s] : result[u] = "running"}
        /\ Rest(s)' = {u \in wave[s] : result'[u] = "running"}
    BY <2>2 DEF Rest
  <2>5. t \in Rest(s) /\ Rest(s)' = Rest(s) \ {t}
    BY <1>0, <2>2, <2>3, <2>4
  <2> QED BY <2>2, <2>5, OneTaskLess
<1>5. ASSUME NEW t \in wave[s], wave'[s] = wave[s] \ {t}, pass' = pass,
             pc[s] \in {"fold", "dropping"},
             pc'[s] = pc[s] \/ Phase[pc'[s]] < Phase[pc[s]]
      PROVE  Advances(s)
  <2>1. CASE pc'[s] = pc[s]
    <3>1. Rest(s) = wave[s] /\ Rest(s)' = wave[s] \ {t}
      BY <1>5, <2>1 DEF Rest
    <3> QED BY <1>5, <2>1, <3>1, OneTaskLess
  <2>2. CASE pc'[s] # pc[s]
    BY <1>5, <2>2 DEF Advances
  <2> QED BY <2>1, <2>2
<1>6. CASE Fold(s)
  <2>1. PICK t \in wave[s] : FoldOf(s, t)
    BY <1>6, FoldFacts
  <2>2. /\ wave'[s] = wave[s] \ {t} /\ pass' = pass /\ pc[s] = "fold"
        /\ pc'[s] \in {"fold", "pass"}
    BY <1>0, <2>1 DEF FoldOf
  <2> QED BY <1>5, <2>2, PhaseValues
<1>7. CASE DropClaims(s)
  <2> DEFINE t == Earliest(order[s], wave[s])
  <2>1. order[s] \in Seq(Task) /\ wave[s] \in SUBSET Range(order[s]) /\ wave[s] # {}
    BY <1>7 DEF DropClaims, WavesAreReady, TypeOK, Tasks
  <2>2. t \in wave[s]
    BY <2>1, EarliestIn
  <2>3. /\ wave'[s] = wave[s] \ {t} /\ pass' = pass /\ pc[s] = "dropping"
        /\ pc'[s] \in {"dropping", "aborted"}
    BY <1>0, <1>7 DEF DropClaims
  <2> HIDE DEF t
  <2> QED BY <1>5, <2>2, <2>3, PhaseValues
<1> QED BY <1>1, <1>2, <1>3, <1>4, <1>6, <1>7 DEF Step

\* Every step of any session, an abort included, brings that session nearer to its
\* end and takes no other back (SessionsAdvance): each is a descent within the
\* passes of execute_graph's loop (executor.rs 453), so that with finitely many
\* sessions every run is finite, whatever splits and deferrals do.
THEOREM EveryStepAdvances == Spec => [][SessionsAdvance]_vars
<1>1. Init => PassesFit
  BY PlanAssumption DEF Init, PassesFit, MaxPasses
<1>2. ASSUME IInv, PassesFit, [Next]_vars PROVE [SessionsAdvance]_vars
  <2>1. PassesFit'
    BY <1>2, PassesKeepFitting
  <2>2. ASSUME NEW s \in Session, Step(s) \/ Abort(s) PROVE SessionsAdvance
    <3>1. Advances(s)
      BY <1>2, <2>1, <2>2, StepAdvances
    <3>2. ASSUME NEW r \in Session, r # s
          PROVE  pass'[r] = pass[r] /\ pc'[r] = pc[r] /\ Work(r)' = Work(r)
      <4>1. /\ UNCHANGED Walk(r)
            /\ \A t \in Tasks(r) : result'[t] = result[t]
        BY <1>2, <2>2, <3>2, OthersUndisturbed
      <4>2. /\ pass'[r] = pass[r] /\ pc'[r] = pc[r] /\ queue'[r] = queue[r] /\ wave'[r] = wave[r]
        BY <4>1 DEF Walk
      <4>3. wave[r] \subseteq Tasks(r)
        BY <1>2 DEF IInv, WavesAreReady
      <4>4. Rest(r)' = Rest(r)
        BY <4>1, <4>2, <4>3 DEF Rest
      <4> QED BY <4>2, <4>4, WorkIsRest
    <3> QED BY <3>1, <3>2 DEF SessionsAdvance
  <2> QED BY <1>2, <2>2 DEF Next
<1>3. PassesFit /\ IInv /\ [Next]_vars => PassesFit'
  BY PassesKeepFitting
<1>4. PassesFit /\ IInv /\ [Next]_vars => [SessionsAdvance]_vars
  BY <1>2
<1> QED BY <1>1, <1>3, <1>4, Invariance, PTL DEF Spec

\* The walk of a graph never turns back (WalkNeverTurnsBack; execute_graph of
\* executor.rs): terminal rows are final and every step comes nearer to the end.
THEOREM WalksGoForward == Spec => WalkNeverTurnsBack
<1>1. [TerminalIsFinal]_vars /\ [SessionsAdvance]_vars
      => [TerminalIsFinal /\ SessionsAdvance]_vars
  OBVIOUS
<1> QED BY <1>1, TerminalRowsAreFinal, EveryStepAdvances, PTL DEF WalkNeverTurnsBack

=============================================================================
