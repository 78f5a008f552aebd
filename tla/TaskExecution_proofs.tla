------------------------ MODULE TaskExecution_proofs ------------------------
(***************************************************************************)
(* Proofs about execute_task, for any number of concurrent tasks, any set  *)
(* of agents and models, and every setting of the breakers and the policy. *)
(***************************************************************************)
EXTENDS TaskExecution, TLAPS

-----------------------------------------------------------------------------
(* Breakers.                                                               *)

\* The values a breaker's fields start from or are reset to.
LEMMA BreakerValues ==
  /\ "Closed" \in BreakerState /\ "Open" \in BreakerState
  /\ "HalfOpen" \in BreakerState
  /\ 0 \in FailureCount /\ 0 \in SuccessCount /\ 1 \in SuccessCount /\ 0 \in Age
BY BreakerConfigAssumption DEF BreakerState, FailureCount, SuccessCount, Age

\* A new breaker is a breaker.
LEMMA NewBreakerType == NewBreaker \in Breaker
BY BreakerValues DEF NewBreaker, Breaker

\* Asking a breaker gives a breaker, and never opens it or counts a failure.
LEMMA StateAtFacts ==
  ASSUME NEW br \in Breaker
  PROVE  /\ StateAt(br) \in Breaker
         /\ StateAt(br).failures = br.failures
         /\ br.state = "Closed" => StateAt(br).state = "Closed"
         /\ StateAt(br).state = "Closed" => br.state = "Closed"
<1>1. CASE br.state = "Open" /\ br.age = Cooldown
  <2>1. StateAt(br) = [br EXCEPT !.state = "HalfOpen", !.successes = 0, !.age = 0]
    BY <1>1 DEF StateAt
  <2> QED BY <1>1, <2>1, BreakerValues DEF Breaker
<1>2. CASE ~(br.state = "Open" /\ br.age = Cooldown)
  BY <1>2 DEF StateAt
<1> QED BY <1>1, <1>2

\* A success clears the failures and never opens a closed breaker.
LEMMA RecordSuccessFacts ==
  ASSUME NEW br \in Breaker
  PROVE  /\ RecordSuccess(br) \in Breaker
         /\ RecordSuccess(br).failures = 0
         /\ br.state = "Closed" => RecordSuccess(br).state = "Closed"
<1> DEFINE ok == [br EXCEPT !.failures = 0]
<1>1. ok \in Breaker /\ ok.failures = 0 /\ ok.state = br.state
        /\ ok.successes = br.successes
  BY BreakerValues DEF Breaker
<1> HIDE DEF ok
<1>2. CASE br.state = "Closed"
  <2>1. RecordSuccess(br) = ok
    BY <1>2 DEF RecordSuccess, ok
  <2> QED BY <1>1, <1>2, <2>1
<1>3. CASE br.state = "Open"
  <2>1. RecordSuccess(br) =
          [ok EXCEPT !.state = "HalfOpen", !.successes = 1, !.age = 0]
    BY <1>3 DEF RecordSuccess, ok
  <2> QED BY <1>1, <1>3, <2>1, BreakerValues DEF Breaker
<1>4. CASE br.state = "HalfOpen" /\ br.successes + 1 >= SuccessThreshold
  <2>1. RecordSuccess(br) = [ok EXCEPT !.state = "Closed", !.successes = 0]
    BY <1>4 DEF RecordSuccess, ok
  <2> QED BY <1>1, <1>4, <2>1, BreakerValues DEF Breaker
<1>5. CASE br.state = "HalfOpen" /\ ~(br.successes + 1 >= SuccessThreshold)
  <2>1. RecordSuccess(br) = [ok EXCEPT !.successes = ok.successes + 1]
    BY <1>5 DEF RecordSuccess, ok
  <2>2. br.successes + 1 \in SuccessCount
    BY <1>5, BreakerConfigAssumption DEF Breaker, SuccessCount
  <2> QED BY <1>1, <1>5, <2>1, <2>2 DEF Breaker
<1> QED BY <1>2, <1>3, <1>4, <1>5 DEF Breaker, BreakerState

\* A failure counts at most once, and opens a closed breaker only at the
\* threshold; a class that says nothing about the agent changes nothing.
LEMMA RecordFailureFacts ==
  ASSUME NEW br \in Breaker, NEW class
  PROVE  /\ RecordFailure(br, class) \in Breaker
         /\ RecordFailure(br, class).failures <= br.failures + 1
         /\ class \notin CountsAgainstHealth => RecordFailure(br, class) = br
         /\ br.state = "Closed" /\ RecordFailure(br, class).state # "Closed"
              => br.failures + 1 >= FailureThreshold
<1> DEFINE n   == Capped(br.failures + 1, FailureThreshold)
           bad == [br EXCEPT !.failures = n, !.successes = 0]
<1>0. br.failures \in Nat /\ FailureThreshold \in Nat
  BY BreakerConfigAssumption DEF Breaker, FailureCount
<1>1. n \in FailureCount /\ n <= br.failures + 1
  BY <1>0, BreakerConfigAssumption DEF Capped, FailureCount
<1> HIDE DEF n
<1>2. bad \in Breaker /\ bad.failures = n /\ bad.state = br.state
  BY <1>1, BreakerValues DEF Breaker
<1>3. [bad EXCEPT !.state = "Open", !.age = 0] \in Breaker
        /\ [bad EXCEPT !.state = "Open", !.age = 0].failures = n
  BY <1>2, BreakerValues DEF Breaker
<1>4. CASE class \notin CountsAgainstHealth
  <2>1. RecordFailure(br, class) = br
    BY <1>4 DEF RecordFailure
  <2> QED BY <1>0, <2>1
<1>5. CASE /\ class \in CountsAgainstHealth
           /\ br.state = "Closed" /\ br.failures + 1 < FailureThreshold
  <2>1. RecordFailure(br, class) = bad
    BY <1>5 DEF RecordFailure, RecordAnyFailure, n
  <2> HIDE DEF bad
  <2> QED BY <1>1, <1>2, <1>5, <2>1
<1>6. CASE /\ class \in CountsAgainstHealth
           /\ ~(br.state = "Closed" /\ br.failures + 1 < FailureThreshold)
  <2>1. RecordFailure(br, class) = [bad EXCEPT !.state = "Open", !.age = 0]
    BY <1>6 DEF RecordFailure, RecordAnyFailure, n
  <2> HIDE DEF bad
  <2> QED BY <1>0, <1>1, <1>3, <1>6, <2>1
<1> QED BY <1>4, <1>5, <1>6

\* Time passing changes neither the state nor the count.
LEMMA OlderFacts ==
  ASSUME NEW br \in Breaker
  PROVE  /\ Older(br) \in Breaker
         /\ Older(br).failures = br.failures
         /\ Older(br).state = br.state
<1> DEFINE n == Capped(br.age + 1, Cooldown)
<1>1. n \in Age
  BY BreakerConfigAssumption DEF Capped, Breaker, Age
<1>2. CASE br.state = "Open"
  <2>1. Older(br) = [br EXCEPT !.age = n]
    BY <1>2 DEF Older
  <2> HIDE DEF n
  <2> QED BY <1>1, <2>1 DEF Breaker
<1>3. CASE br.state # "Open"
  BY <1>3 DEF Older
<1> QED BY <1>2, <1>3

\* The health read from a breaker is a health state.
LEMMA ToHealthFacts ==
  ASSUME NEW br \in Breaker
  PROVE  /\ ToHealth(br.state) \in Health
         /\ ToHealth(br.state) = "Unavailable" => br.state # "Closed"
BY DEF ToHealth, Health, Breaker, BreakerState

\* What record_failure makes of the agent's breaker.
LEMMA ChargeAgentFacts ==
  ASSUME NEW br \in Breaker, NEW g, NEW class
  PROVE  /\ ChargeAgent(br, g, class) \in Breaker
         /\ ChargeAgent(br, g, class).failures <= br.failures + 1
         /\ class \notin CountsAgainstHealth
              \/ (class = "ModelUnavailable" /\ g[2] # NoModel)
            => /\ ChargeAgent(br, g, class).failures = br.failures
               /\ br.state = "Closed" => ChargeAgent(br, g, class).state = "Closed"
         /\ br.state = "Closed" /\ ChargeAgent(br, g, class).state # "Closed"
              => br.failures + 1 >= FailureThreshold
<1>0. br.failures \in Nat /\ FailureThreshold \in Nat
  BY BreakerConfigAssumption DEF Breaker, FailureCount
<1>1. CASE class = "ModelUnavailable" /\ g[2] # NoModel
  BY <1>0, <1>1, StateAtFacts DEF ChargeAgent
<1>2. CASE ~(class = "ModelUnavailable" /\ g[2] # NoModel)
  <2> DEFINE f == RecordFailure(br, class)
  <2>1. f \in Breaker
    BY RecordFailureFacts
  <2>2. ChargeAgent(br, g, class) = StateAt(f)
    BY <1>2 DEF ChargeAgent
  <2>3. /\ f.failures <= br.failures + 1
        /\ class \notin CountsAgainstHealth => f = br
        /\ br.state = "Closed" /\ f.state # "Closed"
             => br.failures + 1 >= FailureThreshold
    BY RecordFailureFacts
  <2> HIDE DEF f
  <2>4. /\ StateAt(f) \in Breaker
        /\ StateAt(f).failures = f.failures
        /\ f.state = "Closed" => StateAt(f).state = "Closed"
    BY <2>1, StateAtFacts
  <2> QED BY <1>2, <2>2, <2>3, <2>4
<1> QED BY <1>1, <1>2

-----------------------------------------------------------------------------
(* The inductive invariant.  The properties speak of a task while it runs, *)
(* but what makes them true is decided earlier: when it is given up, when  *)
(* the loop starts over, when a failure is counted.                        *)

\* A task that will use a target has budget for it.
BudgetOK(t) ==
  /\ Len(t.attempts) <= MaxAttempts
  /\ t.pc \notin {"idle", "probe", "react"} => Len(t.attempts) < MaxAttempts

\* A target is known from routing until the reaction, and allowed until it is
\* on the record.
TargetOK(t) ==
  /\ t.pc \in {"running", "succeeded", "failed", "noting"} =>
       t.target \in Target /\ ~Excluded(t.target, t.abandoned)
  /\ t.pc \in {"probe", "react"} => t.target \in Target

\* There is a handoff exactly if something was given up; it comes from there,
\* and waits for its receiver only until the task is routed.
HandoffOK(t) ==
  /\ t.abandoned = {} => t.handoff.to = "none" /\ t.handoff.delivered
  /\ t.abandoned # {} => \E x \in t.abandoned : x[1] = t.handoff.from
  /\ t.abandoned # {} /\ t.handoff.delivered => t.handoff.to # "none"
  /\ ~t.handoff.delivered => t.pc \in {"top", "route"}

TaskOK(t) == t \in TaskState /\ BudgetOK(t) /\ TargetOK(t) /\ HandoffOK(t)

\* Everything that takes an agent out of the pool, or is about to, goes back to
\* as many failures of its own as the threshold asks for.
ChargeOK ==
  \A a \in Agent :
     /\ agentBreaker[a].failures <= charged[a]
     /\ agentBreaker[a].state # "Closed" => charged[a] = FailureThreshold
     /\ health[a] = "Unavailable" => charged[a] = FailureThreshold

NotedOK ==
  \A w \in Worker :
     task[w].pc = "noting" /\ task[w].noted = "Unavailable"
       => charged[task[w].target[1]] = FailureThreshold

IInv ==
  /\ TypeOK
  /\ \A w \in Worker : TaskOK(task[w])
  /\ ChargeOK
  /\ NotedOK

-----------------------------------------------------------------------------
(* Steps.                                                                  *)

\* The agent of a target is an agent, and no agent is called "none".
LEMMA AgentFacts ==
  ASSUME NEW g \in Target
  PROVE  g[1] \in Agent /\ g[1] # "none"
BY AgentAssumption DEF Agent

\* A new or settled task keeps no promises that could be broken.
LEMMA FreshOK ==
  /\ TaskOK(Fresh)
  /\ \A s \in Status : TaskOK([Fresh EXCEPT !.status = s])
  /\ TaskOK([Fresh EXCEPT !.pc = "top"])
<1>1. Fresh \in TaskState /\ Len(Fresh.attempts) = 0
  BY DEF Fresh, TaskState, NoHandoff, Handoff, Status
<1>2. ASSUME NEW s \in Status PROVE TaskOK([Fresh EXCEPT !.status = s])
  <2> DEFINE L == [Fresh EXCEPT !.status = s]
  <2>1. L \in TaskState
    BY <1>1 DEF TaskState
  <2>2. /\ L.attempts = <<>> /\ L.pc = "idle" /\ L.abandoned = {}
        /\ L.handoff.to = "none" /\ L.handoff.delivered
    BY DEF Fresh, NoHandoff
  <2> HIDE DEF L
  <2>3. TaskOK(L)
    BY <2>1, <2>2, RetryPolicyAssumption
       DEF TaskOK, BudgetOK, TargetOK, HandoffOK
  <2> QED BY <2>3 DEF L
<1>3. TaskOK([Fresh EXCEPT !.pc = "top"])
  <2> DEFINE L == [Fresh EXCEPT !.pc = "top"]
  <2>1. L \in TaskState
    BY <1>1 DEF TaskState
  <2>2. /\ L.attempts = <<>> /\ L.pc = "top" /\ L.abandoned = {}
        /\ L.handoff.to = "none" /\ L.handoff.delivered
    BY DEF Fresh, NoHandoff
  <2> HIDE DEF L
  <2>3. TaskOK(L)
    BY <2>1, <2>2, RetryPolicyAssumption
       DEF TaskOK, BudgetOK, TargetOK, HandoffOK
  <2> QED BY <2>3 DEF L
<1>4. TaskOK(Fresh)
  <2>1. /\ Fresh.attempts = <<>> /\ Fresh.pc = "idle" /\ Fresh.abandoned = {}
        /\ Fresh.handoff.to = "none" /\ Fresh.handoff.delivered
    BY DEF Fresh, NoHandoff
  <2> QED BY <1>1, <2>1, RetryPolicyAssumption
          DEF TaskOK, BudgetOK, TargetOK, HandoffOK
<1> QED BY <1>2, <1>3, <1>4

\* A step that gives worker w good locals L leaves everybody else's alone.
LEMMA LocalStep ==
  ASSUME IInv, NEW w \in Worker, NEW L, TaskOK(L), Local(w, L)
  PROVE  /\ task' \in [Worker -> TaskState]
         /\ \A v \in Worker : TaskOK(task'[v])
         /\ task'[w] = L
         /\ \A v \in Worker \ {w} : task'[v] = task[v]
<1>1. L \in TaskState
  BY DEF TaskOK
<1>2. task \in [Worker -> TaskState]
  BY DEF IInv, TypeOK
<1>3. task' = [task EXCEPT ![w] = L]
  BY DEF Local
<1>4. task'[w] = L /\ \A v \in Worker \ {w} : task'[v] = task[v]
  BY <1>2, <1>3
<1>5. \A v \in Worker : TaskOK(task'[v])
  BY <1>4 DEF IInv
<1> QED BY <1>1, <1>2, <1>3, <1>4, <1>5

\* A breaker that forgot failures, aged or was asked, and did not open.
Calmer(after, before) ==
  /\ after \in Breaker
  /\ after.failures <= before.failures
  /\ before.state = "Closed" => after.state = "Closed"

\* Asking, aging and succeeding are calm.
LEMMA CalmSteps ==
  ASSUME NEW br \in Breaker
  PROVE  /\ Calmer(br, br) /\ Calmer(StateAt(br), br)
         /\ Calmer(Older(br), br) /\ Calmer(RecordSuccess(br), br)
<1>1. br.failures \in Nat
  BY BreakerConfigAssumption DEF Breaker, FailureCount
<1> QED BY <1>1, StateAtFacts, OlderFacts, RecordSuccessFacts DEF Calmer

\* A step that only calms breakers, notes no bad health and charges nobody
\* keeps what is known about charges.
LEMMA CalmCharge ==
  ASSUME IInv, charged' = charged,
         \A a \in Agent : Calmer(agentBreaker'[a], agentBreaker[a]),
         \A a \in Agent : health'[a] = "Unavailable" =>
            health[a] = "Unavailable" \/ charged[a] = FailureThreshold
  PROVE  ChargeOK'
<1> SUFFICES ASSUME NEW a \in Agent
             PROVE  /\ agentBreaker'[a].failures <= charged'[a]
                    /\ agentBreaker'[a].state # "Closed"
                         => charged'[a] = FailureThreshold
                    /\ health'[a] = "Unavailable"
                         => charged'[a] = FailureThreshold
  BY DEF ChargeOK
<1>1. agentBreaker[a] \in Breaker /\ charged[a] \in 0..FailureThreshold
  BY DEF IInv, TypeOK
<1>2. /\ agentBreaker[a].failures <= charged[a]
      /\ agentBreaker[a].state # "Closed" => charged[a] = FailureThreshold
      /\ health[a] = "Unavailable" => charged[a] = FailureThreshold
  BY DEF IInv, ChargeOK
<1>3. Calmer(agentBreaker'[a], agentBreaker[a])
  OBVIOUS
<1>4. /\ agentBreaker[a].failures \in Nat /\ agentBreaker'[a].failures \in Nat
      /\ charged[a] \in Nat
  BY <1>1, <1>3, BreakerConfigAssumption DEF Calmer, Breaker, FailureCount
<1> QED BY <1>2, <1>3, <1>4 DEF Calmer

\* Routing asks breakers, which is calm.
LEMMA AskFacts ==
  ASSUME IInv, NEW seen, AskBreakers(seen)
  PROVE  /\ agentBreaker' \in [Agent -> Breaker]
         /\ modelBreaker' \in [Target -> Breaker]
         /\ \A a \in Agent : Calmer(agentBreaker'[a], agentBreaker[a])
<1>1. /\ agentBreaker \in [Agent -> Breaker]
      /\ modelBreaker \in [Target -> Breaker]
  BY DEF IInv, TypeOK
<1>2. ASSUME NEW a \in Agent
      PROVE  Calmer(agentBreaker'[a], agentBreaker[a])
  <2>1. agentBreaker[a] \in Breaker
    BY <1>1
  <2>2. \/ agentBreaker'[a] = agentBreaker[a]
        \/ agentBreaker'[a] = StateAt(agentBreaker[a])
    BY DEF AskBreakers
  <2> QED BY <2>1, <2>2, CalmSteps
<1>3. ASSUME NEW g \in Target
      PROVE  modelBreaker'[g] \in Breaker
  <2>1. modelBreaker[g] \in Breaker
    BY <1>1
  <2>2. \/ modelBreaker'[g] = modelBreaker[g]
        \/ modelBreaker'[g] = StateAt(modelBreaker[g])
    BY DEF AskBreakers
  <2> QED BY <2>1, <2>2, StateAtFacts
<1>4. agentBreaker' \in [Agent -> Breaker]
  BY <1>2 DEF AskBreakers, Calmer
<1>5. modelBreaker' \in [Target -> Breaker]
  BY <1>3 DEF AskBreakers
<1> QED BY <1>2, <1>4, <1>5

\* A worker that is not about to note anything does not disturb NotedOK.
LEMMA NotedStep ==
  ASSUME IInv, NEW w \in Worker,
         \A v \in Worker \ {w} : task'[v] = task[v],
         task'[w].pc # "noting",
         charged' = charged
  PROVE  NotedOK'
BY DEF IInv, NotedOK

-----------------------------------------------------------------------------
(* Every action keeps the invariant.                                       *)

\* The initial state satisfies it.
LEMMA InitIInv == Init => IInv
<1> SUFFICES ASSUME Init PROVE IInv
  OBVIOUS
<1>2. TaskOK(Fresh)
  BY FreshOK
<1>3. Fresh \in TaskState /\ Fresh.pc = "idle"
  BY <1>2 DEF TaskOK, Fresh
<1>4. NewBreaker.failures = 0 /\ NewBreaker.state = "Closed"
  BY DEF NewBreaker
<1>5. TypeOK
  BY <1>3, NewBreakerType, BreakerConfigAssumption DEF Init, TypeOK, Health
<1>6. \A w \in Worker : TaskOK(task[w])
  BY <1>2 DEF Init
<1>7. ChargeOK
  BY <1>4 DEF Init, ChargeOK
<1>8. NotedOK
  BY <1>3 DEF Init, NotedOK
<1> QED BY <1>5, <1>6, <1>7, <1>8 DEF IInv

\* A step of w that changes only its own locals, to good ones, with nothing
\* noted.
LEMMA QuietStep ==
  ASSUME IInv, NEW w \in Worker, NEW L, TaskOK(L), Local(w, L),
         L.pc # "noting",
         UNCHANGED <<agentBreaker, modelBreaker, health, charged>>
  PROVE  IInv'
<1>1. /\ task' \in [Worker -> TaskState]
      /\ \A v \in Worker : TaskOK(task'[v])
      /\ task'[w] = L
      /\ \A v \in Worker \ {w} : task'[v] = task[v]
  BY LocalStep
<1>2. TypeOK' /\ ChargeOK'
  BY <1>1 DEF IInv, TypeOK, ChargeOK
<1>3. NotedOK'
  BY <1>1, NotedStep
<1> QED BY <1>1, <1>2, <1>3 DEF IInv

\* The same for a step that also asks breakers.
LEMMA AskingStep ==
  ASSUME IInv, NEW w \in Worker, NEW L, TaskOK(L), Local(w, L),
         L.pc # "noting", NEW seen, AskBreakers(seen),
         UNCHANGED <<health, charged>>
  PROVE  IInv'
<1>1. /\ task' \in [Worker -> TaskState]
      /\ \A v \in Worker : TaskOK(task'[v])
      /\ task'[w] = L
      /\ \A v \in Worker \ {w} : task'[v] = task[v]
  BY LocalStep
<1>2. /\ agentBreaker' \in [Agent -> Breaker]
      /\ modelBreaker' \in [Target -> Breaker]
      /\ \A a \in Agent : Calmer(agentBreaker'[a], agentBreaker[a])
  BY AskFacts
<1>3. TypeOK'
  BY <1>1, <1>2 DEF IInv, TypeOK
<1>4. ChargeOK'
  BY <1>2, CalmCharge
<1>5. NotedOK'
  BY <1>1, NotedStep
<1> QED BY <1>1, <1>3, <1>4, <1>5 DEF IInv

\* A task that is settled leaves nothing behind.
LEMMA SettledFacts ==
  ASSUME NEW s \in Status
  PROVE  TaskOK(Settled(s)) /\ Settled(s).pc = "idle"
BY FreshOK DEF Settled, Fresh

\* A task starts.
LEMMA BeginStep ==
  ASSUME IInv, NEW w \in Worker, Begin(w)
  PROVE  IInv'
<1> DEFINE L == [Fresh EXCEPT !.pc = "top"]
<1>1. TaskOK(L) /\ Local(w, L) /\ L.pc # "noting"
  BY FreshOK DEF Begin, Fresh
<1> HIDE DEF L
<1> QED BY <1>1, QuietStep DEF Begin

\* The head of the loop.
LEMMA LoopTopStep ==
  ASSUME IInv, NEW w \in Worker, LoopTop(w)
  PROVE  IInv'
<1> DEFINE L == [task[w] EXCEPT !.pc = "route", !.seen = Snapshot]
<1>0. TaskOK(task[w]) /\ task[w] \in TaskState
  BY DEF IInv, TypeOK
<1>1. /\ L \in TaskState /\ L.pc = "route" /\ L.attempts = task[w].attempts
      /\ L.abandoned = task[w].abandoned /\ L.handoff = task[w].handoff
  BY <1>0 DEF TaskState, Snapshot
<1> HIDE DEF L
<1>2. CASE Len(task[w].attempts) >= MaxAttempts
  <2>1. Local(w, Settled("Failed"))
    BY <1>2 DEF LoopTop
  <2>2. TaskOK(Settled("Failed")) /\ Settled("Failed").pc # "noting"
    BY SettledFacts DEF Status
  <2> QED BY <2>1, <2>2, QuietStep DEF LoopTop
<1>3. CASE ~(Len(task[w].attempts) >= MaxAttempts)
  <2>1. Local(w, L)
    BY <1>3 DEF LoopTop, L
  <2>2. Len(task[w].attempts) \in Nat /\ MaxAttempts \in Nat
    BY <1>0, RetryPolicyAssumption DEF TaskState
  <2>3. TaskOK(L)
    BY <1>0, <1>1, <1>3, <2>2 DEF TaskOK, BudgetOK, TargetOK, HandoffOK, LoopTop
  <2> QED BY <1>1, <2>1, <2>3, QuietStep DEF LoopTop
<1> QED BY <1>2, <1>3

\* Routing succeeds: the winner is not excluded, has budget, and receives a
\* handoff that was waiting.
LEMMA RouteTaskStep ==
  ASSUME IInv, NEW w \in Worker, RouteTask(w)
  PROVE  IInv'
<1> DEFINE t == task[w]
           h == t.handoff
<1>0. TaskOK(t) /\ t \in TaskState /\ t.pc = "route" /\ h \in Handoff
  BY DEF IInv, TypeOK, RouteTask, TaskState
<1>1. PICK g \in Candidates(t.seen, t.abandoned) :
        Local(w, [t EXCEPT
              !.pc = "running", !.status = "Running", !.target = g, !.seen = {},
              !.handoff = IF h.delivered THEN h
                          ELSE [h EXCEPT !.to = g[1], !.delivered = TRUE]])
  BY DEF RouteTask
<1>2. g \in Target /\ ~Excluded(g, t.abandoned)
  BY DEF Candidates
<1> DEFINE k == IF h.delivered THEN h
                ELSE [h EXCEPT !.to = g[1], !.delivered = TRUE]
           L == [t EXCEPT !.pc = "running", !.status = "Running", !.target = g,
                          !.seen = {}, !.handoff = k]
<1>3. /\ k \in Handoff /\ k.delivered /\ k.from = h.from
      /\ h.delivered => k = h
      /\ ~h.delivered => k.to # "none"
  BY <1>0, <1>2, AgentFacts DEF Handoff
<1> HIDE DEF k, h
<1>4. /\ L \in TaskState /\ L.pc = "running" /\ L.attempts = t.attempts
      /\ L.target = g /\ L.abandoned = t.abandoned /\ L.handoff = k
  BY <1>0, <1>2, <1>3 DEF TaskState, Status
<1>5. Local(w, L)
  BY <1>1 DEF k, h
<1> HIDE DEF L
<1>6. BudgetOK(L) /\ TargetOK(L)
  BY <1>0, <1>2, <1>4 DEF TaskOK, BudgetOK, TargetOK
<1>7. HandoffOK(L)
  BY <1>0, <1>3, <1>4 DEF TaskOK, HandoffOK, h
<1>8. TaskOK(L)
  BY <1>4, <1>6, <1>7 DEF TaskOK
<1> QED BY <1>4, <1>5, <1>8, AskingStep DEF RouteTask

\* Routing fails.
LEMMA RoutingFailedStep ==
  ASSUME IInv, NEW w \in Worker, RoutingFailed(w)
  PROVE  IInv'
<1>1. TaskOK(Settled("Failed")) /\ Settled("Failed").pc # "noting"
  BY SettledFacts DEF Status
<1> QED BY <1>1, AskingStep DEF RoutingFailed

\* A success calms the breakers.
LEMMA AttemptSucceedsStep ==
  ASSUME IInv, NEW w \in Worker, AttemptSucceeds(w)
  PROVE  IInv'
<1> DEFINE t == task[w]
           g == t.target
           L == [t EXCEPT !.pc = "succeeded"]
<1>0. TaskOK(t) /\ t \in TaskState /\ t.pc = "running" /\ g \in Target
  BY DEF IInv, TypeOK, AttemptSucceeds, TaskOK, TargetOK
<1>1. g[1] \in Agent
  BY <1>0, AgentFacts
<1>2. /\ agentBreaker \in [Agent -> Breaker]
      /\ modelBreaker \in [Target -> Breaker]
  BY DEF IInv, TypeOK
<1>3. /\ agentBreaker' = [agentBreaker EXCEPT ![g[1]] = RecordSuccess(agentBreaker[g[1]])]
      /\ \/ modelBreaker' = modelBreaker
         \/ modelBreaker' = [modelBreaker EXCEPT ![g] = RecordSuccess(modelBreaker[g])]
      /\ Local(w, L)
      /\ UNCHANGED <<health, charged>>
  BY DEF AttemptSucceeds
<1>4. /\ L \in TaskState /\ L.pc = "succeeded" /\ L.attempts = t.attempts
      /\ L.target = g /\ L.abandoned = t.abandoned /\ L.handoff = t.handoff
  BY <1>0 DEF TaskState
<1> HIDE DEF L
<1>5. TaskOK(L)
  BY <1>0, <1>4 DEF TaskOK, BudgetOK, TargetOK, HandoffOK
<1>6. /\ task' \in [Worker -> TaskState]
      /\ \A v \in Worker : TaskOK(task'[v])
      /\ task'[w] = L
      /\ \A v \in Worker \ {w} : task'[v] = task[v]
  BY <1>3, <1>5, LocalStep
<1>7. \A a \in Agent : Calmer(agentBreaker'[a], agentBreaker[a])
  <2> SUFFICES ASSUME NEW a \in Agent
               PROVE  Calmer(agentBreaker'[a], agentBreaker[a])
    OBVIOUS
  <2>1. agentBreaker[a] \in Breaker
    BY <1>2
  <2>2. \/ agentBreaker'[a] = agentBreaker[a]
        \/ agentBreaker'[a] = RecordSuccess(agentBreaker[a])
    BY <1>2, <1>3
  <2> QED BY <2>1, <2>2, CalmSteps
<1>8. /\ agentBreaker' \in [Agent -> Breaker]
      /\ modelBreaker' \in [Target -> Breaker]
  BY <1>0, <1>1, <1>2, <1>3, RecordSuccessFacts
<1>9. TypeOK'
  BY <1>3, <1>6, <1>8 DEF IInv, TypeOK
<1>10. ChargeOK'
  BY <1>3, <1>7, CalmCharge
<1>11. NotedOK'
  BY <1>3, <1>4, <1>6, NotedStep
<1> QED BY <1>6, <1>9, <1>10, <1>11 DEF IInv

\* A success is noted in the registry.
LEMMA SuccessNotedStep ==
  ASSUME IInv, NEW w \in Worker, SuccessNoted(w)
  PROVE  IInv'
<1> DEFINE L == Settled("Completed")
<1>0. TaskOK(task[w]) /\ task[w].pc = "succeeded" /\ task[w].target \in Target
  BY DEF IInv, SuccessNoted, TaskOK, TargetOK
<1>1. TaskOK(L) /\ L.pc # "noting" /\ Local(w, L)
  BY SettledFacts DEF Status, SuccessNoted
<1> HIDE DEF L
<1>2. /\ task' \in [Worker -> TaskState]
      /\ \A v \in Worker : TaskOK(task'[v])
      /\ task'[w] = L
      /\ \A v \in Worker \ {w} : task'[v] = task[v]
  BY <1>1, LocalStep
<1>3. /\ health' = [health EXCEPT ![task[w].target[1]] = "Healthy"]
      /\ UNCHANGED <<agentBreaker, modelBreaker, charged>>
  BY DEF SuccessNoted
<1>4. TypeOK'
  BY <1>0, <1>2, <1>3, AgentFacts DEF IInv, TypeOK, Health
<1>5. ChargeOK'
  <2>1. health \in [Agent -> Health] /\ agentBreaker \in [Agent -> Breaker]
    BY DEF IInv, TypeOK
  <2>2. \A a \in Agent : health'[a] = health[a] \/ health'[a] = "Healthy"
    BY <1>3, <2>1
  <2>3. \A a \in Agent : Calmer(agentBreaker'[a], agentBreaker[a])
    BY <1>3, <2>1, CalmSteps
  <2> QED BY <1>3, <2>2, <2>3, CalmCharge
<1>6. NotedOK'
  BY <1>1, <1>2, <1>3, NotedStep
<1> QED BY <1>2, <1>4, <1>5, <1>6 DEF IInv

\* A failure: the agent's breaker opens only if the agent's own failures have
\* reached the threshold.
LEMMA AttemptFailsStep ==
  ASSUME IInv, NEW w \in Worker, NEW class \in Class, AttemptFails(w, class)
  PROVE  IInv'
<1> DEFINE t   == task[w]
           g   == t.target
           own == class \in CountsAgainstHealth
                    /\ ~(class = "ModelUnavailable" /\ g[2] # NoModel)
           L   == [t EXCEPT !.pc = "failed", !.class = class]
<1>0. TaskOK(t) /\ t \in TaskState /\ t.pc = "running" /\ g \in Target
  BY DEF IInv, TypeOK, AttemptFails, TaskOK, TargetOK
<1>1. g[1] \in Agent
  BY <1>0, AgentFacts
<1>2. /\ agentBreaker \in [Agent -> Breaker]
      /\ modelBreaker \in [Target -> Breaker]
      /\ charged \in [Agent -> 0..FailureThreshold]
  BY DEF IInv, TypeOK
<1>3. /\ agentBreaker' = [agentBreaker EXCEPT
                            ![g[1]] = ChargeAgent(agentBreaker[g[1]], g, class)]
      /\ \/ modelBreaker' = modelBreaker
         \/ modelBreaker' = [modelBreaker EXCEPT
                                ![g] = RecordFailure(modelBreaker[g], class)]
      /\ Local(w, L)
      /\ UNCHANGED health
  BY DEF AttemptFails
<1>4. charged' = IF own
                 THEN [charged EXCEPT ![g[1]] = Capped(charged[g[1]] + 1, FailureThreshold)]
                 ELSE charged
  BY DEF AttemptFails
<1>5. /\ L \in TaskState /\ L.pc = "failed" /\ L.attempts = t.attempts
      /\ L.target = g /\ L.abandoned = t.abandoned /\ L.handoff = t.handoff
  BY <1>0 DEF TaskState
<1> HIDE DEF L
<1>6. TaskOK(L)
  BY <1>0, <1>5 DEF TaskOK, BudgetOK, TargetOK, HandoffOK
<1>7. /\ task' \in [Worker -> TaskState]
      /\ \A v \in Worker : TaskOK(task'[v])
      /\ task'[w] = L
      /\ \A v \in Worker \ {w} : task'[v] = task[v]
  BY <1>3, <1>6, LocalStep
<1>8. /\ agentBreaker' \in [Agent -> Breaker]
      /\ modelBreaker' \in [Target -> Breaker]
  BY <1>0, <1>1, <1>2, <1>3, ChargeAgentFacts, RecordFailureFacts
<1> DEFINE n == charged[g[1]]
           m == Capped(n + 1, FailureThreshold)
<1>9. /\ n \in Nat /\ FailureThreshold \in Nat /\ n <= FailureThreshold
      /\ m \in 0..FailureThreshold /\ n <= m
      /\ n = FailureThreshold => m = FailureThreshold
      /\ n + 1 >= FailureThreshold => m = FailureThreshold
      /\ m = n + 1 \/ m = FailureThreshold
  BY <1>1, <1>2, BreakerConfigAssumption DEF Capped
<1> HIDE DEF m, own
<1>10. /\ charged' \in [Agent -> 0..FailureThreshold]
       /\ \A a \in Agent :
            charged[a] = FailureThreshold => charged'[a] = FailureThreshold
       /\ \A a \in Agent \ {g[1]} : charged'[a] = charged[a]
       /\ charged'[g[1]] = IF own THEN m ELSE n
  BY <1>1, <1>2, <1>4, <1>9 DEF m
<1>11. TypeOK'
  BY <1>3, <1>7, <1>8, <1>10 DEF IInv, TypeOK
<1>12. ChargeOK'
  <2> SUFFICES ASSUME NEW a \in Agent
               PROVE  /\ agentBreaker'[a].failures <= charged'[a]
                      /\ agentBreaker'[a].state # "Closed"
                           => charged'[a] = FailureThreshold
                      /\ health'[a] = "Unavailable"
                           => charged'[a] = FailureThreshold
    BY DEF ChargeOK
  <2>1. /\ agentBreaker[a].failures <= charged[a]
        /\ agentBreaker[a].state # "Closed" => charged[a] = FailureThreshold
        /\ health[a] = "Unavailable" => charged[a] = FailureThreshold
    BY DEF IInv, ChargeOK
  <2>2. CASE a # g[1]
    BY <1>2, <1>3, <1>10, <2>1, <2>2
  <2>3. CASE a = g[1]
    <3> DEFINE old == agentBreaker[a]
               br  == ChargeAgent(old, g, class)
    <3>1. old \in Breaker /\ old.failures \in Nat
      BY <1>2, BreakerConfigAssumption DEF Breaker, FailureCount
    <3>2. /\ br \in Breaker /\ br.failures <= old.failures + 1
          /\ ~own => /\ br.failures = old.failures
                     /\ old.state = "Closed" => br.state = "Closed"
          /\ old.state = "Closed" /\ br.state # "Closed"
               => old.failures + 1 >= FailureThreshold
      BY <3>1, ChargeAgentFacts DEF own
    <3>3. agentBreaker'[a] = br
      BY <1>1, <1>2, <1>3, <2>3
    <3> HIDE DEF br
    <3>4. br.failures \in Nat /\ br.failures <= FailureThreshold
      BY <3>2, BreakerConfigAssumption DEF Breaker, FailureCount
    <3> HIDE DEF old
    <3>5. /\ old.failures <= n
          /\ old.state # "Closed" => n = FailureThreshold
          /\ health[a] = "Unavailable" => n = FailureThreshold
      BY <2>1, <2>3 DEF old
    <3>6. charged'[a] = IF own THEN m ELSE n
      BY <1>10, <2>3
    <3> HIDE DEF n
    <3>7. CASE own
      BY <1>3, <1>9, <3>1, <3>2, <3>3, <3>4, <3>5, <3>6, <3>7
    <3>8. CASE ~own
      BY <1>3, <1>9, <3>1, <3>2, <3>3, <3>4, <3>5, <3>6, <3>8
    <3> QED BY <3>7, <3>8
  <2> QED BY <2>2, <2>3
<1>13. NotedOK'
  <2> SUFFICES ASSUME NEW v \in Worker,
                      task'[v].pc = "noting", task'[v].noted = "Unavailable"
               PROVE  charged'[task'[v].target[1]] = FailureThreshold
    BY DEF NotedOK
  <2>1. v # w /\ task'[v] = task[v]
    BY <1>5, <1>7
  <2>2. task[v].target \in Target
    BY <2>1 DEF IInv, TaskOK, TargetOK
  <2>3. charged[task[v].target[1]] = FailureThreshold
    BY <2>1 DEF IInv, NotedOK
  <2> QED BY <1>10, <2>1, <2>2, <2>3, AgentFacts
<1> QED BY <1>7, <1>11, <1>12, <1>13 DEF IInv

\* The health to note is bad only if the breaker has opened.
LEMMA ReadHealthStep ==
  ASSUME IInv, NEW w \in Worker, ReadHealth(w)
  PROVE  IInv'
<1> DEFINE t  == task[w]
           a  == t.target[1]
           br == StateAt(agentBreaker[a])
<1>0. TaskOK(t) /\ t \in TaskState /\ t.pc = "failed" /\ t.target \in Target
  BY DEF IInv, TypeOK, ReadHealth, TaskOK, TargetOK
<1>1. a \in Agent
  BY <1>0, AgentFacts
<1>2. agentBreaker \in [Agent -> Breaker] /\ agentBreaker[a] \in Breaker
  BY <1>1 DEF IInv, TypeOK
<1>3. UNCHANGED <<modelBreaker, health, charged>>
  BY DEF ReadHealth
<1>4. ASSUME NEW n \in Health \cup {"none"},
             Local(w, [t EXCEPT !.pc = "noting", !.noted = n]),
             n = "Unavailable" => charged[a] = FailureThreshold,
             agentBreaker' = agentBreaker
               \/ agentBreaker' = [agentBreaker EXCEPT ![a] = br]
      PROVE  IInv'
  <2> DEFINE L == [t EXCEPT !.pc = "noting", !.noted = n]
  <2>1. /\ L \in TaskState /\ L.pc = "noting" /\ L.attempts = t.attempts
        /\ L.target = t.target /\ L.abandoned = t.abandoned
        /\ L.handoff = t.handoff /\ L.noted = n
    BY <1>0, <1>4 DEF TaskState
  <2>2. Local(w, L)
    BY <1>4
  <2> HIDE DEF L
  <2>3. TaskOK(L)
    BY <1>0, <2>1 DEF TaskOK, BudgetOK, TargetOK, HandoffOK
  <2>4. /\ task' \in [Worker -> TaskState]
        /\ \A v \in Worker : TaskOK(task'[v])
        /\ task'[w] = L
        /\ \A v \in Worker \ {w} : task'[v] = task[v]
    BY <2>2, <2>3, LocalStep
  <2>5. \A b \in Agent : Calmer(agentBreaker'[b], agentBreaker[b])
    <3> SUFFICES ASSUME NEW b \in Agent
                 PROVE  Calmer(agentBreaker'[b], agentBreaker[b])
      OBVIOUS
    <3>1. agentBreaker[b] \in Breaker
      BY <1>2
    <3>2. \/ agentBreaker'[b] = agentBreaker[b]
          \/ agentBreaker'[b] = StateAt(agentBreaker[b])
      BY <1>2, <1>4
    <3> QED BY <3>1, <3>2, CalmSteps
  <2>6. agentBreaker' \in [Agent -> Breaker]
    BY <1>1, <1>2, <1>4, StateAtFacts
  <2>7. TypeOK'
    BY <1>3, <2>4, <2>6 DEF IInv, TypeOK
  <2>8. ChargeOK'
    BY <1>3, <2>5, CalmCharge
  <2>9. NotedOK'
    BY <1>3, <1>4, <2>1, <2>4 DEF IInv, NotedOK
  <2> QED BY <2>4, <2>7, <2>8, <2>9 DEF IInv
<1>5. CASE t.class \in CountsAgainstHealth
  <2>1. /\ agentBreaker' = [agentBreaker EXCEPT ![a] = br]
        /\ Local(w, [t EXCEPT !.pc = "noting", !.noted = ToHealth(br.state)])
    BY <1>5 DEF ReadHealth
  <2>2. br \in Breaker /\ (br.state # "Closed" => agentBreaker[a].state # "Closed")
    BY <1>2, StateAtFacts
  <2>3. agentBreaker[a].state # "Closed" => charged[a] = FailureThreshold
    BY <1>1 DEF IInv, ChargeOK
  <2> HIDE DEF br
  <2>4. ToHealth(br.state) \in Health
          /\ (ToHealth(br.state) = "Unavailable" => charged[a] = FailureThreshold)
    BY <2>2, <2>3, ToHealthFacts
  <2> QED BY <1>4, <2>1, <2>4 DEF br
<1>6. CASE t.class \notin CountsAgainstHealth
  <2>1. /\ agentBreaker' = agentBreaker
        /\ Local(w, [t EXCEPT !.pc = "noting", !.noted = "none"])
    BY <1>6 DEF ReadHealth
  <2> QED BY <1>4, <2>1
<1> QED BY <1>5, <1>6

\* The note is written and the attempt recorded, which the budget allows.
LEMMA FailureNotedStep ==
  ASSUME IInv, NEW w \in Worker, FailureNoted(w)
  PROVE  IInv'
<1> DEFINE t == task[w]
           L == [t EXCEPT !.pc = "probe", !.noted = "none",
                          !.attempts = Append(t.attempts, t.target),
                          !.onTarget = t.onTarget + 1]
<1>0. TaskOK(t) /\ t \in TaskState /\ t.pc = "noting" /\ t.target \in Target
  BY DEF IInv, TypeOK, FailureNoted, TaskOK, TargetOK
<1>1. /\ t.attempts \in Seq(Target) /\ t.onTarget \in Nat
      /\ t.noted \in Health \cup {"none"}
  BY <1>0 DEF TaskState
<1> DEFINE s == Append(t.attempts, t.target)
           k == t.onTarget + 1
<1>2. s \in Seq(Target) /\ Len(s) = Len(t.attempts) + 1 /\ k \in Nat
  BY <1>0, <1>1
<1>3. Len(t.attempts) \in Nat /\ MaxAttempts \in Nat
  BY <1>1, RetryPolicyAssumption
<1>4. Local(w, L) /\ UNCHANGED <<agentBreaker, modelBreaker, charged>>
  BY DEF FailureNoted
<1> HIDE DEF s, k
<1>5. L = [t EXCEPT !.pc = "probe", !.noted = "none", !.attempts = s, !.onTarget = k]
  BY DEF s, k
<1> HIDE DEF L
<1>6. /\ L \in TaskState /\ L.pc = "probe" /\ L.attempts = s
      /\ L.target = t.target /\ L.abandoned = t.abandoned
      /\ L.handoff = t.handoff
  BY <1>0, <1>2, <1>5 DEF TaskState
<1>7. BudgetOK(L)
  BY <1>0, <1>2, <1>3, <1>6 DEF TaskOK, BudgetOK
<1>8. TargetOK(L) /\ HandoffOK(L)
  BY <1>0, <1>6 DEF TaskOK, TargetOK, HandoffOK
<1>9. TaskOK(L)
  BY <1>6, <1>7, <1>8 DEF TaskOK
<1>10. /\ task' \in [Worker -> TaskState]
       /\ \A v \in Worker : TaskOK(task'[v])
       /\ task'[w] = L
       /\ \A v \in Worker \ {w} : task'[v] = task[v]
  BY <1>4, <1>9, LocalStep
<1>11. /\ health \in [Agent -> Health] /\ agentBreaker \in [Agent -> Breaker]
       /\ t.target[1] \in Agent
  BY <1>0, AgentFacts DEF IInv, TypeOK
<1>12. health' = IF t.noted = "none" THEN health
                 ELSE [health EXCEPT ![t.target[1]] = t.noted]
  BY DEF FailureNoted
<1>13. TypeOK'
  <2>1. health' \in [Agent -> Health]
    BY <1>1, <1>11, <1>12
  <2> QED BY <1>4, <1>10, <2>1 DEF IInv, TypeOK
<1>14. ChargeOK'
  <2>1. t.noted = "Unavailable" => charged[t.target[1]] = FailureThreshold
    BY <1>0 DEF IInv, NotedOK
  <2>2. \A a \in Agent : health'[a] = "Unavailable" =>
          health[a] = "Unavailable" \/ charged[a] = FailureThreshold
    BY <1>11, <1>12, <2>1
  <2>3. \A a \in Agent : Calmer(agentBreaker'[a], agentBreaker[a])
    BY <1>4, <1>11, CalmSteps
  <2> QED BY <1>4, <2>2, <2>3, CalmCharge
<1>15. NotedOK'
  BY <1>4, <1>6, <1>10, NotedStep
<1> QED BY <1>10, <1>13, <1>14, <1>15 DEF IInv

\* Looking for an alternative.
LEMMA ProbeStep ==
  ASSUME IInv, NEW w \in Worker, Probe(w)
  PROVE  IInv'
<1> DEFINE t == task[w]
           L == [t EXCEPT !.pc = "react", !.seen = Snapshot]
<1>0. TaskOK(t) /\ t \in TaskState /\ t.pc = "probe"
  BY DEF IInv, TypeOK, Probe
<1>1. /\ L \in TaskState /\ L.pc = "react" /\ L.attempts = t.attempts
      /\ L.target = t.target /\ L.abandoned = t.abandoned
      /\ L.handoff = t.handoff
  BY <1>0 DEF TaskState, Snapshot
<1>2. Local(w, L)
  BY DEF Probe
<1> HIDE DEF L
<1>3. TaskOK(L)
  BY <1>0, <1>1 DEF TaskOK, BudgetOK, TargetOK, HandoffOK
<1> QED BY <1>1, <1>2, <1>3, QuietStep DEF Probe

\* The policy continues only below the budget.
LEMMA DecideFacts ==
  ASSUME NEW class, NEW n \in Nat, NEW k, NEW alternatives,
         Decide(class, n, k, alternatives) # "GiveUp"
  PROVE  n < MaxAttempts
BY RetryPolicyAssumption DEF Decide

\* The reaction: the loop starts over below the budget, and what a reroute
\* gives up is what its handoff comes from.
LEMMA ReactStep ==
  ASSUME IInv, NEW w \in Worker, React(w)
  PROVE  IInv'
<1> DEFINE t == task[w]
<1>0. TaskOK(t) /\ t \in TaskState /\ t.pc = "react" /\ t.target \in Target
  BY DEF IInv, TypeOK, React, TaskOK, TargetOK
<1>1. AskBreakers(t.seen) /\ UNCHANGED <<health, charged>>
  BY DEF React
<1>2. Len(t.attempts) \in Nat /\ (Reaction(w) # "GiveUp" => Len(t.attempts) < MaxAttempts)
  <2>1. Len(t.attempts) \in Nat
    BY <1>0 DEF TaskState
  <2> QED BY <2>1, DecideFacts DEF Reaction
<1>3. /\ Again(w) \in TaskState /\ Again(w).pc = "top"
      /\ Again(w).attempts = t.attempts /\ Again(w).abandoned = t.abandoned
      /\ Again(w).handoff = t.handoff
  BY <1>0 DEF TaskState, Again
<1>4. CASE Reaction(w) = "RetrySameTarget" /\ Local(w, Again(w))
  <2>1. TaskOK(Again(w))
    BY <1>0, <1>2, <1>3, <1>4 DEF TaskOK, BudgetOK, TargetOK, HandoffOK
  <2> QED BY <1>1, <1>3, <1>4, <2>1, AskingStep
<1>5. CASE Reaction(w) = "Reroute" /\ Local(w, Rerouted(w))
  <2> DEFINE g == t.target
             h == [from |-> g[1], to |-> "none", delivered |-> FALSE]
             L == Rerouted(w)
  <2>1. h \in Handoff /\ h.from = g[1] /\ ~h.delivered
    BY <1>0, AgentFacts DEF Handoff
  <2> HIDE DEF h
  <2>2. /\ L \in TaskState /\ L.pc = "top" /\ L.attempts = t.attempts
        /\ L.abandoned = t.abandoned \cup {g} /\ L.handoff = h
    <3>1. L = [Again(w) EXCEPT !.onTarget = 0,
                               !.abandoned = t.abandoned \cup {g}, !.handoff = h]
      BY <1>3 DEF Rerouted, h
    <3>2. t.abandoned \cup {g} \in SUBSET Target
      BY <1>0 DEF TaskState
    <3> HIDE DEF L
    <3> QED BY <1>3, <2>1, <3>1, <3>2 DEF TaskState
  <2> HIDE DEF L
  <2>3. BudgetOK(L) /\ TargetOK(L)
    BY <1>0, <1>2, <1>5, <2>2 DEF TaskOK, BudgetOK, TargetOK
  <2>4. HandoffOK(L)
    BY <2>1, <2>2 DEF HandoffOK
  <2>5. TaskOK(L)
    BY <2>2, <2>3, <2>4 DEF TaskOK
  <2> QED BY <1>1, <1>5, <2>2, <2>5, AskingStep DEF L
<1>6. CASE Local(w, Settled("Replanned")) \/ Local(w, Settled("Failed"))
  BY <1>1, <1>6, SettledFacts, AskingStep DEF Status
<1> QED BY <1>4, <1>5, <1>6 DEF React

\* Time passes.
LEMMA TickStep ==
  ASSUME IInv, Tick
  PROVE  IInv'
<1>1. /\ agentBreaker \in [Agent -> Breaker]
      /\ modelBreaker \in [Target -> Breaker]
  BY DEF IInv, TypeOK
<1>2. \A a \in Agent : Calmer(agentBreaker'[a], agentBreaker[a])
  BY <1>1, CalmSteps DEF Tick
<1>3. /\ agentBreaker' \in [Agent -> Breaker]
      /\ modelBreaker' \in [Target -> Breaker]
  BY <1>1, OlderFacts DEF Tick
<1>4. UNCHANGED <<health, task, charged>>
  BY DEF Tick
<1>5. TypeOK'
  BY <1>3, <1>4 DEF IInv, TypeOK
<1>6. ChargeOK'
  BY <1>2, <1>4, CalmCharge
<1>7. NotedOK' /\ \A w \in Worker : TaskOK(task'[w])
  BY <1>4 DEF IInv, NotedOK
<1> QED BY <1>5, <1>6, <1>7 DEF IInv

-----------------------------------------------------------------------------
(* The theorems.                                                           *)

\* The invariant holds of every run of any number of concurrent tasks.
THEOREM Invariance == Spec => []IInv
<1>1. IInv /\ [Next]_vars => IInv'
  <2> SUFFICES ASSUME IInv, [Next]_vars PROVE IInv'
    OBVIOUS
  <2>1. CASE Tick
    BY <2>1, TickStep
  <2>2. ASSUME NEW w \in Worker, Begin(w) PROVE IInv'
    BY <2>2, BeginStep
  <2>3. ASSUME NEW w \in Worker, Proceed(w) PROVE IInv'
    BY <2>3, LoopTopStep, RouteTaskStep, RoutingFailedStep,
       AttemptSucceedsStep, SuccessNotedStep, AttemptFailsStep, ReadHealthStep,
       FailureNotedStep, ProbeStep, ReactStep DEF Proceed
  <2>4. CASE UNCHANGED vars
    BY <2>4 DEF vars, IInv, TypeOK, ChargeOK, NotedOK
  <2> QED BY <2>1, <2>2, <2>3, <2>4 DEF Next
<1> QED BY <1>1, InitIInv, PTL DEF Spec

\* The shared breakers, the registry and every execute_task keep their types;
\* in particular no breaker counts past its thresholds.
THEOREM TypeCorrect == Spec => []TypeOK
<1>1. IInv => TypeOK
  BY DEF IInv
<1> QED BY <1>1, Invariance, PTL

\* No interleaving of retries and reroutes spends more than max_attempts, or
\* schedules anything once they are spent (executor.rs 680, retry.rs 184).
THEOREM BudgetHolds == Spec => []AttemptsBounded
<1>1. IInv => AttemptsBounded
  BY DEF IInv, TaskOK, BudgetOK, AttemptsBounded
<1> QED BY <1>1, Invariance, PTL

\* A target that a task gave up never gets that task again (router.rs 283).
THEOREM AbandonedStaysAbandoned == Spec => []NeverBackToAbandoned
<1>1. IInv => NeverBackToAbandoned
  BY DEF IInv, TaskOK, TargetOK, NeverBackToAbandoned
<1> QED BY <1>1, Invariance, PTL

\* Whoever runs a task after a reroute has the handoff of an agent that gave it
\* up, delivered (executor.rs 726 and 951).
THEOREM HandoffsArrive == Spec => []HandoffFollowsReroute
<1>1. IInv => HandoffFollowsReroute
  BY DEF IInv, TaskOK, HandoffOK, HandoffFollowsReroute
<1> QED BY <1>1, Invariance, PTL

\* An agent leaves the pool only after failure_threshold failures of its own
\* (breaker.rs record_failure, executor.rs 875).
THEOREM PoolLeavesAreEarned == Spec => []OnlyOwnFailuresCount
<1>1. IInv => OnlyOwnFailuresCount
  BY DEF IInv, ChargeOK, OnlyOwnFailuresCount
<1> QED BY <1>1, Invariance, PTL

-----------------------------------------------------------------------------
(* Load shedding.                                                          *)

\* A step that leaves its task anywhere but with an agent puts nothing in flight.
LEMMA StepDrains ==
  ASSUME TypeOK, NEW w \in Worker, NEW locals, Local(w, locals), locals.pc # "running",
         NEW a \in Agent
  PROVE  InFlight(a)' \subseteq InFlight(a)
<1>1. task' = [task EXCEPT ![w] = locals] /\ task \in [Worker -> TaskState]
  BY DEF Local, TypeOK
<1>2. \A v \in Worker : v # w => task'[v] = task[v]
  BY <1>1
<1>3. task'[w].pc # "running"
  BY <1>1
<1> QED BY <1>2, <1>3 DEF InFlight

\* No step but a routing hands a task to an agent.
LEMMA OthersDrain ==
  ASSUME IInv, NEW w \in Worker, Begin(w) \/ (Proceed(w) /\ ~RouteTask(w)), NEW a \in Agent
  PROVE  InFlight(a)' \subseteq InFlight(a)
<1>1. TypeOK /\ task[w] \in TaskState /\ Fresh.pc = "idle"
  BY DEF IInv, TypeOK, Fresh
<1>2. \A status : Settled(status).pc = "idle"
  BY <1>1 DEF Settled, Fresh
<1>3. CASE Begin(w)
  <2>1. [Fresh EXCEPT !.pc = "top"].pc = "top"
    BY DEF Fresh
  <2> QED BY <1>1, <1>3, <2>1, StepDrains DEF Begin
<1>4. CASE LoopTop(w)
  <2>1. [task[w] EXCEPT !.pc = "route", !.seen = Snapshot].pc = "route"
    BY <1>1 DEF TaskState
  <2> QED BY <1>1, <1>2, <1>4, <2>1, StepDrains DEF LoopTop
<1>5. CASE RoutingFailed(w)
  BY <1>1, <1>2, <1>5, StepDrains DEF RoutingFailed
<1>6. CASE AttemptSucceeds(w)
  <2>1. [task[w] EXCEPT !.pc = "succeeded"].pc = "succeeded"
    BY <1>1 DEF TaskState
  <2> QED BY <1>1, <1>6, <2>1, StepDrains DEF AttemptSucceeds
<1>7. CASE SuccessNoted(w)
  BY <1>1, <1>2, <1>7, StepDrains DEF SuccessNoted
<1>8. ASSUME NEW class \in Class, AttemptFails(w, class)
      PROVE  InFlight(a)' \subseteq InFlight(a)
  <2>1. [task[w] EXCEPT !.pc = "failed", !.class = class].pc = "failed"
    BY <1>1 DEF TaskState
  <2> QED BY <1>1, <1>8, <2>1, StepDrains DEF AttemptFails
<1>9. CASE ReadHealth(w)
  <2>1. \A h : [task[w] EXCEPT !.pc = "noting", !.noted = h].pc = "noting"
    BY <1>1 DEF TaskState
  <2> QED BY <1>1, <1>9, <2>1, StepDrains DEF ReadHealth
<1>10. CASE FailureNoted(w)
  <2>1. PICK locals : /\ Local(w, locals) /\ locals.pc = "probe"
    <3>1. [task[w] EXCEPT !.pc = "probe", !.noted = "none",
             !.attempts = Append(@, task[w].target), !.onTarget = @ + 1].pc = "probe"
      BY <1>1 DEF TaskState
    <3> QED BY <1>10, <3>1 DEF FailureNoted
  <2> QED BY <1>1, <2>1, StepDrains
<1>11. CASE Probe(w)
  <2>1. [task[w] EXCEPT !.pc = "react", !.seen = Snapshot].pc = "react"
    BY <1>1 DEF TaskState
  <2> QED BY <1>1, <1>11, <2>1, StepDrains DEF Probe
<1>12. CASE React(w)
  <2>1. Again(w).pc = "top" /\ Rerouted(w).pc = "top"
    BY <1>1 DEF Again, Rerouted, TaskState
  <2> QED BY <1>1, <1>2, <1>12, <2>1, StepDrains DEF React
<1> QED BY <1>3, <1>4, <1>5, <1>6, <1>7, <1>8, <1>9, <1>10, <1>11, <1>12 DEF Proceed

\* A routing hands a task only to an agent whose breaker lets requests through.
LEMMA RoutedAreAllowed ==
  ASSUME IInv, NEW w \in Worker, RouteTask(w), NEW a \in Agent, ~AllowsRequest(agentBreaker[a])
  PROVE  InFlight(a)' \subseteq InFlight(a)
<1>1. task \in [Worker -> TaskState] /\ task[w] \in TaskState
  BY DEF IInv, TypeOK
<1>2. PICK g \in Candidates(task[w].seen, task[w].abandoned) :
        task' = [task EXCEPT ![w] =
                   [task[w] EXCEPT !.pc = "running", !.status = "Running", !.target = g,
                      !.seen = {},
                      !.handoff = IF task[w].handoff.delivered THEN task[w].handoff
                                  ELSE [task[w].handoff EXCEPT !.to = g[1], !.delivered = TRUE]]]
  BY DEF RouteTask, Local
<1>3. g[1] # a
  BY <1>2 DEF Candidates, AgentAllowed
<1>4. task'[w].target = g /\ \A v \in Worker : v # w => task'[v] = task[v]
  BY <1>1, <1>2 DEF TaskState
<1> QED BY <1>3, <1>4 DEF InFlight

\* While an agent's breaker is open, whatever other tasks and late answers do
\* meanwhile, its attempts in flight only drain (breaker.rs allows_request,
\* router.rs consider_agent): no task is routed to it.
THEOREM OpenBreakersShed == Spec => [][OpenBreakerSheds]_vars
<1>1. ASSUME IInv, [Next]_vars PROVE [OpenBreakerSheds]_vars
  <2> SUFFICES ASSUME Next, NEW a \in Agent, ~AllowsRequest(agentBreaker[a])
               PROVE  InFlight(a)' \subseteq InFlight(a)
    BY <1>1 DEF OpenBreakerSheds
  <2>1. CASE Tick
    BY <2>1 DEF Tick, InFlight
  <2>2. ASSUME NEW w \in Worker, Begin(w) \/ Proceed(w) PROVE InFlight(a)' \subseteq InFlight(a)
    BY <1>1, <2>2, OthersDrain, RoutedAreAllowed
  <2> QED BY <2>1, <2>2 DEF Next
<1>2. IInv /\ [Next]_vars => [OpenBreakerSheds]_vars
  BY <1>1
<1> QED BY <1>2, Invariance, PTL DEF Spec

-----------------------------------------------------------------------------
(* Cooldowns.                                                              *)

\* Asking an open breaker that stays open changes nothing, and aging it does not
\* make it younger.
LEMMA ShutBreakers ==
  ASSUME NEW br \in Breaker, ~AllowsRequest(br)
  PROVE  StateAt(br) = br /\ Older(br).age >= br.age /\ br.age \in Nat
<1>1. br.state = "Open" /\ StateAt(br) = br
  BY DEF AllowsRequest, StateAt, Breaker
<1>2. br.age \in Nat /\ br.age <= Cooldown
  BY BreakerConfigAssumption DEF Breaker, Age
<1> DEFINE n == Capped(br.age + 1, Cooldown)
<1>3. n \in Nat /\ n >= br.age
  BY <1>2, BreakerConfigAssumption DEF Capped
<1>4. Older(br) = [br EXCEPT !.age = n]
  BY <1>1 DEF Older
<1> HIDE DEF n
<1>5. Older(br).age = n
  BY <1>4 DEF Breaker
<1> QED BY <1>1, <1>2, <1>3, <1>5

\* A success lets requests through an open breaker.
LEMMA SuccessUnshuts ==
  ASSUME NEW br \in Breaker, ~AllowsRequest(br)
  PROVE  AllowsRequest(RecordSuccess(br))
<1>1. br.state = "Open"
  BY DEF AllowsRequest, StateAt, Breaker
<1> DEFINE ok == [br EXCEPT !.failures = 0]
<1>2. RecordSuccess(br) = [ok EXCEPT !.state = "HalfOpen", !.successes = 1, !.age = 0]
  BY <1>1 DEF RecordSuccess
<1>3. RecordSuccess(br).state = "HalfOpen"
  BY <1>2 DEF Breaker
<1> QED BY <1>3 DEF AllowsRequest, StateAt

\* The cooldown of an open breaker starts over only for a failure that counts of an
\* attempt that was in flight (CooldownsRunOut; breaker.rs state_at and
\* record_failure): with OpenBreakerSheds, finitely often before it elapses.
THEOREM CooldownsElapse == Spec => [][CooldownsRunOut]_vars
<1> DEFINE Ages(a) == \/ agentBreaker'[a].age >= agentBreaker[a].age
                       \/ \E w \in InFlight(a) : /\ task'[w].pc = "failed"
                                                 /\ task'[w].class \in CountsAgainstHealth
<1>1. ASSUME IInv, [Next]_vars PROVE [CooldownsRunOut]_vars
  <2> SUFFICES ASSUME Next, NEW a \in Agent, ~AllowsRequest(agentBreaker[a]),
                      ~AllowsRequest(agentBreaker'[a])
               PROVE  Ages(a)
    BY <1>1 DEF CooldownsRunOut
  <2>1. /\ agentBreaker \in [Agent -> Breaker] /\ agentBreaker[a] \in Breaker
        /\ task \in [Worker -> TaskState] /\ \A w \in Worker : TaskOK(task[w])
    BY <1>1 DEF IInv, TypeOK
  <2>2. StateAt(agentBreaker[a]) = agentBreaker[a] /\ agentBreaker[a].age \in Nat
    BY <2>1, ShutBreakers
  <2>3. CASE agentBreaker'[a] = agentBreaker[a]
    BY <2>2, <2>3
  <2>4. CASE Tick
    BY <2>1, <2>4, ShutBreakers DEF Tick
  <2>5. ASSUME NEW w \in Worker, AttemptSucceeds(w), agentBreaker'[a] # agentBreaker[a]
        PROVE  FALSE
    <3>1. agentBreaker'[a] = RecordSuccess(agentBreaker[a])
      BY <2>1, <2>5 DEF AttemptSucceeds
    <3> QED BY <2>1, <3>1, SuccessUnshuts
  <2>6. ASSUME NEW w \in Worker, NEW class \in Class, AttemptFails(w, class),
               agentBreaker'[a] # agentBreaker[a]
        PROVE  Ages(a)
    <3>1. task[w].pc = "running" /\ task[w] \in TaskState
      BY <2>1, <2>6 DEF AttemptFails
    <3>2. /\ task[w].target[1] = a
          /\ agentBreaker'[a] = ChargeAgent(agentBreaker[a], task[w].target, class)
      BY <2>1, <2>6 DEF AttemptFails
    <3>3. w \in InFlight(a)
      BY <3>1, <3>2 DEF InFlight
    <3>4. class \in CountsAgainstHealth
      <4> SUFFICES ASSUME class \notin CountsAgainstHealth PROVE FALSE
        OBVIOUS
      <4>1. RecordFailure(agentBreaker[a], class) = agentBreaker[a]
        BY DEF RecordFailure
      <4>2. ChargeAgent(agentBreaker[a], task[w].target, class) = agentBreaker[a]
        BY <2>2, <4>1 DEF ChargeAgent
      <4> QED BY <2>6, <3>2, <4>2
    <3>5. task'[w] = [task[w] EXCEPT !.pc = "failed", !.class = class]
      BY <2>1, <2>6 DEF AttemptFails, Local
    <3>6. task'[w].pc = "failed" /\ task'[w].class = class
      BY <3>1, <3>5 DEF TaskState
    <3> QED BY <3>3, <3>4, <3>6
  <2>7. ASSUME NEW w \in Worker, ReadHealth(w) PROVE agentBreaker'[a] = agentBreaker[a]
    BY <2>1, <2>2, <2>7 DEF ReadHealth
  <2>8. ASSUME NEW w \in Worker, RouteTask(w) \/ RoutingFailed(w) \/ React(w)
        PROVE  agentBreaker'[a] = agentBreaker[a]
    BY <2>2, <2>8 DEF RouteTask, RoutingFailed, React, AskBreakers
  <2>9. ASSUME NEW w \in Worker, Begin(w) \/ LoopTop(w) \/ SuccessNoted(w)
                                 \/ FailureNoted(w) \/ Probe(w)
        PROVE  agentBreaker'[a] = agentBreaker[a]
    BY <2>9 DEF Begin, LoopTop, SuccessNoted, FailureNoted, Probe
  <2> QED BY <2>3, <2>4, <2>5, <2>6, <2>7, <2>8, <2>9 DEF Next, Proceed
<1>2. IInv /\ [Next]_vars => [CooldownsRunOut]_vars
  BY <1>1
<1> QED BY <1>2, Invariance, PTL DEF Spec

-----------------------------------------------------------------------------
(* Termination, as far as it is a matter of safety.                        *)

\* Locals with so many attempts on record, at this place, have so many steps left.
StepsOf(t) ==
  IF t.pc = "idle" THEN 0 ELSE 7 * (MaxAttempts - Len(t.attempts)) + Stage[t.pc]

\* The places within an attempt, in numbers.
LEMMA StageValues ==
  /\ Stage["noting"] = 1 /\ Stage["succeeded"] = 2 /\ Stage["failed"] = 2
  /\ Stage["running"] = 3 /\ Stage["route"] = 4 /\ Stage["top"] = 5
  /\ Stage["react"] = 6 /\ Stage["probe"] = 7
BY DEF Stage

\* Locals that are good have a number of steps left.
LEMMA StepsAreCounted ==
  ASSUME NEW t, TaskOK(t)
  PROVE  StepsOf(t) \in Nat /\ Len(t.attempts) \in Nat
<1>1. /\ Len(t.attempts) \in Nat /\ Len(t.attempts) <= MaxAttempts
      /\ t.pc \in {"idle", "top", "route", "running", "succeeded", "failed", "probe",
                   "noting", "react"}
  BY DEF TaskOK, TaskState, BudgetOK
<1> DEFINE n == Stage[t.pc]
<1>2. t.pc # "idle" => n \in 1..7
  BY <1>1, StageValues
<1> HIDE DEF n
<1>3. CASE t.pc # "idle"
  BY <1>1, <1>2, <1>3, RetryPolicyAssumption DEF StepsOf, n
<1> QED BY <1>1, <1>3 DEF StepsOf

\* A step that moves its task on within an attempt, or to its end, brings it nearer.
LEMMA NearerWithin ==
  ASSUME NEW t, TaskOK(t), NEW L, t.pc # "idle",
         \/ L.pc = "idle"
         \/ /\ L.attempts = t.attempts /\ <<t.pc, L.pc>> \in
                 {<<"top", "route">>, <<"route", "running">>, <<"running", "succeeded">>,
                  <<"running", "failed">>, <<"failed", "noting">>, <<"probe", "react">>,
                  <<"react", "top">>}
  PROVE  StepsOf(L) \in 0..(StepsOf(t) - 1)
<1>1. /\ Len(t.attempts) \in Nat /\ Len(t.attempts) <= MaxAttempts
      /\ t.pc \in {"top", "route", "running", "succeeded", "failed", "probe", "noting", "react"}
  BY DEF TaskOK, TaskState, BudgetOK
<1> DEFINE n == Stage[t.pc]
           k == Stage[L.pc]
<1>2. n \in 1..7 /\ (L.pc # "idle" => k \in 1..7 /\ k < n)
  BY <1>1, StageValues
<1>3. /\ StepsOf(t) = 7 * (MaxAttempts - Len(t.attempts)) + n
      /\ StepsOf(L) = IF L.pc = "idle" THEN 0
                      ELSE 7 * (MaxAttempts - Len(L.attempts)) + k
  BY DEF StepsOf
<1> HIDE DEF n, k
<1>4. CASE L.pc = "idle"
  BY <1>1, <1>2, <1>3, <1>4, RetryPolicyAssumption
<1>5. CASE L.pc # "idle"
  BY <1>1, <1>2, <1>3, <1>5, RetryPolicyAssumption
<1> QED BY <1>4, <1>5

\* What a step of a task makes of its locals.
LEMMA StepsDescend ==
  ASSUME IInv, NEW w \in Worker, Proceed(w)
  PROVE  /\ task[w].pc # "idle" /\ StepsOf(task'[w]) \in 0..(StepsOf(task[w]) - 1)
         /\ \A v \in Worker \ {w} : task'[v] = task[v]
<1> DEFINE t == task[w]
<1>1. TaskOK(t) /\ t \in TaskState /\ task \in [Worker -> TaskState]
  BY DEF IInv, TypeOK
<1>2. \A L : Local(w, L) => task'[w] = L /\ \A v \in Worker \ {w} : task'[v] = task[v]
  BY <1>1 DEF Local
<1>3. \A status : Settled(status).pc = "idle"
  BY DEF Settled, Fresh
<1> DEFINE Done == /\ t.pc # "idle" /\ StepsOf(task'[w]) \in 0..(StepsOf(t) - 1)
                   /\ \A v \in Worker \ {w} : task'[v] = task[v]
<1>4. CASE LoopTop(w)
  <2>1. [t EXCEPT !.pc = "route", !.seen = Snapshot].pc = "route"
        /\ [t EXCEPT !.pc = "route", !.seen = Snapshot].attempts = t.attempts
    BY <1>1 DEF TaskState
  <2> QED BY <1>1, <1>2, <1>3, <1>4, <2>1, NearerWithin DEF LoopTop
<1>5. CASE RouteTask(w)
  <2>1. PICK L : Local(w, L) /\ L.pc = "running" /\ L.attempts = t.attempts
    <3> DEFINE M(g) == [t EXCEPT !.pc = "running", !.status = "Running", !.target = g,
                          !.seen = {},
                          !.handoff = IF t.handoff.delivered THEN t.handoff
                                      ELSE [t.handoff EXCEPT !.to = g[1], !.delivered = TRUE]]
    <3>1. PICK g : Local(w, M(g))
      BY <1>5 DEF RouteTask
    <3>2. M(g).pc = "running" /\ M(g).attempts = t.attempts
      BY <1>1 DEF TaskState
    <3> HIDE DEF M
    <3> QED BY <3>1, <3>2
  <2> QED BY <1>1, <1>2, <1>5, <2>1, NearerWithin DEF RouteTask
<1>6. CASE RoutingFailed(w)
  BY <1>1, <1>2, <1>3, <1>6, NearerWithin DEF RoutingFailed
<1>7. CASE AttemptSucceeds(w)
  <2>1. [t EXCEPT !.pc = "succeeded"].pc = "succeeded"
        /\ [t EXCEPT !.pc = "succeeded"].attempts = t.attempts
    BY <1>1 DEF TaskState
  <2> QED BY <1>1, <1>2, <1>7, <2>1, NearerWithin DEF AttemptSucceeds
<1>8. CASE SuccessNoted(w)
  BY <1>1, <1>2, <1>3, <1>8, NearerWithin DEF SuccessNoted
<1>9. ASSUME NEW class \in Class, AttemptFails(w, class) PROVE Done
  <2>1. [t EXCEPT !.pc = "failed", !.class = class].pc = "failed"
        /\ [t EXCEPT !.pc = "failed", !.class = class].attempts = t.attempts
    BY <1>1 DEF TaskState
  <2> QED BY <1>1, <1>2, <1>9, <2>1, NearerWithin DEF AttemptFails
<1>10. CASE ReadHealth(w)
  <2>1. \A h : /\ [t EXCEPT !.pc = "noting", !.noted = h].pc = "noting"
               /\ [t EXCEPT !.pc = "noting", !.noted = h].attempts = t.attempts
    BY <1>1 DEF TaskState
  <2> QED BY <1>1, <1>2, <1>10, <2>1, NearerWithin DEF ReadHealth
<1>11. CASE FailureNoted(w)
  <2>1. t.attempts \in Seq(Target) /\ t.target \in Target /\ t.pc = "noting"
        /\ Len(t.attempts) < MaxAttempts
    BY <1>1, <1>11 DEF FailureNoted, TaskState, TaskOK, TargetOK, BudgetOK
  <2>2. PICK L : Local(w, L) /\ L.pc = "probe" /\ L.attempts = Append(t.attempts, t.target)
    <3>1. LET L == [t EXCEPT !.pc = "probe", !.noted = "none",
                      !.attempts = Append(@, t.target), !.onTarget = @ + 1]
          IN  L.pc = "probe" /\ L.attempts = Append(t.attempts, t.target)
      BY <1>1 DEF TaskState
    <3> QED BY <1>11, <3>1 DEF FailureNoted
  <2>3. Len(L.attempts) = Len(t.attempts) + 1 /\ Len(t.attempts) \in Nat
    BY <2>1, <2>2
  <2>4. StepsOf(L) \in 0..(StepsOf(t) - 1)
    BY <2>1, <2>2, <2>3, RetryPolicyAssumption DEF StepsOf, Stage
  <2> QED BY <1>2, <2>1, <2>2, <2>4
<1>12. CASE Probe(w)
  <2>1. [t EXCEPT !.pc = "react", !.seen = Snapshot].pc = "react"
        /\ [t EXCEPT !.pc = "react", !.seen = Snapshot].attempts = t.attempts
    BY <1>1 DEF TaskState
  <2> QED BY <1>1, <1>2, <1>12, <2>1, NearerWithin DEF Probe
<1>13. CASE React(w)
  <2>1. /\ Again(w).pc = "top" /\ Again(w).attempts = t.attempts
        /\ Rerouted(w).pc = "top" /\ Rerouted(w).attempts = t.attempts
    BY <1>1 DEF Again, Rerouted, TaskState
  <2>2. PICK L : /\ Local(w, L) /\ t.pc = "react"
                 /\ L.pc = "idle" \/ (L.pc = "top" /\ L.attempts = t.attempts)
    BY <1>3, <1>13, <2>1 DEF React
  <2> QED BY <1>1, <1>2, <2>2, NearerWithin
<1> QED BY <1>4, <1>5, <1>6, <1>7, <1>8, <1>9, <1>10, <1>11, <1>12, <1>13 DEF Proceed

\* Every step of execute_task brings its task nearer to its end (executor.rs 680,
\* the loop over max_attempts), and nobody else's step takes it back: with that,
\* what EveryTaskEnds needs of fairness is only that a started task goes on.
THEOREM EveryStepIsSpent == Spec => [][TasksDescend]_vars
<1>1. ASSUME IInv, [Next]_vars PROVE [TasksDescend]_vars
  <2> SUFFICES ASSUME Next, NEW w \in Worker, task[w].pc # "idle", task'[w] # task[w]
               PROVE  StepsLeft(w)' \in 0..(StepsLeft(w) - 1)
    BY <1>1 DEF TasksDescend
  <2>1. StepsLeft(w) = StepsOf(task[w]) /\ StepsLeft(w)' = StepsOf(task'[w])
    BY DEF StepsLeft, StepsOf
  <2>2. ~Tick
    BY DEF Tick
  <2>3. ASSUME NEW v \in Worker, Begin(v) PROVE FALSE
    <3>1. task' = [task EXCEPT ![v] = [Fresh EXCEPT !.pc = "top"]] /\ task[v].pc = "idle"
      BY <2>3 DEF Begin, Local
    <3> QED BY <3>1, <1>1 DEF IInv, TypeOK
  <2>4. ASSUME NEW v \in Worker, Proceed(v)
        PROVE  StepsOf(task'[w]) \in 0..(StepsOf(task[w]) - 1)
    BY <1>1, <2>4, StepsDescend
  <2> QED BY <2>1, <2>2, <2>3, <2>4 DEF Next
<1>2. IInv /\ [Next]_vars => [TasksDescend]_vars
  BY <1>1
<1> QED BY <1>2, Invariance, PTL DEF Spec

\* execute_task ends within its budget, as far as that is safety (BudgetIsSpent;
\* retry.rs decide, executor.rs execute_task): attempts are bounded and no step of a
\* task is for nothing, for any number of tasks, targets and attempts.
THEOREM RetriesAreFinite == Spec => BudgetIsSpent
<1>1. AttemptsBounded' /\ [TasksDescend]_vars => [AttemptsBounded' /\ TasksDescend]_vars
  OBVIOUS
<1> QED BY <1>1, BudgetHolds, EveryStepIsSpent, PTL DEF BudgetIsSpent

\* An open breaker lets its agent recover (OpenBreakersRecover; breaker.rs state_at,
\* allows_request and record_failure): attempts in flight drain, and only one of
\* them that fails starts the cooldown over.
THEOREM BreakersLetRecover == Spec => OpenBreakersRecover
<1>1. [OpenBreakerSheds]_vars /\ [CooldownsRunOut]_vars
      => [OpenBreakerSheds /\ CooldownsRunOut]_vars
  OBVIOUS
<1> QED BY <1>1, OpenBreakersShed, CooldownsElapse, PTL DEF OpenBreakersRecover

=============================================================================
