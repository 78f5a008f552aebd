--------------------------- MODULE RoutingMemory ---------------------------
(***************************************************************************)
(* What routing remembers: the spend of the orchestrator's ledger          *)
(* (cuma-usage), the history of every target (cuma-router) and the rows of *)
(* the runtime database (cuma-persistence) that a later process starts     *)
(* from. Tasks are routed and recorded concurrently: a routing reads the   *)
(* ledger and the history, and record_attempt writes the database, the     *)
(* ledger and the history one after the other, with other tasks in         *)
(* between.                                                                *)
(***************************************************************************)
EXTENDS RouteScore, FiniteSets, FiniteSetsExt

CONSTANTS Job,          \* tasks that run at the same time
          JobSpec,      \* [Job -> what the planner said of it]
          Targets,      \* the registry's targets, in its order
          RouterCfg,    \* the router's configuration
          Budget,       \* limits.max_cost_usd, or Unknown
          MaxCost,      \* the most one attempt costs
          MaxTried,     \* attempts over all tasks and processes
          MaxProcesses  \* processes that use the database, one after the other

Index == DOMAIN Targets

\* At least one task, a price of something and, where there is a ceiling, one that
\* is not negative.
ASSUME RoutingAssumption ==
  /\ IsFiniteSet(Job) /\ Job # {} /\ MaxCost \in Nat \ {0}
  /\ Budget \in Nat \cup {Unknown} /\ MaxTried \in Nat /\ MaxProcesses \in Nat \ {0}
  /\ \A i \in Index : i # 0 /\ Targets[i].price \in Nat \cup {Unknown}

\* Scores are made of numbers: what a target reports, what the planner says of a
\* task, and weights that validate() of cuma-config accepts, none of them negative.
ASSUME ScoringAssumption ==
  /\ Index \subseteq Nat
  /\ \A i \in Index :
       /\ {Targets[i].latency, Targets[i].window} \subseteq Nat \cup {Unknown}
       /\ {Targets[i].coding, Targets[i].reasoning, Targets[i].success} \subseteq Int
       /\ Targets[i].health \in {"Healthy", "Unknown", "Degraded", "RateLimited", "Unavailable"}
  /\ \A j \in Job : JobSpec[j].complexity \in Int /\ JobSpec[j].tokens \in Nat \cup {Unknown}
  /\ RouterCfg.adaptive \in Int /\ RouterCfg.minSamples \in Nat
  /\ RouterCfg.weights \in [{"quality", "cost", "latency", "reliability", "context"} -> Nat]

VARIABLES job,       \* each task: where it is, its target and its outcome
          spent,     \* UsageTracker::spent_usd
          history,   \* the orchestrator's RoutingHistory, per target
          session,   \* whether the session's row is in the database
          attempts,  \* the attempts table: what each row says
          totals,    \* the routing_history table, per target
          lost,      \* attempts of this process that the database refused, per target
          unread,    \* attempts in the totals this process could not load, per target
          tried, processes

memoryVars == <<job, spent, history, session, attempts, totals, lost, unread, tried, processes>>

NoTotals == [attempts |-> 0, successes |-> 0, latency |-> 0, tokens |-> 0]
Bucket == [attempts : Nat, successes : Nat, latency : Nat, tokens : Nat]
Waiting == [at |-> "idle", target |-> 0, ok |-> FALSE, tokens |-> 0, cost |-> 0,
            abandoned |-> {}]

MemoryTypeOK ==
  /\ job \in [Job -> [at : {"idle", "running", "written", "charged", "done"},
                      target : Index \cup {0}, ok : BOOLEAN, tokens : 0..2,
                      cost : Unknown..MaxCost, abandoned : SUBSET Index]]
  /\ spent \in Nat /\ session \in BOOLEAN
  /\ tried \in 0..MaxTried /\ processes \in 1..MaxProcesses
  /\ history \in [Index -> Bucket] /\ totals \in [Index -> Bucket]
  /\ lost \in [Index -> Nat] /\ unread \in [Index -> Nat]
  /\ \A i \in Index : /\ history[i].successes <= history[i].attempts
                      /\ totals[i].successes <= totals[i].attempts
  /\ attempts \subseteq [id : Nat, by : Job, target : Index, ok : BOOLEAN, tokens : 1..2]

MemoryInit ==
  /\ job = [j \in Job |-> Waiting] /\ spent = 0
  /\ history = [i \in Index |-> NoStats]
  /\ session \in BOOLEAN
  /\ attempts = {} /\ totals = [i \in Index |-> NoTotals]
  /\ lost = [i \in Index |-> 0] /\ unread = [i \in Index |-> 0]
  /\ tried = 0 /\ processes = 1

-----------------------------------------------------------------------------
\* route: the registry, the history and the ledger are read, nothing is held.
RouteTask(j) ==
  /\ job[j].at = "idle" /\ tried < MaxTried
  /\ LET left == Candidates(RouterCfg, Targets, JobSpec[j], job[j].abandoned, spent, Budget)
     IN  \/ /\ left = {}
            /\ job' = [job EXCEPT ![j].at = "done"]
            /\ UNCHANGED tried
         \/ \E i \in left :
              /\ Wins(i, left, RouterCfg, Targets, JobSpec[j], history)
              /\ job' = [job EXCEPT ![j].at = "running", ![j].target = i]
              /\ tried' = tried + 1
  /\ UNCHANGED <<spent, history, session, attempts, totals, lost, unread, processes>>

\* RuntimeStore::record_attempt is three statements of one transaction: the
\* row of the task, the attempt's, the bucket's. Without the session's row the
\* first violates a foreign key. The first n of them ran.
AddTotals(t, r) ==
  [attempts |-> t.attempts + 1, successes |-> t.successes + (IF r.ok THEN 1 ELSE 0),
   latency |-> t.latency + 1, tokens |-> t.tokens + r.tokens]
\* Each statement a transaction of its own.
WroteEach(n, r) ==
  [attempts |-> IF n >= 2 THEN attempts \cup {r} ELSE attempts,
   totals |-> IF n = 3 THEN [totals EXCEPT ![r.target] = AddTotals(@, r)] ELSE totals]

Wrote(n, r) ==
  [attempts |-> IF n = 3 THEN attempts \cup {r} ELSE attempts,
   totals |-> IF n = 3 THEN [totals EXCEPT ![r.target] = AddTotals(@, r)] ELSE totals]

\* The cost of an attempt: what the agent says, else what its price predicts.
CostOf(i, tokens, reported) ==
  IF reported # Unknown THEN reported ELSE Least(Estimate(Targets[i], tokens), MaxCost)

\* StoreRecorder logs a write that failed and forgets it.
Logged(i, n) == [lost EXCEPT ![i] = IF n = 3 THEN @ ELSE @ + 1]

\* The attempt ended and record_attempt writes it to the database, at once and
\* without waiting for it.
WriteAttempt(j) ==
  /\ job[j].at = "running"
  /\ \E ok \in BOOLEAN, tokens \in 1..2, reported \in {Unknown, MaxCost},
        n \in IF session THEN 0..3 ELSE {0} :
       LET i == job[j].target
           r == [id |-> tried, by |-> j, target |-> i, ok |-> ok, tokens |-> tokens]
           db == Wrote(n, r)
       IN  /\ attempts' = db.attempts /\ totals' = db.totals
           /\ lost' = Logged(i, n)
           /\ job' = [job EXCEPT ![j].at = "written", ![j].ok = ok, ![j].tokens = tokens,
                                 ![j].cost = CostOf(i, tokens, reported)]
  /\ UNCHANGED <<spent, history, session, unread, tried, processes>>

\* UsageTracker::record; an attempt without a price is not counted.
Charge(j) ==
  /\ job[j].at = "written"
  /\ spent' = IF job[j].cost = Unknown THEN spent ELSE spent + job[j].cost
  /\ job' = [job EXCEPT ![j].at = "charged"]
  /\ UNCHANGED <<history, session, attempts, totals, lost, unread, tried, processes>>

\* RoutingHistory::record, and what becomes of the task: a failed attempt is
\* retried, on another target when the policy abandons this one.
Learn(j) ==
  /\ job[j].at = "charged"
  /\ LET i == job[j].target
         outcome == [ok |-> job[j].ok, latency |-> 1, tokens |-> job[j].tokens]
     IN  /\ history' = [history EXCEPT ![i] = Fold(@, outcome)]
         /\ \/ job[j].ok /\ job' = [job EXCEPT ![j] = [Waiting EXCEPT !.at = "done"]]
            \/ /\ ~job[j].ok
               /\ \E left \in {{}, {i}} :
                    job' = [job EXCEPT ![j] =
                              [Waiting EXCEPT !.abandoned = job[j].abandoned \cup left]]
  /\ UNCHANGED <<spent, session, attempts, totals, lost, unread, tried, processes>>

\* load_routing_history: the means of the totals.
Restored(t) ==
  [attempts |-> t.attempts, successes |-> t.successes,
   latency |-> IF t.attempts = 0 THEN 0 ELSE t.latency \div t.attempts,
   tokens |-> IF t.successes = 0 THEN 0 ELSE t.tokens \div t.successes]

\* The process ends, anywhere; the next one loads what the database knows and
\* runs tasks of its own. A database that cannot be opened or loaded is a warning:
\* the process routes with an empty history, in the first case also without a
\* recorder. begin_session may fail, which is logged; either way no row is written.
NextProcess ==
  /\ processes < MaxProcesses
  /\ processes' = processes + 1
  /\ job' = [j \in Job |-> Waiting] /\ spent' = 0
  /\ \/ /\ history' = [i \in Index |-> Restored(totals[i])]
        /\ unread' = [i \in Index |-> 0]
     \/ /\ history' = [i \in Index |-> NoStats]
        /\ unread' = [i \in Index |-> totals[i].attempts]
  /\ session' \in BOOLEAN
  /\ lost' = [i \in Index |-> 0]
  /\ UNCHANGED <<attempts, totals, tried>>

MemoryNext ==
  \/ \E j \in Job : RouteTask(j) \/ WriteAttempt(j) \/ Charge(j) \/ Learn(j)
  \/ NextProcess

MemorySpec == MemoryInit /\ [][MemoryNext]_memoryVars

-----------------------------------------------------------------------------
\* Budget filtering reads the ledger long before the attempt is charged to it,
\* and not every attempt has an estimate: whatever the tasks do meanwhile,
\* the session overruns its ceiling by less than one attempt of each of them.
OverrunIsBounded ==
  Budget # Unknown => spent < Budget + Cardinality(Job) * MaxCost

RowsOf(i) == {r \in attempts : r.target = i}
Pending(i) == {j \in Job : job[j].at \in {"written", "charged"} /\ job[j].target = i}

Tokens(rows) == MapThenSumSet(LAMBDA r : r.tokens, rows)

\* The counts among what the totals say.
CountsAgree ==
  \A i \in Index :
    /\ totals[i].attempts = Cardinality(RowsOf(i))
    /\ totals[i].successes = Cardinality({r \in RowsOf(i) : r.ok})
    /\ history[i].attempts + Cardinality(Pending(i)) + unread[i] = totals[i].attempts + lost[i]

\* "history that disagrees with the attempts it summarizes would make `cuma
\* usage` and the router contradict each other" (store.rs): the totals are the
\* aggregate of the rows, and what this process knows is what they say plus what
\* the database refused, less what is being learned just now and, in a process that
\* could not load the history, what there was before it.
HistoryAgrees ==
  /\ CountsAgree
  /\ \A i \in Index : totals[i].tokens = Tokens(RowsOf(i))
=============================================================================
