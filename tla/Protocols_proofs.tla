-------------------------- MODULE Protocols_proofs --------------------------
(***************************************************************************)
(* Proofs about the shared connection to an MCP server, for any number of  *)
(* callers, of calls and of launches, and about the protocol components    *)
(* together: what A2A_proofs and Acp_proofs prove of each of them holds    *)
(* where they are put side by side (MC_Protocols).                         *)
(***************************************************************************)
EXTENDS MC_Protocols, A2A_proofs, Acp_proofs, FiniteSetTheorems, TLAPS

-----------------------------------------------------------------------------
(* The pool of MCP connections.                                            *)

Call == [pc : {"idle", "locate", "lock", "connect", "run", "cleanup"},
         op : {"none", "list", "call"}, conn : 0..MaxLaunches, result : {"none", "ok", "error"}]

\* Connections are numbered as they are launched.
Numbered ==
  /\ slot <= launched /\ alive \subseteq 1..launched
  /\ \A c \in Caller : caller[c].conn <= launched

\* A caller that connects holds the lock, and found no live connection.
ConnectsLocked ==
  \A c \in Caller : /\ caller[c].pc = "connect" <=> holder = c
                    /\ caller[c].pc = "connect" => slot \notin alive /\ launched < MaxLaunches

\* A live connection in use is the one in the slot.
UsedIsShared == \A c \in Caller : caller[c].conn \in alive => caller[c].conn = slot

\* A connection is held by a call that runs on it or clears it away, once dead.
HeldWhileRunning ==
  \A c \in Caller : /\ caller[c].conn # 0 => caller[c].pc \in {"run", "cleanup"}
                    /\ caller[c].pc = "cleanup" => caller[c].conn \notin alive

PoolIInv ==
  /\ McpTypeOK /\ caller \in [Caller -> Call]
  /\ Numbered /\ ConnectsLocked /\ UsedIsShared /\ HeldWhileRunning

-----------------------------------------------------------------------------
\* Nothing runs at first (McpInit).
LEMMA PoolInitIInv == McpInit => PoolIInv
BY PoolAssumption DEF McpInit, PoolIInv, McpTypeOK, Call, Nothing, Numbered, ConnectsLocked,
   UsedIsShared, HeldWhileRunning

\* What a call does before it has the lock and after it let the connection go
\* (call_tool) touches no connection.
LEMMA CallStep ==
  ASSUME PoolIInv, NEW c \in Caller, CallTool(c) \/ Locate(c)
  PROVE  PoolIInv'
<1>1. PICK e \in Call : /\ caller' = [caller EXCEPT ![c] = e]
                        /\ e.conn = 0 /\ e.pc \in {"idle", "locate", "lock"}
  <2>1. 0 \in 0..MaxLaunches
    BY PoolAssumption
  <2>2. \A pc \in {"locate", "lock"}, op \in {"list", "call"} :
          /\ [Nothing EXCEPT !.pc = pc, !.op = op] \in Call
          /\ [Nothing EXCEPT !.pc = pc, !.op = op].pc = pc
          /\ [Nothing EXCEPT !.pc = pc, !.op = op].conn = 0
    BY <2>1 DEF Nothing, Call
  <2>3. Nothing \in Call /\ Nothing.pc = "idle" /\ Nothing.conn = 0
    BY <2>1 DEF Nothing, Call
  <2>4. CASE CallTool(c)
    BY <2>2, <2>4 DEF CallTool
  <2>5. CASE Locate(c)
    BY <2>2, <2>3, <2>5 DEF Locate
  <2> QED BY <2>4, <2>5
<1>2. caller[c].pc # "connect" /\ calls' \in 0..MaxCalls
  BY PoolAssumption DEF CallTool, Locate, PoolIInv, McpTypeOK
<1>3. UNCHANGED <<slot, holder, launched, alive, stale, tools>>
  BY DEF CallTool, Locate
<1> QED BY <1>1, <1>2, <1>3, PoolAssumption
           DEF PoolIInv, McpTypeOK, Call, Numbered, ConnectsLocked, UsedIsShared, HeldWhileRunning

\* Sharing the live connection (connection) shares the one in the slot.
LEMMA ShareStep ==
  ASSUME PoolIInv, NEW c \in Caller, ShareConnection(c)
  PROVE  PoolIInv'
BY PoolAssumption DEF ShareConnection, PoolIInv, McpTypeOK, Call, Numbered, ConnectsLocked,
   UsedIsShared, HeldWhileRunning

\* The lock is taken when the slot has no live connection.
LEMMA ConnectStep ==
  ASSUME PoolIInv, NEW c \in Caller, Connect(c)
  PROVE  PoolIInv'
BY PoolAssumption
   DEF Connect, PoolIInv, McpTypeOK, Call, Numbered, ConnectsLocked, UsedIsShared, HeldWhileRunning

\* A new connection replaces a dead one, which no call can be running on alive.
LEMMA ConnectedStep ==
  ASSUME PoolIInv, NEW c \in Caller, Connected(c)
  PROVE  PoolIInv'
BY PoolAssumption DEF Connected, PoolIInv, McpTypeOK, Call, Numbered, ConnectsLocked,
   UsedIsShared, HeldWhileRunning

\* An operation (with_server) lets go of a live connection, or is left with a
\* dead one to clear away.
LEMMA OperationStep ==
  ASSUME PoolIInv, NEW c \in Caller, Operation(c)
  PROVE  PoolIInv'
BY PoolAssumption DEF Operation, PoolIInv, McpTypeOK, Call, Numbered, ConnectsLocked,
   UsedIsShared, HeldWhileRunning

\* Clearing a dead connection away never clears a live one.
LEMMA CleanupStep ==
  ASSUME PoolIInv, NEW c \in Caller, Cleanup(c)
  PROVE  PoolIInv'
<1>1. slot' \in {0, slot} /\ (slot \in alive => slot' = slot)
  BY DEF Cleanup, Forget, PoolIInv, HeldWhileRunning
<1>2. UNCHANGED <<holder, launched, alive, stale, tools, calls>> /\ caller[c].pc = "cleanup"
  BY DEF Cleanup
<1>3. caller' = [caller EXCEPT ![c].pc = "locate", ![c].conn = 0]
  BY DEF Cleanup
<1>4. caller' \in [Caller -> Call] /\ \A d \in Caller \ {c} : caller'[d] = caller[d]
  <2>1. 0 \in 0..MaxLaunches
    BY PoolAssumption
  <2>2. [caller[c] EXCEPT !.pc = "locate", !.conn = 0] \in Call
    BY <2>1 DEF PoolIInv, Call
  <2>3. caller' = [caller EXCEPT ![c] = [caller[c] EXCEPT !.pc = "locate", !.conn = 0]]
    BY <1>3 DEF PoolIInv, Call
  <2> QED BY <2>2, <2>3 DEF PoolIInv
<1>5. caller'[c].conn = 0 /\ caller'[c].pc = "locate"
  BY <1>3 DEF PoolIInv, Call
<1>6. McpTypeOK'
  BY <1>1, <1>2, <1>4, PoolAssumption DEF PoolIInv, McpTypeOK, Call
<1> QED BY <1>1, <1>2, <1>4, <1>5, <1>6, PoolAssumption
           DEF PoolIInv, McpTypeOK, Numbered, ConnectsLocked, UsedIsShared, HeldWhileRunning

\* A caller that is dropped lets go of the lock and of its connection.
LEMMA DropStep ==
  ASSUME PoolIInv, NEW c \in Caller, Drop(c)
  PROVE  PoolIInv'
BY PoolAssumption DEF Drop, PoolIInv, McpTypeOK, Call, Nothing, Numbered, ConnectsLocked,
   UsedIsShared, HeldWhileRunning

\* The reaper (reap) takes a connection out of the slot that no call runs on
\* alive.
LEMMA ReapStep ==
  ASSUME PoolIInv, Reap \/ Reaped
  PROVE  PoolIInv'
<1>1. CASE Reap
  <2>1. \A c \in Caller : caller[c].conn \notin alive
    <3> SUFFICES ASSUME NEW c \in Caller, caller[c].conn \in alive PROVE FALSE
      OBVIOUS
    <3>1. caller[c].conn = slot
      BY DEF PoolIInv, UsedIsShared
    <3>2. slot # 0 /\ slot \in alive /\ slot \notin InUse
      BY <1>1, <3>1 DEF Reap, Expired
    <3>3. slot \in UsedBy(c)
      BY <3>1, <3>2 DEF UsedBy
    <3> QED BY <3>2, <3>3 DEF InUse
  <2> QED BY <1>1, <2>1, PoolAssumption DEF Reap, Expired, PoolIInv, McpTypeOK, Call, Numbered,
             ConnectsLocked, UsedIsShared, HeldWhileRunning
<1>2. CASE Reaped
  BY <1>2, PoolAssumption
     DEF Reaped, PoolIInv, McpTypeOK, Call, Numbered, ConnectsLocked, UsedIsShared, HeldWhileRunning
<1> QED BY <1>1, <1>2

\* Time and the server's own end make no connection live.
LEMMA ServerStep ==
  ASSUME PoolIInv, TimePasses \/ ServerExits
  PROVE  PoolIInv'
BY PoolAssumption DEF TimePasses, ServerExits, PoolIInv, McpTypeOK, Call, Numbered,
   ConnectsLocked, UsedIsShared, HeldWhileRunning

\* Every step of callers, reaper and server keeps the invariant.
LEMMA PoolNextIInv == ASSUME PoolIInv, [McpNext]_mcpVars PROVE PoolIInv'
<1>1. CASE UNCHANGED mcpVars
  BY <1>1 DEF mcpVars, PoolIInv, McpTypeOK, Call, Numbered, ConnectsLocked, UsedIsShared,
              HeldWhileRunning
<1> QED BY <1>1, CallStep, ShareStep, ConnectStep, ConnectedStep, OperationStep, CleanupStep,
           DropStep, ReapStep, ServerStep DEF McpNext

-----------------------------------------------------------------------------
\* The inductive invariant of the pool (McpSpec).
THEOREM PoolInvariance == McpSpec => []PoolIInv
BY PoolInitIInv, PoolNextIInv, PTL DEF McpSpec

\* The variables of the pool keep their types (McpTypeOK).
THEOREM PoolTypeCorrect == McpSpec => []McpTypeOK
<1>1. PoolIInv => McpTypeOK
  BY DEF PoolIInv
<1> QED BY <1>1, PoolInvariance, PTL

\* At no time do two processes of one server run (OneServerRuns), however many
\* calls connect, die, are dropped or are reaped between: every connection that
\* is alive and referred to is the one in the slot.
THEOREM PoolRunsOneServer == McpSpec => []OneServerRuns
<1>1. PoolIInv => OneServerRuns
  <2> SUFFICES ASSUME PoolIInv PROVE OneServerRuns
    OBVIOUS
  <2>1. alive \cap ({slot} \cup InUse) \subseteq {slot}
    BY DEF PoolIInv, UsedIsShared, InUse, UsedBy
  <2>2. IsFiniteSet({slot}) /\ Cardinality({slot}) = 1
    BY FS_Singleton
  <2>3. /\ IsFiniteSet(alive \cap ({slot} \cup InUse))
        /\ Cardinality(alive \cap ({slot} \cup InUse)) <= 1
    BY <2>1, <2>2, FS_Subset
  <2> QED BY <2>3 DEF OneServerRuns
<1> QED BY <1>1, PoolInvariance, PTL

-----------------------------------------------------------------------------
(* The components side by side.                                            *)

\* A step is about one component and leaves the others as they are.
LEMMA OneComponentSteps ==
  ASSUME [Next]_vars
  PROVE  /\ [TaskNext]_taskVars /\ [PagesNext]_pageVars /\ [ClientNext]_clientVars
         /\ [AcpNext]_acpVars /\ [WorkspaceNext]_workspaceVars /\ [McpNext]_mcpVars
         /\ focus' = focus
BY DEF Next, vars

\* A behaviour of the protocol components together is one of each of them, with the
\* fairness that is assumed of it: what holds of a server or client on its own holds
\* of it beside the others.
THEOREM EachProtocolRuns ==
  Spec => /\ TaskSpec /\ PagesSpec /\ ClientSpec
          /\ AcpSpec /\ WorkspaceSpec /\ McpSpec
<1>1. Init => TaskInit /\ PagesInit /\ ClientInit /\ AcpInit /\ WorkspaceInit /\ McpInit
  BY DEF Init
<1>2. [Next]_vars => /\ [TaskNext]_taskVars /\ [PagesNext]_pageVars /\ [ClientNext]_clientVars
                     /\ [AcpNext]_acpVars /\ [WorkspaceNext]_workspaceVars /\ [McpNext]_mcpVars
  BY OneComponentSteps
<1> QED BY <1>1, <1>2, PTL
        DEF Spec, TaskSpec, PagesSpec, ClientSpec, AcpSpec, WorkspaceSpec, McpSpec

\* The variables of all protocol components keep their types (TypeOK).
THEOREM ProtocolsTypeCorrect == Spec => []TypeOK
<1>1. Init => focus \in Component
  BY DEF Init
<1>2. focus \in Component /\ [Next]_vars => (focus \in Component)'
  BY OneComponentSteps
<1>3. Spec => [](focus \in Component)
  BY <1>1, <1>2, PTL DEF Spec
<1>4. PagesIInv => PagesTypeOK
  BY DEF PagesIInv
<1>5. /\ focus \in Component /\ TaskTypeOK /\ PagesTypeOK /\ ClientTypeOK
      /\ AcpTypeOK /\ WorkspaceTypeOK /\ McpTypeOK
      => TypeOK
  BY DEF TypeOK
<1> QED BY <1>3, <1>4, <1>5, EachProtocolRuns, TaskTypeCorrect, PagesInvariance,
           ClientTypeCorrect, AcpTypeCorrect, WorkspaceTypeCorrect, PoolTypeCorrect, PTL

\* Side by side the servers and clients keep what each of them promises: walks miss
\* no task, streams tell the end, attempts are honest, turns are finished, a
\* directory has one ledger and a server one process.
THEOREM ProtocolsKeepPromises ==
  Spec => [](/\ PagesMissNothing /\ StreamsTellTheEnd /\ AttemptIsHonest
             /\ TurnsAreFinished /\ OneLedgerPerDirectory /\ OneServerRuns)
BY EachProtocolRuns, WalksMissNothing, StreamsAreTold, AttemptsAreHonest,
   ClientsSeeFinishedTurns, DirectoriesHaveOneLedger, PoolRunsOneServer, PTL

=============================================================================
