------------------------------ MODULE McpPool ------------------------------
(***************************************************************************)
(* Calls to the tools of one MCP server over a connection that is kept     *)
(* open and shared (provider.rs of cuma-protocol-mcp): opened on the first *)
(* use under the slot's lock, replaced when the server died, closed by a   *)
(* reaper when nobody used it for IDLE_TIMEOUT.                            *)
(*                                                                         *)
(* A connection is an Arc: the server it launched runs until the slot and  *)
(* every call have let go of it, or until it exits by itself.              *)
(***************************************************************************)
EXTENDS Naturals, FiniteSets

CONSTANTS Caller, MaxLaunches, MaxCalls

\* The callers are not the other users of the lock, and the bounds are numbers.
ASSUME PoolAssumption ==
  /\ "reaper" \notin Caller /\ "nobody" \notin Caller
  /\ MaxLaunches \in Nat /\ MaxCalls \in Nat

VARIABLES slot,      \* the connection in the slot, 0 when there is none
          holder,    \* who holds the slot's lock: a caller, "reaper" or "nobody"
          launched,  \* servers launched so far; each is one connection
          alive,     \* connections whose server has not exited
          stale,     \* connections not touched for IDLE_TIMEOUT
          tools,     \* the cached list: "unknown", or whether it "has" or "lacks" the tool
          caller,    \* each call: where it is, the operation and its connection
          calls      \* calls made so far

mcpVars == <<slot, holder, launched, alive, stale, tools, caller, calls>>

Nothing == [pc |-> "idle", op |-> "none", conn |-> 0, result |-> "none"]

McpTypeOK ==
  /\ slot \in 0..MaxLaunches /\ launched \in 0..MaxLaunches /\ calls \in 0..MaxCalls
  /\ holder \in Caller \cup {"reaper", "nobody"}
  /\ alive \subseteq 1..MaxLaunches /\ stale \subseteq 1..MaxLaunches
  /\ tools \in {"unknown", "has", "lacks"}
  /\ \A c \in Caller :
       /\ caller[c].pc \in {"idle", "locate", "lock", "connect", "run", "cleanup"}
       /\ caller[c].op \in {"none", "list", "call"}
       /\ caller[c].conn \in 0..MaxLaunches
       /\ caller[c].result \in {"none", "ok", "error"}

McpInit ==
  /\ slot = 0 /\ holder = "nobody" /\ launched = 0 /\ alive = {} /\ stale = {}
  /\ tools = "unknown" /\ calls = 0
  /\ caller = [c \in Caller |-> Nothing]

UsedBy(c) == {caller[c].conn} \ {0}
InUse == UNION {UsedBy(c) : c \in Caller}

-----------------------------------------------------------------------------
\* call_tool: a tool nobody listed yet is looked for first; list_server_tools
\* serves the cached list, whatever the server offers today.
CallTool(c) ==
  /\ caller[c].pc = "idle" /\ calls < MaxCalls
  /\ calls' = calls + 1
  /\ caller' = [caller EXCEPT ![c] =
       [Nothing EXCEPT !.pc = IF tools = "lacks" THEN "locate" ELSE "lock",
                       !.op = IF tools = "has" THEN "call" ELSE "list"]]
  /\ UNCHANGED <<slot, holder, launched, alive, stale, tools>>

\* connection: the lock is held while connecting; a live connection is shared,
\* and touched.
ShareConnection(c) ==
  /\ caller[c].pc = "lock" /\ holder = "nobody" /\ slot \in alive
  /\ caller' = [caller EXCEPT ![c].pc = "run", ![c].conn = slot]
  /\ stale' = stale \ {slot}
  /\ UNCHANGED <<slot, holder, launched, alive, tools, calls>>

Connect(c) ==
  /\ caller[c].pc = "lock" /\ holder = "nobody" /\ slot \notin alive
  /\ launched < MaxLaunches
  /\ holder' = c
  /\ caller' = [caller EXCEPT ![c].pc = "connect"]
  /\ UNCHANGED <<slot, launched, alive, stale, tools, calls>>

\* The server is launched and initialized, or is not and the call fails.
Connected(c) ==
  /\ caller[c].pc = "connect"
  /\ holder' = "nobody"
  /\ \/ /\ launched' = launched + 1
        /\ slot' = launched' /\ alive' = alive \cup {launched'}
        /\ caller' = [caller EXCEPT ![c].pc = "run", ![c].conn = launched']
     \/ /\ caller' = [caller EXCEPT ![c].pc = "locate", ![c].result = "error"]
        /\ UNCHANGED <<slot, launched, alive>>
  /\ UNCHANGED <<stale, tools, calls>>

\* with_server: the operation is never repeated.  An error is a dead server's,
\* or the tool's own while the server lives.
Operation(c) ==
  /\ caller[c].pc = "run"
  /\ stale' = stale \ {caller[c].conn}
  /\ \/ /\ caller[c].conn \in alive
        /\ \/ /\ caller[c].op = "call"
              /\ UNCHANGED tools
           \/ /\ caller[c].op = "list"
              /\ tools' \in {"has", "lacks"}
        /\ caller' = [caller EXCEPT ![c].pc = "locate", ![c].conn = 0, ![c].result = "ok"]
     \/ /\ caller' = IF caller[c].conn \in alive
                     THEN [caller EXCEPT ![c].pc = "locate", ![c].conn = 0, ![c].result = "error"]
                     ELSE [caller EXCEPT ![c].pc = "cleanup", ![c].result = "error"]
        /\ UNCHANGED tools
  /\ UNCHANGED <<slot, holder, launched, alive, calls>>

\* A dead connection leaves the slot, unless another call replaced it meanwhile.
Forget(mine) == IF slot = mine THEN 0 ELSE slot

Cleanup(c) ==
  /\ caller[c].pc = "cleanup" /\ holder = "nobody"
  /\ slot' = Forget(caller[c].conn)
  /\ caller' = [caller EXCEPT ![c].pc = "locate", ![c].conn = 0]
  /\ UNCHANGED <<holder, launched, alive, stale, tools, calls>>

\* Back in call_tool: a list leads to the call when the server has the tool and
\* to an error otherwise; the call itself is over.  ToolServer reports it.
Locate(c) ==
  /\ caller[c].pc = "locate"
  /\ caller' = [caller EXCEPT ![c] =
       IF caller[c].op = "list" /\ tools = "has"
       THEN [Nothing EXCEPT !.pc = "lock", !.op = "call"] ELSE Nothing]
  /\ UNCHANGED <<slot, holder, launched, alive, stale, tools, calls>>

\* The caller is dropped while it waits for an answer, a timeout of its own.
Drop(c) ==
  /\ caller[c].pc \in {"lock", "connect", "run", "cleanup"}
  /\ caller' = [caller EXCEPT ![c] = Nothing]
  /\ holder' = IF holder = c THEN "nobody" ELSE holder
  /\ UNCHANGED <<slot, launched, alive, stale, tools, calls>>

-----------------------------------------------------------------------------
\* Idle long enough, though a long call may still be running on it.
ExpiredInUse == slot # 0 /\ (slot \notin alive \/ slot \in stale)

\* A connection in the slot that is dead, or idle and not in use.
Expired == slot # 0 /\ (slot \notin alive \/ (slot \in stale /\ slot \notin InUse))

\* reap: try_lock, take the connection, and cancel it under the lock.
Reap ==
  /\ holder = "nobody" /\ Expired
  /\ holder' = "reaper"
  /\ slot' = 0
  /\ alive' = IF slot \in InUse THEN alive ELSE alive \ {slot}
  /\ UNCHANGED <<launched, stale, tools, caller, calls>>

Reaped ==
  /\ holder = "reaper"
  /\ holder' = "nobody"
  /\ UNCHANGED <<slot, launched, alive, stale, tools, caller, calls>>

\* IDLE_TIMEOUT passes without a touch, during a long call too.
TimePasses ==
  /\ alive \ stale # {}
  /\ stale' = stale \cup alive
  /\ UNCHANGED <<slot, holder, launched, alive, tools, caller, calls>>

\* The server exits by itself.
ServerExits ==
  /\ \E conn \in alive : alive' = alive \ {conn}
  /\ UNCHANGED <<slot, holder, launched, stale, tools, caller, calls>>

McpNext ==
  \/ \E c \in Caller : \/ CallTool(c) \/ ShareConnection(c) \/ Connect(c)
                       \/ Connected(c) \/ Operation(c) \/ Cleanup(c) \/ Locate(c) \/ Drop(c)
  \/ Reap \/ Reaped \/ TimePasses \/ ServerExits

McpSpec == McpInit /\ [][McpNext]_mcpVars

-----------------------------------------------------------------------------
\* "two first calls start one process" (provider.rs), and so do later ones: at no
\* time do two servers run, whatever dies, is reaped or is replaced meanwhile.
\* A server runs while its connection is alive and the slot or a call has it.
OneServerRuns == Cardinality(alive \cap ({slot} \cup InUse)) <= 1

=============================================================================
