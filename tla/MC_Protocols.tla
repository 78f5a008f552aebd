--------------------------- MODULE MC_Protocols ---------------------------
(***************************************************************************)
(* The protocol components, which share no state: A2A server and client,   *)
(* ACP server, MCP client.  One run explores all of them; each behaviour   *)
(* is about one, chosen by focus, and leaves the others as they start.     *)
(***************************************************************************)
EXTENDS A2ATask, A2APages, A2AClient, AcpSessions, AcpWorkspaces, McpPool

VARIABLE focus

vars == <<focus, taskVars, pageVars, clientVars, acpVars, workspaceVars, mcpVars>>

Component == {"task", "pages", "client", "sessions", "workspaces", "mcp"}

\* What the remote agent is like matters only where it is asked.
Init ==
  /\ focus \in Component
  /\ TaskInit /\ PagesInit /\ ClientInit
  /\ AcpInit /\ WorkspaceInit /\ McpInit
  /\ focus # "client" => /\ peer = [url |-> "https", dialect |-> "V1", streaming |-> TRUE]
                         /\ truth = [v1 |-> TRUE, streams |-> TRUE]

Next ==
  \/ /\ focus = "task" /\ TaskNext
     /\ UNCHANGED <<focus, pageVars, clientVars, acpVars, workspaceVars, mcpVars>>
  \/ /\ focus = "pages" /\ PagesNext
     /\ UNCHANGED <<focus, taskVars, clientVars, acpVars, workspaceVars, mcpVars>>
  \/ /\ focus = "client" /\ ClientNext
     /\ UNCHANGED <<focus, taskVars, pageVars, acpVars, workspaceVars, mcpVars>>
  \/ /\ focus = "sessions" /\ AcpNext
     /\ UNCHANGED <<focus, taskVars, pageVars, clientVars, workspaceVars, mcpVars>>
  \/ /\ focus = "workspaces" /\ WorkspaceNext
     /\ UNCHANGED <<focus, taskVars, pageVars, clientVars, acpVars, mcpVars>>
  \/ /\ focus = "mcp" /\ McpNext
     /\ UNCHANGED <<focus, taskVars, pageVars, clientVars, acpVars, workspaceVars>>

\* No fair step is enabled in a component's initial state.
Spec == Init /\ [][Next]_vars /\ TaskFairness /\ AcpFairness

-----------------------------------------------------------------------------
\* The types of all variables.
TypeOK ==
  /\ focus \in Component
  /\ TaskTypeOK /\ PagesTypeOK /\ ClientTypeOK
  /\ AcpTypeOK /\ WorkspaceTypeOK /\ McpTypeOK
=============================================================================
