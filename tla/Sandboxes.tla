----------------------------- MODULE Sandboxes -----------------------------
(***************************************************************************)
(* A sandbox as the adapter of cuma-protocol-acp uses it: the launch, from *)
(* open to finish or abort (AgentLaunch), and the relay that carries an    *)
(* agent's input and output when the sandbox is behind HTTP                *)
(* (SandboxBridge).  A relay that fails ends the agent's process, which    *)
(* the launch sees as a turn that ends in an error, as it may at any time; *)
(* otherwise the two run side by side.                                     *)
(***************************************************************************)
EXTENDS AgentLaunch, SandboxBridge

SandboxSpec == LaunchSpec /\ BridgeSpec

\* A task reported as done has its work in the workspace, whatever sandbox it ran
\* in (AcpAdapter::execute, SandboxLaunch::finish), unless a copying plugin opened
\* no session for it; input crosses into a sandbox over HTTP in order and without
\* gaps, and an exit is reported after the output that the sandbox's side had read
\* by then: all of it with E2B, not always with the tunnel (relay of e2b.rs and
\* opensandbox.rs, cuma-tunnel.mjs).
SandboxesAreFaithful == SuccessBroughtBack /\ RelayIsFaithful
=============================================================================
