---------------------------- MODULE AgentLaunch ----------------------------
(***************************************************************************)
(* One turn of an ACP agent inside a sandbox (adapter.rs of                *)
(* cuma-protocol-acp, ports.rs of cuma-core, the providers of              *)
(* cuma-sandbox): open the launch, run the turn, bring the work back, tear *)
(* the sandbox down, and what becomes of it when the attempt's deadline    *)
(* drops the whole call at some await.                                     *)
(*                                                                         *)
(* The ten kinds of sandbox differ in what open creates, in whether they   *)
(* hold a copy of the workspace, in what a failed removal means and in     *)
(* whether the service reaps a sandbox by itself.  The merge of a copy is  *)
(* one step here; SandboxSync takes it apart.                              *)
(***************************************************************************)
EXTENDS Naturals

VARIABLES kind,       \* the sandbox's kind
          copied,     \* whether it holds a copy of the workspace
          purpose,    \* "Execute" a task or "Negotiate" capabilities
          call,       \* where the adapter's call is
          held,       \* whether the launch carries a session, to finish or abort
          box,        \* the sandbox: "none", "up" or "gone"
          work,       \* the agent's work: "none", "inside", "here", "kept" or "lost"
          merging,    \* whether a merge runs off the runtime
          turn,       \* how the turn ended: a stop reason or "error"
          collected,  \* whether the work came back: "none", "ok" or "error"
          outcome,    \* what the adapter returns, "dropped" when it cannot
          aborting,   \* a dropped launch's abort is still to run
          blamed      \* history: a service failed, or CUMA died

launchVars == <<kind, copied, purpose, call, held, box, work, merging, turn, collected, outcome,
                aborting, blamed>>

\* What tells the kinds apart: whether the agent sees the workspace itself
\* ("mounts") or a copy ("copies"), whether the launch has something to finish
\* or abort ("session") and whether that is left to others ("optional": a
\* configured teardown, a session in the plugin's reply), whether open makes the
\* sandbox ("creates": a setup command and a plugin may) and then fills it
\* ("fills"), whether it comes with the agent's command ("runs"), whether the
\* service ends it after a while ("leased"), and whether a removal that fails is
\* an error ("strict").
Native       == {"mounts"}
Wasmer       == {"mounts"}
Command      == {"mounts", "session", "optional", "creates", "strict"}
Docker       == {"mounts", "session", "runs"}
Microsandbox == {"mounts", "session", "creates", "strict"}
Plugin       == {"mounts", "copies", "session", "optional", "creates", "strict"}
Arcbox       == {"copies", "session", "creates", "fills", "leased"}
Kubernetes   == {"copies", "session", "creates", "fills", "leased"}
E2b          == {"copies", "session", "creates", "fills", "leased"}
OpenSandbox  == {"mounts", "copies", "session", "creates", "fills", "leased"}

Features == [native |-> Native, wasmer |-> Wasmer, command |-> Command, docker |-> Docker,
             microsandbox |-> Microsandbox, plugin |-> Plugin, arcbox |-> Arcbox,
             kubernetes |-> Kubernetes, e2b |-> E2b, opensandbox |-> OpenSandbox]
Kind == DOMAIN Features
Is(feature) == feature \in Features[kind]

StopReason == {"EndTurn", "MaxTokens", "MaxTurnRequests", "Refusal", "Cancelled", "Unrecognized"}
Failure == {"ConnectionFailure", "ContextOverflow", "TaskFailure", "Cancelled"}

LaunchTypeOK ==
  /\ kind \in Kind /\ copied \in BOOLEAN /\ purpose \in {"Execute", "Negotiate"}
  /\ call \in {"open", "populate", "undo", "turn", "running", "collect", "merging", "remove",
               "ended"}
  /\ box \in {"none", "up", "gone"}
  /\ work \in {"none", "inside", "here", "kept", "lost"}
  /\ {held, merging, aborting, blamed} \subseteq BOOLEAN
  /\ turn \in StopReason \cup {"none", "error"}
  /\ collected \in {"none", "ok", "error"}
  /\ outcome \in Failure \cup {"none", "success", "dropped"}

LaunchInit ==
  /\ kind \in Kind
  /\ copied \in {c \in BOOLEAN : Is(IF c THEN "copies" ELSE "mounts")}
  /\ purpose \in {"Execute", "Negotiate"}
  /\ call = "open" /\ held = FALSE /\ box = "none" /\ work = "none" /\ merging = FALSE
  /\ turn = "none" /\ collected = "none" /\ outcome = "none"
  /\ aborting = FALSE /\ blamed = FALSE

\* finish of a launch without a session does nothing, also where the sandbox holds
\* a copy.
Collects == held /\ copied /\ purpose = "Execute"

Unlaunched == UNCHANGED <<kind, copied, purpose>>

-----------------------------------------------------------------------------
(* open                                                                    *)

\* A launch that is a prefix, or a container, is ready at once.
OpenPrefix ==
  /\ call = "open" /\ ~Is("creates")
  /\ call' = "turn" /\ held' = Is("session")
  /\ Unlaunched
  /\ UNCHANGED <<box, work, merging, turn, collected, outcome, aborting, blamed>>

Create ==
  /\ call = "open" /\ Is("creates")
  /\ box' = "up" /\ held' \in IF Is("optional") THEN BOOLEAN ELSE {TRUE}
  /\ call' = IF Is("fills") THEN "populate" ELSE "turn"
  /\ Unlaunched
  /\ UNCHANGED <<work, merging, turn, collected, outcome, aborting, blamed>>

\* Nothing was created; or it was, and the answer was lost or of no use, the setup
\* command failed half way or no directory could be made for the launch, which are
\* returned as errors before anything guards the sandbox.
CreateFails ==
  /\ call = "open" /\ Is("creates")
  /\ box' \in {"none", "up"}
  /\ call' = "ended" /\ outcome' = "ConnectionFailure" /\ blamed' = TRUE
  /\ Unlaunched
  /\ UNCHANGED <<held, work, merging, turn, collected, aborting>>

\* The environment file and, for a task in a copy, the archive of the workspace.
Populate ==
  /\ call = "populate" /\ box = "up"
  /\ call' = "turn"
  /\ Unlaunched
  /\ UNCHANGED <<held, box, work, merging, turn, collected, outcome, aborting, blamed>>

PopulateFails ==
  /\ call = "populate"
  /\ call' = "undo"
  /\ Unlaunched
  /\ UNCHANGED <<held, box, work, merging, turn, collected, outcome, aborting, blamed>>

\* A removal that fails is a warning; what is gone already is no failure.
RemoveBox == \/ box' = (IF box = "none" THEN "none" ELSE "gone") /\ UNCHANGED blamed
             \/ box = "up" /\ UNCHANGED box /\ blamed' = TRUE

Undo ==
  /\ call = "undo"
  /\ RemoveBox
  /\ call' = "ended" /\ outcome' = "ConnectionFailure"
  /\ Unlaunched
  /\ UNCHANGED <<held, work, merging, turn, collected, aborting>>

-----------------------------------------------------------------------------
(* The turn                                                                *)

StartAgent ==
  /\ call = "turn"
  /\ call' = "running"
  /\ box' = IF Is("runs") THEN "up" ELSE box
  /\ Unlaunched
  /\ UNCHANGED <<held, work, merging, turn, collected, outcome, aborting, blamed>>

\* What the agent writes is in the workspace, or in its copy.
AgentEdits ==
  /\ call = "running" /\ purpose = "Execute" /\ box # "gone"
  /\ work' = IF copied THEN "inside" ELSE "here"
  /\ Unlaunched
  /\ UNCHANGED <<held, call, box, merging, turn, collected, outcome, aborting, blamed>>

TurnEnds ==
  /\ call = "running"
  /\ \E how \in StopReason \cup {"error"} :
       /\ box = "gone" => how = "error"
       /\ turn' = how
  /\ call' = IF Collects THEN "collect" ELSE "remove"
  /\ collected' = IF Collects THEN "none" ELSE "ok"
  /\ Unlaunched
  /\ UNCHANGED <<held, box, work, merging, outcome, aborting, blamed>>

-----------------------------------------------------------------------------
(* finish                                                                  *)

\* Archived inside, downloaded, and merged off the runtime.
Collect ==
  /\ call = "collect" /\ box = "up"
  /\ call' = "merging" /\ merging' = TRUE
  /\ Unlaunched
  /\ UNCHANGED <<held, box, work, turn, collected, outcome, aborting, blamed>>

CollectFails ==
  /\ call = "collect"
  /\ collected' = "error" /\ call' = "remove"
  /\ Unlaunched
  /\ UNCHANGED <<held, box, work, merging, turn, outcome, aborting, blamed>>

\* A conflict keeps the sandbox's copy, unless that fails too; another error
\* leaves it behind.
Fate == {"here", "kept", "lost"}

\* The merge goes on when nobody waits for it any more.
MergeEnds ==
  /\ merging
  /\ merging' = FALSE
  /\ \E how \in Fate :
       /\ work' = IF work = "inside" THEN how ELSE work
       /\ IF call = "merging"
          THEN call' = "remove" /\ collected' = IF how = "here" THEN "ok" ELSE "error"
          ELSE UNCHANGED <<call, collected>>
  /\ Unlaunched
  /\ UNCHANGED <<held, box, turn, outcome, aborting, blamed>>

\* interpret_stop_reason
FailureOf(reason) ==
  CASE reason = "MaxTokens" -> "ContextOverflow"
    [] reason = "Cancelled" -> "Cancelled"
    [] OTHER                -> "TaskFailure"

SettleOnTurn(came) ==
  IF turn = "error" THEN "ConnectionFailure"
  ELSE IF purpose = "Negotiate" \/ turn = "EndTurn" THEN "success"
  ELSE FailureOf(turn)

\* refresh_capabilities only needs its answer.
Negotiated == IF turn = "error" THEN "ConnectionFailure" ELSE "success"

\* execute: an error of the protocol comes before everything else, then the stop
\* reason, then work that could not be brought back.
Settle(came) ==
  IF purpose = "Negotiate" THEN Negotiated
  ELSE IF turn = "error" THEN "ConnectionFailure"
  ELSE IF turn # "EndTurn" THEN FailureOf(turn)
  ELSE IF came = "ok" THEN "success" ELSE "TaskFailure"

\* A microVM that cannot be removed, a teardown command that fails or a plugin that
\* cannot close counts as work that did not come back; a plugin that brought its
\* copy back and fails to release it is a warning.  A launch without a session
\* leaves the sandbox to itself.
Finish ==
  /\ call = "remove"
  /\ IF held THEN RemoveBox ELSE UNCHANGED <<box, blamed>>
  /\ LET came == IF held /\ Is("strict") /\ ~Collects /\ box' = "up" THEN "error"
                 ELSE collected
     IN  outcome' = Settle(came)
  /\ work' = IF work = "inside" /\ box' = "gone" THEN "lost" ELSE work
  /\ call' = "ended"
  /\ Unlaunched
  /\ UNCHANGED <<held, merging, turn, collected, aborting>>

-----------------------------------------------------------------------------
(* The deadline, the service and the process                               *)

\* execute is dropped at an await.  A launch not yet being finished is aborted
\* when it is dropped; open and finish have nothing that does so.  A creation
\* under way may still succeed.
Deadline ==
  /\ call \notin {"ended"}
  /\ aborting' = (held /\ call \in {"turn", "running"})
  /\ box' \in IF call = "open" /\ Is("creates") THEN {"none", "up"} ELSE {box}
  /\ call' = "ended" /\ outcome' = "dropped"
  /\ Unlaunched
  /\ UNCHANGED <<held, work, merging, turn, collected, blamed>>

Abort ==
  /\ aborting
  /\ aborting' = FALSE
  /\ RemoveBox
  /\ work' = IF work = "inside" THEN "lost" ELSE work
  /\ Unlaunched
  /\ UNCHANGED <<held, call, merging, turn, collected, outcome>>

LeaseExpires ==
  /\ Is("leased") /\ box = "up"
  /\ box' = "gone" /\ blamed' = TRUE
  /\ work' = IF work = "inside" /\ ~merging THEN "lost" ELSE work
  /\ Unlaunched
  /\ UNCHANGED <<held, call, merging, turn, collected, outcome, aborting>>

Crash ==
  /\ call # "ended"
  /\ call' = "ended" /\ outcome' = "dropped" /\ blamed' = TRUE /\ merging' = FALSE
  /\ Unlaunched
  /\ UNCHANGED <<held, box, work, turn, collected, aborting>>

LaunchNext ==
  \/ OpenPrefix \/ Create \/ CreateFails \/ Populate \/ PopulateFails \/ Undo
  \/ StartAgent \/ AgentEdits \/ TurnEnds \/ Collect \/ CollectFails \/ MergeEnds \/ Finish
  \/ Deadline \/ Abort \/ LeaseExpires \/ Crash

LaunchSpec == LaunchInit /\ [][LaunchNext]_launchVars

-----------------------------------------------------------------------------
(* Properties                                                              *)

\* A task reported as done has its work in the workspace, whatever kind of
\* sandbox it ran in and whatever failed or expired on the way.  The exception is a
\* plugin that copies the workspace and whose open reply names no session: such a
\* launch ends well and brings nothing back.
SuccessBroughtBack ==
  outcome = "success" =>
    turn # "error" /\ (work \in {"none", "here"} \/ (copied /\ purpose = "Execute" /\ ~held))

=============================================================================
