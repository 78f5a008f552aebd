--------------------------- MODULE SandboxBridge ---------------------------
(***************************************************************************)
(* How a launch reaches into its sandbox: the copy of the workspace is     *)
(* unpacked inside, the agent's stdin and stdout are relayed over HTTP by  *)
(* `cuma sandbox exec` (bridge.rs, relay of e2b.rs and opensandbox.rs,     *)
(* cuma-tunnel.mjs), and the work is archived and downloaded.              *)
(*                                                                         *)
(* E2B's envd takes one request per chunk of stdin and streams the output. *)
(* OpenSandbox's execd cannot write to a process: a tunnel is started      *)
(* inside, whose proxy may answer for a chunk before it arrives, and so    *)
(* chunks are numbered.  Sandboxes driven by a program ("process") run     *)
(* their helpers with process::run and relay by that program itself.       *)
(***************************************************************************)
EXTENDS Integers, Sequences

CONSTANTS MaxIn,   \* chunks of stdin
          MaxOut   \* chunks of stdout

ASSUME BridgeAssumption == MaxIn \in Nat /\ MaxOut \in Nat

VARIABLES service,  \* what the sandbox is reached through
          stage,    \* how far the launch is
          input,    \* chunks on the bridge's stdin; its end is chunk number input
          feeder,   \* the task that pumps stdin: [state, next]
          transit,  \* chunks under way to the sandbox
          parked,   \* chunks the tunnel holds until their turn
          guest,    \* the agent: "none", "running" or "exited"
          heard,    \* the chunks the agent has read, in order
          wrote,    \* chunks it has written
          emitted,  \* those of them sent to the bridge
          before,   \* history: those sent before the exit
          stream,   \* what is under way to the bridge: "data" and "exit"
          shown,    \* chunks the bridge has written to its stdout
          result,   \* what relay returned: "none", "exited" or "error"
          helper    \* history: how the last command in the sandbox went

bridgeVars == <<service, stage, input, feeder, transit, parked, guest, heard, wrote, emitted,
                before, stream, shown, result, helper>>

Service == {"e2b", "opensandbox", "process"}

\* How a command went and what is heard of it: its exit code, whether the reply
\* was cut short, whether it held an error or the command's id, and whether
\* asking for the status gave an exit code.
Going == [code : {0, 1}, cut : BOOLEAN, error : BOOLEAN, id : BOOLEAN, status : BOOLEAN]
Left(how) == [code |-> how.code, status |-> how.status]

BridgeTypeOK ==
  /\ service \in Service
  /\ stage \in {"fill", "start", "tunnel", "relay", "archive", "fetch", "taken", "failed"}
  /\ input \in 0..MaxIn
  /\ feeder \in [state : {"idle", "reading", "awaiting", "ended"}, next : 0..(MaxIn + 1)]
  /\ transit \subseteq 0..MaxIn /\ parked \subseteq 0..MaxIn
  /\ guest \in {"none", "running", "exited"}
  /\ heard \in Seq(0..MaxIn)
  /\ {wrote, emitted, before, shown} \subseteq 0..MaxOut
  /\ stream \in Seq({"data", "exit"})
  /\ result \in {"none", "exited", "error"}
  /\ helper \in [code : {0, 1}, status : BOOLEAN]

BridgeInit ==
  /\ service \in Service
  /\ stage = "fill" /\ input \in 0..MaxIn
  /\ feeder = [state |-> "idle", next |-> 0]
  /\ transit = {} /\ parked = {} /\ guest = "none" /\ heard = <<>>
  /\ wrote = 0 /\ emitted = 0 /\ before = 0 /\ stream = <<>> /\ shown = 0
  /\ result = "none" /\ helper = [code |-> 0, status |-> TRUE]

-----------------------------------------------------------------------------
(* Commands                                                                *)

\* Session::run: the exit has to be heard of.
RunE2b(how) == ~how.cut /\ how.code = 0

\* Execd::command, in the foreground.  A status without an exit code passes.
RunExecd(how) == ~how.cut /\ ~how.error /\ how.id /\ (how.status => how.code = 0)

\* process::run: killed and an error when it takes too long.
RunProcess(how) == ~how.cut /\ how.code = 0

Believed(how) ==
  CASE service = "e2b"         -> RunE2b(how)
    [] service = "opensandbox" -> RunExecd(how)
    [] service = "process"     -> RunProcess(how)

RelayUnchanged == UNCHANGED <<input, feeder, transit, parked, guest, heard, wrote, emitted,
                              before, stream, shown, result>>

\* The archive is uploaded and unpacked.  A program that is the agent's prefix
\* relays by itself.
Fill ==
  /\ stage = "fill"
  /\ \E how \in Going :
       /\ helper' = Left(how)
       /\ stage' = IF ~Believed(how) THEN "failed"
                   ELSE IF service = "process" THEN "archive" ELSE "start"
  /\ RelayUnchanged /\ UNCHANGED service

UploadFails ==
  /\ stage = "fill"
  /\ stage' = "failed"
  /\ RelayUnchanged /\ UNCHANGED <<service, helper>>

\* tar inside, once the turn is over, however it ended.
Archive ==
  /\ stage = "archive"
  /\ \E how \in Going :
       helper' = Left(how) /\ stage' = IF Believed(how) THEN "fetch" ELSE "failed"
  /\ RelayUnchanged /\ UNCHANGED service

Fetch ==
  /\ stage = "fetch"
  /\ stage' \in {"taken", "failed"}
  /\ RelayUnchanged /\ UNCHANGED <<service, helper>>

-----------------------------------------------------------------------------
(* The relay's start                                                       *)

Ends(how) ==
  /\ result' = how /\ stage' = "archive"
  /\ feeder' = [feeder EXCEPT !.state = "ended"]

\* envd starts the agent and says so on the stream; feed begins with its pid.
StartE2b ==
  /\ stage = "start" /\ service = "e2b"
  /\ guest' = "running" /\ stage' = "relay"
  /\ feeder' = [feeder EXCEPT !.state = "reading"]
  /\ UNCHANGED <<service, input, transit, parked, heard, wrote, emitted, before, stream, shown,
                 result, helper>>

\* execd has taken the tunnel's command; the agent waits for a reader.
StartTunnel ==
  /\ stage = "start" /\ service = "opensandbox"
  /\ stage' = "tunnel"
  /\ RelayUnchanged /\ UNCHANGED <<service, helper>>

\* Healthy within a minute: the bridge attaches, and with that the agent starts.
Attach ==
  /\ stage = "tunnel"
  /\ guest' = "running" /\ stage' = "relay"
  /\ feeder' = [feeder EXCEPT !.state = "reading"]
  /\ UNCHANGED <<service, input, transit, parked, heard, wrote, emitted, before, stream, shown,
                 result, helper>>

\* Not started, not healthy in time, or not attached.
StartFails ==
  /\ stage \in {"start", "tunnel"}
  /\ Ends("error")
  /\ UNCHANGED <<service, input, transit, parked, guest, heard, wrote, emitted, before, stream,
                 shown, helper>>

-----------------------------------------------------------------------------
(* stdin                                                                   *)

\* One request at a time.
Send ==
  /\ feeder.state = "reading"
  /\ transit' = transit \cup {feeder.next}
  /\ feeder' = [feeder EXCEPT !.state = "awaiting"]
  /\ UNCHANGED <<service, stage, input, parked, guest, heard, wrote, emitted, before, stream,
                 shown, result, helper>>

\* apply of the tunnel: how many of the chunks follow on what the agent has.
Following(chunks) ==
  {n \in 0..(MaxIn + 1) : /\ \A r \in Len(heard)..(Len(heard) + n - 1) : r \in chunks
                          /\ Len(heard) + n \notin chunks}

\* envd writes what arrives; the tunnel keeps what is not its turn yet.
Arrive(s) ==
  /\ s \in transit
  /\ transit' = transit \ {s}
  /\ \/ /\ service = "e2b"
        /\ heard' = IF guest = "running" THEN Append(heard, s) ELSE heard
        /\ UNCHANGED parked
     \/ /\ service # "e2b"
        /\ \E n \in Following(parked \cup {s}) :
             /\ heard' = IF guest = "running"
                         THEN heard \o [i \in 1..n |-> Len(heard) + i - 1] ELSE heard
             /\ parked' = (parked \cup {s}) \ (Len(heard)..(Len(heard) + n - 1))
  /\ UNCHANGED <<service, stage, input, feeder, guest, wrote, emitted, before, stream, shown,
                 result, helper>>

\* The next chunk is read once this one is answered for: by envd or, perhaps
\* sooner than by the tunnel, by its proxy.
Answered ==
  /\ feeder.state = "awaiting"
  /\ service = "e2b" => feeder.next \notin transit
  /\ feeder' = [state |-> IF feeder.next = input THEN "ended" ELSE "reading",
                next |-> feeder.next + 1]
  /\ UNCHANGED <<service, stage, input, transit, parked, guest, heard, wrote, emitted, before,
                 stream, shown, result, helper>>

SendFailsGoingOn ==
  /\ feeder.state = "awaiting"
  /\ transit' \in {transit, transit \ {feeder.next}}
  /\ feeder' = [state |-> IF feeder.next = input THEN "ended" ELSE "reading",
                next |-> feeder.next + 1]
  /\ UNCHANGED <<service, stage, input, parked, guest, heard, wrote, emitted, before, stream,
                 shown, result, helper>>

\* The pump ends with an error nobody reads; the chunk may still arrive.
SendFails ==
  /\ feeder.state = "awaiting"
  /\ transit' \in {transit, transit \ {feeder.next}}
  /\ feeder' = [feeder EXCEPT !.state = "ended"]
  /\ UNCHANGED <<service, stage, input, parked, guest, heard, wrote, emitted, before, stream,
                 shown, result, helper>>

-----------------------------------------------------------------------------
(* The agent and its stdout                                                *)

AgentWrites ==
  /\ guest = "running" /\ wrote < MaxOut
  /\ wrote' = wrote + 1
  /\ UNCHANGED <<service, stage, input, feeder, transit, parked, guest, heard, emitted, before,
                 stream, shown, result, helper>>

AgentExits ==
  /\ guest = "running"
  /\ guest' = "exited"
  /\ UNCHANGED <<service, stage, input, feeder, transit, parked, heard, wrote, emitted, before,
                 stream, shown, result, helper>>

EmitData ==
  /\ emitted < wrote
  /\ emitted' = emitted + 1
  /\ stream' = Append(stream, "data")
  /\ UNCHANGED <<service, stage, input, feeder, transit, parked, guest, heard, wrote, before,
                 shown, result, helper>>

\* The tunnel says so on the process's "exit", which does not wait for the pipe
\* to be read to its end.
EmitExit ==
  /\ guest = "exited"
  /\ \A i \in 1..Len(stream) : stream[i] # "exit"
  /\ result = "none"
  /\ service = "e2b" => emitted = wrote
  /\ stream' = Append(stream, "exit")
  /\ before' = emitted
  /\ UNCHANGED <<service, stage, input, feeder, transit, parked, guest, heard, wrote, emitted,
                 shown, result, helper>>

TakeData ==
  /\ stage = "relay" /\ stream # <<>> /\ Head(stream) = "data"
  /\ stream' = Tail(stream)
  /\ shown' = shown + 1
  /\ UNCHANGED <<service, stage, input, feeder, transit, parked, guest, heard, wrote, emitted,
                 before, result, helper>>

TakeExit ==
  /\ stage = "relay" /\ stream # <<>> /\ Head(stream) = "exit"
  /\ stream' = Tail(stream)
  /\ Ends("exited")
  /\ UNCHANGED <<service, input, transit, parked, guest, heard, wrote, emitted, before, shown,
                 helper>>

\* The stream fails, ends in or after a message, holds what cannot be decoded,
\* or the bridge's own stdout is gone.
StreamBreaks ==
  /\ stage = "relay"
  /\ Ends("error")
  /\ UNCHANGED <<service, input, transit, parked, guest, heard, wrote, emitted, before, stream,
                 shown, helper>>

BridgeNext ==
  \/ Fill \/ UploadFails \/ Archive \/ Fetch
  \/ StartE2b \/ StartTunnel \/ Attach \/ StartFails
  \/ Send \/ (\E s \in transit : Arrive(s)) \/ Answered \/ SendFails
  \/ AgentWrites \/ AgentExits \/ EmitData \/ EmitExit \/ TakeData \/ TakeExit \/ StreamBreaks

BridgeSpec == BridgeInit /\ [][BridgeNext]_bridgeVars

-----------------------------------------------------------------------------
(* Properties                                                              *)

\* The agent reads what the bridge was given, in order, with nothing missing
\* before its end, whatever is late or fails on the way.  An exit is reported when
\* the agent has exited, and with E2B all it wrote has then been shown; with
\* OpenSandbox all that the tunnel had read by the exit, which may be less: the
\* tunnel announces the process's exit, not the end of its output.  The agent
\* works in, and the archive is made of, what a command that succeeded left
\* behind, but for an OpenSandbox whose status lacks the exit code.
RelayIsFaithful ==
  /\ \A i \in 1..Len(heard) : heard[i] = i - 1
  /\ result = "exited" =>
       guest = "exited" /\ shown = IF service = "e2b" THEN wrote ELSE before
  /\ stage \in {"start", "tunnel", "relay", "fetch", "taken"} =>
       helper.code = 0 \/ (service = "opensandbox" /\ ~helper.status)
=============================================================================
