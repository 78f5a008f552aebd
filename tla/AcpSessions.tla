---------------------------- MODULE AcpSessions ----------------------------
(***************************************************************************)
(* One session of CUMA's ACP server (cuma-server-acp, lib.rs, session.rs,  *)
(* translate.rs): prompts that run in tasks of their own, the handle that  *)
(* makes the running one cancellable, the turns a reconnecting client is   *)
(* shown, and the file they are kept in.                                   *)
(*                                                                         *)
(* The registry has a lock, and a prompt takes it three times: to          *)
(* register its run, to clear it and to record the turn.  Everything else  *)
(* may come between.  A turn is named by its prompt.                       *)
(***************************************************************************)
EXTENDS Naturals, Sequences, SequencesExt

CONSTANTS Prompt,          \* the prompts a client sends
          MaxHistory,      \* turns a session remembers
          MaxServerStarts  \* bound on restarts explored

Nobody == "nobody"

\* No prompt is the absence of one, and the bounds are numbers.
ASSUME SessionAssumption == Nobody \notin Prompt /\ MaxHistory \in Nat /\ MaxServerStarts \in Nat

VARIABLES session,   \* the registry's entry: whether there is one, turns, running
          file,      \* the session's file: "absent", "torn" or "whole", and its turns
          prompt,    \* each prompt: where its handler is, what it will answer
          run,       \* the orchestrator's run behind each prompt
          pump,      \* the task that forwards the run's events to the client
          loading,   \* a session/load that has read the file
          starts     \* restarts so far

acpVars == <<session, file, prompt, run, pump, loading, starts>>

NoSession == [open |-> FALSE, turns |-> <<>>, running |-> Nobody]

RunEnded == {"completed", "failed", "overflowed", "aborted"}
StopReasons == {"EndTurn", "Cancelled", "MaxTokens", "Refusal"}

AcpTypeOK ==
  /\ session.open \in BOOLEAN /\ session.running \in Prompt \cup {Nobody}
  /\ Len(session.turns) <= MaxHistory /\ Len(file.turns) <= MaxHistory
  /\ file.state \in {"absent", "torn", "whole"}
  /\ \A p \in Prompt :
       /\ prompt[p].pc \in {"idle", "asked", "launched", "registered", "finished", "recording",
                            "persisting", "answered", "lost"}
       /\ prompt[p].stop \in StopReasons \cup {"none"}
       /\ prompt[p].pc = "answered" => prompt[p].stop # "none"
       /\ run[p] \in {"none", "alive", "aborting", "lost"} \cup RunEnded
       /\ pump[p] \in {"none", "on", "done", "stopped"}
  /\ starts \in 0..MaxServerStarts

AcpInit ==
  /\ session = NoSession
  /\ file = [state |-> "absent", turns |-> <<>>]
  /\ prompt = [p \in Prompt |-> [pc |-> "idle", stop |-> "none", snapshot |-> <<>>]]
  /\ run = [p \in Prompt |-> "none"]
  /\ pump = [p \in Prompt |-> "none"]
  /\ loading = NoSession
  /\ starts = 0

Step(p, pc) == prompt' = [prompt EXCEPT ![p].pc = pc]
Answer(p, stop) == prompt' = [prompt EXCEPT ![p].pc = "answered", ![p].stop = stop]

IsFinished(p) == run[p] \in RunEnded

-----------------------------------------------------------------------------
(* session/new and session/load                                            *)

\* A refused directory, or one that cannot be prepared, creates nothing.
NewSession ==
  /\ ~session.open /\ file.state = "absent"
  /\ session' = [NoSession EXCEPT !.open = TRUE]
  /\ file' \in {file, [state |-> "whole", turns |-> <<>>]}
  /\ UNCHANGED <<prompt, run, pump, loading, starts>>

\* A session in memory is answered from there; otherwise its file is read, if it
\* can be, outside of the lock.
LoadReads ==
  /\ ~loading.open /\ ~session.open /\ file.state = "whole"
  /\ loading' = [NoSession EXCEPT !.open = TRUE, !.turns = file.turns]
  /\ UNCHANGED <<session, file, prompt, run, pump, starts>>

LoadInserts ==
  /\ loading.open
  /\ session' = loading
  /\ loading' = NoSession
  /\ UNCHANGED <<file, prompt, run, pump, starts>>

-----------------------------------------------------------------------------
(* session/prompt                                                          *)

\* Only text that is not blank contributes to the goal.
PromptToGoal(blocks) == blocks \ {"blank", "resource"}

\* Nothing to plan ends the turn; otherwise the prompt gets a task of its own.
Ask(p) ==
  /\ prompt[p].pc = "idle"
  /\ \E blocks \in SUBSET {"text", "blank", "resource"} :
       IF PromptToGoal(blocks) = {} THEN Answer(p, "EndTurn") ELSE Step(p, "asked")
  /\ UNCHANGED <<session, file, run, pump, loading, starts>>

WorkspaceUnavailable(p) ==
  /\ prompt[p].pc = "asked"
  /\ Answer(p, "EndTurn")
  /\ UNCHANGED <<session, file, run, pump, loading, starts>>

\* The pump subscribes before the run starts, so it misses no event of it.
Launch(p) ==
  /\ prompt[p].pc = "asked"
  /\ Step(p, "launched")
  /\ run' = [run EXCEPT ![p] = "alive"]
  /\ pump' = [pump EXCEPT ![p] = "on"]
  /\ UNCHANGED <<session, file, loading, starts>>

\* A run may end before it is registered.  One that was told to stop does so
\* when it next awaits, unless it ends first.
OrchestratorEnds(p) ==
  /\ run[p] \in {"alive", "aborting"}
  /\ \E how \in RunEnded :
       /\ how = "aborted" => run[p] = "aborting"
       /\ run' = [run EXCEPT ![p] = how]
  /\ UNCHANGED <<session, file, prompt, pump, loading, starts>>

\* The pump stops when the completion of its session reaches it, or when it
\* lags behind the bus.  A run that fails publishes no completion.
PumpEnds(p) ==
  /\ pump[p] = "on"
  /\ run[p] \in {"alive", "aborting", "completed"}
  /\ pump' = [pump EXCEPT ![p] = "done"]
  /\ UNCHANGED <<session, file, prompt, run, loading, starts>>

Busy == session.running # Nobody /\ ~IsFinished(session.running)

\* The turn is remembered when the prompt starts.
RegisterWithTurn(p) ==
  /\ prompt[p].pc = "launched"
  /\ IF Busy
     THEN /\ run' = [run EXCEPT ![p] = IF IsFinished(p) THEN @ ELSE "aborting"]
          /\ pump' = [pump EXCEPT ![p] = "stopped"]
          /\ Answer(p, "Refusal")
          /\ UNCHANGED session
     ELSE /\ session' = [open |-> TRUE, running |-> p, turns |-> <<p>>]
          /\ Step(p, "registered")
          /\ UNCHANGED <<run, pump>>
  /\ UNCHANGED <<file, loading, starts>>

\* The second of two prompts is refused while the first one's run is not over.  A
\* session that is not in memory gets an entry of its own.
Register(p) ==
  /\ prompt[p].pc = "launched"
  /\ IF Busy
     THEN /\ run' = [run EXCEPT ![p] = IF IsFinished(p) THEN @ ELSE "aborting"]
          /\ pump' = [pump EXCEPT ![p] = "stopped"]
          /\ Answer(p, "Refusal")
          /\ UNCHANGED session
     ELSE /\ session' = [session EXCEPT !.open = TRUE, !.running = p]
          /\ Step(p, "registered")
          /\ UNCHANGED <<run, pump>>
  /\ UNCHANGED <<file, loading, starts>>

\* The run was awaited; whatever the session has running is cleared.
Finish(p) ==
  /\ prompt[p].pc = "registered" /\ IsFinished(p)
  /\ session' = [session EXCEPT !.running = Nobody]
  /\ Step(p, "finished")
  /\ UNCHANGED <<file, run, pump, loading, starts>>

StopReasonFor(how) ==
  CASE how = "aborted"    -> "Cancelled"
    [] how = "overflowed" -> "MaxTokens"
    [] OTHER              -> "EndTurn"

\* The pump is awaited without a deadline.
DrainFully(p) ==
  /\ prompt[p].pc = "finished"
  /\ run[p] = "aborted" \/ pump[p] = "done"
  /\ pump' = [pump EXCEPT ![p] = IF run[p] = "aborted" THEN "stopped" ELSE @]
  /\ prompt' = [prompt EXCEPT ![p].pc = "recording", ![p].stop = StopReasonFor(run[p])]
  /\ UNCHANGED <<session, file, run, loading, starts>>

\* A cancelled prompt stops its pump.  Any other lets it drain until the
\* deadline, and then leaves it to itself.
Drain(p) ==
  /\ prompt[p].pc = "finished"
  /\ pump' = [pump EXCEPT ![p] = IF run[p] = "aborted" THEN "stopped" ELSE @]
  /\ prompt' = [prompt EXCEPT ![p].pc = "recording", ![p].stop = StopReasonFor(run[p])]
  /\ UNCHANGED <<session, file, run, loading, starts>>

\* The oldest turns make room.
Remembered(turns, p) ==
  LET all == Append(turns, p)
  IN  SubSeq(all, Len(all) - (IF Len(all) > MaxHistory THEN MaxHistory ELSE Len(all)) + 1, Len(all))

\* The server forgets no session, so the entry is there.
Record(p) ==
  /\ prompt[p].pc = "recording" /\ session.open
  /\ LET turns == Remembered(session.turns, p)
     IN  /\ session' = [session EXCEPT !.turns = turns]
         /\ prompt' = [prompt EXCEPT ![p].pc = "persisting", ![p].snapshot = turns]
  /\ UNCHANGED <<file, run, pump, loading, starts>>

\* Written beside and renamed, and only warned about when that fails.  Two
\* writers share the temporary file, so one may rename what the other has only
\* begun to write.
SaveSession(p) ==
  /\ prompt[p].pc = "persisting"
  /\ \/ file' = [state |-> "whole", turns |-> prompt[p].snapshot]
     \/ UNCHANGED file
     \/ /\ \E q \in Prompt \ {p} : prompt[q].pc = "persisting"
        /\ file' = [state |-> "torn", turns |-> <<>>]
  /\ Step(p, "answered")
  /\ UNCHANGED <<session, run, pump, loading, starts>>

-----------------------------------------------------------------------------
\* session/cancel tells the registered run to stop, if there is one.
CancelPrompt ==
  /\ Busy
  /\ run' = [run EXCEPT ![session.running] = "aborting"]
  /\ UNCHANGED <<session, file, prompt, pump, loading, starts>>

\* The editor closes the server and starts it again: the file is what remains.
ServerRestart ==
  /\ starts < MaxServerStarts
  /\ starts' = starts + 1
  /\ session' = NoSession /\ loading' = NoSession
  /\ prompt' = [p \in Prompt |-> IF prompt[p].pc \in {"idle", "answered"} THEN prompt[p]
                                 ELSE [prompt[p] EXCEPT !.pc = "lost"]]
  /\ run' = [p \in Prompt |-> IF run[p] \in {"alive", "aborting"} THEN "lost" ELSE run[p]]
  /\ pump' = [p \in Prompt |-> IF pump[p] = "on" THEN "stopped" ELSE pump[p]]
  /\ UNCHANGED file

PromptStep(p) ==
  \/ WorkspaceUnavailable(p) \/ Launch(p) \/ Register(p) \/ Finish(p) \/ Drain(p)
  \/ Record(p) \/ SaveSession(p)

AcpNext ==
  \/ NewSession \/ LoadReads \/ LoadInserts \/ CancelPrompt \/ ServerRestart
  \/ \E p \in Prompt : Ask(p) \/ PromptStep(p) \/ OrchestratorEnds(p) \/ PumpEnds(p)

\* Handlers run on a multi-threaded runtime; a run ends because its passes and
\* its attempts are bounded.
AcpFairness == \A p \in Prompt : WF_acpVars(PromptStep(p)) /\ WF_acpVars(OrchestratorEnds(p))

AcpSpec == AcpInit /\ [][AcpNext]_acpVars /\ AcpFairness

-----------------------------------------------------------------------------
(* Properties                                                              *)

\* A client is shown only turns that finished, each of them once: not one that a
\* restart cut short or that was refused, whatever was loaded, recorded or
\* written meanwhile.
TurnsAreFinished ==
  \A turns \in {session.turns, file.turns, loading.turns} :
     /\ IsInjective(turns)
     /\ \A i \in DOMAIN turns : IsFinished(turns[i]) /\ prompt[turns[i]].stop # "Refusal"

\* Every prompt is answered, also when its run fails without telling the pump,
\* unless the server is restarted.
PromptsAreAnswered ==
  \A p \in Prompt : prompt[p].pc = "asked" ~> prompt[p].pc \in {"answered", "lost"}

=============================================================================
