--------------------------- MODULE LongTermMemory ---------------------------
(***************************************************************************)
(* What sessions leave for later ones (cuma-memory, and its calls in       *)
(* executor.rs): notes are recalled once for a task's prompts, handoffs    *)
(* and finished tasks are written as pages.  The backend is a program run  *)
(* for every call ("cli"), an MCP server ("mcp") or nothing ("null"); it   *)
(* may come and go, and a call that timed out may still be carried out.    *)
(***************************************************************************)
EXTENDS Naturals, FiniteSets

CONSTANTS Noted,        \* tasks of the session
          RecallLimit,  \* notes asked for
          MaxTries,     \* attempts of a task
          MaxOutages    \* changes of the backend's state

\* The bounds are numbers.
ASSUME NotesAssumption == MaxTries \in Nat /\ MaxOutages \in Nat

VARIABLES backend,   \* "cli", "mcp" or "null"
          up,        \* whether the backend can be reached
          known,     \* the program's cached availability
          at,        \* where each task is
          tries,     \* its attempts
          notes,     \* the pages its prompts quote
          pages,     \* the pages there are
          landing,   \* pages whose writing timed out and goes on
          outages

noteVars == <<backend, up, known, at, tries, notes, pages, landing, outages>>

Page == [about : Noted, says : {"handed over", "completed"}]

NotesTypeOK ==
  /\ backend \in {"cli", "mcp", "null"} /\ up \in BOOLEAN
  /\ known \in {"Unknown", "Present", "Missing"}
  /\ at \in [Noted -> {"new", "working", "handing", "remembering", "settling",
                       "completed", "failed", "kept"}]
  /\ tries \in [Noted -> 0..MaxTries]
  /\ notes \in [Noted -> SUBSET Page] /\ pages \subseteq Page /\ landing \subseteq Page
  /\ outages \in 0..MaxOutages

NotesInit ==
  /\ backend \in {"cli", "mcp", "null"} /\ up \in BOOLEAN /\ known = "Unknown"
  /\ at = [t \in Noted |-> "new"] /\ tries = [t \in Noted |-> 0]
  /\ notes = [t \in Noted |-> {}] /\ pages = {} /\ landing = {} /\ outages = 0

-----------------------------------------------------------------------------
\* AiMemoryCli::is_available looks for the program once.
Probed == IF backend # "cli" \/ known # "Unknown" THEN known
          ELSE IF up THEN "Present" ELSE "Missing"

\* Whether a call gets as far as the backend.
Reached == CASE backend = "cli"  -> Probed = "Present" /\ up
             [] backend = "mcp"  -> up
             [] backend = "null" -> FALSE

\* recall_for_task: an error, a timeout and no memory are all the same; it is the
\* backend that keeps to the limit.
Recall(t) ==
  /\ at[t] = "new"
  /\ \E found \in SUBSET pages :
       /\ Cardinality(found) <= RecallLimit
       /\ found # {} => Reached
       /\ notes' = [notes EXCEPT ![t] = found]
  /\ known' = Probed
  /\ at' = [at EXCEPT ![t] = "working"]
  /\ UNCHANGED <<backend, up, tries, pages, landing, outages>>

\* An attempt of execute_task: the task is done, is retried, goes to another agent
\* with a handoff, or has failed.
Attempt(t) ==
  /\ at[t] = "working" /\ tries[t] < MaxTries
  /\ tries' = [tries EXCEPT ![t] = @ + 1]
  /\ \E next \in {"remembering", "working", "handing", "failed"} :
       /\ next \in {"working", "handing"} => tries'[t] < MaxTries
       /\ at' = [at EXCEPT ![t] = next]
  /\ UNCHANGED <<backend, up, known, notes, pages, landing, outages>>

\* A page is written, is not, or is not yet when the call times out.
Write(page) ==
  \/ Reached /\ pages' = pages \cup {page} /\ UNCHANGED landing
  \/ UNCHANGED <<pages, landing>>
  \/ Reached /\ landing' = landing \cup {page} /\ UNCHANGED pages

\* publish_handoff and record_handoff, before the next agent is asked.
Handoff(t) ==
  /\ at[t] = "handing"
  /\ Write([about |-> t, says |-> "handed over"])
  /\ known' = Probed
  /\ at' = [at EXCEPT ![t] = "working"]
  /\ UNCHANGED <<backend, up, tries, notes, outages>>

\* Every attempt is noted.
RememberAny(t) ==
  /\ at[t] \in {"remembering", "handing"}
  /\ Write([about |-> t, says |-> "completed"])
  /\ known' = Probed
  /\ at' = [at EXCEPT ![t] = IF @ = "handing" THEN "working" ELSE "settling"]
  /\ UNCHANGED <<backend, up, tries, notes, outages>>

\* remember_success, with the task completed but its worktree not yet applied.
Remember(t) ==
  /\ at[t] = "remembering"
  /\ Write([about |-> t, says |-> "completed"])
  /\ known' = Probed
  /\ at' = [at EXCEPT ![t] = "settling"]
  /\ UNCHANGED <<backend, up, tries, notes, outages>>

\* settle_isolated: work that cannot be applied is kept aside and the task fails.
SettleNoted(t) ==
  /\ at[t] = "settling"
  /\ \E end \in {"completed", "kept"} : at' = [at EXCEPT ![t] = end]
  /\ UNCHANGED <<backend, up, known, tries, notes, pages, landing, outages>>

\* Neither the program nor the server is stopped by a timeout here.
Lands ==
  /\ landing # {}
  /\ \E page \in landing : pages' = pages \cup {page} /\ landing' = landing \ {page}
  /\ UNCHANGED <<backend, up, known, at, tries, notes, outages>>

Outage ==
  /\ outages < MaxOutages
  /\ up' = ~up /\ outages' = outages + 1
  /\ UNCHANGED <<backend, known, at, tries, notes, pages, landing>>

NotesNext ==
  \/ \E t \in Noted : Recall(t) \/ Attempt(t) \/ Handoff(t) \/ Remember(t) \/ SettleNoted(t)
  \/ Lands \/ Outage

NotesSpec == NotesInit /\ [][NotesNext]_noteVars

-----------------------------------------------------------------------------
(* Properties                                                              *)

\* A page "was completed by", also one written late, is about a task an agent did
\* complete.  It says no more: the page is written before the worktree is settled,
\* and the task has failed all the same when its work could not be applied
\* ("kept").  A page that says a task was handed over is about one that was tried
\* before, and again before it ended.  A task's prompts quote what others left,
\* never its own failures: "Recalled once per task".
NotesAreTrue ==
  /\ \A page \in pages \cup landing :
       /\ tries[page.about] > 0
       /\ page.says = "completed" => at[page.about] \in {"settling", "completed", "kept"}
       /\ page.says = "handed over" /\ at[page.about] \notin {"working", "handing"} =>
            tries[page.about] > 1
  /\ \A t \in Noted : \A page \in notes[t] : page.about # t
=============================================================================
