-------------------------------- MODULE Tui --------------------------------
(***************************************************************************)
(* The terminal interface (cuma-tui): one loop that selects over keys, the *)
(* events of the orchestrator's bus, the end of the session it spawned and *)
(* the end of the memory search it spawned (app.rs); the view model is     *)
(* changed by keys and by events only (state.rs).                          *)
(*                                                                         *)
(* The bus keeps TuiCapacity events for the subscriber and drops the       *)
(* oldest (event.rs). A session is its number; of its events those are     *)
(* kept that change what is told apart here. Scrolling, layout and the     *)
(* wording of log and notices are left out.                                *)
(***************************************************************************)
EXTENDS Naturals, Integers, Sequences, SequencesExt, FiniteSets

CONSTANTS TuiCapacity,    \* events the bus buffers for a subscriber
          MaxGoals,       \* bound: goals submitted
          MaxSearches,    \* bound: memory searches submitted
          MaxSkills,      \* bound: skills that are ever installed
          MemoryAttached  \* Sources::memory is configured

\* A broadcast channel holds something.
ASSUME ScreenAssumption ==
  /\ TuiCapacity \in Nat \ {0} /\ MaxGoals \in Nat /\ MaxSearches \in Nat /\ MaxSkills \in Nat
  /\ MemoryAttached \in BOOLEAN

VARIABLES ui,        \* AppState
          bus,       \* what events.recv() has yet to deliver, oldest first
          missed,    \* the subscriber was told that it lagged
          handle,    \* the session's JoinHandle: its number, or 0
          step,      \* how far each spawned session has come
          recall,    \* the search's JoinHandle: its number, or 0
          asked,     \* number of the last search submitted
          installed  \* how many skills the skill source has

tuiVars == <<ui, bus, missed, handle, step, recall, asked, installed>>

Goal == 1..MaxGoals
SessionStep == {"unborn", "spawned", "started", "planned", "working", "recorded", "worked", "over", "aborted"}
EventName == {"SessionStarted", "TaskPlanned", "TaskCreated", "AgentOutputReceived",
              "UsageRecorded", "TaskCompleted", "SessionCompleted"}

TuiInit ==
  /\ installed \in 0..MaxSkills
  /\ ui = [mode |-> "Navigating", screen |-> "Chat", typed |-> FALSE, running |-> FALSE,
           goal |-> 0, rows |-> {}, transcript |-> {}, skills |-> installed, cursor |-> 0,
           searching |-> FALSE, query |-> 0, quit |-> FALSE]
  /\ bus = <<>> /\ missed = FALSE
  /\ handle = 0 /\ step = [s \in Goal |-> "unborn"]
  /\ recall = 0 /\ asked = 0

-----------------------------------------------------------------------------
\* AppState::apply: what one event does to the view. Nobody publishes
\* TaskCreated.
Apply(u, e) ==
  CASE e.kind = "SessionStarted"      -> [u EXCEPT !.goal = e.of, !.running = TRUE,
                                                   !.rows = {}, !.transcript = {}]
    [] e.kind = "SessionCompleted"    -> [u EXCEPT !.running = FALSE]
    [] e.kind = "TaskCreated"         -> [u EXCEPT !.rows = @ \cup {e.of}]
    [] e.kind = "AgentOutputReceived" -> [u EXCEPT !.transcript = @ \cup {e.of}]
    [] OTHER                          -> u

\* The select branch of events.recv().
Receive ==
  /\ ~ui.quit /\ bus # <<>>
  /\ ui' = Apply(ui, Head(bus))
  /\ bus' = Tail(bus)
  /\ UNCHANGED <<missed, handle, step, recall, asked, installed>>

\* An unbounded channel.
PublishAll(kind, s) ==
  /\ bus' = Append(bus, [kind |-> kind, of |-> s])
  /\ UNCHANGED missed

\* EventBus::publish on the broadcast channel: the oldest event goes when the
\* buffer is full; the next recv says so.
Publish(kind, s) ==
  /\ bus' = LET all == Append(bus, [kind |-> kind, of |-> s])
            IN  IF Len(all) > TuiCapacity THEN Tail(all) ELSE all
  /\ missed' = (missed \/ Len(bus) = TuiCapacity)

\* Orchestrator::run on its own task, event by event, in the order in which
\* run_session, execute_task and record_attempt publish them.
Becomes(s, from, to, kind) ==
  /\ step[s] = from
  /\ step' = [step EXCEPT ![s] = to]
  /\ Publish(kind, s)
SessionRuns(s) ==
  /\ \/ Becomes(s, "spawned", "started", "SessionStarted")
     \/ Becomes(s, "started", "planned", "TaskPlanned")
     \/ Becomes(s, "planned", "working", "AgentOutputReceived")
     \/ Becomes(s, "working", "recorded", "UsageRecorded")
     \/ Becomes(s, "recorded", "worked", "TaskCompleted")
     \/ Becomes(s, "worked", "over", "SessionCompleted")
  /\ UNCHANGED <<ui, handle, recall, asked, installed>>

\* plan() or execute_graph() returned an error: run_session passes it on and
\* publishes nothing.
SessionFails(s) ==
  /\ step[s] \in {"started", "planned", "working", "recorded", "worked"}
  /\ step' = [step EXCEPT ![s] = "over"]
  /\ UNCHANGED <<ui, bus, missed, handle, recall, asked, installed>>

\* The select branch of the session's handle.
SessionEnds ==
  /\ ~ui.quit /\ handle # 0 /\ step[handle] = "over"
  /\ handle' = 0
  /\ UNCHANGED <<ui, bus, missed, step, recall, asked, installed>>

-----------------------------------------------------------------------------
\* AppState::begin_editing, cancel_editing, push_char and pop_char.
BeginEditing(u) ==
  IF u.running /\ u.screen # "Memory" THEN u ELSE [u EXCEPT !.mode = "Editing"]
CancelEditing(u) == [u EXCEPT !.mode = "Navigating", !.typed = FALSE]
\* next_screen, previous_screen, go_to: any screen can be reached.
GoTo(u, screen) == [u EXCEPT !.screen = screen]
\* move_skill_cursor, set_skills and selected_skill.
MoveCursor(u, down) ==
  IF u.skills = 0 THEN [u EXCEPT !.cursor = 0]
  ELSE [u EXCEPT !.cursor = Min({IF down THEN @ + 1 ELSE IF @ = 0 THEN 0 ELSE @ - 1, u.skills - 1})]
SetSkills(u, n) ==
  [u EXCEPT !.skills = n, !.cursor = Min({@, IF n = 0 THEN 0 ELSE n - 1})]
SelectedSkill(u) == u.skills # 0 /\ u.cursor < u.skills

\* Keys that only change the view.
PressKey ==
  /\ ~ui.quit
  /\ IF ui.mode = "Editing"
     THEN \/ ui' = CancelEditing(ui)
          \/ ui' = [ui EXCEPT !.typed = TRUE]
          \/ ui' = [ui EXCEPT !.typed = FALSE]
     ELSE \/ ui' = BeginEditing(ui)
          \/ \E screen \in {"Chat", "Skills", "Memory"} : ui' = GoTo(ui, screen)
          \/ ui.screen = "Skills" /\ \E down \in BOOLEAN : ui' = MoveCursor(ui, down)
  /\ UNCHANGED <<bus, missed, handle, step, recall, asked, installed>>

\* Enter on a blank line only leaves the editor.
PressEnterBlank ==
  /\ ~ui.quit /\ ui.mode = "Editing" /\ ~ui.typed
  /\ ui' = CancelEditing(ui)
  /\ UNCHANGED <<bus, missed, handle, step, recall, asked, installed>>

\* Enter on a goal: Action::Submit, refused while a session's handle is there.
Free == {s \in Goal : step[s] = "unborn"}
SpawnAnyway(new) == handle' = new /\ step' = [step EXCEPT ![new] = "spawned"]
SpawnOrRefuse(new) ==
  IF handle # 0 THEN UNCHANGED <<handle, step>> ELSE SpawnAnyway(new)
PressEnterGoal ==
  /\ ~ui.quit /\ ui.mode = "Editing" /\ ui.typed /\ ui.screen # "Memory"
  /\ ui' = CancelEditing(ui)
  /\ \E s \in Free : (\A t \in Free : s <= t) /\ SpawnOrRefuse(s)
  /\ UNCHANGED <<bus, missed, recall, asked, installed>>

Search(new) == recall' = IF MemoryAttached THEN new ELSE 0
PressEnterQuery ==
  /\ ~ui.quit /\ ui.mode = "Editing" /\ ui.typed /\ ui.screen = "Memory"
  /\ asked < MaxSearches
  /\ asked' = asked + 1
  /\ ui' = [CancelEditing(ui) EXCEPT !.searching = MemoryAttached]
  /\ Search(asked + 1)
  /\ UNCHANGED <<bus, missed, handle, step, installed>>

\* The select branch of the search's handle: found, failed or timed out; the
\* task itself may also have panicked, and then no query is answered.
RecallEnds ==
  /\ ~ui.quit /\ recall # 0
  /\ recall' = 0
  /\ \/ ui' = [ui EXCEPT !.searching = FALSE, !.query = recall]
     \/ ui' = [ui EXCEPT !.searching = FALSE]
  /\ UNCHANGED <<bus, missed, handle, step, asked, installed>>

\* Space on a skill: set_enabled, then refresh_skills reads the list again,
\* which another process may have changed; the read may fail.
ToggleSkill ==
  /\ ~ui.quit /\ ui.mode = "Navigating" /\ ui.screen = "Skills" /\ SelectedSkill(ui)
  /\ ui' \in {SetSkills(ui, installed), ui}
  /\ UNCHANGED <<bus, missed, handle, step, recall, asked, installed>>
SkillsChange ==
  /\ installed' \in 0..MaxSkills
  /\ UNCHANGED <<ui, bus, missed, handle, step, recall, asked>>

\* q, Esc or Ctrl-C: the loop ends and aborts what it spawned.
Aborted(s) == s = handle /\ step[s] # "over"
Quit ==
  /\ ~ui.quit
  /\ ui' = [ui EXCEPT !.quit = TRUE]
  /\ step' = [s \in Goal |-> IF Aborted(s) THEN "aborted" ELSE step[s]]
  /\ handle' = 0 /\ recall' = 0
  /\ UNCHANGED <<bus, missed, asked, installed>>

TuiNext ==
  \/ Receive \/ SessionEnds \/ PressKey \/ PressEnterBlank \/ PressEnterGoal
  \/ PressEnterQuery \/ RecallEnds \/ ToggleSkill \/ SkillsChange \/ Quit
  \/ \E s \in Goal : SessionRuns(s) \/ SessionFails(s)

TuiSpec == TuiInit /\ [][TuiNext]_tuiVars

-----------------------------------------------------------------------------
TuiTypeOK ==
  /\ ui \in [mode : {"Navigating", "Editing"}, screen : {"Chat", "Skills", "Memory"},
             typed : BOOLEAN, running : BOOLEAN, goal : 0..MaxGoals, rows : SUBSET Goal,
             transcript : SUBSET Goal, skills : 0..MaxSkills, cursor : 0..MaxSkills,
             searching : BOOLEAN, query : 0..MaxSearches, quit : BOOLEAN]
  /\ bus \in Seq([kind : EventName, of : Goal]) /\ Len(bus) <= TuiCapacity
  /\ missed \in BOOLEAN /\ step \in [Goal -> SessionStep]
  /\ handle \in 0..MaxGoals /\ recall \in 0..MaxSearches /\ asked \in 0..MaxSearches
  /\ installed \in 0..MaxSkills

\* "Refuse rather than interleave two plans in one view model" (app.rs) and
\* what a search shows: unless the bus dropped events, the transcript holds
\* the output of the session whose goal is shown and of no other one, however
\* keys, events and the ends of sessions interleave.
OneSessionShown == ~missed => ui.transcript \subseteq {ui.goal}

\* A search that was replaced answers nobody: the screen says it is searching
\* exactly while the last search submitted runs, and what it shows next is that
\* search's result.
LastSearchShown == ~ui.quit => (ui.searching <=> recall # 0) /\ (recall # 0 => recall = asked)

\* What is on the screen belongs to the last thing that was asked for.
ScreenIsCurrent == OneSessionShown /\ LastSearchShown
=============================================================================
