------------------------------ MODULE A2ATask ------------------------------
(***************************************************************************)
(* One task of CUMA's A2A server (server.rs): start, the run behind it     *)
(* (drive), cancellation, the streams that follow it, eviction from the    *)
(* table and the store that outlives the process.  Tasks share only the    *)
(* table, whose bounds and pages are in A2APages: here another task's      *)
(* start is the step Evicted.                                              *)
(*                                                                         *)
(* The table has a lock; a task's channels have none that spans two        *)
(* operations.  start, drive and cancel_task are therefore split wherever  *)
(* another thread can come between: drive changes the snapshot, copies it  *)
(* and publishes the copy, and is dropped by an abort only where it        *)
(* awaits.  Saving and announcing are one step, since nothing reads the    *)
(* store before a restart.                                                 *)
(***************************************************************************)
EXTENDS A2AWire

CONSTANTS Stream,        \* connections that stream the task
          Capacity,      \* room of the task's broadcast channel
          MaxRestarts    \* bound on restarts explored

\* The channel of a task has room, and the bound on restarts is a number.
ASSUME ChannelAssumption == Capacity \in Nat \ {0} /\ MaxRestarts \in Nat

VARIABLES snapshot,   \* state of the task, "none" before it is started
          present,    \* whether its record is in the table
          starting,   \* how far start() has come
          handle,     \* whether its abort handle is stored
          aborted,    \* whether its run was told to stop
          drive,      \* the run: where it is, what it sets, its copy
          cancel,     \* how far a cancellation has come; it holds the table's lock
          row,        \* its state in the store
          stream,     \* what each connection is yet to read, and was told last
          asked,      \* history: its cancellation was accepted
          restarts

taskVars == <<snapshot, present, starting, handle, aborted, drive, cancel, row, stream, asked,
              restarts>>

NoDrive  == [pc |-> "none", goal |-> "none", copy |-> "none"]
NoStream == [pc |-> "none", first |-> "none", queue |-> <<>>, lagged |-> FALSE, last |-> "none"]

TaskTypeOK ==
  /\ {snapshot, row} \subseteq TaskStates \cup {"none"}
  /\ {present, handle, aborted, asked} \subseteq BOOLEAN
  /\ starting \in {"no", "inserted", "spawned", "returned"}
  /\ drive \in [pc   : {"none", "ready", "read", "publish", "running", "ending", "over"},
                goal : {"none", "Working", "Completed", "Failed"},
                copy : TaskStates \cup {"none"}]
  /\ cancel \in {"none", "replace", "publish"}
  /\ \A s \in Stream : /\ stream[s].pc \in {"none", "open", "done"}
                       /\ Len(stream[s].queue) <= Capacity
  /\ restarts \in 0..MaxRestarts

TaskInit ==
  /\ snapshot = "none" /\ row = "none"
  /\ present = FALSE /\ handle = FALSE /\ aborted = FALSE /\ asked = FALSE
  /\ starting = "no"
  /\ drive = NoDrive
  /\ cancel = "none"
  /\ stream = [s \in Stream |-> NoStream]
  /\ restarts = 0

Unlocked == cancel = "none"

-----------------------------------------------------------------------------
(* The store, and the channels of the task.                                *)

\* Saving may fail; the task goes on without.
Persist(state) == row' = state \/ UNCHANGED row

\* An unbounded channel.
ToldAll(s, update) ==
  IF stream[s].pc # "open" THEN stream[s] ELSE [stream[s] EXCEPT !.queue = Append(@, update)]

\* An update reaches every subscriber; a full queue loses its oldest one and
\* its reader will be told that it lagged.
Told(s, update) ==
  IF stream[s].pc # "open" THEN stream[s]
  ELSE IF Len(stream[s].queue) < Capacity
       THEN [stream[s] EXCEPT !.queue = Append(@, update)]
       ELSE [stream[s] EXCEPT !.queue = Append(Tail(@), update), !.lagged = TRUE]

Announce(update) == stream' = [s \in Stream |-> Told(s, update)]

-----------------------------------------------------------------------------
(* start: a message with text that names no task.                          *)

Insert ==
  /\ Unlocked
  /\ snapshot = "none" /\ row = "none"
  /\ snapshot' = "Submitted" /\ present' = TRUE /\ starting' = "inserted"
  /\ UNCHANGED <<handle, aborted, drive, cancel, row, stream, asked, restarts>>

\* What the snapshot is by now is saved, and the run is spawned.
Spawn ==
  /\ starting = "inserted"
  /\ Persist(snapshot)
  /\ drive' = [NoDrive EXCEPT !.pc = "ready"]
  /\ starting' = "spawned"
  /\ UNCHANGED <<snapshot, present, handle, aborted, cancel, stream, asked, restarts>>

\* The abort handle is stored if the record is still there, and start returns:
\* to a caller that will stream, or to one that waits for the snapshot to be
\* settled or reads it later, which changes nothing.
Started ==
  /\ Unlocked
  /\ starting = "spawned"
  /\ handle' = present
  /\ starting' = "returned"
  /\ UNCHANGED <<snapshot, present, aborted, drive, cancel, row, stream, asked, restarts>>

\* Another start evicts the settled task and deletes its row, which may fail.
Evicted ==
  /\ Unlocked
  /\ present /\ SettledState(snapshot)
  /\ present' = FALSE
  /\ Persist("none")
  /\ UNCHANGED <<snapshot, starting, handle, aborted, drive, cancel, stream, asked, restarts>>

-----------------------------------------------------------------------------
(* drive: the run of the task, and its set().                              *)

\* The state to set is chosen before, and set without an await.
Modify ==
  /\ \/ drive.pc = "ready" /\ ~aborted
     \/ drive.pc = "ending"
  /\ LET goal == IF drive.pc = "ready" THEN "Working" ELSE drive.goal
     IN  /\ snapshot' = goal
         /\ drive' = [NoDrive EXCEPT !.pc = "read", !.goal = goal]
  /\ UNCHANGED <<present, starting, handle, aborted, cancel, row, stream, asked, restarts>>

ReadBack ==
  /\ drive.pc = "read"
  /\ drive' = [drive EXCEPT !.pc = "publish", !.copy = snapshot]
  /\ UNCHANGED <<snapshot, present, starting, handle, aborted, cancel, row, stream, asked,
                 restarts>>

\* The copy is saved, then announced.
Publish ==
  /\ drive.pc = "publish"
  /\ Persist(drive.copy)
  /\ Announce(drive.copy)
  /\ drive' = [NoDrive EXCEPT !.pc = IF drive.goal = "Working" THEN "running" ELSE "over"]
  /\ UNCHANGED <<snapshot, present, starting, handle, aborted, cancel, asked, restarts>>

\* Output of this session's agents, picked from the bus of all sessions.
Forward ==
  /\ drive.pc = "running"
  /\ Announce("chunk")
  /\ UNCHANGED <<snapshot, present, starting, handle, aborted, drive, cancel, row, asked,
                 restarts>>

\* run_session returned: completed, completed in part, or with an error.
RunEnds(outcome) ==
  /\ drive.pc = "running"
  /\ drive' = [drive EXCEPT !.pc = "ending", !.goal = outcome]
  /\ UNCHANGED <<snapshot, present, starting, handle, aborted, cancel, row, stream, asked,
                 restarts>>

\* The abort takes effect at an await: before the first poll or while running.
Dropped ==
  /\ aborted
  /\ drive.pc \in {"ready", "running"}
  /\ drive' = [NoDrive EXCEPT !.pc = "over"]
  /\ UNCHANGED <<snapshot, present, starting, handle, aborted, cancel, row, stream, asked,
                 restarts>>

-----------------------------------------------------------------------------
(* cancel_task holds the table's lock from its check to its answer.        *)

CancelChecks ==
  /\ Unlocked
  /\ present /\ ~SettledState(snapshot)
  /\ aborted' = (aborted \/ handle)
  /\ asked' = TRUE
  /\ cancel' = "replace"
  /\ UNCHANGED <<snapshot, present, starting, handle, drive, row, stream, restarts>>

CancelReplaces ==
  /\ cancel = "replace"
  /\ snapshot' = "Canceled"
  /\ cancel' = "publish"
  /\ UNCHANGED <<present, starting, handle, aborted, drive, row, stream, asked, restarts>>

\* Announced, then saved.
CancelPublishes ==
  /\ cancel = "publish"
  /\ Announce("Canceled")
  /\ Persist("Canceled")
  /\ cancel' = "none"
  /\ UNCHANGED <<snapshot, present, starting, handle, aborted, drive, asked, restarts>>

-----------------------------------------------------------------------------
(* Streams                                                                 *)

\* The stream of the caller that started the task, or one that re-attaches,
\* which is refused when the task has finished; that caller is told so instead.
Subscribe(s) ==
  /\ Unlocked /\ stream[s] = NoStream /\ present /\ starting = "returned"
  /\ stream' = [stream EXCEPT ![s] = [NoStream EXCEPT !.pc = "open", !.first = snapshot]]
  /\ UNCHANGED <<snapshot, present, starting, handle, aborted, drive, cancel, row, asked,
                 restarts>>

\* The state a stream passes on ends it when it is settled.
Deliver(s, state, rest) ==
  stream' = [stream EXCEPT ![s] = IF SettledState(state)
                                  THEN [NoStream EXCEPT !.pc = "done", !.last = state]
                                  ELSE [rest EXCEPT !.last = state]]

\* A reader that lagged goes on with what is left in the channel.
ResyncNever(s) == stream' = [stream EXCEPT ![s].lagged = FALSE, ![s].queue = <<>>]

\* A reader that lagged is told the state and sent away.
ResyncEnds(s) ==
  stream' = [stream EXCEPT ![s] = [NoStream EXCEPT !.pc = "done", !.last = snapshot]]

\* A reader that missed updates is given the whole task.
Resync(s) == Deliver(s, snapshot, [stream[s] EXCEPT !.lagged = FALSE])

\* Whether all senders of the task's channel are gone.
Closed == ~present /\ drive.pc = "over"

StreamFirst(s) ==
  /\ stream[s].pc = "open" /\ stream[s].first # "none"
  /\ Deliver(s, stream[s].first, [stream[s] EXCEPT !.first = "none"])

StreamLagged(s) ==
  /\ stream[s].pc = "open" /\ stream[s].first = "none" /\ stream[s].lagged
  /\ Resync(s)

StreamUpdate(s) ==
  /\ stream[s].pc = "open" /\ stream[s].first = "none" /\ ~stream[s].lagged
  /\ stream[s].queue # <<>>
  /\ IF Head(stream[s].queue) = "chunk"
     THEN stream' = [stream EXCEPT ![s].queue = Tail(@)]
     ELSE Deliver(s, Head(stream[s].queue), [stream[s] EXCEPT !.queue = Tail(@)])

\* Nothing more will come: the whole task, and the end.  A last resort: a run
\* that is over has told every reader a settled state, so none waits here.
StreamClosed(s) ==
  /\ stream[s].pc = "open" /\ stream[s].first = "none" /\ ~stream[s].lagged
  /\ stream[s].queue = <<>> /\ Closed
  /\ stream' = [stream EXCEPT ![s] = [NoStream EXCEPT !.pc = "done", !.last = snapshot]]

StreamNext(s) ==
  /\ StreamFirst(s) \/ StreamLagged(s) \/ StreamUpdate(s) \/ StreamClosed(s)
  /\ UNCHANGED <<snapshot, present, starting, handle, aborted, drive, cancel, row, asked,
                 restarts>>

-----------------------------------------------------------------------------
(* The process stops, and the next one takes back what the store holds.    *)

\* A task that was still running is not resumed: it has failed.
Restored(state) == IF SettledState(state) THEN state ELSE "Failed"

\* Loading may fail, and only the newest rows are loaded.
Restart ==
  /\ restarts < MaxRestarts
  /\ restarts' = restarts + 1
  /\ \E back \in {row # "none", FALSE} :
       /\ present' = back
       /\ snapshot' = IF back THEN Restored(row) ELSE "none"
       /\ row' = IF back THEN Restored(row) ELSE row
  /\ starting' = "no"
  /\ handle' = FALSE /\ aborted' = FALSE /\ asked' = FALSE
  /\ drive' = [NoDrive EXCEPT !.pc = IF present' THEN "over" ELSE "none"]
  /\ cancel' = "none"
  /\ stream' = [s \in Stream |-> NoStream]

-----------------------------------------------------------------------------
StartStep  == Spawn \/ Started
DriveStep  == Modify \/ ReadBack \/ Publish \/ (\E o \in {"Completed", "Failed"} : RunEnds(o))
CancelStep == CancelReplaces \/ CancelPublishes

TaskNext ==
  \/ Insert \/ StartStep \/ Evicted
  \/ DriveStep \/ Forward \/ Dropped
  \/ CancelChecks \/ CancelStep
  \/ \E s \in Stream : Subscribe(s) \/ StreamNext(s)
  \/ Restart

\* Threads make progress, a session's run ends, readers read.
TaskFairness ==
  /\ WF_taskVars(StartStep) /\ WF_taskVars(DriveStep) /\ WF_taskVars(Dropped)
  /\ WF_taskVars(CancelStep)
  /\ \A s \in Stream : WF_taskVars(StreamNext(s))

TaskSpec == TaskInit /\ [][TaskNext]_taskVars /\ TaskFairness

-----------------------------------------------------------------------------
(* Properties                                                              *)

\* A stream of a task nobody cancels that has ended told its reader the settled
\* state the task is in, however many updates the reader missed and whenever it
\* subscribed, also when the record was evicted behind it.
StreamsTellTheEnd ==
  \A s \in Stream :
     stream[s].pc = "done" => /\ SettledState(stream[s].last)
                              /\ asked \/ stream[s].last = snapshot

\* The stream of an uncancelled task comes to its end: the run settles the task
\* and the reader learns it, whatever it missed.
StreamsEnd ==
  \A s \in Stream : (stream[s].pc = "open" /\ ~asked) ~> (stream[s].pc # "open" \/ asked)

\* A task that has ended stays as it ended ("Whether the task will never change
\* state again", TaskState::is_terminal).
TerminalStaysTerminal ==
  [][IsTerminal(snapshot) /\ restarts' = restarts => snapshot' = snapshot]_taskVars

=============================================================================
