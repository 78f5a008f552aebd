------------------------------ MODULE A2A_proofs ------------------------------
(***************************************************************************)
(* Proofs about the A2A server and its client: the streams of a task, for  *)
(* any number of readers, any capacity of the channel and any number of    *)
(* restarts; attempts on a remote agent, for any number of them; the pages *)
(* of the table, for any number of tasks, any limits and any page size.    *)
(***************************************************************************)
EXTENDS A2ATask, A2AClient, A2APages, FiniteSetTheorems, SequenceTheorems, NaturalsInduction, WellFoundedInduction, TLAPS

Update == TaskStates \cup {"none", "chunk"}

Reader == [pc : {"none", "open", "done"}, first : TaskStates \cup {"none"}, queue : Seq(Update),
           lagged : BOOLEAN, last : TaskStates \cup {"none"}]

\* What start has done is done once: the run is spawned after the record is in.
StartsOnce ==
  /\ snapshot = "none" => drive.pc = "none" /\ starting = "no"
  /\ starting = "inserted" => drive.pc = "none"
  /\ drive.pc = "none" => starting \in {"no", "inserted"}

\* A cancellation under way holds the table's lock, so the record stays; a run
\* that is told to stop has a task that is settled, or is about to be.
CancelsPresent ==
  /\ cancel # "none" => present /\ asked
  /\ aborted => asked /\ (SettledState(snapshot) \/ cancel = "replace")

\* A run that is over left a settled task, unless a cancellation is about to.
OverIsSettled ==
  /\ drive.pc = "over" => SettledState(snapshot) \/ cancel = "replace"
  /\ drive.pc \in {"read", "publish"} /\ drive.goal # "Working"
       => SettledState(snapshot) \/ cancel = "replace"
  /\ drive.pc \in {"read", "publish", "ending"} => drive.goal # "none"
  /\ drive.pc = "ending" => drive.goal # "Working"

\* Where the run of a task nobody cancels is, and the state the task is in.
RunInStep ==
  ~asked => /\ drive.pc = "none" => snapshot \in {"none", "Submitted"}
            /\ drive.pc = "ready" => snapshot = "Submitted"
            /\ drive.pc \in {"read", "publish"} => snapshot = drive.goal
            /\ drive.pc = "publish" => drive.copy = snapshot
            /\ drive.pc \in {"running", "ending"} => snapshot = "Working"

\* A settled state that a reader was told, or has yet to read, is the one the
\* task is in.
ReadersAgree ==
  \A s \in Stream :
     /\ stream[s].pc = "done" => SettledState(stream[s].last)
     /\ ~asked =>
          /\ stream[s].pc = "done" => stream[s].last = snapshot
          /\ SettledState(stream[s].first) => stream[s].first = snapshot
          /\ \A i \in DOMAIN stream[s].queue :
               SettledState(stream[s].queue[i]) => stream[s].queue[i] = snapshot

TaskIInv ==
  /\ TaskTypeOK /\ stream \in [Stream -> Reader]
  /\ StartsOnce /\ CancelsPresent /\ OverIsSettled /\ RunInStep /\ ReadersAgree

-----------------------------------------------------------------------------
(* The streams of a task.                                                  *)

\* Nothing has happened (TaskInit).
LEMMA TaskInitIInv == ASSUME TaskInit PROVE TaskIInv
<1>1. NoStream \in Reader /\ Len(NoStream.queue) = 0 /\ NoStream.pc = "none"
  BY DEF NoStream, Reader
<1>2. NoStream.first = "none" /\ DOMAIN NoStream.queue = {} /\ NoStream.last = "none"
  BY DEF NoStream
<1>3. \A s \in Stream : stream[s] = NoStream
  BY DEF TaskInit
<1>4. ReadersAgree /\ stream \in [Stream -> Reader]
  BY <1>1, <1>2, <1>3 DEF TaskInit, ReadersAgree, SettledState, IsTerminal, IsInterrupted
<1>5. TaskTypeOK
  <2>1. drive \in [pc   : {"none", "ready", "read", "publish", "running", "ending", "over"},
                   goal : {"none", "Working", "Completed", "Failed"},
                   copy : TaskStates \cup {"none"}]
    BY DEF TaskInit, NoDrive
  <2>2. \A s \in Stream : stream[s].pc = "none" /\ Len(stream[s].queue) <= Capacity
    BY <1>1, <1>3, ChannelAssumption
  <2>3. restarts \in 0..MaxRestarts
    BY ChannelAssumption DEF TaskInit
  <2>4. {present, handle, aborted, asked} \subseteq BOOLEAN
    BY DEF TaskInit
  <2> QED BY <2>1, <2>2, <2>3, <2>4 DEF TaskInit, TaskTypeOK
<1> QED BY <1>4, <1>5 DEF TaskInit, TaskIInv, StartsOnce, CancelsPresent, OverIsSettled,
                          RunInStep, NoDrive

\* An update that reaches a reader (Told) is the last of its queue; the others
\* were in it before.
LEMMA ToldFacts ==
  ASSUME TaskIInv, NEW s \in Stream, NEW update \in Update
  PROVE  /\ Told(s, update) \in Reader
         /\ Len(Told(s, update).queue) <= Capacity
         /\ Told(s, update).pc = stream[s].pc
         /\ Told(s, update).first = stream[s].first
         /\ Told(s, update).last = stream[s].last
         /\ \A i \in DOMAIN Told(s, update).queue :
              \/ Told(s, update).queue[i] = update
              \/ \E j \in DOMAIN stream[s].queue : Told(s, update).queue[i] = stream[s].queue[j]
<1> DEFINE q == stream[s].queue
<1>1. stream[s] \in Reader /\ q \in Seq(Update) /\ Len(q) <= Capacity /\ Capacity \in Nat \ {0}
  BY ChannelAssumption DEF TaskIInv, TaskTypeOK, Reader
<1>2. CASE stream[s].pc # "open"
  BY <1>1, <1>2 DEF Told
<1>3. CASE stream[s].pc = "open" /\ Len(q) < Capacity
  <2>1. Told(s, update) = [stream[s] EXCEPT !.queue = Append(q, update)]
    BY <1>3 DEF Told
  <2>2. /\ Append(q, update) \in Seq(Update) /\ Len(Append(q, update)) = Len(q) + 1
        /\ \A i \in 1..Len(q) + 1 : Append(q, update)[i] = IF i <= Len(q) THEN q[i] ELSE update
        /\ DOMAIN Append(q, update) = 1..Len(q) + 1 /\ DOMAIN q = 1..Len(q)
    BY <1>1
  <2>3. Told(s, update).queue = Append(q, update)
    BY <1>1, <2>1 DEF Reader
  <2>4. Told(s, update) \in Reader
    BY <1>1, <2>1, <2>2 DEF Reader
  <2>5. /\ Told(s, update).pc = stream[s].pc
        /\ Told(s, update).first = stream[s].first
        /\ Told(s, update).last = stream[s].last
    BY <1>1, <2>1 DEF Reader
  <2>6. \A i \in 1..Len(q) + 1 :
          Append(q, update)[i] = update \/ \E j \in 1..Len(q) : Append(q, update)[i] = q[j]
    <3> SUFFICES ASSUME NEW i \in 1..Len(q) + 1, Append(q, update)[i] # update
                 PROVE  \E j \in 1..Len(q) : Append(q, update)[i] = q[j]
      OBVIOUS
    <3>1. Append(q, update)[i] = q[i] /\ i \in 1..Len(q)
      BY <1>1, <2>2
    <3> QED BY <3>1
  <2> QED BY <1>1, <1>3, <2>2, <2>3, <2>4, <2>5, <2>6
<1>4. CASE stream[s].pc = "open" /\ ~(Len(q) < Capacity)
  <2>1. Told(s, update) = [stream[s] EXCEPT !.queue = Append(Tail(q), update), !.lagged = TRUE]
    BY <1>4 DEF Told
  <2>2. Len(q) = Capacity /\ q # <<>>
    BY <1>1, <1>4
  <2>3. /\ Tail(q) \in Seq(Update) /\ Len(Tail(q)) = Len(q) - 1
        /\ \A i \in 1..Len(q) - 1 : Tail(q)[i] = q[i + 1]
    BY <1>1, <2>2
  <2>4. /\ Append(Tail(q), update) \in Seq(Update) /\ Len(Append(Tail(q), update)) = Len(q)
        /\ \A i \in 1..Len(q) :
             Append(Tail(q), update)[i] = IF i <= Len(q) - 1 THEN q[i + 1] ELSE update
        /\ DOMAIN Append(Tail(q), update) = 1..Len(q) /\ DOMAIN q = 1..Len(q)
    BY <1>1, <2>3
  <2>5. \A i \in 1..Len(q) :
          Append(Tail(q), update)[i] = update
            \/ \E j \in 1..Len(q) : Append(Tail(q), update)[i] = q[j]
    <3> SUFFICES ASSUME NEW i \in 1..Len(q), Append(Tail(q), update)[i] # update
                 PROVE  \E j \in 1..Len(q) : Append(Tail(q), update)[i] = q[j]
      OBVIOUS
    <3>1. Append(Tail(q), update)[i] = q[i + 1] /\ i + 1 \in 1..Len(q)
      BY <1>1, <2>4
    <3> QED BY <3>1
  <2>6. Told(s, update).queue = Append(Tail(q), update)
    BY <1>1, <2>1 DEF Reader
  <2>7. Told(s, update) \in Reader
    BY <1>1, <2>1, <2>4 DEF Reader
  <2>8. /\ Told(s, update).pc = stream[s].pc
        /\ Told(s, update).first = stream[s].first
        /\ Told(s, update).last = stream[s].last
    BY <1>1, <2>1 DEF Reader
  <2> QED BY <1>1, <2>4, <2>5, <2>6, <2>7, <2>8
<1> QED BY <1>2, <1>3, <1>4

\* What the invariant says of the streams.
StreamsHold ==
  /\ stream \in [Stream -> Reader]
  /\ \A s \in Stream : Len(stream[s].queue) <= Capacity
  /\ ReadersAgree

\* Announcing the state the task is in, or one that ends no stream, keeps the
\* readers in agreement, also the one whose oldest update is lost to it.
LEMMA AnnounceKeeps ==
  ASSUME TaskIInv, NEW update \in Update, Announce(update),
         UNCHANGED <<snapshot, asked>>,
         ~asked /\ SettledState(update) => update = snapshot
  PROVE  StreamsHold'
<1>1. \A s \in Stream : stream'[s] = Told(s, update)
  BY DEF Announce
<1>2. stream' \in [Stream -> Reader] /\ \A s \in Stream : Len(stream'[s].queue) <= Capacity
  BY ToldFacts DEF Announce
<1>3. ASSUME NEW s \in Stream
      PROVE  ReadersAgree!(s)'
  <2>1. /\ stream'[s].pc = stream[s].pc /\ stream'[s].first = stream[s].first
        /\ stream'[s].last = stream[s].last
        /\ \A i \in DOMAIN stream'[s].queue :
             \/ stream'[s].queue[i] = update
             \/ \E j \in DOMAIN stream[s].queue : stream'[s].queue[i] = stream[s].queue[j]
    BY <1>1, ToldFacts
  <2> QED BY <2>1 DEF TaskIInv, ReadersAgree
<1> QED BY <1>2, <1>3 DEF StreamsHold, ReadersAgree

\* A stream passes a state on (Deliver): the state the task is in, if it ends the
\* stream of a task nobody cancels; the rest of the stream is what it was.
LEMMA DeliverKeeps ==
  ASSUME TaskIInv, NEW s \in Stream, NEW state \in TaskStates \cup {"none"},
         NEW rest \in Reader, Deliver(s, state, rest), UNCHANGED <<snapshot, asked>>,
         ~asked /\ SettledState(state) => state = snapshot,
         rest.pc = "open", rest.first \in {stream[s].first, "none"},
         Len(rest.queue) <= Capacity,
         \A i \in DOMAIN rest.queue :
            \E j \in DOMAIN stream[s].queue : rest.queue[i] = stream[s].queue[j]
  PROVE  StreamsHold'
<1>1. stream \in [Stream -> Reader] /\ Capacity \in Nat
  BY ChannelAssumption DEF TaskIInv
<1>2. ~SettledState("none")
  BY DEF SettledState, IsTerminal, IsInterrupted
<1>3. \A t \in Stream : Len(stream[t].queue) <= Capacity
  BY DEF TaskIInv, TaskTypeOK
<1>4. CASE SettledState(state)
  <2>1. PICK e \in Reader : /\ stream' = [stream EXCEPT ![s] = e]
                            /\ e.pc = "done" /\ e.last = state /\ e.first = "none"
                            /\ DOMAIN e.queue = {} /\ Len(e.queue) = 0
    <3>1. stream' = [stream EXCEPT ![s] = [NoStream EXCEPT !.pc = "done", !.last = state]]
      BY <1>4 DEF Deliver
    <3>2. NoStream \in Reader /\ NoStream.first = "none" /\ NoStream.queue = <<>>
      BY DEF NoStream, Reader
    <3>3. /\ [NoStream EXCEPT !.pc = "done", !.last = state] \in Reader
          /\ [NoStream EXCEPT !.pc = "done", !.last = state].pc = "done"
          /\ [NoStream EXCEPT !.pc = "done", !.last = state].last = state
          /\ [NoStream EXCEPT !.pc = "done", !.last = state].first = NoStream.first
          /\ [NoStream EXCEPT !.pc = "done", !.last = state].queue = NoStream.queue
      BY <3>2 DEF Reader
    <3>4. Len(<<>>) = 0 /\ DOMAIN <<>> = {}
      OBVIOUS
    <3> QED BY <3>1, <3>2, <3>3, <3>4
  <2> QED BY <1>1, <1>2, <1>3, <1>4, <2>1 DEF StreamsHold, TaskIInv, ReadersAgree
<1>5. CASE ~SettledState(state)
  <2>1. PICK e \in Reader : /\ stream' = [stream EXCEPT ![s] = e]
                            /\ e.pc = "open" /\ e.first = rest.first /\ e.queue = rest.queue
    <3>1. stream' = [stream EXCEPT ![s] = [rest EXCEPT !.last = state]]
      BY <1>5 DEF Deliver
    <3>2. /\ [rest EXCEPT !.last = state] \in Reader
          /\ [rest EXCEPT !.last = state].pc = rest.pc
          /\ [rest EXCEPT !.last = state].first = rest.first
          /\ [rest EXCEPT !.last = state].queue = rest.queue
      BY DEF Reader
    <3> QED BY <3>1, <3>2
  <2>2. /\ stream' \in [Stream -> Reader] /\ \A t \in Stream \ {s} : stream'[t] = stream[t]
        /\ stream'[s].pc = "open" /\ stream'[s].first = rest.first
        /\ stream'[s].queue = rest.queue
    BY <1>1, <2>1
  <2>3. ReadersAgree!(s)'
    BY <1>2, <2>2 DEF TaskIInv, ReadersAgree
  <2> QED BY <1>3, <2>2, <2>3 DEF StreamsHold, TaskIInv, ReadersAgree
<1> QED BY <1>4, <1>5

\* Which states are settled, of those the run and a cancellation set.
LEMMA SettledFacts ==
  /\ \A x \in {"none", "Submitted", "Working", "chunk"} : ~SettledState(x)
  /\ \A x \in {"Completed", "Failed", "Canceled"} : SettledState(x) /\ x \in TaskStates
  /\ {"Submitted", "Working"} \subseteq TaskStates
BY DEF SettledState, IsTerminal, IsInterrupted, TaskStates

Drive == [pc   : {"none", "ready", "read", "publish", "running", "ending", "over"},
          goal : {"none", "Working", "Completed", "Failed"}, copy : TaskStates \cup {"none"}]

\* The variables of the invariant apart from the streams, and their types.
CoreTypes ==
  /\ snapshot \in TaskStates \cup {"none"} /\ row \in TaskStates \cup {"none"}
  /\ present \in BOOLEAN /\ handle \in BOOLEAN /\ aborted \in BOOLEAN /\ asked \in BOOLEAN
  /\ starting \in {"no", "inserted", "spawned", "returned"}
  /\ drive \in Drive
  /\ cancel \in {"none", "replace", "publish"}
  /\ restarts \in 0..MaxRestarts

\* The invariant of a task in two parts: the run and the cancellation, and the
\* streams.
CoreHolds == CoreTypes /\ StartsOnce /\ CancelsPresent /\ OverIsSettled /\ RunInStep

\* The two parts are the invariant.
LEMMA TaskIInvParts == TaskIInv <=> CoreHolds /\ StreamsHold
<1>1. {present, handle, aborted, asked} \subseteq BOOLEAN
        <=> (present \in BOOLEAN /\ handle \in BOOLEAN /\ aborted \in BOOLEAN /\ asked \in BOOLEAN)
  OBVIOUS
<1>2. {snapshot, row} \subseteq TaskStates \cup {"none"}
        <=> (snapshot \in TaskStates \cup {"none"} /\ row \in TaskStates \cup {"none"})
  OBVIOUS
<1>3. stream \in [Stream -> Reader] => \A s \in Stream : stream[s].pc \in {"none", "open", "done"}
  BY DEF Reader
<1> QED BY <1>1, <1>2, <1>3 DEF TaskIInv, CoreHolds, StreamsHold, CoreTypes, TaskTypeOK, Drive

\* The two parts make the invariant, also in the next state.
LEMMA TaskIInvNext == CoreHolds' /\ StreamsHold' => TaskIInv'
BY TaskIInvParts, PTL

\* A step that changes neither the streams nor the state of the task keeps them
\* in agreement, and so does one that is taken while no settled state is known to
\* any of them.
LEMMA StreamsStay ==
  ASSUME TaskIInv, UNCHANGED stream, asked => asked',
         asked' \/ snapshot' = snapshot \/ ~SettledState(snapshot)
  PROVE  StreamsHold'
BY TaskIInvParts DEF StreamsHold, ReadersAgree

\* start inserts the record, spawns the run and stores its handle.
LEMMA StartKeeps ==
  ASSUME TaskIInv, Insert \/ Spawn \/ Started
  PROVE  TaskIInv'
<1>1. CoreHolds /\ StreamsHold
  BY TaskIInvParts
<1>2. [NoDrive EXCEPT !.pc = "ready"] \in Drive /\ [NoDrive EXCEPT !.pc = "ready"].pc = "ready"
  BY DEF NoDrive, Drive
<1>3. CASE Insert
  <2>1. CoreHolds'
    BY <1>1, <1>3, SettledFacts DEF Insert, Unlocked, CoreHolds, CoreTypes, StartsOnce,
         CancelsPresent, OverIsSettled, RunInStep
  <2> QED BY <1>3, <2>1, StreamsStay, SettledFacts, TaskIInvNext DEF Insert
<1>4. CASE Spawn
  <2>1. CoreHolds'
    BY <1>1, <1>2, <1>4, SettledFacts DEF Spawn, Persist, CoreHolds, CoreTypes, StartsOnce,
         CancelsPresent, OverIsSettled, RunInStep
  <2> QED BY <1>4, <2>1, StreamsStay, TaskIInvNext DEF Spawn
<1>5. CASE Started
  <2>1. CoreHolds'
    BY <1>1, <1>5, SettledFacts DEF Started, CoreHolds, CoreTypes, StartsOnce,
         CancelsPresent, OverIsSettled, RunInStep
  <2> QED BY <1>5, <2>1, StreamsStay, TaskIInvNext DEF Started
<1> QED BY <1>3, <1>4, <1>5

\* Eviction takes only a settled task, and not while it is being cancelled.
LEMMA EvictedKeeps ==
  ASSUME TaskIInv, Evicted
  PROVE  TaskIInv'
<1>1. CoreHolds'
  BY TaskIInvParts, SettledFacts DEF Evicted, Unlocked, Persist, CoreHolds, CoreTypes, StartsOnce,
       CancelsPresent, OverIsSettled, RunInStep
<1> QED BY <1>1, StreamsStay, TaskIInvNext DEF Evicted

\* The run sets a state, reads it back and publishes the copy (set of drive).
LEMMA ModifyKeeps ==
  ASSUME TaskIInv, Modify
  PROVE  TaskIInv'
<1>1. CoreHolds /\ StreamsHold
  BY TaskIInvParts
<1>2. PICK goal \in {"Working", "Completed", "Failed"} :
         /\ snapshot' = goal /\ drive' = [NoDrive EXCEPT !.pc = "read", !.goal = goal]
         /\ goal = "Working" => ~aborted /\ drive.pc = "ready"
         /\ drive.pc \in {"ready", "ending"}
  BY <1>1 DEF Modify, CoreHolds, CoreTypes, Drive, OverIsSettled
<1>3. drive' \in Drive /\ drive'.pc = "read" /\ drive'.goal = goal
  BY <1>2 DEF NoDrive, Drive
<1>4. UNCHANGED <<present, starting, handle, aborted, cancel, row, stream, asked, restarts>>
  BY DEF Modify
<1>5. CoreHolds'
  BY <1>1, <1>2, <1>3, <1>4, SettledFacts DEF CoreHolds, CoreTypes, StartsOnce,
       CancelsPresent, OverIsSettled, RunInStep
<1>6. asked \/ ~SettledState(snapshot)
  BY <1>1, <1>2, SettledFacts DEF CoreHolds, RunInStep
<1> QED BY <1>4, <1>5, <1>6, StreamsStay, TaskIInvNext

\* The copy that is published is the state of a task nobody cancels.
LEMMA PublishKeeps ==
  ASSUME TaskIInv, ReadBack \/ Publish \/ Forward
  PROVE  TaskIInv'
<1>1. CoreHolds /\ StreamsHold
  BY TaskIInvParts
<1>2. CASE ReadBack
  <2>1. drive' \in Drive /\ drive'.pc = "publish" /\ drive'.goal = drive.goal /\ drive'.copy = snapshot
    BY <1>1, <1>2 DEF ReadBack, CoreHolds, CoreTypes, Drive
  <2>2. CoreHolds'
    BY <1>1, <1>2, <2>1 DEF ReadBack, CoreHolds, CoreTypes, StartsOnce, CancelsPresent,
         OverIsSettled, RunInStep
  <2> QED BY <1>2, <2>2, StreamsStay, TaskIInvNext DEF ReadBack
<1>3. CASE Publish
  <2>1. /\ drive' \in Drive /\ drive'.pc = IF drive.goal = "Working" THEN "running" ELSE "over"
        /\ drive.copy \in TaskStates \cup {"none"}
    BY <1>1, <1>3 DEF Publish, NoDrive, CoreHolds, CoreTypes, Drive
  <2>2. CoreHolds'
    BY <1>1, <1>3, <2>1 DEF Publish, Persist, CoreHolds, CoreTypes, StartsOnce, CancelsPresent,
         OverIsSettled, RunInStep
  <2>3. drive.copy \in Update /\ (~asked => drive.copy = snapshot)
    BY <1>1, <1>3, <2>1 DEF Publish, CoreHolds, RunInStep, Update
  <2>4. StreamsHold'
    BY <1>3, <2>3, AnnounceKeeps DEF Publish
  <2> QED BY <2>2, <2>4, TaskIInvNext
<1>4. CASE Forward
  <2>1. CoreHolds'
    BY <1>1, <1>4 DEF Forward, CoreHolds, CoreTypes, StartsOnce, CancelsPresent, OverIsSettled,
         RunInStep
  <2>2. "chunk" \in Update
    BY DEF Update
  <2>3. StreamsHold'
    BY <1>4, <2>2, AnnounceKeeps, SettledFacts DEF Forward
  <2> QED BY <2>1, <2>3, TaskIInvNext
<1> QED BY <1>2, <1>3, <1>4

\* A run ends with an outcome, or is dropped where it awaits.
LEMMA RunKeeps ==
  ASSUME TaskIInv, Dropped \/ \E o \in {"Completed", "Failed"} : RunEnds(o)
  PROVE  TaskIInv'
<1>1. CoreHolds /\ StreamsHold
  BY TaskIInvParts
<1>2. CASE Dropped
  <2>1. drive' \in Drive /\ drive'.pc = "over"
    BY <1>2 DEF Dropped, NoDrive, Drive
  <2>2. CoreHolds'
    BY <1>1, <1>2, <2>1 DEF Dropped, CoreHolds, CoreTypes, StartsOnce, CancelsPresent,
         OverIsSettled, RunInStep
  <2> QED BY <1>2, <2>2, StreamsStay, TaskIInvNext DEF Dropped
<1>3. ASSUME NEW o \in {"Completed", "Failed"}, RunEnds(o) PROVE TaskIInv'
  <2>1. drive' \in Drive /\ drive'.pc = "ending" /\ drive'.goal = o
    BY <1>1, <1>3 DEF RunEnds, CoreHolds, CoreTypes, Drive
  <2>2. CoreHolds'
    BY <1>1, <1>3, <2>1 DEF RunEnds, CoreHolds, CoreTypes, StartsOnce, CancelsPresent,
         OverIsSettled, RunInStep
  <2> QED BY <1>3, <2>2, StreamsStay, TaskIInvNext DEF RunEnds
<1> QED BY <1>2, <1>3

\* cancel_task checks, replaces the state and publishes it.
LEMMA CancelKeeps ==
  ASSUME TaskIInv, CancelChecks \/ CancelReplaces \/ CancelPublishes
  PROVE  TaskIInv'
<1>1. CoreHolds /\ StreamsHold
  BY TaskIInvParts
<1>2. CASE CancelChecks
  <2>1. aborted' \in BOOLEAN
    BY <1>2 DEF CancelChecks
  <2>2. CoreHolds'
    BY <1>1, <1>2, <2>1 DEF CancelChecks, Unlocked, CoreHolds, CoreTypes, StartsOnce,
         CancelsPresent, OverIsSettled, RunInStep
  <2> QED BY <1>2, <2>2, StreamsStay, TaskIInvNext DEF CancelChecks
<1>3. CASE CancelReplaces
  <2>1. CoreHolds'
    BY <1>1, <1>3, SettledFacts DEF CancelReplaces, CoreHolds, CoreTypes, StartsOnce,
         CancelsPresent, OverIsSettled, RunInStep
  <2>2. asked /\ asked'
    BY <1>1, <1>3 DEF CancelReplaces, CoreHolds, CancelsPresent
  <2> QED BY <1>3, <2>1, <2>2, StreamsStay, TaskIInvNext DEF CancelReplaces
<1>4. CASE CancelPublishes
  <2>1. CoreHolds'
    BY <1>1, <1>4, SettledFacts DEF CancelPublishes, Persist, CoreHolds, CoreTypes, StartsOnce,
         CancelsPresent, OverIsSettled, RunInStep
  <2>2. asked /\ "Canceled" \in Update
    BY <1>1, <1>4, SettledFacts DEF CancelPublishes, CoreHolds, CancelsPresent, Update
  <2>3. StreamsHold'
    BY <1>4, <2>2, AnnounceKeeps DEF CancelPublishes
  <2> QED BY <2>1, <2>3, TaskIInvNext
<1> QED BY <1>2, <1>3, <1>4

\* A stream begins with the state the task is in.
LEMMA SubscribeKeeps ==
  ASSUME TaskIInv, NEW s \in Stream, Subscribe(s)
  PROVE  TaskIInv'
<1>1. CoreHolds /\ StreamsHold
  BY TaskIInvParts
<1>2. CoreHolds'
  BY <1>1
     DEF Subscribe, CoreHolds, CoreTypes, StartsOnce, CancelsPresent, OverIsSettled, RunInStep
<1>3. NoStream \in Reader /\ NoStream.queue = <<>>
  BY DEF NoStream, Reader
<1>4. snapshot \in TaskStates \cup {"none"}
  BY <1>1 DEF CoreHolds, CoreTypes
<1>5. PICK e \in Reader : /\ stream' = [stream EXCEPT ![s] = e]
                          /\ e.pc = "open" /\ e.first = snapshot /\ e.queue = <<>>
  <2>1. stream' = [stream EXCEPT ![s] = [NoStream EXCEPT !.pc = "open", !.first = snapshot]]
    BY DEF Subscribe
  <2>2. /\ [NoStream EXCEPT !.pc = "open", !.first = snapshot] \in Reader
        /\ [NoStream EXCEPT !.pc = "open", !.first = snapshot].pc = "open"
        /\ [NoStream EXCEPT !.pc = "open", !.first = snapshot].first = snapshot
        /\ [NoStream EXCEPT !.pc = "open", !.first = snapshot].queue = NoStream.queue
    BY <1>3, <1>4 DEF Reader
  <2> QED BY <1>3, <2>1, <2>2
<1>6. UNCHANGED <<snapshot, asked>>
  BY DEF Subscribe
<1>7. Len(<<>>) <= Capacity /\ DOMAIN <<>> = {}
  BY ChannelAssumption
<1>8. StreamsHold'
  BY <1>1, <1>5, <1>6, <1>7 DEF StreamsHold, ReadersAgree
<1> QED BY <1>2, <1>8, TaskIInvNext

\* A step of a reader (TaskStream::next): the first snapshot, the whole task after
\* a lag, the next update, or the end of the channel.
LEMMA StreamKeeps ==
  ASSUME TaskIInv, NEW s \in Stream, StreamNext(s)
  PROVE  TaskIInv'
<1>1. CoreHolds /\ StreamsHold
  BY TaskIInvParts
<1>2. CoreHolds'
  BY <1>1 DEF StreamNext, CoreHolds, CoreTypes, StartsOnce, CancelsPresent, OverIsSettled,
       RunInStep
<1>3. UNCHANGED <<snapshot, asked>> /\ snapshot \in TaskStates \cup {"none"}
  BY <1>1 DEF StreamNext, CoreHolds, CoreTypes
<1> DEFINE q == stream[s].queue
<1>4. stream[s] \in Reader /\ q \in Seq(Update) /\ Len(q) <= Capacity
  BY <1>1 DEF StreamsHold, Reader
<1>5. CASE StreamFirst(s)
  <2>1. PICK rest \in Reader :
           /\ Deliver(s, stream[s].first, rest)
           /\ rest.pc = "open" /\ rest.first = "none" /\ rest.queue = q
    <3>1. /\ [stream[s] EXCEPT !.first = "none"] \in Reader
          /\ [stream[s] EXCEPT !.first = "none"].pc = stream[s].pc
          /\ [stream[s] EXCEPT !.first = "none"].first = "none"
          /\ [stream[s] EXCEPT !.first = "none"].queue = q
      BY <1>4 DEF Reader
    <3> QED BY <1>5, <3>1 DEF StreamFirst
  <2>2. stream[s].first \in TaskStates \cup {"none"}
    BY <1>4 DEF Reader
  <2>3. ~asked /\ SettledState(stream[s].first) => stream[s].first = snapshot
    BY <1>1 DEF StreamsHold, ReadersAgree
  <2>4. StreamsHold'
    BY <1>3, <1>4, <2>1, <2>2, <2>3, DeliverKeeps
  <2> QED BY <1>2, <2>4, TaskIInvNext
<1>6. CASE StreamLagged(s)
  <2>1. PICK rest \in Reader :
           /\ Deliver(s, snapshot, rest)
           /\ rest.pc = "open" /\ rest.first = stream[s].first /\ rest.queue = q
    <3>1. /\ [stream[s] EXCEPT !.lagged = FALSE] \in Reader
          /\ [stream[s] EXCEPT !.lagged = FALSE].pc = stream[s].pc
          /\ [stream[s] EXCEPT !.lagged = FALSE].first = stream[s].first
          /\ [stream[s] EXCEPT !.lagged = FALSE].queue = q
      BY <1>4 DEF Reader
    <3> QED BY <1>6, <3>1 DEF StreamLagged, Resync
  <2>2. StreamsHold'
    BY <1>3, <1>4, <2>1, DeliverKeeps
  <2> QED BY <1>2, <2>2, TaskIInvNext
<1>7. CASE StreamUpdate(s)
  <2>1. /\ Tail(q) \in Seq(Update) /\ Len(Tail(q)) = Len(q) - 1 /\ Len(q) \in Nat \ {0}
        /\ Head(q) = q[1] /\ 1 \in DOMAIN q /\ Head(q) \in Update
        /\ DOMAIN Tail(q) = 1..Len(q) - 1 /\ DOMAIN q = 1..Len(q)
        /\ \A i \in 1..Len(q) - 1 : Tail(q)[i] = q[i + 1]
    BY <1>4, <1>7 DEF StreamUpdate
  <2>2. /\ Len(Tail(q)) <= Capacity
        /\ \A i \in DOMAIN Tail(q) : \E j \in DOMAIN q : Tail(q)[i] = q[j]
    <3>1. \A i \in 1..Len(q) - 1 : i + 1 \in 1..Len(q)
      BY <2>1
    <3>2. Capacity \in Nat /\ Len(q) <= Capacity
      BY <1>4, ChannelAssumption
    <3>3. Len(Tail(q)) <= Capacity
      BY <2>1, <3>2
    <3>4. \A i \in 1..Len(q) - 1 : \E j \in 1..Len(q) : Tail(q)[i] = q[j]
      BY <2>1, <3>1
    <3> QED BY <2>1, <3>3, <3>4
  <2>3. /\ [stream[s] EXCEPT !.queue = Tail(q)] \in Reader
        /\ [stream[s] EXCEPT !.queue = Tail(q)].pc = stream[s].pc
        /\ [stream[s] EXCEPT !.queue = Tail(q)].first = stream[s].first
        /\ [stream[s] EXCEPT !.queue = Tail(q)].last = stream[s].last
        /\ [stream[s] EXCEPT !.queue = Tail(q)].queue = Tail(q)
    BY <1>4, <2>1 DEF Reader
  <2>4. CASE Head(q) = "chunk"
    <3>1. stream' = [stream EXCEPT ![s] = [stream[s] EXCEPT !.queue = Tail(q)]]
      BY <1>7, <2>4 DEF StreamUpdate
    <3>2. stream' \in [Stream -> Reader]
      BY <1>1, <2>3, <3>1 DEF StreamsHold
    <3>3. \A t \in Stream \ {s} : stream'[t] = stream[t]
      BY <1>1, <3>1 DEF StreamsHold
    <3>4. /\ stream'[s].pc = stream[s].pc /\ stream'[s].first = stream[s].first
          /\ stream'[s].last = stream[s].last /\ stream'[s].queue = Tail(q)
      BY <1>1, <2>3, <3>1 DEF StreamsHold
    <3>5. ReadersAgree!(s)'
      BY <1>1, <1>3, <2>2, <3>4 DEF StreamsHold, ReadersAgree
    <3>6. ASSUME NEW t \in Stream \ {s} PROVE ReadersAgree!(t)'
      BY <1>1, <1>3, <3>3 DEF StreamsHold, ReadersAgree
    <3>7. ReadersAgree'
      BY <3>5, <3>6 DEF ReadersAgree
    <3>8. \A t \in Stream : Len(stream'[t].queue) <= Capacity
      BY <1>1, <2>2, <3>3, <3>4 DEF StreamsHold
    <3>9. StreamsHold'
      BY <3>2, <3>7, <3>8 DEF StreamsHold
    <3> QED BY <1>2, <3>9, TaskIInvNext
  <2>5. CASE Head(q) # "chunk"
    <3>1. PICK rest \in Reader :
             /\ Deliver(s, Head(q), rest)
             /\ rest.pc = "open" /\ rest.first = stream[s].first /\ rest.queue = Tail(q)
      BY <1>7, <2>3, <2>5 DEF StreamUpdate
    <3>2. Head(q) \in TaskStates \cup {"none"}
      BY <2>1, <2>5 DEF Update
    <3>3. ~asked /\ SettledState(Head(q)) => Head(q) = snapshot
      BY <1>1, <2>1 DEF StreamsHold, ReadersAgree
    <3>4. StreamsHold'
      <4>1. /\ Len(rest.queue) <= Capacity
            /\ \A i \in DOMAIN rest.queue : \E j \in DOMAIN q : rest.queue[i] = q[j]
        BY <2>2, <3>1
      <4> QED BY <1>3, <3>1, <3>2, <3>3, <4>1, DeliverKeeps
    <3> QED BY <1>2, <3>4, TaskIInvNext
  <2> QED BY <2>4, <2>5
<1>8. CASE StreamClosed(s)
  <2>1. SettledState(snapshot)
    BY <1>1, <1>8 DEF StreamClosed, Closed, CoreHolds, CancelsPresent, OverIsSettled
  <2>2. PICK rest \in Reader :
           /\ Deliver(s, snapshot, rest)
           /\ rest.pc = "open" /\ rest.first = stream[s].first /\ rest.queue = q
    BY <1>4, <1>8, <2>1 DEF StreamClosed, Deliver
  <2>3. /\ Len(rest.queue) <= Capacity
        /\ \A i \in DOMAIN rest.queue : \E j \in DOMAIN q : rest.queue[i] = q[j]
    BY <1>4, <2>2
  <2>4. StreamsHold'
    BY <1>3, <2>2, <2>3, DeliverKeeps
  <2> QED BY <1>2, <2>4, TaskIInvNext
<1> QED BY <1>5, <1>6, <1>7, <1>8 DEF StreamNext

\* A restart takes back settled tasks only, and no reader survives it.
LEMMA RestartKeeps ==
  ASSUME TaskIInv, Restart
  PROVE  TaskIInv'
<1>1. CoreHolds /\ StreamsHold
  BY TaskIInvParts
<1>2. PICK back \in {row # "none", FALSE} :
         /\ present' = back
         /\ snapshot' = IF back THEN Restored(row) ELSE "none"
         /\ row' = IF back THEN Restored(row) ELSE row
  BY DEF Restart
<1>3. Restored(row) \in TaskStates /\ SettledState(Restored(row))
  BY <1>1, SettledFacts DEF Restored, CoreHolds, CoreTypes
<1>4. /\ drive' \in Drive /\ drive'.pc = IF present' THEN "over" ELSE "none"
  BY DEF Restart, NoDrive, Drive
<1>5. restarts' \in 0..MaxRestarts
  BY <1>1, ChannelAssumption DEF Restart, CoreHolds, CoreTypes
<1>6. back \in BOOLEAN
  BY <1>2
<1>7. CoreHolds'
  <2>1. CASE back
    <3>1. /\ row' = Restored(row) /\ snapshot' = Restored(row) /\ present' = TRUE
          /\ drive'.pc = "over"
      BY <1>2, <1>4, <1>6, <2>1
    <3> QED BY <1>3, <1>4, <1>5, <3>1, SettledFacts DEF Restart, CoreHolds, CoreTypes,
               StartsOnce, CancelsPresent, OverIsSettled, RunInStep
  <2>2. CASE ~back
    <3>1. row' = row /\ snapshot' = "none" /\ present' = FALSE /\ drive'.pc = "none"
      BY <1>2, <1>4, <1>6, <2>2
    <3> QED BY <1>1, <1>4, <1>5, <3>1 DEF Restart, CoreHolds, CoreTypes, StartsOnce,
               CancelsPresent, OverIsSettled, RunInStep
  <2> QED BY <2>1, <2>2
<1>8. NoStream \in Reader /\ NoStream.pc = "none" /\ NoStream.first = "none" /\ NoStream.queue = <<>>
  BY DEF NoStream, Reader
<1>9. Len(<<>>) <= Capacity /\ DOMAIN <<>> = {}
  BY ChannelAssumption
<1>10. StreamsHold'
  BY <1>8, <1>9, SettledFacts DEF Restart, StreamsHold, ReadersAgree
<1> QED BY <1>7, <1>10, TaskIInvNext

\* Every step keeps the invariant of a task.
LEMMA TaskNextIInv == ASSUME TaskIInv, [TaskNext]_taskVars PROVE TaskIInv'
<1>1. CASE UNCHANGED taskVars
  <2>1. CoreHolds'
    BY <1>1, TaskIInvParts DEF taskVars, CoreHolds, CoreTypes, StartsOnce, CancelsPresent,
         OverIsSettled, RunInStep
  <2> QED BY <1>1, <2>1, StreamsStay, TaskIInvNext DEF taskVars
<1> QED BY <1>1, StartKeeps, EvictedKeeps, ModifyKeeps, PublishKeeps, RunKeeps, CancelKeeps,
           SubscribeKeeps, StreamKeeps, RestartKeeps
           DEF TaskNext, StartStep, DriveStep, CancelStep

\* The inductive invariant of a task of the A2A server (TaskSpec).
THEOREM TaskInvariance == TaskSpec => []TaskIInv
BY TaskInitIInv, TaskNextIInv, PTL DEF TaskSpec

\* The variables of a task keep their types (TaskTypeOK): no queue outgrows the
\* channel.
THEOREM TaskTypeCorrect == TaskSpec => []TaskTypeOK
<1>1. TaskIInv => TaskTypeOK
  BY DEF TaskIInv
<1> QED BY <1>1, TaskInvariance, PTL

\* A stream that has ended told its reader a settled state, and that of a task
\* nobody cancelled the state the task is in (StreamsTellTheEnd), whatever the
\* channel lost, whoever evicted the record and whenever the reader subscribed.
THEOREM StreamsAreTold == TaskSpec => []StreamsTellTheEnd
<1>1. TaskIInv => StreamsTellTheEnd
  BY DEF TaskIInv, ReadersAgree, StreamsTellTheEnd
<1> QED BY <1>1, TaskInvariance, PTL

-----------------------------------------------------------------------------
(* Attempts of the A2A client.                                             *)

Known == [pc : {"idle", "stream", "following", "block", "legacy", "waiting", "poll", "ended"},
          dialect : Dialect, known : BOOLEAN, state : TaskStates \cup {"none"},
          result : Ended \cup {"none"}]

\* An attempt has no result before its end, and no settled state.
ResultsAtTheEnd ==
  \A a \in Attempt : att[a].pc # "ended" => att[a].result = "none" /\ ~SettledState(att[a].state)

\* The peer has no task of an attempt that did not get through to it yet.
NothingTaken ==
  \A a \in Attempt : att[a].pc \in {"idle", "stream", "block", "legacy"} => created[a] = 0

\* Only the task of an attempt that ended without success is cancelled.
CancelsAreOfFailures ==
  \A a \in cancels : att[a].pc = "ended" /\ att[a].result # "success"

ClientIInv ==
  /\ ClientTypeOK /\ created \in [Attempt -> Nat]
  /\ ResultsAtTheEnd /\ NothingTaken /\ CancelsAreOfFailures
  /\ SuccessIsEarned /\ OneRemoteTask

\* What a state is spelled as in either dialect is read as that state.
LEMMA SpellingFacts ==
  ASSUME NEW state \in TaskStates, NEW dialect \in Dialect
  PROVE  ParseState(Render(state, dialect)) = state
<1>1. /\ Render(state, dialect).word = IF state = "Unknown" /\ dialect = "V1" THEN "Unspecified"
                                       ELSE state
  BY DEF Render
<1> QED BY <1>1 DEF ParseState, TaskStates

\* Only a completed task is no failure, and one that is still under way, or of
\* which nothing is known, is one.
LEMMA FailureFacts ==
  ASSUME NEW state \in TaskStates
  PROVE  /\ FailureFor(state) \in Ended \cup {"none"} /\ FailureFor(state) # "success"
         /\ FailureFor(state) = "none" <=> state = "Completed"
BY DEF FailureFor, TaskStates, Ended

\* An error of the peer is a class of failure.
LEMMA RpcErrorFacts ==
  ASSUME NEW code \in RpcError
  PROVE  RpcErrorClass(code) \in Ended \ {"success"}
BY DEF RpcErrorClass, RpcError, Ended

\* Nothing is asked yet (ClientInit).
LEMMA ClientInitIInv == ASSUME ClientInit PROVE ClientIInv
<1>1. Idle \in Known /\ Idle.pc = "idle" /\ Idle.result = "none" /\ Idle.state = "none"
  BY DEF Idle, Known, Dialect
<1>2. att \in [Attempt -> Known] /\ \A a \in Attempt : att[a] = Idle
  BY <1>1 DEF ClientInit
<1>3. ClientTypeOK
  BY <1>2 DEF ClientInit, ClientTypeOK, Known
<1> QED BY <1>1, <1>2, <1>3, SettledFacts
           DEF ClientInit, ClientIInv, ResultsAtTheEnd, NothingTaken,
           CancelsAreOfFailures, SuccessIsEarned, OneRemoteTask

\* What a step of an attempt must establish about it, other attempts being left
\* alone.
LEMMA AttemptMoves ==
  ASSUME ClientIInv, NEW a \in Attempt, NEW e \in Known, att' = [att EXCEPT ![a] = e],
         peer' \in [url : {"https", "localhost"}, dialect : Dialect, streaming : BOOLEAN],
         UNCHANGED truth,
         remote' \in [Attempt -> TaskStates \cup {"none", "message"}],
         created' \in [Attempt -> Nat],
         \A b \in Attempt \ {a} : remote'[b] = remote[b] /\ created'[b] = created[b],
         cancels' \subseteq cancels \cup {a},
         a \in cancels' => e.pc = "ended" /\ e.result # "success",
         e.pc # "ended" => e.result = "none" /\ ~SettledState(e.state),
         e.pc \in {"idle", "stream", "block", "legacy"} => created'[a] = 0,
         created'[a] <= 1,
         e.result = "success" => remote'[a] \in {"Completed", "message"}
  PROVE  ClientIInv'
<1>1. att \in [Attempt -> Known] /\ cancels \subseteq Attempt
  BY DEF ClientIInv, ClientTypeOK, Known
<1>2. /\ att' \in [Attempt -> Known] /\ att'[a] = e
      /\ \A b \in Attempt \ {a} : att'[b] = att[b]
  BY <1>1
<1>3. ClientTypeOK'
  BY <1>1, <1>2 DEF ClientIInv, ClientTypeOK, Known
<1>4. CancelsAreOfFailures'
  BY <1>1, <1>2 DEF ClientIInv, CancelsAreOfFailures
<1> QED BY <1>2, <1>3, <1>4 DEF ClientIInv, ResultsAtTheEnd, NothingTaken, SuccessIsEarned,
                                OneRemoteTask

\* The types of the adapter's state, for the steps of attempts.
LEMMA ClientTypes ==
  ASSUME ClientIInv
  PROVE  /\ peer \in [url : {"https", "localhost"}, dialect : Dialect, streaming : BOOLEAN]
         /\ att \in [Attempt -> Known]
         /\ remote \in [Attempt -> TaskStates \cup {"none", "message"}]
         /\ created \in [Attempt -> Nat] /\ \A a \in Attempt : created[a] <= 1
BY DEF ClientIInv, ClientTypeOK, Known, OneRemoteTask

\* An attempt that ends with the state of a task (Conclude) is a success only if
\* the peer completed that task.
LEMMA ConcludeKeeps ==
  ASSUME ClientIInv, NEW a \in Attempt, NEW state \in TaskStates, NEW known \in BOOLEAN,
         att[a].pc # "ended", Conclude(a, state, known), UNCHANGED <<peer, truth, remote, created>>,
         state = "Completed" => remote[a] = "Completed"
  PROVE  ClientIInv'
<1>1. PICK e \in Known :
         /\ att' = [att EXCEPT ![a] = e]
         /\ e.pc = "ended" /\ (e.result = "success" => state = "Completed")
  <2>1. PICK result \in Ended :
           /\ att' = [att EXCEPT ![a].pc = "ended", ![a].state = state, ![a].known = known,
                                 ![a].result = result]
           /\ result = "success" => state = "Completed"
    BY FailureFacts DEF Conclude, Ended
  <2>2. att[a] \in Known
    BY DEF ClientIInv, ClientTypeOK, Known
  <2>3. att' = [att EXCEPT ![a] = [[[[att[a] EXCEPT !.pc = "ended"] EXCEPT !.state = state]
                  EXCEPT !.known = known] EXCEPT !.result = result]]
    BY <2>1 DEF ClientIInv, ClientTypeOK
  <2>4. [[[[att[a] EXCEPT !.pc = "ended"] EXCEPT !.state = state]
           EXCEPT !.known = known] EXCEPT !.result = result] \in Known
    BY <2>2 DEF Known
  <2>5. /\ [[[[att[a] EXCEPT !.pc = "ended"] EXCEPT !.state = state]
              EXCEPT !.known = known] EXCEPT !.result = result].pc = "ended"
        /\ [[[[att[a] EXCEPT !.pc = "ended"] EXCEPT !.state = state]
              EXCEPT !.known = known] EXCEPT !.result = result].result = result
    BY <2>2 DEF Known
  <2> QED BY <2>1, <2>3, <2>4, <2>5
<1>2. UNCHANGED cancels /\ a \notin cancels
  BY DEF Conclude, ClientIInv, CancelsAreOfFailures
<1> QED BY <1>1, <1>2, AttemptMoves, ClientTypes

\* An attempt that is given up (Abandon) ends with a failure, and at most the task
\* it knows is to be cancelled.
LEMMA AbandonKeeps ==
  ASSUME ClientIInv, NEW a \in Attempt, NEW class \in Ended \ {"success"},
         att[a].pc # "ended", Abandon(a, class), UNCHANGED <<peer, truth, remote, created>>
  PROVE  ClientIInv'
<1>1. PICK e \in Known : /\ att' = [att EXCEPT ![a] = e]
                         /\ e.pc = "ended" /\ e.result = class
  <2>1. att[a] \in Known /\ att' = [att EXCEPT ![a] = [att[a] EXCEPT !.pc = "ended", !.result = class]]
    BY ClientTypes DEF Abandon
  <2>2. /\ [att[a] EXCEPT !.pc = "ended", !.result = class] \in Known
        /\ [att[a] EXCEPT !.pc = "ended", !.result = class].pc = "ended"
        /\ [att[a] EXCEPT !.pc = "ended", !.result = class].result = class
    BY <2>1 DEF Known
  <2> QED BY <2>1, <2>2
<1>2. cancels' \subseteq cancels \cup {a}
  BY DEF Abandon
<1> QED BY <1>1, <1>2, AttemptMoves, ClientTypes

\* An attempt goes on without an end: only its place, its dialect and what it
\* knows of its task change.
LEMMA GoesOn ==
  ASSUME ClientIInv, NEW a \in Attempt, att[a].pc # "ended",
         NEW e \in Known, att' = [att EXCEPT ![a] = e], UNCHANGED <<truth, cancels>>,
         peer' \in [url : {"https", "localhost"}, dialect : Dialect, streaming : BOOLEAN],
         e.pc # "ended", e.result = att[a].result, ~SettledState(e.state),
         e.pc \in {"idle", "stream", "block", "legacy"}
            => att[a].pc \in {"idle", "stream", "block", "legacy"},
         UNCHANGED <<remote, created>>
  PROVE  ClientIInv'
<1>1. e.result = "none" /\ a \notin cancels
  BY DEF ClientIInv, ResultsAtTheEnd, CancelsAreOfFailures
<1>2. e.pc \in {"idle", "stream", "block", "legacy"} => created'[a] = 0
  BY DEF ClientIInv, NothingTaken
<1> QED BY <1>1, <1>2, AttemptMoves, ClientTypes

\* execute begins, falls back from streaming, and from 1.0 to 0.3.
LEMMA FallBackKeeps ==
  ASSUME ClientIInv, NEW a \in Attempt, Begin(a) \/ StreamingRefused(a) \/ FallBack(a)
  PROVE  ClientIInv'
<1>1. att[a] \in Known /\ att[a].pc \in {"idle", "stream", "block"} /\ ~SettledState(att[a].state)
  BY ClientTypes DEF Begin, StreamingRefused, FallBack, ClientIInv, ResultsAtTheEnd
<1>2. PICK pc \in {"stream", "block", "legacy"}, dialect \in Dialect :
         att' = [att EXCEPT ![a].pc = pc, ![a].dialect = dialect]
  BY ClientTypes DEF Begin, StreamingRefused, FallBack, Dialect
<1>3. PICK e \in Known : /\ att' = [att EXCEPT ![a] = e]
                         /\ e.pc = pc /\ e.result = att[a].result /\ e.state = att[a].state
  <2>1. att' = [att EXCEPT ![a] = [att[a] EXCEPT !.pc = pc, !.dialect = dialect]]
    BY <1>2
  <2>2. /\ [att[a] EXCEPT !.pc = pc, !.dialect = dialect] \in Known
        /\ [att[a] EXCEPT !.pc = pc, !.dialect = dialect].pc = pc
        /\ [att[a] EXCEPT !.pc = pc, !.dialect = dialect].result = att[a].result
        /\ [att[a] EXCEPT !.pc = pc, !.dialect = dialect].state = att[a].state
    BY <1>1 DEF Known
  <2> QED BY <2>1, <2>2
<1>4. UNCHANGED <<truth, cancels, remote, created>>
  BY DEF Begin, StreamingRefused, FallBack, Refused
<1>5. peer' \in [url : {"https", "localhost"}, dialect : Dialect, streaming : BOOLEAN]
  BY ClientTypes DEF Begin, StreamingRefused, FallBack, Dialect
<1> QED BY <1>1, <1>3, <1>4, <1>5, GoesOn

\* The peer takes a message at most once of an attempt: after that the attempt is
\* past every call that sends one.
LEMMA AcceptKeeps ==
  ASSUME ClientIInv, NEW a \in Attempt, StreamingAccepted(a) \/ BlockingAccepted(a)
  PROVE  ClientIInv'
<1>1. /\ att[a] \in Known /\ att[a].pc \in {"stream", "block", "legacy"}
      /\ ~SettledState(att[a].state) /\ att[a].result = "none"
      /\ created[a] = 0 /\ a \notin cancels
  BY ClientTypes
     DEF StreamingAccepted, BlockingAccepted, ClientIInv, ResultsAtTheEnd, NothingTaken,
       CancelsAreOfFailures
<1>2. PICK pc \in {"following", "waiting"} : att' = [att EXCEPT ![a].pc = pc]
  BY DEF StreamingAccepted, BlockingAccepted
<1>3. PICK e \in Known : /\ att' = [att EXCEPT ![a] = e]
                         /\ e.pc = pc /\ e.result = att[a].result /\ e.state = att[a].state
  <2>1. att' = [att EXCEPT ![a] = [att[a] EXCEPT !.pc = pc]]
    BY <1>2
  <2>2. /\ [att[a] EXCEPT !.pc = pc] \in Known
        /\ [att[a] EXCEPT !.pc = pc].pc = pc
        /\ [att[a] EXCEPT !.pc = pc].result = att[a].result
        /\ [att[a] EXCEPT !.pc = pc].state = att[a].state
    BY <1>1 DEF Known
  <2> QED BY <2>1, <2>2
<1>4. PICK answer \in {"Submitted", "message"} : Accept(a, answer)
  BY DEF StreamingAccepted, BlockingAccepted
<1>5. /\ remote' \in [Attempt -> TaskStates \cup {"none", "message"}]
      /\ \A b \in Attempt \ {a} : remote'[b] = remote[b]
  BY <1>4, ClientTypes, SettledFacts DEF Accept
<1>6. /\ created' \in [Attempt -> Nat] /\ created'[a] <= 1
      /\ \A b \in Attempt \ {a} : created'[b] = created[b]
  BY <1>1, <1>4, ClientTypes DEF Accept
<1>7. UNCHANGED <<peer, truth, cancels>>
  BY DEF StreamingAccepted, BlockingAccepted
<1> QED BY <1>1, <1>3, <1>5, <1>6, <1>7, AttemptMoves, ClientTypes

\* A settled state is a task's.
LEMMA SettledIsState == ASSUME NEW state, SettledState(state) PROVE state \in TaskStates
BY DEF SettledState, IsTerminal, IsInterrupted, TaskStates

\* Calls, streams and polls that fail, the deadline and the drop of an attempt.
LEMMA FailKeeps ==
  ASSUME ClientIInv, NEW a \in Attempt,
         \/ CallFails(a) \/ StreamBreaks(a) \/ AnswerLost(a) \/ PollFails(a) \/ GiveUp(a)
  PROVE  ClientIInv'
<1>1. PICK class \in Ended \ {"success"} : Abandon(a, class)
  BY RpcErrorFacts DEF CallFails, StreamBreaks, AnswerLost, PollFails, GiveUp, Ended
<1>2. att[a].pc # "ended" /\ UNCHANGED <<peer, truth, remote, created>>
  BY DEF CallFails, StreamBreaks, AnswerLost, PollFails, GiveUp, Refused
<1> QED BY <1>1, <1>2, AbandonKeeps

\* The answer of the peer settles an attempt (TaskArrives, Poll, MessageArrives),
\* or tells it which task to ask for.
LEMMA AnswerKeeps ==
  ASSUME ClientIInv, NEW a \in Attempt, TaskArrives(a) \/ Poll(a) \/ MessageArrives(a)
  PROVE  ClientIInv'
<1>1. att[a] \in Known /\ remote[a] \in TaskStates \cup {"none", "message"}
  BY ClientTypes
<1>2. CASE Poll(a) \/ (TaskArrives(a) /\ SettledState(remote[a]))
  <2>1. Conclude(a, remote[a], TRUE) /\ SettledState(remote[a]) /\ att[a].pc # "ended"
    BY <1>2 DEF Poll, TaskArrives
  <2>2. UNCHANGED <<peer, truth, remote, created>>
    BY <1>2 DEF Poll, TaskArrives
  <2> QED BY <2>1, <2>2, SettledIsState, ConcludeKeeps
<1>3. CASE TaskArrives(a) /\ ~SettledState(remote[a])
  <2>1. att' = [att EXCEPT ![a].pc = "poll", ![a].known = TRUE] /\ att[a].pc = "waiting"
    BY <1>3 DEF TaskArrives
  <2>2. UNCHANGED <<peer, truth, remote, created, cancels>>
    BY <1>3 DEF TaskArrives
  <2>3. PICK e \in Known : /\ att' = [att EXCEPT ![a] = e]
                           /\ e.pc = "poll" /\ e.result = att[a].result /\ e.state = att[a].state
    <3>1. att' = [att EXCEPT ![a] = [att[a] EXCEPT !.pc = "poll", !.known = TRUE]]
      BY <2>1
    <3>2. /\ [att[a] EXCEPT !.pc = "poll", !.known = TRUE] \in Known
          /\ [att[a] EXCEPT !.pc = "poll", !.known = TRUE].pc = "poll"
          /\ [att[a] EXCEPT !.pc = "poll", !.known = TRUE].result = att[a].result
          /\ [att[a] EXCEPT !.pc = "poll", !.known = TRUE].state = att[a].state
      BY <1>1 DEF Known
    <3> QED BY <3>1, <3>2
  <2>4. ~SettledState(att[a].state)
    BY <2>1 DEF ClientIInv, ResultsAtTheEnd
  <2> QED BY <2>1, <2>2, <2>3, <2>4, GoesOn, ClientTypes
<1>4. CASE MessageArrives(a)
  <2>1. att' = [att EXCEPT ![a].pc = "ended", ![a].result = "success"] /\ remote[a] = "message"
    BY <1>4 DEF MessageArrives, ConcludeMessage
  <2>2. UNCHANGED <<peer, truth, remote, created, cancels>> /\ att[a].pc # "ended"
    BY <1>4 DEF MessageArrives, ConcludeMessage
  <2>3. PICK e \in Known : /\ att' = [att EXCEPT ![a] = e]
                           /\ e.pc = "ended" /\ e.result = "success"
    <3>1. att' = [att EXCEPT ![a] = [att[a] EXCEPT !.pc = "ended", !.result = "success"]]
      BY <2>1
    <3>2. /\ [att[a] EXCEPT !.pc = "ended", !.result = "success"] \in Known
          /\ [att[a] EXCEPT !.pc = "ended", !.result = "success"].pc = "ended"
          /\ [att[a] EXCEPT !.pc = "ended", !.result = "success"].result = "success"
      BY <1>1 DEF Known, Ended
    <3> QED BY <3>1, <3>2
  <2>4. a \notin cancels
    BY <2>2 DEF ClientIInv, CancelsAreOfFailures
  <2> QED BY <2>1, <2>2, <2>3, <2>4, AttemptMoves, ClientTypes
<1> QED BY <1>2, <1>3, <1>4

\* The follower of a stream (run_streaming) ends an attempt with the settled state
\* the peer reports, or with an unsettled one when the stream closes early.
LEMMA FollowKeeps ==
  ASSUME ClientIInv, NEW a \in Attempt, StreamEvent(a) \/ StreamCloses(a)
  PROVE  ClientIInv'
<1>1. /\ att[a] \in Known /\ att[a].dialect \in Dialect /\ att[a].known \in BOOLEAN
      /\ att[a].state \in TaskStates \cup {"none"}
  BY ClientTypes DEF Known
<1>2. att[a].pc = "following" /\ ~SettledState(att[a].state)
  BY DEF StreamEvent, StreamCloses, ClientIInv, ResultsAtTheEnd
<1>3. UNCHANGED <<peer, truth, remote, created>>
  BY DEF StreamEvent, StreamCloses
<1>4. CASE StreamEvent(a)
  <2>1. PICK state \in Reported(a), known \in {TRUE, att[a].known} :
          IF SettledState(state)
          THEN Conclude(a, state, known)
          ELSE att' = [att EXCEPT ![a].state = state, ![a].known = known] /\ UNCHANGED cancels
    BY <1>4 DEF StreamEvent
  <2>2. state \in {remote[a], "Submitted", "Working"} /\ state \in TaskStates
    BY <1>1, <1>4, <2>1, SpellingFacts, SettledFacts DEF Reported, StreamEvent
  <2>3. known \in BOOLEAN
    BY <1>1, <2>1
  <2>4. CASE SettledState(state)
    BY <1>2, <1>3, <2>1, <2>2, <2>3, <2>4, ConcludeKeeps, SettledFacts
  <2>5. CASE ~SettledState(state)
    <3>1. PICK e \in Known : /\ att' = [att EXCEPT ![a] = e]
                             /\ e.pc = att[a].pc /\ e.result = att[a].result /\ e.state = state
      <4>1. att' = [att EXCEPT ![a] = [att[a] EXCEPT !.state = state, !.known = known]]
        BY <2>1, <2>5
      <4>2. /\ [att[a] EXCEPT !.state = state, !.known = known] \in Known
            /\ [att[a] EXCEPT !.state = state, !.known = known].pc = att[a].pc
            /\ [att[a] EXCEPT !.state = state, !.known = known].result = att[a].result
            /\ [att[a] EXCEPT !.state = state, !.known = known].state = state
        BY <1>1, <2>2, <2>3 DEF Known
      <4> QED BY <4>1, <4>2
    <3> QED BY <1>2, <1>3, <2>1, <2>5, <3>1, GoesOn, ClientTypes
  <2> QED BY <2>4, <2>5
<1>5. CASE StreamCloses(a) /\ att[a].known
  <2>1. att' = [att EXCEPT ![a].pc = "poll"] /\ UNCHANGED cancels
    BY <1>5 DEF StreamCloses
  <2>2. PICK e \in Known : /\ att' = [att EXCEPT ![a] = e]
                           /\ e.pc = "poll" /\ e.result = att[a].result /\ e.state = att[a].state
    <3>1. att' = [att EXCEPT ![a] = [att[a] EXCEPT !.pc = "poll"]]
      BY <2>1
    <3>2. /\ [att[a] EXCEPT !.pc = "poll"] \in Known
          /\ [att[a] EXCEPT !.pc = "poll"].pc = "poll"
          /\ [att[a] EXCEPT !.pc = "poll"].result = att[a].result
          /\ [att[a] EXCEPT !.pc = "poll"].state = att[a].state
      BY <1>1 DEF Known
    <3> QED BY <3>1, <3>2
  <2> QED BY <1>2, <1>3, <2>1, <2>2, GoesOn, ClientTypes
<1>6. CASE StreamCloses(a) /\ ~att[a].known
  <2>1. PICK state \in TaskStates : Conclude(a, state, FALSE) /\ ~SettledState(state)
    <3>1. "Unknown" \in TaskStates /\ ~SettledState("Unknown")
      BY DEF TaskStates, SettledState, IsTerminal, IsInterrupted
    <3> QED BY <1>1, <1>2, <1>6, <3>1 DEF StreamCloses
  <2> QED BY <1>2, <1>3, <2>1, ConcludeKeeps, SettledFacts
<1> QED BY <1>4, <1>5, <1>6

\* What the remote agent does, and a CancelTask that arrives, undoes no task an
\* attempt succeeded with.
LEMMA RemoteKeeps ==
  ASSUME ClientIInv, NEW a \in Attempt, RemoteStep(a) \/ CancelArrives(a)
  PROVE  ClientIInv'
<1>1. /\ remote' \in [Attempt -> TaskStates \cup {"none", "message"}]
      /\ cancels' \subseteq cancels /\ UNCHANGED <<peer, truth, att, created>>
  BY ClientTypes, SettledFacts DEF RemoteStep, CancelArrives
<1>2. ASSUME NEW b \in Attempt, att[b].result = "success" PROVE remote'[b] = remote[b]
  <2>1. remote[b] \in {"Completed", "message"} /\ b \notin cancels
    BY <1>2 DEF ClientIInv, SuccessIsEarned, CancelsAreOfFailures
  <2> QED BY <2>1, ClientTypes DEF RemoteStep, CancelArrives
<1> QED BY <1>1, <1>2 DEF ClientIInv, ClientTypeOK, ResultsAtTheEnd, NothingTaken,
           CancelsAreOfFailures, SuccessIsEarned, OneRemoteTask

\* Whatever an Agent Card lists, the endpoint taken from it has a dialect.
LEMMA EndpointFacts ==
  ASSUME NEW card \in Card, JsonRpcEndpoint(card) # <<>>
  PROVE  JsonRpcEndpoint(card)[2] \in Dialect
<1>1. \A version : DialectOf(version) \in Dialect
  BY DEF DialectOf, Dialect
<1>2. "Legacy" \in Dialect
  BY DEF Dialect
<1> QED BY <1>1, <1>2 DEF JsonRpcEndpoint

\* A card corrects what the adapter believes, and nothing else.
LEMMA RefreshKeeps == ASSUME ClientIInv, RefreshFromCard PROVE ClientIInv'
<1>1. PICK streaming \in BOOLEAN, endpoint \in Endpoints :
         peer' = IF endpoint = <<>> THEN [peer EXCEPT !.streaming = streaming]
                 ELSE [url |-> IF AcceptableEndpoint(endpoint[1]) THEN endpoint[1] ELSE peer.url,
                       dialect |-> endpoint[2], streaming |-> streaming]
  BY DEF RefreshFromCard
<1>2. endpoint # <<>> => endpoint[2] \in Dialect
  BY EndpointFacts DEF Endpoints
<1>3. peer' \in [url : {"https", "localhost"}, dialect : Dialect, streaming : BOOLEAN]
  BY <1>1, <1>2, ClientTypes DEF AcceptableEndpoint
<1>4. UNCHANGED <<truth, att, remote, created, cancels>>
  BY DEF RefreshFromCard
<1> QED BY <1>3, <1>4 DEF ClientIInv, ClientTypeOK, ResultsAtTheEnd, NothingTaken,
           CancelsAreOfFailures, SuccessIsEarned, OneRemoteTask

\* Every step of attempts, peer and cards keeps the invariant.
LEMMA ClientNextIInv == ASSUME ClientIInv, [ClientNext]_clientVars PROVE ClientIInv'
<1>1. CASE UNCHANGED clientVars
  BY <1>1 DEF clientVars, ClientIInv, ClientTypeOK, ResultsAtTheEnd, NothingTaken,
              CancelsAreOfFailures, SuccessIsEarned, OneRemoteTask
<1> QED BY <1>1, FallBackKeeps, AcceptKeeps, FailKeeps, AnswerKeeps, FollowKeeps, RemoteKeeps,
           RefreshKeeps DEF ClientNext, AttemptStep

\* The inductive invariant of the attempts on a remote agent (ClientSpec).
THEOREM ClientInvariance == ClientSpec => []ClientIInv
BY ClientInitIInv, ClientNextIInv, PTL DEF ClientSpec

\* The adapter's variables keep their types (ClientTypeOK), whatever a card says.
THEOREM ClientTypeCorrect == ClientSpec => []ClientTypeOK
<1>1. ClientIInv => ClientTypeOK
  BY DEF ClientIInv
<1> QED BY <1>1, ClientInvariance, PTL

\* An attempt reported as a success rests on a task the peer completed or on its
\* direct answer, and no attempt makes the peer do the work twice
\* (AttemptIsHonest), through every fallback, broken stream, poll and late
\* cancellation.
THEOREM AttemptsAreHonest == ClientSpec => []AttemptIsHonest
<1>1. ClientIInv => AttemptIsHonest
  BY DEF ClientIInv, AttemptIsHonest
<1> QED BY <1>1, ClientInvariance, PTL

-----------------------------------------------------------------------------
(* The pages of the table.                                                 *)

\* The tasks the walk's requests are about now.
Asked == Matching(walk, ended)

\* A walk under way whose listing did not shrink: a task it must see has been seen,
\* or is listed at the next page's offset or behind it.
NoneBehind ==
  walk.pc = "walking" /\ ~walk.slipped =>
    \A t \in walk.due \cap Listed(table, Asked) :
       t \in walk.seen \/ Cardinality(Newer(table, Asked, t)) >= walk.offset

PagesIInv ==
  /\ PagesTypeOK
  /\ \A i, j \in 1..Len(table) : table[i] = table[j] => i = j
  /\ walk.due \subseteq ToSet(table) \cup ended
  /\ walk.due \ ended \subseteq Asked
  /\ NoneBehind /\ PagesMissNothing

\* A nonempty set of naturals has a least element.
LEMMA LeastNatural ==
  ASSUME NEW N \in SUBSET Nat, N # {}
  PROVE  \E n \in N : \A m \in N : n <= m
<1>1. PICK n \in N : \A m \in N : ~(<<m, n>> \in OpToRel(<, Nat))
  BY WFMin, NatLessThanWellFounded
<1>2. \A m \in N : ~(m < n)
  BY <1>1 DEF OpToRel
<1> QED BY <1>2

\* Removing one element moves those behind it one forward.
LEMMA RemoveAtFacts ==
  ASSUME NEW S, NEW q \in Seq(S), NEW r \in 1..Len(q)
  PROVE  /\ RemoveAt(q, r) \in Seq(S) /\ Len(RemoveAt(q, r)) = Len(q) - 1
         /\ \A i \in 1..Len(q) - 1 : RemoveAt(q, r)[i] = IF i < r THEN q[i] ELSE q[i + 1]
<1> DEFINE a == SubSeq(q, 1, r - 1)
           b == SubSeq(q, r + 1, Len(q))
<1>1. /\ a \in Seq(S) /\ Len(a) = r - 1 /\ \A i \in 1..r - 1 : a[i] = q[i]
  OBVIOUS
<1>2. /\ b \in Seq(S) /\ Len(b) = Len(q) - r /\ \A i \in 1..Len(q) - r : b[i] = q[r + i]
  OBVIOUS
<1>3. RemoveAt(q, r) = a \o b
  BY DEF RemoveAt
<1> HIDE DEF a, b
<1>4. /\ a \o b \in Seq(S) /\ Len(a \o b) = Len(a) + Len(b)
      /\ \A i \in 1..Len(a) + Len(b) : (a \o b)[i] = IF i <= Len(a) THEN a[i] ELSE b[i - Len(a)]
  BY <1>1, <1>2, ConcatProperties
<1>5. ASSUME NEW i \in 1..Len(q) - 1 PROVE (a \o b)[i] = IF i < r THEN q[i] ELSE q[i + 1]
  <2>1. CASE i < r
    BY <1>1, <1>2, <1>4, <2>1
  <2>2. CASE ~(i < r)
    <3>1. (a \o b)[i] = b[i - (r - 1)] /\ i - (r - 1) \in 1..Len(q) - r
      BY <1>1, <1>2, <1>4, <2>2
    <3>2. r + (i - (r - 1)) = i + 1
      OBVIOUS
    <3> QED BY <1>2, <2>2, <3>1, <3>2
  <2> QED BY <2>1, <2>2
<1>6. Len(a \o b) = Len(q) - 1
  BY <1>1, <1>2, <1>4
<1>7. a \o b \in Seq(S)
  BY <1>4
<1>8. PICK removed : removed = a \o b
  OBVIOUS
<1>9. /\ removed \in Seq(S) /\ Len(removed) = Len(q) - 1
      /\ \A i \in 1..Len(q) - 1 : removed[i] = IF i < r THEN q[i] ELSE q[i + 1]
  BY <1>5, <1>6, <1>7, <1>8
<1> QED BY <1>3, <1>8, <1>9

\* What makes room is a settled task (MakeRoom), and only one.
LEMMA MakeRoomFacts ==
  ASSUME NEW S, NEW q \in Seq(S), NEW settled, NEW limit
  PROVE  \/ MakeRoom(q, settled, limit) = q
         \/ \E r \in 1..Len(q) : q[r] \in settled /\ MakeRoom(q, settled, limit) = RemoveAt(q, r)
<1> DEFINE old == {i \in DOMAIN q : q[i] \in settled}
<1>1. CASE Len(q) < limit \/ old = {}
  BY <1>1 DEF MakeRoom
<1>2. CASE ~(Len(q) < limit \/ old = {})
  <2>1. old \in SUBSET Nat /\ old # {} /\ DOMAIN q = 1..Len(q)
    BY <1>2
  <2> HIDE DEF old
  <2>2. \E i \in old : \A j \in old : i <= j
    BY <2>1, LeastNatural
  <2>3. (CHOOSE i \in old : \A j \in old : i <= j) \in old
    BY <2>2
  <2>4. MakeRoom(q, settled, limit) = RemoveAt(q, CHOOSE i \in old : \A j \in old : i <= j)
    BY <1>2 DEF MakeRoom, old
  <2>5. PICK r \in old : MakeRoom(q, settled, limit) = RemoveAt(q, r)
    BY <2>3, <2>4
  <2> QED BY <2>1, <2>5 DEF old
<1> QED BY <1>1, <1>2

\* What is newer than a retained task is retained, and there are finitely many.
LEMMA NewerFacts ==
  ASSUME NEW q \in Seq(TaskId), NEW m, NEW t
  PROVE  /\ IsFiniteSet(ToSet(q)) /\ IsFiniteSet(Listed(q, m))
         /\ Newer(q, m, t) \subseteq Listed(q, m) /\ IsFiniteSet(Newer(q, m, t))
         /\ Cardinality(Newer(q, m, t)) \in Nat /\ Cardinality(Listed(q, m)) \in Nat
<1>1. IsFiniteSet(1..Len(q))
  BY FS_Interval
<1>2. q \in Surjection(1..Len(q), ToSet(q))
  BY DEF Surjection, ToSet
<1>3. IsFiniteSet(ToSet(q))
  BY <1>1, <1>2, FS_Surjection
<1>4. Listed(q, m) \subseteq ToSet(q) /\ Newer(q, m, t) \subseteq Listed(q, m)
  BY DEF Listed, Newer, ToSet
<1>5. IsFiniteSet(Listed(q, m))
  BY <1>3, <1>4, FS_Subset
<1>6. IsFiniteSet(Newer(q, m, t))
  BY <1>4, <1>5, FS_Subset
<1> QED BY <1>3, <1>4, <1>5, <1>6, FS_CardinalityType

\* A larger finite set has at least as many elements, also with one exchanged for
\* another.
LEMMA Counting ==
  ASSUME NEW S, NEW T, IsFiniteSet(S), IsFiniteSet(T)
  PROVE  /\ S \subseteq T => Cardinality(S) <= Cardinality(T)
         /\ \A e, x : (S \ {e}) \cup {x} \subseteq T /\ x \notin S =>
               Cardinality(S) <= Cardinality(T)
         /\ \A e \in T : S \subseteq T \ {e} => Cardinality(S) < Cardinality(T)
<1>1. Cardinality(S) \in Nat /\ Cardinality(T) \in Nat
  BY FS_CardinalityType
<1>2. S \subseteq T => Cardinality(S) <= Cardinality(T)
  BY FS_Subset
<1>3. ASSUME NEW e, NEW x, (S \ {e}) \cup {x} \subseteq T, x \notin S
      PROVE  Cardinality(S) <= Cardinality(T)
  <2>0. /\ IsFiniteSet(S \ {e})
        /\ Cardinality(S \ {e}) = IF e \in S THEN Cardinality(S) - 1 ELSE Cardinality(S)
    BY FS_RemoveElement
  <2>1. IsFiniteSet(S \ {e}) /\ Cardinality(S \ {e}) >= Cardinality(S) - 1
    BY <1>1, <2>0
  <2>2. /\ IsFiniteSet((S \ {e}) \cup {x})
        /\ Cardinality((S \ {e}) \cup {x}) = Cardinality(S \ {e}) + 1
    BY <1>3, <2>1, FS_AddElement
  <2>3. Cardinality((S \ {e}) \cup {x}) <= Cardinality(T)
    BY <1>3, FS_Subset
  <2>4. Cardinality(S \ {e}) \in Nat
    BY <2>1, FS_CardinalityType
  <2> QED BY <1>1, <2>1, <2>2, <2>3, <2>4
<1>4. ASSUME NEW e \in T, S \subseteq T \ {e} PROVE Cardinality(S) < Cardinality(T)
  <2>1. IsFiniteSet(T \ {e}) /\ Cardinality(T \ {e}) = Cardinality(T) - 1
    BY FS_RemoveElement
  <2>2. Cardinality(S) <= Cardinality(T \ {e})
    BY <1>4, <2>1, FS_Subset
  <2> QED BY <1>1, <2>1, <2>2
<1> QED BY <1>2, <1>3, <1>4

\* Making room takes at most one task, a settled one, and keeps the order of the
\* others.
LEMMA RoomFacts ==
  ASSUME NEW q \in Seq(TaskId), NEW settled, NEW limit, NEW x, x \notin ToSet(q),
         \A i, j \in 1..Len(q) : q[i] = q[j] => i = j
  PROVE  LET room == MakeRoom(q, settled, limit)
         IN  /\ room \in Seq(TaskId) /\ ToSet(room) \subseteq ToSet(q)
             /\ \A i, j \in 1..Len(room) : room[i] = room[j] => i = j
             /\ \E e \in settled \cup {x} :
                  /\ ToSet(q) \subseteq ToSet(room) \cup {e}
                  /\ e \notin ToSet(room)
                  /\ \A i, j \in 1..Len(q) :
                       i < j /\ q[i] # e /\ q[j] # e =>
                         \E a, b \in 1..Len(room) : a < b /\ room[a] = q[i] /\ room[b] = q[j]
<1> DEFINE room == MakeRoom(q, settled, limit)
<1>1. CASE room = q
  BY <1>1 DEF ToSet
<1>2. ASSUME NEW r \in 1..Len(q), q[r] \in settled, room = RemoveAt(q, r)
      PROVE  /\ room \in Seq(TaskId) /\ ToSet(room) \subseteq ToSet(q)
             /\ \A i, j \in 1..Len(room) : room[i] = room[j] => i = j
             /\ \E e \in settled \cup {x} :
                  /\ ToSet(q) \subseteq ToSet(room) \cup {e}
                  /\ e \notin ToSet(room)
                  /\ \A i, j \in 1..Len(q) :
                       i < j /\ q[i] # e /\ q[j] # e =>
                         \E a, b \in 1..Len(room) : a < b /\ room[a] = q[i] /\ room[b] = q[j]
  <2> HIDE DEF room
  <2>0. /\ RemoveAt(q, r) \in Seq(TaskId) /\ Len(RemoveAt(q, r)) = Len(q) - 1
        /\ \A i \in 1..Len(q) - 1 : RemoveAt(q, r)[i] = IF i < r THEN q[i] ELSE q[i + 1]
    BY RemoveAtFacts
  <2>1. /\ room \in Seq(TaskId) /\ Len(room) = Len(q) - 1
        /\ \A i \in 1..Len(q) - 1 : room[i] = IF i < r THEN q[i] ELSE q[i + 1]
    BY <1>2, <2>0
  <2> DEFINE from(i) == IF i < r THEN i ELSE i + 1
             to(k) == IF k < r THEN k ELSE k - 1
  <2>2. \A i \in 1..Len(room) : from(i) \in 1..Len(q) /\ from(i) # r /\ room[i] = q[from(i)]
    BY <2>1
  <2>3. \A k \in 1..Len(q) : k # r => to(k) \in 1..Len(room) /\ room[to(k)] = q[k]
    <3> SUFFICES ASSUME NEW k \in 1..Len(q), k # r
                 PROVE  to(k) \in 1..Len(room) /\ room[to(k)] = q[k]
      OBVIOUS
    <3>1. CASE k < r
      BY <2>1, <3>1
    <3>2. CASE ~(k < r)
      <4>1. k - 1 \in 1..Len(q) - 1 /\ ~(k - 1 < r) /\ (k - 1) + 1 = k
        BY <3>2
      <4> QED BY <2>1, <3>2, <4>1
    <3> QED BY <3>1, <3>2
  <2>4. \A i, j \in 1..Len(room) : room[i] = room[j] => i = j
    <3> SUFFICES ASSUME NEW i \in 1..Len(room), NEW j \in 1..Len(room), room[i] = room[j]
                 PROVE  i = j
      OBVIOUS
    <3>1. from(i) = from(j)
      BY <2>2
    <3> QED BY <2>1, <3>1
  <2>5. ToSet(room) \subseteq ToSet(q) /\ q[r] \notin ToSet(room)
    <3> SUFFICES ASSUME NEW i \in 1..Len(room)
                 PROVE  room[i] \in ToSet(q) /\ room[i] # q[r]
      BY <2>1 DEF ToSet
    <3>1. from(i) \in 1..Len(q) /\ from(i) # r /\ room[i] = q[from(i)]
      BY <2>2
    <3> HIDE DEF from
    <3> QED BY <3>1 DEF ToSet
  <2>6. ToSet(q) \subseteq ToSet(room) \cup {q[r]}
    <3> SUFFICES ASSUME NEW k \in 1..Len(q), k # r PROVE q[k] \in ToSet(room)
      BY DEF ToSet
    <3>1. to(k) \in 1..Len(room) /\ room[to(k)] = q[k]
      BY <2>3
    <3> HIDE DEF to
    <3> QED BY <2>1, <3>1 DEF ToSet
  <2>7. ASSUME NEW i \in 1..Len(q), NEW j \in 1..Len(q), i < j, q[i] # q[r], q[j] # q[r]
        PROVE  \E a, b \in 1..Len(room) : a < b /\ room[a] = q[i] /\ room[b] = q[j]
    <3>1. i # r /\ j # r
      BY <2>7
    <3>2. to(i) < to(j)
      BY <2>7, <3>1
    <3>3. /\ to(i) \in 1..Len(room) /\ room[to(i)] = q[i]
          /\ to(j) \in 1..Len(room) /\ room[to(j)] = q[j]
      BY <2>3, <3>1
    <3> HIDE DEF to
    <3> QED BY <3>2, <3>3
  <2>8. /\ q[r] \in settled \cup {x}
        /\ ToSet(q) \subseteq ToSet(room) \cup {q[r]}
        /\ q[r] \notin ToSet(room)
        /\ \A i, j \in 1..Len(q) :
             i < j /\ q[i] # q[r] /\ q[j] # q[r] =>
               \E a, b \in 1..Len(room) : a < b /\ room[a] = q[i] /\ room[b] = q[j]
    BY <1>2, <2>5, <2>6, <2>7
  <2> QED BY ONLY <2>1, <2>4, <2>5, <2>8, Zenon
<1>3. room = q \/ \E r \in 1..Len(q) : q[r] \in settled /\ room = RemoveAt(q, r)
  BY MakeRoomFacts
<1> HIDE DEF room
<1>4. /\ room \in Seq(TaskId) /\ ToSet(room) \subseteq ToSet(q)
      /\ \A i, j \in 1..Len(room) : room[i] = room[j] => i = j
      /\ \E e \in settled \cup {x} :
           /\ ToSet(q) \subseteq ToSet(room) \cup {e}
           /\ e \notin ToSet(room)
           /\ \A i, j \in 1..Len(q) :
                i < j /\ q[i] # e /\ q[j] # e =>
                  \E a, b \in 1..Len(room) : a < b /\ room[a] = q[i] /\ room[b] = q[j]
  BY <1>1, <1>2, <1>3
<1> QED BY <1>4 DEF room

\* A step of the table leaves the walk as it is but for what it notes of the listing.
LEMMA WalkAfterFacts ==
  ASSUME PagesTypeOK, NEW kept, NEW done, walk' = WalkAfter(kept, done)
  PROVE  /\ walk' \in [pc : {"none", "walking", "done"}, among : SUBSET TaskId,
                       states : SUBSET Status, offset : Nat, seen : SUBSET TaskId,
                       due : SUBSET TaskId, slipped : BOOLEAN]
         /\ walk'.pc = walk.pc /\ walk'.among = walk.among /\ walk'.states = walk.states
         /\ walk'.offset = walk.offset /\ walk'.seen = walk.seen /\ walk'.due = walk.due
         /\ walk'.slipped <=> \/ walk.slipped
                              \/ /\ walk.pc = "walking"
                                 /\ Shrinks(Listed(table, Matching(walk, ended)),
                                            Listed(kept, Matching(walk, done)))
<1> DEFINE s == walk.slipped \/ /\ walk.pc = "walking"
                                /\ Shrinks(Listed(table, Matching(walk, ended)),
                                           Listed(kept, Matching(walk, done)))
<1>1. s \in BOOLEAN /\ walk' = [walk EXCEPT !.slipped = s]
  BY DEF WalkAfter
<1> HIDE DEF s
<1>2. walk \in [pc : {"none", "walking", "done"}, among : SUBSET TaskId,
                states : SUBSET Status, offset : Nat, seen : SUBSET TaskId,
                due : SUBSET TaskId, slipped : BOOLEAN]
  BY DEF PagesTypeOK
<1>3. /\ walk' \in [pc : {"none", "walking", "done"}, among : SUBSET TaskId,
                    states : SUBSET Status, offset : Nat, seen : SUBSET TaskId,
                    due : SUBSET TaskId, slipped : BOOLEAN]
      /\ walk'.pc = walk.pc /\ walk'.among = walk.among /\ walk'.states = walk.states
      /\ walk'.offset = walk.offset /\ walk'.seen = walk.seen /\ walk'.due = walk.due
      /\ walk'.slipped = s
  BY <1>1, <1>2
<1> QED BY <1>3 DEF s

\* A task that arrives, and the one that makes room for it, push no task that is
\* listed behind an offset to a place before it, unless the listing shrinks.
LEMMA EnterKeeps ==
  ASSUME PagesIInv, NEW t \in TaskId, TaskEnters(t)
  PROVE  PagesIInv'
<1> DEFINE room == MakeRoom(table, ended, MaxRetained)
<1>1. /\ table \in Seq(TaskId) /\ ended \subseteq TaskId
      /\ table' = Append(room, t) /\ UNCHANGED ended
      /\ t \notin ToSet(table) \cup ended
      /\ walk' = WalkAfter(table', ended)
      /\ \A i, j \in 1..Len(table) : table[i] = table[j] => i = j
  BY DEF PagesIInv, PagesTypeOK, TaskEnters
<1>2. PICK e \in ended \cup {t} :
        /\ room \in Seq(TaskId) /\ ToSet(room) \subseteq ToSet(table)
        /\ \A i, j \in 1..Len(room) : room[i] = room[j] => i = j
        /\ ToSet(table) \subseteq ToSet(room) \cup {e}
        /\ e \notin ToSet(room)
        /\ \A i, j \in 1..Len(table) :
             i < j /\ table[i] # e /\ table[j] # e =>
               \E a, b \in 1..Len(room) : a < b /\ room[a] = table[i] /\ room[b] = table[j]
  BY <1>1, RoomFacts
<1> HIDE DEF room
<1>3. /\ table' \in Seq(TaskId) /\ Len(table') = Len(room) + 1
      /\ \A i \in 1..Len(room) : table'[i] = room[i]
      /\ table'[Len(room) + 1] = t
  BY <1>1, <1>2
<1>4. ToSet(table') = ToSet(room) \cup {t}
  <2>1. ASSUME NEW u \in ToSet(room) PROVE u \in ToSet(table')
    BY <1>2, <1>3, <2>1 DEF ToSet
  <2>2. t \in ToSet(table')
    BY <1>2, <1>3 DEF ToSet
  <2>3. ASSUME NEW i \in 1..Len(table') PROVE table'[i] \in ToSet(room) \cup {t}
    BY <1>2, <1>3 DEF ToSet
  <2> QED BY <1>3, <2>1, <2>2, <2>3 DEF ToSet
<1>5. t \notin ToSet(room)
  BY <1>1, <1>2
<1>6. \A i, j \in 1..Len(table') : table'[i] = table'[j] => i = j
  <2>1. \A i \in 1..Len(room) : room[i] # t
    BY <1>2, <1>5 DEF ToSet
  <2> QED BY <1>2, <1>3, <2>1
<1>7. /\ walk' \in [pc : {"none", "walking", "done"}, among : SUBSET TaskId,
                    states : SUBSET Status, offset : Nat, seen : SUBSET TaskId,
                    due : SUBSET TaskId, slipped : BOOLEAN]
      /\ walk'.pc = walk.pc /\ walk'.among = walk.among /\ walk'.states = walk.states
      /\ walk'.offset = walk.offset /\ walk'.seen = walk.seen /\ walk'.due = walk.due
      /\ walk'.slipped <=> \/ walk.slipped
                           \/ /\ walk.pc = "walking"
                              /\ Shrinks(Listed(table, Asked), Listed(table', Asked))
  BY <1>1, WalkAfterFacts DEF PagesIInv, Asked
<1>8. Asked' = Asked
  BY <1>1, <1>7 DEF Asked, Matching
<1>9. walk.due \subseteq ToSet(table') \cup ended /\ t \notin walk.due
  BY <1>1, <1>2, <1>4 DEF PagesIInv
<1>10. NoneBehind'
  <2> SUFFICES ASSUME walk.pc = "walking", ~walk'.slipped,
                      NEW u \in walk.due \cap Listed(table', Asked), u \notin walk.seen
               PROVE  Cardinality(Newer(table', Asked, u)) >= walk.offset
    BY <1>7, <1>8 DEF NoneBehind
  <2>1. u \in ToSet(room) /\ u # t /\ u # e /\ u \in Asked
    BY <1>2, <1>4, <1>9 DEF Listed
  <2>2. u \in Listed(table, Asked)
    BY <1>2, <2>1 DEF Listed
  <2>3. Cardinality(Newer(table, Asked, u)) >= walk.offset
    BY <1>7, <2>2 DEF PagesIInv, NoneBehind
  <2>4. Newer(table, Asked, u) \ {e} \subseteq Newer(table', Asked, u)
    <3> SUFFICES ASSUME NEW v \in Asked, v # e,
                        NEW i \in 1..Len(table), NEW j \in 1..Len(table),
                        i < j, table[i] = u, table[j] = v
                 PROVE  v \in Newer(table', Asked, u)
      BY <1>1 DEF Newer
    <3>1. PICK a \in 1..Len(room), b \in 1..Len(room) : a < b /\ room[a] = u /\ room[b] = v
      BY <1>2, <2>1
    <3>2. a \in DOMAIN table' /\ b \in DOMAIN table' /\ table'[a] = u /\ table'[b] = v
      BY <1>2, <1>3, <3>1
    <3> QED BY <3>1, <3>2 DEF Newer
  <2>5. t \in Asked => t \in Newer(table', Asked, u)
    <3>1. PICK a \in 1..Len(room) : room[a] = u
      BY <1>2, <2>1 DEF ToSet
    <3>2. /\ a \in DOMAIN table' /\ Len(room) + 1 \in DOMAIN table' /\ a < Len(room) + 1
          /\ table'[a] = u /\ table'[Len(room) + 1] = t
      BY <1>2, <1>3, <3>1
    <3> QED BY <3>2 DEF Newer
  <2>6. /\ IsFiniteSet(Newer(table, Asked, u)) /\ IsFiniteSet(Newer(table', Asked, u))
        /\ Newer(table, Asked, u) \subseteq ToSet(table)
        /\ Cardinality(Newer(table, Asked, u)) \in Nat
        /\ Cardinality(Newer(table', Asked, u)) \in Nat
    BY <1>1, <1>3, NewerFacts DEF Listed
  <2>7. Cardinality(Newer(table, Asked, u)) <= Cardinality(Newer(table', Asked, u))
    <3>1. CASE t \in Asked
      <4>1. /\ (Newer(table, Asked, u) \ {e}) \cup {t} \subseteq Newer(table', Asked, u)
            /\ t \notin Newer(table, Asked, u)
        BY <1>1, <2>4, <2>5, <2>6, <3>1
      <4> QED BY <2>6, <4>1, Counting
    <3>2. CASE t \notin Asked
      <4>1. Listed(table', Asked) \subseteq Listed(table, Asked)
        BY <1>2, <1>4, <3>2 DEF Listed
      <4>2. Listed(table, Asked) \subseteq Listed(table', Asked)
        BY <1>7, <4>1 DEF Shrinks
      <4>3. e \notin Newer(table, Asked, u)
        <5>1. e \notin Listed(table, Asked)
          BY <1>1, <1>2, <1>4, <3>2, <4>2 DEF Listed
        <5> QED BY <1>1, <5>1, NewerFacts
      <4>4. Newer(table, Asked, u) \subseteq Newer(table', Asked, u)
        BY <2>4, <4>3
      <4> QED BY <2>6, <4>4, Counting
    <3> QED BY <3>1, <3>2
  <2>8. walk.offset \in Nat
    BY <1>7
  <2> QED BY <2>3, <2>6, <2>7, <2>8
<1>11. PagesMissNothing'
  <2>1. walk.among = TaskId /\ walk.states = Status => ~Shrinks(Listed(table, Asked), Listed(table', Asked))
    <3> SUFFICES ASSUME walk.among = TaskId, walk.states = Status
                 PROVE  t \in Listed(table', Asked) \ Listed(table, Asked)
      BY DEF Shrinks
    <3> QED BY <1>1, <1>4 DEF Listed, Asked, Matching, Status
  <2> QED BY <1>7, <2>1 DEF PagesIInv, PagesMissNothing
<1> QED BY <1>1, <1>3, <1>6, <1>7, <1>8, <1>9, <1>10, <1>11 DEF PagesIInv, PagesTypeOK

\* A task that settles leaves no place behind it empty, unless the listing shrinks.
LEMMA SettleKeeps ==
  ASSUME PagesIInv, NEW t \in TaskId, TaskSettles(t)
  PROVE  PagesIInv'
<1> DEFINE after == Matching(walk, ended')
<1>1. /\ table \in Seq(TaskId) /\ ended \subseteq TaskId /\ UNCHANGED table
      /\ t \in ToSet(table) /\ t \notin ended /\ ended' = ended \cup {t}
      /\ walk' = WalkAfter(table, ended')
  BY DEF PagesIInv, PagesTypeOK, TaskSettles
<1>2. /\ walk' \in [pc : {"none", "walking", "done"}, among : SUBSET TaskId,
                    states : SUBSET Status, offset : Nat, seen : SUBSET TaskId,
                    due : SUBSET TaskId, slipped : BOOLEAN]
      /\ walk'.pc = walk.pc /\ walk'.among = walk.among /\ walk'.states = walk.states
      /\ walk'.offset = walk.offset /\ walk'.seen = walk.seen /\ walk'.due = walk.due
      /\ walk'.slipped <=> \/ walk.slipped
                           \/ /\ walk.pc = "walking"
                              /\ Shrinks(Listed(table, Asked), Listed(table, after))
  BY <1>1, WalkAfterFacts DEF PagesIInv, Asked
<1>3. Asked' = after
  BY <1>2 DEF Asked, Matching
<1>4. \A u : u # t => (u \in after <=> u \in Asked)
  BY <1>1 DEF Asked, Matching
<1> HIDE DEF after
<1>5. walk.due \ ended' \subseteq after /\ walk.due \subseteq ToSet(table) \cup ended'
  BY <1>1, <1>4 DEF PagesIInv
<1>6. NoneBehind'
  <2> SUFFICES ASSUME walk.pc = "walking", ~walk'.slipped,
                      NEW u \in walk.due \cap Listed(table, after), u \notin walk.seen
               PROVE  Cardinality(Newer(table, after, u)) >= walk.offset
    BY <1>1, <1>2, <1>3 DEF NoneBehind
  <2>1. u \in Listed(table, Asked)
    BY <1>1, <1>4 DEF Listed, PagesIInv
  <2>2. Cardinality(Newer(table, Asked, u)) >= walk.offset
    BY <1>2, <2>1 DEF PagesIInv, NoneBehind
  <2>3. t \in Asked => t \in after
    BY <1>1, <1>2, <1>4 DEF Shrinks, Listed
  <2>4. Newer(table, Asked, u) \subseteq Newer(table, after, u)
    BY <1>4, <2>3 DEF Newer
  <2>5. /\ IsFiniteSet(Newer(table, Asked, u)) /\ IsFiniteSet(Newer(table, after, u))
        /\ Cardinality(Newer(table, Asked, u)) \in Nat
        /\ Cardinality(Newer(table, after, u)) \in Nat
    BY <1>1, NewerFacts
  <2>6. Cardinality(Newer(table, Asked, u)) <= Cardinality(Newer(table, after, u))
    BY <2>4, <2>5, Counting
  <2>7. walk.offset \in Nat
    BY <1>2
  <2> QED BY <2>2, <2>5, <2>6, <2>7
<1>7. PagesMissNothing'
  <2>1. walk.among = TaskId /\ walk.states = Status => after = Asked
    BY DEF after, Asked, Matching, Status
  <2>2. walk.among = TaskId /\ walk.states = Status => ~Shrinks(Listed(table, Asked), Listed(table, after))
    BY <2>1 DEF Shrinks
  <2> QED BY <1>2, <2>2 DEF PagesIInv, PagesMissNothing
<1> QED BY <1>1, <1>2, <1>3, <1>5, <1>6, <1>7 DEF PagesIInv, PagesTypeOK

\* What a page holds (Page): no more than fit, and a task is listed before fewer
\* than all.
LEMMA PageFacts ==
  ASSUME NEW q \in Seq(TaskId), NEW m, NEW offset \in Nat, NEW size \in Nat,
         \A i, j \in 1..Len(q) : q[i] = q[j] => i = j
  PROVE  /\ Cardinality(Page(q, m, offset, size)) \in Nat
         /\ Cardinality(Page(q, m, offset, size)) <= size
         /\ \A t \in Listed(q, m) : Cardinality(Newer(q, m, t)) < Cardinality(Listed(q, m))
<1> DEFINE rank == [t \in Page(q, m, offset, size) |-> Cardinality(Newer(q, m, t))]
           page == Page(q, m, offset, size)
<1>1. \A t : /\ IsFiniteSet(Newer(q, m, t)) /\ Newer(q, m, t) \subseteq Listed(q, m)
             /\ Cardinality(Newer(q, m, t)) \in Nat
             /\ IsFiniteSet(Listed(q, m))
  BY NewerFacts
<1>2. \A t : t \notin Newer(q, m, t)
  BY DEF Newer
<1>3. \A t \in Listed(q, m) : Cardinality(Newer(q, m, t)) < Cardinality(Listed(q, m))
  <2> TAKE t \in Listed(q, m)
  <2>1. Newer(q, m, t) \subseteq Listed(q, m) \ {t}
    BY <1>1, <1>2
  <2> QED BY <1>1, <2>1, Counting
<1>4. ASSUME NEW t \in Listed(q, m), NEW u \in Listed(q, m), u \in Newer(q, m, t)
      PROVE  Cardinality(Newer(q, m, u)) < Cardinality(Newer(q, m, t))
  <2>1. Newer(q, m, u) \subseteq Newer(q, m, t) \ {u}
    <3> SUFFICES ASSUME NEW v \in Newer(q, m, u) PROVE v \in Newer(q, m, t)
      BY <1>2
    <3>1. PICK i \in DOMAIN q, j \in DOMAIN q : i < j /\ q[i] = t /\ q[j] = u
      BY <1>4 DEF Newer
    <3>2. PICK k \in DOMAIN q, l \in DOMAIN q : k < l /\ q[k] = u /\ q[l] = v
      BY DEF Newer
    <3>3. k = j /\ DOMAIN q = 1..Len(q)
      BY <3>1, <3>2
    <3>4. i < l
      BY <3>1, <3>2, <3>3
    <3>5. v \in m
      BY DEF Newer
    <3> QED BY <3>1, <3>2, <3>4, <3>5 DEF Newer
  <2> QED BY <1>1, <1>4, <2>1, Counting
<1>5. ASSUME NEW t \in Listed(q, m), NEW u \in Listed(q, m), t # u
      PROVE  u \in Newer(q, m, t) \/ t \in Newer(q, m, u)
  <2>1. PICK i \in 1..Len(q), j \in 1..Len(q) : q[i] = t /\ q[j] = u /\ i # j
    BY <1>5 DEF Listed, ToSet
  <2>2. i < j \/ j < i
    BY <2>1
  <2>3. t \in m /\ u \in m /\ i \in DOMAIN q /\ j \in DOMAIN q
    BY DEF Listed
  <2> QED BY <2>1, <2>2, <2>3 DEF Newer
<1>6. rank \in Injection(page, offset..offset + size - 1)
  <2>1. ASSUME NEW t \in page
        PROVE t \in Listed(q, m) /\ rank[t] = Cardinality(Newer(q, m, t)) /\ rank[t] \in offset..offset + size - 1
    BY <1>1 DEF Page
  <2>2. ASSUME NEW t \in page, NEW u \in page, rank[t] = rank[u] PROVE t = u
    <3> SUFFICES ASSUME t # u PROVE FALSE
      OBVIOUS
    <3>1. t \in Listed(q, m) /\ u \in Listed(q, m) /\ Cardinality(Newer(q, m, t)) = Cardinality(Newer(q, m, u))
      BY <2>1, <2>2
    <3> HIDE DEF rank, page
    <3>2. u \in Newer(q, m, t) \/ t \in Newer(q, m, u)
      BY <1>5, <3>1
    <3>3. \/ Cardinality(Newer(q, m, u)) < Cardinality(Newer(q, m, t))
          \/ Cardinality(Newer(q, m, t)) < Cardinality(Newer(q, m, u))
      BY <1>4, <3>1, <3>2
    <3> QED BY <1>1, <3>1, <3>3
  <2>3. rank \in [page -> offset..offset + size - 1]
    BY <2>1
  <2> HIDE DEF rank, page
  <2> QED BY <2>2, <2>3 DEF Injection, IsInjective
<1>7. /\ IsFiniteSet(offset..offset + size - 1)
      /\ Cardinality(offset..offset + size - 1) = IF offset > offset + size - 1 THEN 0
                                                  ELSE offset + size - 1 - offset + 1
  BY FS_Interval
<1>8. IsFiniteSet(page) /\ Cardinality(page) <= Cardinality(offset..offset + size - 1)
  BY <1>6, <1>7, FS_Injection
<1>9. Cardinality(page) \in Nat
  BY <1>8, FS_CardinalityType
<1> HIDE DEF rank, page
<1>10. Cardinality(page) <= size
  BY <1>7, <1>8, <1>9
<1> QED BY <1>3, <1>9, <1>10 DEF page

\* A page covers what is listed from its offset to the next one's.
LEMMA PageKeeps ==
  ASSUME PagesIInv, ListPage
  PROVE  PagesIInv'
<1> DEFINE page == Page(table, Asked, walk.offset, PageSize)
           next == walk.offset + Cardinality(page)
           listed == Listed(table, Asked)
<1>1. /\ walk' = [walk EXCEPT !.offset = next, !.seen = @ \cup page, !.due = @ \cap listed,
                              !.pc = IF next < Cardinality(listed) THEN "walking" ELSE "done"]
      /\ UNCHANGED <<table, ended>> /\ walk.pc = "walking"
  BY DEF ListPage, Asked
<1>2. /\ table \in Seq(TaskId) /\ walk.offset \in Nat /\ PageSize \in Nat
      /\ walk \in [pc : {"none", "walking", "done"}, among : SUBSET TaskId,
                   states : SUBSET Status, offset : Nat, seen : SUBSET TaskId,
                   due : SUBSET TaskId, slipped : BOOLEAN]
      /\ \A i, j \in 1..Len(table) : table[i] = table[j] => i = j
  BY TableAssumption DEF PagesIInv, PagesTypeOK
<1>3. /\ Cardinality(page) \in Nat /\ Cardinality(page) <= PageSize
      /\ \A t \in listed : Cardinality(Newer(table, Asked, t)) < Cardinality(listed)
  BY <1>2, PageFacts
<1>4. \A t : Cardinality(Newer(table, Asked, t)) \in Nat /\ Cardinality(listed) \in Nat
  BY <1>2, NewerFacts
<1>5. page \subseteq TaskId /\ page \subseteq listed
  <2>1. listed \subseteq TaskId
    BY <1>2 DEF Listed, ToSet
  <2> QED BY <2>1 DEF Page
<1>6. ASSUME ~walk.slipped, NEW t \in walk.due \cap listed
      PROVE  t \in walk.seen \cup page \/ Cardinality(Newer(table, Asked, t)) >= next
  <2>1. CASE t \in walk.seen
    BY <2>1
  <2>2. CASE Cardinality(Newer(table, Asked, t)) >= walk.offset
    <3>1. CASE Cardinality(Newer(table, Asked, t)) < walk.offset + PageSize
      BY <1>2, <1>4, <2>2, <3>1 DEF Page
    <3>2. CASE ~(Cardinality(Newer(table, Asked, t)) < walk.offset + PageSize)
      BY <1>2, <1>3, <1>4, <3>2
    <3> QED BY <3>1, <3>2
  <2> QED BY <1>1, <1>6, <2>1, <2>2 DEF PagesIInv, NoneBehind
<1>7. next \in Nat
  BY <1>2, <1>3
<1> HIDE DEF next, page, listed
<1>8. /\ walk' \in [pc : {"none", "walking", "done"}, among : SUBSET TaskId,
                    states : SUBSET Status, offset : Nat, seen : SUBSET TaskId,
                    due : SUBSET TaskId, slipped : BOOLEAN]
      /\ walk'.offset = next /\ walk'.seen = walk.seen \cup page
      /\ walk'.due = walk.due \cap listed /\ walk'.slipped = walk.slipped
      /\ walk'.among = walk.among /\ walk'.states = walk.states
      /\ walk'.pc = IF next < Cardinality(listed) THEN "walking" ELSE "done"
  BY <1>1, <1>2, <1>5, <1>7
<1>9. Asked' = Asked /\ Listed(table', Asked') = listed
  BY <1>1, <1>8 DEF Asked, Matching, listed
<1>10. NoneBehind'
  BY <1>1, <1>6, <1>8, <1>9 DEF NoneBehind
<1>11. PagesMissNothing'
  <2>1. ASSUME ~(next < Cardinality(listed)), ~walk.slipped, NEW t \in walk.due \cap listed
        PROVE  t \in walk.seen \cup page
    BY <1>3, <1>4, <1>6, <1>7, <2>1
  <2>2. walk'.pc = "done" /\ ~walk'.slipped => walk'.due \subseteq walk'.seen
    BY <1>8, <2>1
  <2> QED BY <1>8, <2>2 DEF PagesIInv, PagesMissNothing
<1> QED BY <1>1, <1>2, <1>8, <1>9, <1>10, <1>11 DEF PagesIInv, PagesTypeOK

\* A walk that begins has everything before it.
LEMMA BeginKeeps ==
  ASSUME PagesIInv, NEW among \in SUBSET TaskId, NEW states \in SUBSET Status,
         ListBegins(among, states)
  PROVE  PagesIInv'
<1> DEFINE due == Listed(table, Matching([among |-> among, states |-> states], ended))
<1>1. /\ walk' = [pc |-> "walking", among |-> among, states |-> states, offset |-> 0,
                  seen |-> {}, due |-> due, slipped |-> FALSE]
      /\ UNCHANGED <<table, ended>> /\ table \in Seq(TaskId)
  BY DEF ListBegins, PagesIInv, PagesTypeOK
<1>2. due \subseteq TaskId /\ due \subseteq ToSet(table)
  BY <1>1 DEF Listed, ToSet
<1>3. Asked' = Matching([among |-> among, states |-> states], ended)
  BY <1>1 DEF Asked, Matching
<1>4. due \subseteq Asked'
  BY <1>3 DEF Listed
<1> HIDE DEF due
<1>5. /\ walk' \in [pc : {"none", "walking", "done"}, among : SUBSET TaskId,
                    states : SUBSET Status, offset : Nat, seen : SUBSET TaskId,
                    due : SUBSET TaskId, slipped : BOOLEAN]
      /\ walk'.pc = "walking" /\ walk'.offset = 0 /\ walk'.due = due /\ ~walk'.slipped
  BY <1>1, <1>2
<1>6. \A t : Cardinality(Newer(table, Asked', t)) \in Nat
  BY <1>1, NewerFacts
<1>7. NoneBehind'
  BY <1>1, <1>5, <1>6 DEF NoneBehind
<1>8. PagesMissNothing'
  BY <1>5 DEF PagesMissNothing
<1> QED BY <1>1, <1>2, <1>4, <1>5, <1>7, <1>8 DEF PagesIInv, PagesTypeOK

\* Every step of the table and of the walk keeps the invariant.
LEMMA PagesNextIInv == ASSUME PagesIInv, [PagesNext]_pageVars PROVE PagesIInv'
<1>1. CASE UNCHANGED pageVars
  BY <1>1 DEF pageVars, PagesIInv, PagesTypeOK, NoneBehind, PagesMissNothing, Asked
<1>2. ASSUME NEW among \in {TaskId, Conversation}, NEW states \in {Status, {"open"}, {"ended"}},
             ListBegins(among, states)
      PROVE  PagesIInv'
  <2>1. among \in SUBSET TaskId /\ states \in SUBSET Status
    BY TableAssumption DEF Status
  <2> QED BY <1>2, <2>1, BeginKeeps
<1> QED BY <1>1, <1>2, EnterKeeps, SettleKeeps, PageKeeps DEF PagesNext

\* The inductive invariant of the table and the walk over its pages (PagesSpec).
THEOREM PagesInvariance == PagesSpec => []PagesIInv
<1>1. PagesInit => PagesIInv
  BY DEF PagesInit, PagesIInv, PagesTypeOK, NoneBehind, PagesMissNothing, ToSet, Status
<1> QED BY <1>1, PagesNextIInv, PTL DEF PagesSpec

\* A walk over the pages of ListTasks, with or without a contextId and a status to
\* filter by, sees every task that was listed when it began and still is unless the
\* listing shrank under it, and an unfiltered one never shrinks (PagesMissNothing):
\* for every page size and limit of the table and every order in which tasks arrive,
\* settle and are evicted between two pages.
THEOREM WalksMissNothing == PagesSpec => []PagesMissNothing
<1>1. PagesIInv => PagesMissNothing
  BY DEF PagesIInv
<1> QED BY <1>1, PagesInvariance, PTL

=============================================================================
