----------------------------- MODULE A2AClient -----------------------------
(***************************************************************************)
(* The A2A adapter (client.rs): attempts on one remote agent, over what    *)
(* the adapter believes of that agent (its dialect, whether it streams),   *)
(* which concurrent attempts share and correct.                            *)
(*                                                                         *)
(* The remote agent is external: it may speak 0.3 only, refuse to stream,  *)
(* answer with a task or a message, and its tasks take their own course.   *)
(* Requests and answers may be lost, streams break, deadlines pass and the *)
(* orchestrator may drop an attempt wherever it awaits.                    *)
(***************************************************************************)
EXTENDS A2AWire

CONSTANT Attempt

VARIABLES peer,      \* what the adapter believes: endpoint, dialect, streaming
          truth,     \* what the remote agent really speaks and offers
          att,       \* each attempt: where it is, what it knows
          remote,    \* the task an attempt created at the peer
          created,   \* history: how many it created
          cancels    \* CancelTask requests on their way

clientVars == <<peer, truth, att, remote, created, cancels>>

Ended == {"success", "dropped", "Timeout", "ConnectionFailure", "ProtocolError", "TaskFailure",
          "InvalidResponse", "Unknown", "Cancelled", "AuthenticationFailure"}

Idle == [pc |-> "idle", dialect |-> "V1", known |-> FALSE, state |-> "none", result |-> "none"]

ClientTypeOK ==
  /\ peer \in [url : {"https", "localhost"}, dialect : Dialect, streaming : BOOLEAN]
  /\ truth \in [v1 : BOOLEAN, streams : BOOLEAN]
  /\ att \in [Attempt -> [pc : {"idle", "stream", "following", "block", "legacy", "waiting",
                                "poll", "ended"},
                          dialect : Dialect, known : BOOLEAN,
                          state : TaskStates \cup {"none"},
                          result : Ended \cup {"none"}]]
  /\ remote \in [Attempt -> TaskStates \cup {"none", "message"}]
  /\ cancels \subseteq Attempt

\* A card, or the configuration, has set what the adapter believes; it may be
\* wrong about either.
ClientInit ==
  /\ peer \in [url : {"https"}, dialect : Dialect, streaming : BOOLEAN]
  /\ truth \in [v1 : BOOLEAN, streams : BOOLEAN]
  /\ att = [a \in Attempt |-> Idle]
  /\ remote = [a \in Attempt |-> "none"]
  /\ created = [a \in Attempt |-> 0]
  /\ cancels = {}

\* Whether the peer knows a method under the name the dialect gives it.
Understood(method, dialect) == WireName(method, dialect) = "Legacy" \/ truth.v1

-----------------------------------------------------------------------------
(* How an attempt ends.                                                    *)

\* A settled task: its state decides, and the guard is disarmed.
Conclude(a, state, known) ==
  LET class == FailureFor(state)
  IN  /\ att' = [att EXCEPT ![a].pc = "ended", ![a].state = state, ![a].known = known,
                            ![a].result = IF class = "none" THEN "success" ELSE class]
      /\ UNCHANGED cancels

ConcludeMessage(a) ==
  /\ att' = [att EXCEPT ![a].pc = "ended", ![a].result = "success"]
  /\ UNCHANGED cancels

\* An error, the deadline or the drop of the attempt: the guard asks the peer to
\* cancel the task it knows, unless another user of the adapter holds its lock.
Abandon(a, class) ==
  /\ att' = [att EXCEPT ![a].pc = "ended", ![a].result = class]
  /\ \/ cancels' = IF att[a].known THEN cancels \cup {a} ELSE cancels
     \/ UNCHANGED cancels

-----------------------------------------------------------------------------
(* execute                                                                 *)

Begin(a) ==
  /\ att[a].pc = "idle"
  /\ att' = [att EXCEPT ![a].pc = IF peer.streaming THEN "stream" ELSE "block",
                        ![a].dialect = peer.dialect]
  /\ UNCHANGED <<peer, truth, remote, created, cancels>>

\* The peer takes a message: it makes a task, or answers at once.
Accept(a, answer) ==
  /\ remote' = [remote EXCEPT ![a] = answer]
  /\ created' = [created EXCEPT ![a] = IF answer = "message" THEN @ ELSE @ + 1]

Refused(a) == UNCHANGED <<remote, created>>

\* The request did not arrive, or was answered with an error that says nothing
\* of streaming or of the method.
CallFails(a) ==
  /\ att[a].pc \in {"stream", "block", "legacy"}
  /\ \E class \in {"ConnectionFailure"} \cup {RpcErrorClass(e) : e \in RpcError} : Abandon(a, class)
  /\ Refused(a)
  /\ UNCHANGED <<peer, truth>>

\* SendStreamingMessage is refused: the adapter stops streaming to this peer and
\* the attempt goes on without.
StreamingRefused(a) ==
  /\ att[a].pc = "stream"
  /\ ~Understood("SendStreamingMessage", att[a].dialect) \/ ~truth.streams
  /\ peer' = [peer EXCEPT !.streaming = FALSE]
  /\ att' = [att EXCEPT ![a].pc = "block", ![a].dialect = peer.dialect]
  /\ Refused(a)
  /\ UNCHANGED <<truth, cancels>>

\* It is accepted, and events follow; or the answer is one plain result.
StreamingAccepted(a) ==
  /\ att[a].pc = "stream"
  /\ Understood("SendStreamingMessage", att[a].dialect) /\ truth.streams
  /\ \E answer \in {"Submitted", "message"} : Accept(a, answer)
  /\ att' = [att EXCEPT ![a].pc = "following"]
  /\ UNCHANGED <<peer, truth, cancels>>

\* SendMessage arrives and is understood; the answer may take as long as the task.
BlockingAccepted(a) ==
  /\ att[a].pc \in {"block", "legacy"}
  /\ Understood("SendMessage", att[a].dialect)
  /\ \E answer \in {"Submitted", "message"} : Accept(a, answer)
  /\ att' = [att EXCEPT ![a].pc = "waiting"]
  /\ UNCHANGED <<peer, truth, cancels>>

\* A retry also when the answer to the first call was lost.
FallBackOnLoss(a) ==
  /\ \/ att[a].pc = "block" /\ ~Understood("SendMessage", att[a].dialect)
     \/ att[a].pc = "waiting"
  /\ peer' = [peer EXCEPT !.dialect = "Legacy"]
  /\ att' = [att EXCEPT ![a].pc = "legacy", ![a].dialect = "Legacy"]
  /\ Refused(a)
  /\ UNCHANGED <<truth, cancels>>

\* The 1.0 method is not known: one retry under its 0.3 name, and later calls
\* start with it.
FallBack(a) ==
  /\ att[a].pc = "block"
  /\ ~Understood("SendMessage", att[a].dialect)
  /\ peer' = [peer EXCEPT !.dialect = "Legacy"]
  /\ att' = [att EXCEPT ![a].pc = "legacy", ![a].dialect = "Legacy"]
  /\ Refused(a)
  /\ UNCHANGED <<truth, cancels>>

-----------------------------------------------------------------------------
(* run_streaming: the follower                                             *)

\* What is read of the states an event may carry, spelled in the peer's dialect:
\* the present one, or an earlier one still under way.
Reported(a) ==
  {ParseState(Render(state, att[a].dialect)) : state \in {remote[a], "Submitted", "Working"}}

\* A snapshot of the task tells its identifier, a status event only the state.
StreamEvent(a) ==
  /\ att[a].pc = "following" /\ remote[a] \in TaskStates
  /\ \E state \in Reported(a), known \in {TRUE, att[a].known} :
       IF SettledState(state)
       THEN Conclude(a, state, known)
       ELSE att' = [att EXCEPT ![a].state = state, ![a].known = known] /\ UNCHANGED cancels
  /\ UNCHANGED <<peer, truth, remote, created>>

\* The peer answers with a message, streamed or in one piece.
MessageArrives(a) ==
  /\ att[a].pc \in {"following", "waiting"} /\ remote[a] = "message"
  /\ ConcludeMessage(a)
  /\ UNCHANGED <<peer, truth, remote, created>>

\* The stream ends before the task: it is asked for, if it is known.
StreamCloses(a) ==
  /\ att[a].pc = "following"
  /\ IF att[a].known
     THEN att' = [att EXCEPT ![a].pc = "poll"] /\ UNCHANGED cancels
     ELSE Conclude(a, IF att[a].state = "none" THEN "Unknown" ELSE att[a].state, FALSE)
  /\ UNCHANGED <<peer, truth, remote, created>>

\* The stream breaks, or exceeds the cap, or an event is an error or no envelope.
StreamBreaks(a) ==
  /\ att[a].pc = "following"
  /\ \E class \in {"ConnectionFailure", "InvalidResponse"} \cup {RpcErrorClass(e) : e \in RpcError} :
       Abandon(a, class)
  /\ UNCHANGED <<peer, truth, remote, created>>

-----------------------------------------------------------------------------
(* run_blocking and poll_until_settled                                     *)

\* The answer to SendMessage: the task, settled or not.
TaskArrives(a) ==
  /\ att[a].pc = "waiting" /\ remote[a] \in TaskStates
  /\ ParseSendResult(SendResultJson(remote[a], att[a].dialect)) = "task"
  /\ IF SettledState(remote[a])
     THEN Conclude(a, remote[a], TRUE)
     ELSE att' = [att EXCEPT ![a].pc = "poll", ![a].known = TRUE] /\ UNCHANGED cancels
  /\ UNCHANGED <<peer, truth, remote, created>>

AnswerLost(a) ==
  /\ att[a].pc = "waiting"
  /\ \E class \in {"ConnectionFailure", "InvalidResponse"} : Abandon(a, class)
  /\ UNCHANGED <<peer, truth, remote, created>>

Poll(a) ==
  /\ att[a].pc = "poll" /\ SettledState(remote[a])
  /\ Conclude(a, remote[a], TRUE)
  /\ UNCHANGED <<peer, truth, remote, created>>

PollFails(a) ==
  /\ att[a].pc = "poll"
  /\ \E class \in {"ConnectionFailure", "InvalidResponse", "TaskFailure"} : Abandon(a, class)
  /\ UNCHANGED <<peer, truth, remote, created>>

\* The attempt's deadline, or the orchestrator drops it.
GiveUp(a) ==
  /\ att[a].pc \notin {"idle", "ended"}
  /\ \E class \in {"Timeout", "dropped"} : Abandon(a, class)
  /\ UNCHANGED <<peer, truth, remote, created>>

-----------------------------------------------------------------------------
(* The remote agent                                                        *)

RemoteStep(a) ==
  /\ remote[a] \in {"Submitted", "Working", "Unknown"}
  /\ \E s \in TaskStates \ {"Submitted"} : remote' = [remote EXCEPT ![a] = s]
  /\ UNCHANGED <<peer, truth, att, created, cancels>>

\* CancelTask arrives or is lost; a settled task is not cancelable.
CancelArrives(a) ==
  /\ a \in cancels
  /\ cancels' = cancels \ {a}
  /\ \/ ~SettledState(remote[a]) /\ remote' = [remote EXCEPT ![a] = "Canceled"]
     \/ UNCHANGED remote
  /\ UNCHANGED <<peer, truth, att, created>>

-----------------------------------------------------------------------------
\* refresh_from_card: the card, which the peer controls, corrects what the
\* adapter believes. An endpoint in cleartext is ignored, its dialect is not.
Interfaces(binding) ==
  {<<>>} \cup {<<i>> : i \in [url : {"https", "cleartext"}, binding : binding, version : {"1.0", "0.x"}]}
Card == [supported : Interfaces({"JSONRPC", "GRPC"}), additional : Interfaces({"JSONRPC"}),
         url : {"none", "https"}, transport : {"none", "GRPC"}, version : {"none", "0.x"}]
Endpoints == {JsonRpcEndpoint(card) : card \in Card}
RefreshFromCard ==
  /\ \E streaming \in BOOLEAN, endpoint \in Endpoints :
       peer' = IF endpoint = <<>> THEN [peer EXCEPT !.streaming = streaming]
               ELSE [url |-> IF AcceptableEndpoint(endpoint[1]) THEN endpoint[1] ELSE peer.url,
                     dialect |-> endpoint[2], streaming |-> streaming]
  /\ UNCHANGED <<truth, att, remote, created, cancels>>

AttemptStep(a) ==
  \/ Begin(a) \/ CallFails(a) \/ StreamingRefused(a) \/ StreamingAccepted(a)
  \/ BlockingAccepted(a) \/ FallBack(a)
  \/ StreamEvent(a) \/ MessageArrives(a) \/ StreamCloses(a) \/ StreamBreaks(a)
  \/ TaskArrives(a) \/ AnswerLost(a) \/ Poll(a) \/ PollFails(a) \/ GiveUp(a)

ClientNext ==
  \/ \E a \in Attempt : AttemptStep(a) \/ RemoteStep(a) \/ CancelArrives(a)
  \/ RefreshFromCard

ClientSpec == ClientInit /\ [][ClientNext]_clientVars

-----------------------------------------------------------------------------
(* Properties                                                              *)

\* An attempt reported as a success rests on a task the peer completed or on its
\* direct answer, whatever stream, poll or fallback the result came through.
SuccessIsEarned ==
  \A a \in Attempt : att[a].result = "success" => remote[a] \in {"Completed", "message"}

\* No attempt makes the peer do the work twice: falling back to polling, or to
\* the 0.3 dialect, never repeats a message that was taken.
OneRemoteTask == \A a \in Attempt : created[a] <= 1

\* Both, for every attempt.
AttemptIsHonest == SuccessIsEarned /\ OneRemoteTask
=============================================================================
