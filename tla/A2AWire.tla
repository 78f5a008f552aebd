------------------------------ MODULE A2AWire ------------------------------
(***************************************************************************)
(* The vocabulary of the A2A protocol (wire.rs, card.rs): task states and  *)
(* their two spellings, method names, error codes, the shapes in which a   *)
(* task or a message travels, and what an Agent Card says about how to     *)
(* reach a peer.                                                           *)
(***************************************************************************)
EXTENDS Naturals, Sequences, FiniteSets

Dialect == {"V1", "Legacy"}

TaskStates == {"Submitted", "Working", "Completed", "Failed", "Canceled",
               "InputRequired", "Rejected", "AuthRequired", "Unknown"}

IsTerminal(state)    == state \in {"Completed", "Failed", "Canceled", "Rejected"}
IsInterrupted(state) == state \in {"InputRequired", "AuthRequired"}
SettledState(state)  == IsTerminal(state) \/ IsInterrupted(state)

-----------------------------------------------------------------------------
(* Spellings.  A spelling is its word with the marks a dialect puts on it. *)

Render(state, dialect) ==
  [word   |-> IF state = "Unknown" /\ dialect = "V1" THEN "Unspecified" ELSE state,
   prefix |-> dialect = "V1"]

\* The prefix, case and separators are ignored; an unlisted word is Unknown.
ParseState(spelled) ==
  IF spelled.word \in TaskStates \ {"Unknown"} THEN spelled.word
  ELSE IF spelled.word = "Cancelled" THEN "Canceled"
  ELSE "Unknown"

\* Methods with a 0.3 name; the others exist only in 1.0.
Method == {"SendMessage", "SendStreamingMessage", "GetTask", "ListTasks", "CancelTask",
           "SubscribeToTask", "GetExtendedAgentCard"}
LegacyName == Method \ {"ListTasks", "GetExtendedAgentCard"}

\* The dialect in which a method is put on the wire, whatever the peer speaks.
WireName(method, dialect) == IF method \in LegacyName THEN dialect ELSE "V1"

-----------------------------------------------------------------------------
(* Payloads.  A text is a sequence of pieces; an empty one carries none.   *)

SendResultJson(task, dialect) ==
  [form |-> IF dialect = "V1" THEN "wrapped" ELSE "tagged", carries |-> "task", task |-> task]

\* What a SendMessage result is read as: a wrapped or tagged payload by its
\* wrapper or tag, an untagged one by the fields it has.
ParseSendResult(result) ==
  CASE result.form \in {"wrapped", "tagged"} -> result.carries
    [] result.form = "bare" /\ result.carries \in {"task", "message"} -> result.carries
    [] OTHER -> "unreadable"

-----------------------------------------------------------------------------
(* Agent Cards. An interface names a URL, a binding and a version.         *)

DialectOf(version) == IF version = "0.x" THEN "Legacy" ELSE "V1"

FirstJsonRpc(interfaces) ==
  LET speaking == {i \in DOMAIN interfaces : interfaces[i].binding = "JSONRPC"}
  IN  IF speaking = {} THEN <<>>
      ELSE <<interfaces[CHOOSE i \in speaking : \A j \in speaking : i <= j]>>

\* Where to call and in which dialect, or <<>> when the card names no usable
\* interface. Cards of 1.0 list interfaces; cards of 0.3 have a primary URL.
JsonRpcEndpoint(card) ==
  LET listed == FirstJsonRpc(card.supported)
      further == FirstJsonRpc(card.additional)
      dialect == IF card.version = "none" THEN "Legacy" ELSE DialectOf(card.version)
  IN  IF listed # <<>> THEN <<listed[1].url, DialectOf(listed[1].version)>>
      ELSE IF card.transport \in {"none", "JSONRPC"} /\ card.url # "none"
           THEN <<card.url, dialect>>
      ELSE IF further # <<>> THEN <<further[1].url, dialect>>
      ELSE <<>>

\* Cleartext is refused to anything but this machine.
AcceptableEndpoint(url) == url \in {"https", "localhost"}

-----------------------------------------------------------------------------
(* Errors a peer answers with, and their classes.                          *)

RpcError == {"ParseError", "InvalidRequest", "MethodNotFound", "InvalidParams",
             "InternalError", "TaskNotFound", "TaskNotCancelable",
             "PushNotSupported", "UnsupportedOperation", "InvalidAgentResponse",
             "ExtendedCardNotConfigured"}

RpcErrorClass(code) ==
  CASE code \in {"ParseError", "InvalidRequest", "MethodNotFound", "InvalidParams",
                 "UnsupportedOperation"}             -> "ProtocolError"
    [] code \in {"InternalError", "TaskNotFound"}    -> "TaskFailure"
    [] code = "InvalidAgentResponse"                 -> "InvalidResponse"
    [] OTHER                                         -> "Unknown"

\* The failure a final state represents, or "none".
FailureFor(state) ==
  CASE state = "Completed"                                  -> "none"
    [] state = "Canceled"                                   -> "Cancelled"
    [] state = "AuthRequired"                               -> "AuthenticationFailure"
    [] state \in {"InputRequired", "Rejected", "Failed"}    -> "TaskFailure"
    [] state \in {"Submitted", "Working", "Unknown"}        -> "InvalidResponse"

=============================================================================
