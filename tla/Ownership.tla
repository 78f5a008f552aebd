------------------------------ MODULE Ownership ------------------------------
(***************************************************************************)
(* What the ownership ledger promises the orchestrator: a task that was    *)
(* granted its predicted writes is the only one that may touch the files   *)
(* they cover, until it releases them.                                     *)
(*                                                                         *)
(* `claims' is the ledger (path -> holder).  `granted' is a history        *)
(* variable: the requests each task was granted and has not released.      *)
(***************************************************************************)
EXTENDS PathClaims

CONSTANTS Task,      \* task identifiers, unique across sessions
          Name,      \* path component names
          Index,     \* the workspace's files, as sequences of components
          Request    \* what a task may ask to write: the paths its description
                     \* names and the paths its dependencies changed

ASSUME RootAssumption     == "." \notin Name
ASSUME IndexAssumption    == \A f \in Index : f \in Seq(Name) /\ f # <<>>
ASSUME RequestAssumption  ==
  \A r \in Request :
     /\ r = [names |-> r.names, outputs |-> r.outputs]
     /\ \A raw \in r.names \cup r.outputs : raw \in Spellings(Name)

VARIABLES claims, granted

vars == <<claims, granted>>

Predicted(r) == PredictWrites(r.names, Index, r.outputs)

ClaimablePath == {Normalize(raw) : raw \in UNION {Predicted(r) : r \in Request}}

TypeOK ==
  /\ DOMAIN claims \subseteq ClaimablePath
  /\ claims \in [DOMAIN claims -> Task]
  /\ granted \in [Task -> SUBSET Request]

Init ==
  /\ claims = [p \in {} |-> p]
  /\ granted = [t \in Task |-> {}]

\* OwnershipLedger::claim, all or nothing.  A refused claim changes nothing.
Claim(t, r) ==
  /\ ~Conflict(claims, t, Predicted(r))
  /\ claims' = Insert(claims, t, Predicted(r))
  /\ granted' = [granted EXCEPT ![t] = @ \cup {r}]

\* OwnershipLedger::release.
Release(t) ==
  /\ claims' = Retain(claims, t)
  /\ granted' = [granted EXCEPT ![t] = {}]

Next ==
  \E t \in Task : (\E r \in Request : Claim(t, r)) \/ Release(t)

Spec == Init /\ [][Next]_vars

-----------------------------------------------------------------------------
(* Properties.                                                             *)

\* A claim on a path covers the file f.
Covers(p, f) == p = Root \/ StartsWith(f, p)

\* The spelled path refers to the file f: literally, as f or a directory above
\* it, or, when nothing in the workspace has that literal path, as its tail.
Denotes(raw, f) ==
  \/ StartsWith(f, raw.at)
  \/ ~Contains(Index, raw) /\ f \in EndingWith(Index, raw)

\* Task t was granted a request that talks about the file f.
MayWrite(t, f) ==
  \E r \in granted[t] :
     \/ r.names = {}
     \/ \E raw \in r.names : Denotes(raw, f)
     \/ \E raw \in r.outputs : StartsWith(f, raw.at)

\* No file lies under the claims of two different tasks, whatever paths the
\* claims are on: a directory, a file in it, or the whole workspace.
ExclusiveClaims ==
  \A f \in Index, p, q \in DOMAIN claims :
     Covers(p, f) /\ Covers(q, f) => claims[p] = claims[q]

\* Two tasks whose descriptions mean the same workspace file, however each of
\* them spells it, are never granted their writes at the same time.
OneWriterPerFile ==
  \A f \in Index, t, u \in Task : MayWrite(t, f) /\ MayWrite(u, f) => t = u

\* A granted task keeps a claim over every file it was granted, whatever the
\* other tasks claim and release meanwhile.
GrantsHold ==
  \A t \in Task, f \in Index :
     MayWrite(t, f) => \E p \in HeldBy(claims, t) : Covers(p, f)
=============================================================================
