--------------------------- MODULE AcpWorkspaces ---------------------------
(***************************************************************************)
(* Which orchestrator serves which working directory (workspaces.rs of     *)
(* cuma-server-acp): built on first use, shared by every session in the    *)
(* directory, dropped when idle and too many.                              *)
(*                                                                         *)
(* A cell builds one orchestrator at most, so the cell's name stands for   *)
(* the orchestrator and its ownership ledger.  A request takes its time of *)
(* use from the clock before it takes the lock of the slots.               *)
(***************************************************************************)
EXTENDS Naturals, FiniteSets

CONSTANTS Client,          \* sessions that ask for an orchestrator
          Directory,
          DefaultDirectory,
          MaxWorkspaces,   \* MAX_WORKSPACES
          MaxClock         \* bound on the requests explored

\* The sessions and the directories are finitely many, and the directory the
\* server was started in is one of them.
ASSUME WorkspaceAssumption ==
  /\ IsFiniteSet(Client) /\ IsFiniteSet(Directory) /\ DefaultDirectory \in Directory
  /\ MaxClock \in Nat \ {0}

VARIABLES slots,     \* the slots: their directory, their cell, when they were last used
          clock,     \* counts requests
          built,     \* cells whose orchestrator is built
          client     \* each session: what it waits for or holds

workspaceVars == <<slots, clock, built, client>>

\* Enough cells for every slot and every client.
Cell == 1..(Cardinality(Directory) + Cardinality(Client))

WorkspaceTypeOK ==
  /\ slots \subseteq [path : Directory, cell : Cell, lastUsed : 0..MaxClock]
  /\ clock \in 1..MaxClock
  /\ built \subseteq Cell
  /\ client \in [Client -> [pc : {"idle", "asking", "waiting", "building", "holding"},
                            path : Directory, cell : Cell, now : 0..MaxClock]]

\* per_directory: the directory CUMA was started in has its orchestrator.
WorkspaceInit ==
  /\ slots = {[path |-> DefaultDirectory, cell |-> 1, lastUsed |-> 0]}
  /\ clock = 1
  /\ built = {1}
  /\ client = [c \in Client |-> [pc |-> "idle", path |-> DefaultDirectory, cell |-> 1, now |-> 0]]

\* The sessions that refer to a cell, and the cells referred to.
Users == {c \in Client : client[c].pc \in {"waiting", "building", "holding"}}
Held == {client[c].cell : c \in Users}
CellsOf(list) == {slot.cell : slot \in list}

-----------------------------------------------------------------------------
\* Idle: not the default, built, and nobody but the slot refers to it.
IsIdle(slot) == slot.path # DefaultDirectory /\ slot.cell \in built /\ slot.cell \notin Held

\* Of the candidates, those least recently used go until the limit is met.
Without(list, candidates) ==
  list \ {slot \in candidates :
            Cardinality({older \in candidates : older.lastUsed < slot.lastUsed}) + MaxWorkspaces
              < Cardinality(list)}

\* Only being built, not being used, keeps a slot.
EvictInUse(list) ==
  Without(list, {slot \in list : slot.path # DefaultDirectory /\ slot.cell \in built})

Evict(list) == Without(list, {slot \in list : IsIdle(slot)})

Unused == CHOOSE n \in Cell : n \notin CellsOf(slots) \cup Held

\* orchestrator: the time is taken before the lock, so two requests may reach the
\* slots in the other order.
RequestOrchestrator(c, path) ==
  /\ client[c].pc = "idle" /\ clock < MaxClock
  /\ clock' = clock + 1
  /\ client' = [client EXCEPT ![c] = [pc |-> "asking", path |-> path, cell |-> 1, now |-> clock]]
  /\ UNCHANGED <<slots, built>>

\* slot: found and marked as just used, or made, and others make room.
AskFor(c) ==
  LET path  == client[c].path
      found == {slot \in slots : slot.path = path}
      cell  == IF found # {} THEN (CHOOSE slot \in found : TRUE).cell ELSE Unused
      used  == (slots \ found) \cup {[path |-> path, cell |-> cell, lastUsed |-> client[c].now]}
      kept  == IF found # {} THEN used ELSE Evict(used)
  IN  /\ client[c].pc = "asking"
      /\ slots' = kept
      /\ built' = built \cap (CellsOf(kept) \cup Held)
      /\ client' = [client EXCEPT ![c].pc = "waiting", ![c].cell = cell]
      /\ UNCHANGED clock

\* get_or_try_init: one of those who wait builds, and a failure leaves the cell
\* empty for the next.
BuildBegins(c) ==
  /\ client[c].pc = "waiting" /\ client[c].cell \notin built
  /\ ~\E d \in Client : client[d].pc = "building" /\ client[d].cell = client[c].cell
  /\ client' = [client EXCEPT ![c].pc = "building"]
  /\ UNCHANGED <<slots, clock, built>>

BuildEnds(c) ==
  /\ client[c].pc = "building"
  /\ \/ /\ built' = built \cup {client[c].cell}
        /\ client' = [client EXCEPT ![c].pc = "holding"]
     \/ /\ client' = [client EXCEPT ![c].pc = "idle"]
        /\ UNCHANGED built
  /\ UNCHANGED <<slots, clock>>

Share(c) ==
  /\ client[c].pc = "waiting" /\ client[c].cell \in built
  /\ client' = [client EXCEPT ![c].pc = "holding"]
  /\ UNCHANGED <<slots, clock, built>>

\* session/new drops its reference at once, a prompt when it was answered.
LetGo(c) ==
  /\ client[c].pc = "holding"
  /\ client' = [client EXCEPT ![c].pc = "idle"]
  /\ built' = built \cap (CellsOf(slots) \cup Held')
  /\ UNCHANGED <<slots, clock>>

WorkspaceNext ==
  \E c \in Client : \/ \E path \in Directory : RequestOrchestrator(c, path)
                    \/ AskFor(c) \/ BuildBegins(c) \/ BuildEnds(c) \/ Share(c) \/ LetGo(c)

WorkspaceSpec == WorkspaceInit /\ [][WorkspaceNext]_workspaceVars

-----------------------------------------------------------------------------
\* "two sessions editing one repository must go through one ownership ledger"
\* (workspaces.rs): the sessions that work in a directory, and its slot, never
\* have two orchestrators between them, however many directories come and go.
OneLedgerPerDirectory ==
  LET uses == {<<client[c].path, client[c].cell>> : c \in Users}
              \cup {<<slot.path, slot.cell>> : slot \in slots}
  IN  \A u, v \in uses : u[1] = v[1] <=> u[2] = v[2]

=============================================================================
