------------------------------ MODULE Acp_proofs ------------------------------
(***************************************************************************)
(* Proofs about the ACP server: the turns of a session, for any number of  *)
(* prompts, of restarts and of turns remembered; the orchestrators of the  *)
(* working directories, for any number of sessions, directories and slots. *)
(***************************************************************************)
EXTENDS AcpSessions, AcpWorkspaces, FiniteSetTheorems, SequenceTheorems, TLAPS

-----------------------------------------------------------------------------
(* The orchestrators of the working directories.                           *)

\* A directory has one slot, and a slot a cell of its own.
SlotsAreDistinct == \A s, t \in slots : s.path = t.path <=> s.cell = t.cell

\* The slot a session got its orchestrator from is still there.
UsersHaveSlots ==
  \A c \in Users : \E s \in slots : s.path = client[c].path /\ s.cell = client[c].cell

WorkspaceIInv ==
  /\ WorkspaceTypeOK
  /\ SlotsAreDistinct /\ UsersHaveSlots
  /\ built \subseteq CellsOf(slots)

\* There is a cell no slot and no session refers to: as many slots as directories
\* at most, and one session at least that refers to none.
LEMMA UnusedExists ==
  ASSUME WorkspaceIInv, Client # {}
  PROVE  Unused \in Cell /\ Unused \notin CellsOf(slots) /\ Unused \notin Held
<1> DEFINE paths == {s.path : s \in slots}
           f == [p \in paths |-> (CHOOSE s \in slots : s.path = p).cell]
<1>1. Cardinality(Directory) \in Nat /\ Cardinality(Client) \in Nat
  BY FS_CardinalityType, WorkspaceAssumption
<1>2. Cardinality(Client) # 0
  BY FS_EmptySet, WorkspaceAssumption
<1>3. IsFiniteSet(paths) /\ Cardinality(paths) <= Cardinality(Directory)
  <2>1. paths \in SUBSET Directory
    BY DEF WorkspaceIInv, WorkspaceTypeOK
  <2> QED BY <2>1, FS_Subset, WorkspaceAssumption
<1>4. \A s \in slots : f[s.path] = s.cell
  <2> SUFFICES ASSUME NEW s \in slots PROVE f[s.path] = s.cell
    OBVIOUS
  <2>1. f[s.path] = (CHOOSE t \in slots : t.path = s.path).cell
    OBVIOUS
  <2>2. (CHOOSE t \in slots : t.path = s.path) \in slots
        /\ (CHOOSE t \in slots : t.path = s.path).path = s.path
    OBVIOUS
  <2> QED BY <2>1, <2>2 DEF WorkspaceIInv, SlotsAreDistinct
<1>5. f \in Surjection(paths, CellsOf(slots))
  <2>1. f \in [paths -> CellsOf(slots)]
    BY <1>4 DEF CellsOf
  <2> HIDE DEF f
  <2>2. \A n \in CellsOf(slots) : \E p \in paths : f[p] = n
    <3> SUFFICES ASSUME NEW s \in slots PROVE \E p \in paths : f[p] = s.cell
      BY DEF CellsOf
    <3>1. s.path \in paths /\ f[s.path] = s.cell
      BY <1>4
    <3> QED BY <3>1
  <2> QED BY <2>1, <2>2 DEF Surjection
<1> HIDE DEF f
<1>6. IsFiniteSet(CellsOf(slots)) /\ Cardinality(CellsOf(slots)) <= Cardinality(Directory)
  <2>1. IsFiniteSet(CellsOf(slots)) /\ Cardinality(CellsOf(slots)) <= Cardinality(paths)
    BY <1>3, <1>5, FS_Surjection
  <2>2. Cardinality(CellsOf(slots)) \in Nat /\ Cardinality(paths) \in Nat
    BY <1>3, <2>1, FS_CardinalityType
  <2> QED BY <1>1, <1>3, <2>1, <2>2
<1>7. Cardinality(Cell) = Cardinality(Directory) + Cardinality(Client) /\ IsFiniteSet(Cell)
  <2>1. Cardinality(Directory) + Cardinality(Client) \in Int /\ 1 \in Int
        /\ ~(1 > Cardinality(Directory) + Cardinality(Client))
    BY <1>1, <1>2
  <2>2. /\ IsFiniteSet(Cell)
        /\ Cardinality(Cell) = (Cardinality(Directory) + Cardinality(Client)) - 1 + 1
    BY <2>1, FS_Interval DEF Cell
  <2> QED BY <1>1, <2>2
<1>8. ~(Cell \subseteq CellsOf(slots))
  <2> SUFFICES ASSUME Cell \subseteq CellsOf(slots) PROVE FALSE
    OBVIOUS
  <2>1. Cardinality(Cell) <= Cardinality(CellsOf(slots))
    BY <1>6, FS_Subset
  <2>2. Cardinality(CellsOf(slots)) \in Nat
    BY <1>6, FS_CardinalityType
  <2> QED BY <1>1, <1>2, <1>6, <1>7, <2>1, <2>2
<1>9. Held \subseteq CellsOf(slots)
  BY DEF WorkspaceIInv, UsersHaveSlots, Held, CellsOf
<1> QED BY <1>8, <1>9 DEF Unused

\* What is evicted (Evict) was among the candidates, the idle slots.
LEMMA EvictFacts ==
  ASSUME NEW list
  PROVE  Evict(list) \subseteq list /\ \A s \in list : ~IsIdle(s) => s \in Evict(list)
BY DEF Evict, Without

\* A session asks, builds, shares or lets go: the slots stay as they are.
LEMMA ClientKeeps ==
  ASSUME WorkspaceIInv, NEW c \in Client,
         \/ \E path \in Directory : RequestOrchestrator(c, path)
         \/ BuildBegins(c) \/ BuildEnds(c) \/ Share(c) \/ LetGo(c)
  PROVE  WorkspaceIInv'
<1>1. 1 \in Cell
  <2>1. Cardinality(Directory) \in Nat /\ Cardinality(Client) \in Nat /\ Cardinality(Client) # 0
    BY FS_CardinalityType, FS_EmptySet, WorkspaceAssumption
  <2> QED BY <2>1 DEF Cell
<1>2. /\ UNCHANGED slots
      /\ built' \subseteq built \cup {client[c].cell}
      /\ c \notin Users => built' \subseteq built
      /\ clock' \in 1..MaxClock
  BY WorkspaceAssumption DEF RequestOrchestrator, BuildBegins, BuildEnds, Share, LetGo, Users,
     WorkspaceIInv, WorkspaceTypeOK
<1>3. /\ client' \in [Client -> [pc : {"idle", "asking", "waiting", "building", "holding"},
                                path : Directory, cell : Cell, now : 0..MaxClock]]
      /\ \A d \in Client \ {c} : client'[d] = client[d]
      /\ c \in Users' => c \in Users /\ client'[c].path = client[c].path
                                     /\ client'[c].cell = client[c].cell
  BY <1>1, WorkspaceAssumption DEF RequestOrchestrator, BuildBegins, BuildEnds, Share, LetGo,
     Users, WorkspaceIInv, WorkspaceTypeOK
<1>4. Users' \subseteq Users
  BY <1>3 DEF Users
<1>5. UsersHaveSlots'
  BY <1>2, <1>3, <1>4 DEF WorkspaceIInv, UsersHaveSlots, Users
<1>6. c \in Users => client[c].cell \in CellsOf(slots) /\ client[c].cell \in Cell
  BY DEF WorkspaceIInv, WorkspaceTypeOK, UsersHaveSlots, CellsOf
<1> QED BY <1>2, <1>3, <1>5, <1>6 DEF WorkspaceIInv, WorkspaceTypeOK, SlotsAreDistinct, CellsOf

\* slot: the directory's slot is found and marked, or a new one with a cell of its
\* own is made and idle ones make room for it.
LEMMA AskForKeeps ==
  ASSUME WorkspaceIInv, NEW c \in Client, AskFor(c)
  PROVE  WorkspaceIInv'
<1> DEFINE path == client[c].path
           found == {slot \in slots : slot.path = path}
           cell == IF found # {} THEN (CHOOSE slot \in found : TRUE).cell ELSE Unused
           new == [path |-> path, cell |-> cell, lastUsed |-> client[c].now]
           used == (slots \ found) \cup {new}
           kept == IF found # {} THEN used ELSE Evict(used)
<1>1. /\ client[c].pc = "asking" /\ slots' = kept
      /\ built' = built \cap (CellsOf(kept) \cup Held)
      /\ client' = [client EXCEPT ![c].pc = "waiting", ![c].cell = cell]
      /\ UNCHANGED clock
  BY DEF AskFor
<1>2. found # {} => \A s \in found : s.cell = cell
  BY DEF WorkspaceIInv, SlotsAreDistinct
<1>3. found = {} => cell = Unused /\ cell \in Cell /\ cell \notin CellsOf(slots) /\ cell \notin Held
  BY UnusedExists
<1>4. cell \in Cell /\ path \in Directory /\ client[c].now \in 0..MaxClock
  BY <1>2, <1>3 DEF WorkspaceIInv, WorkspaceTypeOK
<1> HIDE DEF cell
<1>5. /\ new \in [path : Directory, cell : Cell, lastUsed : 0..MaxClock]
      /\ new.path = path /\ new.cell = cell
  BY <1>4
<1> HIDE DEF new
<1>6. /\ kept \subseteq used /\ new \in kept
      /\ \A s \in slots : s.cell \in Held /\ s \notin found => s \in kept
  <2>1. CASE found # {}
    BY <2>1
  <2>2. CASE found = {}
    <3>1. ~IsIdle(new)
      BY <1>3, <1>5, <2>2 DEF IsIdle, WorkspaceIInv
    <3>2. \A s \in slots : s.cell \in Held => ~IsIdle(s)
      BY DEF IsIdle
    <3> QED BY <2>2, <3>1, <3>2, EvictFacts
  <2> QED BY <2>1, <2>2
<1> HIDE DEF kept
<1>7. SlotsAreDistinct'
  <2>1. \A s \in slots \ found : s.path # new.path /\ s.cell # new.cell
    <3>1. CASE found # {}
      BY <1>2, <1>5, <3>1 DEF WorkspaceIInv, SlotsAreDistinct
    <3>2. CASE found = {}
      BY <1>3, <1>5, <3>2 DEF CellsOf
    <3> QED BY <3>1, <3>2
  <2> QED BY <1>1, <1>6, <2>1 DEF WorkspaceIInv, SlotsAreDistinct
<1>8. /\ client' \in [Client -> [pc : {"idle", "asking", "waiting", "building", "holding"},
                                path : Directory, cell : Cell, now : 0..MaxClock]]
      /\ \A d \in Client \ {c} : client'[d] = client[d]
      /\ client'[c].path = path /\ client'[c].cell = cell
  BY <1>1, <1>4 DEF WorkspaceIInv, WorkspaceTypeOK
<1>9. \A d \in Users : \E s \in kept : s.path = client[d].path /\ s.cell = client[d].cell
  <2> SUFFICES ASSUME NEW d \in Users
               PROVE  \E s \in kept : s.path = client[d].path /\ s.cell = client[d].cell
    OBVIOUS
  <2>1. PICK s \in slots : s.path = client[d].path /\ s.cell = client[d].cell
    BY DEF WorkspaceIInv, UsersHaveSlots
  <2>2. s.cell \in Held
    BY <2>1 DEF Held
  <2>3. CASE s \in found
    BY <1>2, <1>5, <1>6, <2>1, <2>3
  <2>4. CASE s \notin found
    BY <1>6, <2>1, <2>2, <2>4
  <2> QED BY <2>3, <2>4
<1>10. UsersHaveSlots'
  <2> SUFFICES ASSUME NEW d \in Users'
               PROVE  \E s \in kept : s.path = client'[d].path /\ s.cell = client'[d].cell
    BY <1>1 DEF UsersHaveSlots
  <2>1. CASE d = c
    BY <1>5, <1>6, <1>8, <2>1
  <2>2. CASE d # c
    <3>1. d \in Users /\ client'[d] = client[d]
      BY <1>8, <2>2 DEF Users
    <3> QED BY <1>9, <3>1
  <2> QED BY <2>1, <2>2
<1>11. built' \subseteq CellsOf(slots')
  BY <1>1, <1>9 DEF Held, CellsOf
<1>12. WorkspaceTypeOK'
  BY <1>1, <1>5, <1>6, <1>8 DEF WorkspaceIInv, WorkspaceTypeOK
<1> QED BY <1>7, <1>10, <1>11, <1>12 DEF WorkspaceIInv

\* The inductive invariant of the slots and the sessions (WorkspaceSpec).
THEOREM WorkspaceInvariance == WorkspaceSpec => []WorkspaceIInv
<1>1. WorkspaceInit => WorkspaceIInv
  <2>1. 1 \in Cell
    <3>1. Cardinality(Directory) \in Nat /\ Cardinality(Client) \in Nat
          /\ Cardinality(Directory) # 0
      BY FS_CardinalityType, FS_EmptySet, WorkspaceAssumption
    <3> QED BY <3>1 DEF Cell
  <2> QED BY <2>1, WorkspaceAssumption DEF WorkspaceInit, WorkspaceIInv, WorkspaceTypeOK,
             SlotsAreDistinct, UsersHaveSlots, Users, CellsOf
<1>2. ASSUME WorkspaceIInv, [WorkspaceNext]_workspaceVars PROVE WorkspaceIInv'
  <2>1. CASE UNCHANGED workspaceVars
    BY <1>2, <2>1
       DEF workspaceVars, WorkspaceIInv, WorkspaceTypeOK, SlotsAreDistinct, UsersHaveSlots,
         Users, CellsOf
  <2> QED BY <1>2, <2>1, ClientKeeps, AskForKeeps DEF WorkspaceNext
<1> QED BY <1>1, <1>2, PTL DEF WorkspaceSpec

\* The variables of the workspaces keep their types (WorkspaceTypeOK): there is
\* always a cell for a new slot.
THEOREM WorkspaceTypeCorrect ==
  WorkspaceSpec => []WorkspaceTypeOK
<1>1. WorkspaceIInv => WorkspaceTypeOK
  BY DEF WorkspaceIInv
<1> QED BY <1>1, WorkspaceInvariance, PTL

\* The sessions that work in a directory share one orchestrator and one ownership
\* ledger (OneLedgerPerDirectory), however many directories come and go and
\* whichever request reaches the slots first: only a slot nobody refers to is
\* dropped, so a directory in use keeps its own.
THEOREM DirectoriesHaveOneLedger ==
  WorkspaceSpec => []OneLedgerPerDirectory
<1>1. WorkspaceIInv => OneLedgerPerDirectory
  <2> SUFFICES ASSUME WorkspaceIInv PROVE OneLedgerPerDirectory
    OBVIOUS
  <2> DEFINE uses == {<<client[c].path, client[c].cell>> : c \in Users}
                     \cup {<<slot.path, slot.cell>> : slot \in slots}
  <2>1. \A u \in uses : \E s \in slots : u = <<s.path, s.cell>>
    BY DEF WorkspaceIInv, UsersHaveSlots
  <2> HIDE DEF uses
  <2>2. ASSUME NEW u \in uses, NEW v \in uses PROVE u[1] = v[1] <=> u[2] = v[2]
    <3>1. PICK s \in slots : u = <<s.path, s.cell>>
      BY <2>1
    <3>2. PICK t \in slots : v = <<t.path, t.cell>>
      BY <2>1
    <3> QED BY <3>1, <3>2 DEF WorkspaceIInv, SlotsAreDistinct
  <2> QED BY <2>2 DEF OneLedgerPerDirectory, uses
<1> QED BY <1>1, WorkspaceInvariance, PTL

-----------------------------------------------------------------------------
(* The turns of a session.                                                 *)

Entry == [open : BOOLEAN, turns : Seq(Prompt), running : Prompt \cup {Nobody}]

Handler == [pc : {"idle", "asked", "launched", "registered", "finished", "recording",
                  "persisting", "answered", "lost"},
            stop : StopReasons \cup {"none"}, snapshot : Seq(Prompt)]

SessionTypes ==
  /\ session \in Entry /\ loading \in Entry
  /\ file \in [state : {"absent", "torn", "whole"}, turns : Seq(Prompt)]
  /\ prompt \in [Prompt -> Handler]
  /\ run \in [Prompt -> {"none", "alive", "aborting", "lost"} \cup RunEnded]
  /\ pump \in [Prompt -> {"none", "on", "done", "stopped"}]
  /\ starts \in 0..MaxServerStarts

\* Where a prompt is, and what it has to answer.
PromptsInStep ==
  \A p \in Prompt :
     /\ prompt[p].pc \in {"finished", "recording", "persisting"} => IsFinished(p)
     /\ prompt[p].pc \in {"recording", "persisting"} => prompt[p].stop \notin {"none", "Refusal"}
     /\ prompt[p].pc = "answered" => prompt[p].stop # "none"

\* A turn that may be shown: its run is over, it was not refused and its handler
\* is past recording it.
MayBeShown(p) ==
  /\ IsFinished(p) /\ prompt[p].stop # "Refusal"
  /\ prompt[p].pc \in {"persisting", "answered", "lost"}

\* Every list of turns there is: in memory, in the file, read by a load, and to be
\* written by a handler.
Lists == {session.turns, file.turns, loading.turns} \cup {prompt[p].snapshot : p \in Prompt}

\* The shape of a list of turns.
IsHistory(turns) == turns \in Seq(Prompt) /\ Len(turns) <= MaxHistory /\ IsInjective(turns)

ListsAreShown ==
  \A turns \in Lists : IsHistory(turns) /\ \A i \in DOMAIN turns : MayBeShown(turns[i])

AcpIInv == SessionTypes /\ PromptsInStep /\ ListsAreShown

\* The empty list.
LEMMA EmptyHistory ==
  IsHistory(<<>>) /\ DOMAIN <<>> = {}
BY SessionAssumption DEF IsHistory, IsInjective

\* A step that invents no list and takes no turn back keeps the lists as they
\* should be.
LEMMA ListsStay ==
  ASSUME AcpIInv, Lists' \subseteq Lists \cup {<<>>},
         \A p \in Prompt : MayBeShown(p) => MayBeShown(p)'
  PROVE  ListsAreShown'
<1> SUFFICES ASSUME NEW turns \in Lists'
             PROVE  IsHistory(turns) /\ \A i \in DOMAIN turns : MayBeShown(turns[i])'
  BY DEF ListsAreShown
<1>1. CASE turns = <<>>
  BY <1>1, EmptyHistory
<1>2. CASE turns \in Lists
  <2>1. IsHistory(turns) /\ \A i \in DOMAIN turns : MayBeShown(turns[i])
    BY <1>2 DEF AcpIInv, ListsAreShown
  <2>2. \A i \in DOMAIN turns : turns[i] \in Prompt
    BY <2>1 DEF IsHistory
  <2> QED BY <2>1, <2>2
<1> QED BY <1>1, <1>2

\* Remembering a turn that is not in the list (Remembered) keeps it a list of
\* turns, the new one its last.
LEMMA RememberedFacts ==
  ASSUME NEW turns, IsHistory(turns), NEW p \in Prompt,
         \A i \in DOMAIN turns : turns[i] # p
  PROVE  /\ IsHistory(Remembered(turns, p))
         /\ \A i \in DOMAIN Remembered(turns, p) :
              \/ Remembered(turns, p)[i] = p
              \/ \E j \in DOMAIN turns : Remembered(turns, p)[i] = turns[j]
<1> DEFINE all == Append(turns, p)
           n == Len(turns)
           m == Len(all) - (IF Len(all) > MaxHistory THEN MaxHistory ELSE Len(all)) + 1
           kept == SubSeq(all, m, Len(all))
<1>1. /\ turns \in Seq(Prompt) /\ n \in Nat /\ DOMAIN turns = 1..n /\ MaxHistory \in Nat
      /\ \A i, j \in 1..n : turns[i] = turns[j] => i = j
  BY SessionAssumption DEF IsHistory, IsInjective
<1>2. /\ all \in Seq(Prompt) /\ Len(all) = n + 1
      /\ \A i \in 1..n : all[i] = turns[i]
      /\ all[n + 1] = p
  BY <1>1, AppendProperties
<1>3. Remembered(turns, p) = kept
  BY DEF Remembered
<1> HIDE DEF all
<1>4. /\ m \in 1..n + 2 /\ (n + 1) - m + 1 <= MaxHistory
      /\ \A i \in m..n + 1 : i \in 1..n + 1
  <2>1. CASE n + 1 > MaxHistory
    <3>1. m = (n + 1) - MaxHistory + 1
      BY <1>2, <2>1
    <3> HIDE DEF m
    <3>2. m \in 1..n + 2 /\ (n + 1) - m + 1 <= MaxHistory
      BY <1>1, <2>1, <3>1
    <3> QED BY <1>1, <3>2
  <2>2. CASE ~(n + 1 > MaxHistory)
    <3>1. m = (n + 1) - (n + 1) + 1
      BY <1>2, <2>2
    <3> HIDE DEF m
    <3>2. m \in 1..n + 2 /\ (n + 1) - m + 1 <= MaxHistory
      BY <1>1, <2>2, <3>1
    <3> QED BY <1>1, <3>2
  <2> QED BY <2>1, <2>2
<1> HIDE DEF m
<1>5. \A i \in m..n + 1 : all[i] \in Prompt
  BY <1>1, <1>2, <1>4
<1>6. /\ kept \in Seq(Prompt) /\ Len(kept) = (n + 1) - m + 1
      /\ \A i \in 1..(n + 1) - m + 1 : kept[i] = all[m + i - 1]
  <2>1. /\ kept \in Seq(Prompt)
        /\ Len(kept) = IF m <= n + 1 THEN (n + 1) - m + 1 ELSE 0
        /\ \A i \in 1..(n + 1) - m + 1 : kept[i] = all[m + i - 1]
    BY <1>1, <1>2, <1>4, <1>5, SubSeqProperties
  <2> QED BY <1>1, <1>4, <2>1
<1> HIDE DEF kept
<1>7. \A i, j \in 1..n + 1 : all[i] = all[j] => i = j
  <2> SUFFICES ASSUME NEW i \in 1..n + 1, NEW j \in 1..n + 1, all[i] = all[j] PROVE i = j
    OBVIOUS
  <2>1. CASE i \in 1..n /\ j \in 1..n
    BY <1>1, <1>2, <2>1
  <2>2. CASE i \in 1..n /\ j = n + 1
    BY <1>1, <1>2, <2>2
  <2>3. CASE i = n + 1 /\ j \in 1..n
    BY <1>1, <1>2, <2>3
  <2> QED BY <1>1, <2>1, <2>2, <2>3
<1>8. \A i \in DOMAIN kept : m + i - 1 \in 1..n + 1 /\ kept[i] = all[m + i - 1]
  BY <1>1, <1>4, <1>6
<1>9. IsHistory(kept)
  <2>1. ASSUME NEW i \in DOMAIN kept, NEW j \in DOMAIN kept, kept[i] = kept[j] PROVE i = j
    <3>1. m + i - 1 = m + j - 1
      BY <1>7, <1>8, <2>1
    <3>2. i \in Int /\ j \in Int /\ m \in Int
      BY <1>1, <1>4, <1>6
    <3> QED BY <3>1, <3>2
  <2> QED BY <1>4, <1>6, <2>1 DEF IsHistory, IsInjective
<1>10. \A i \in DOMAIN kept : kept[i] = p \/ \E j \in DOMAIN turns : kept[i] = turns[j]
  <2> SUFFICES ASSUME NEW i \in DOMAIN kept
               PROVE  kept[i] = p \/ \E j \in DOMAIN turns : kept[i] = turns[j]
    OBVIOUS
  <2>1. CASE m + i - 1 = n + 1
    BY <1>2, <1>8, <2>1
  <2>2. CASE m + i - 1 \in 1..n
    BY <1>1, <1>2, <1>8, <2>2
  <2> QED BY <1>1, <1>8, <2>1, <2>2
<1> QED BY <1>3, <1>9, <1>10

\* A step of the session and its file alone: no prompt and no run moves.
LEMMA SessionKeeps ==
  ASSUME AcpIInv, NewSession \/ LoadReads \/ LoadInserts
  PROVE  AcpIInv'
<1>1. UNCHANGED <<prompt, run, pump, starts>>
  BY DEF NewSession, LoadReads, LoadInserts
<1>2. NoSession \in Entry /\ NoSession.turns = <<>>
  BY DEF NoSession, Entry
<1>3. [NoSession EXCEPT !.open = TRUE] \in Entry /\ [NoSession EXCEPT !.open = TRUE].turns = NoSession.turns
  BY <1>2 DEF Entry
<1>4. /\ [NoSession EXCEPT !.open = TRUE, !.turns = file.turns] \in Entry
      /\ [NoSession EXCEPT !.open = TRUE, !.turns = file.turns].turns = file.turns
  <2>1. file.turns \in Seq(Prompt)
    BY DEF AcpIInv, SessionTypes
  <2> QED BY <1>2, <2>1 DEF Entry
<1>5. /\ session' \in Entry /\ loading' \in Entry
      /\ session'.turns \in {session.turns, loading.turns, <<>>}
      /\ loading'.turns \in {loading.turns, file.turns, <<>>}
  BY <1>2, <1>3, <1>4 DEF NewSession, LoadReads, LoadInserts, AcpIInv, SessionTypes
<1>6. /\ file' \in [state : {"absent", "torn", "whole"}, turns : Seq(Prompt)]
      /\ file'.turns \in {file.turns, <<>>}
  <2>1. file' = file \/ file' = [state |-> "whole", turns |-> <<>>]
    BY DEF NewSession, LoadReads, LoadInserts
  <2>2. <<>> \in Seq(Prompt)
    OBVIOUS
  <2>3. CASE file' = file
    BY <2>3 DEF AcpIInv, SessionTypes
  <2>4. CASE file' = [state |-> "whole", turns |-> <<>>]
    BY <2>2, <2>4
  <2> QED BY <2>1, <2>3, <2>4
<1>7. Lists' \subseteq Lists \cup {<<>>}
  BY <1>1, <1>5, <1>6 DEF Lists
<1>8. \A p \in Prompt : MayBeShown(p) => MayBeShown(p)'
  BY <1>1 DEF MayBeShown, IsFinished
<1> QED BY <1>1, <1>5, <1>6, <1>7, <1>8, ListsStay DEF AcpIInv, SessionTypes, PromptsInStep,
           IsFinished

\* A handler that moves on to a place, or to its answer, before its turn may be
\* shown.
LEMMA HandlerMoves ==
  ASSUME AcpIInv, NEW p \in Prompt, NEW e \in Handler,
         prompt' = [prompt EXCEPT ![p] = e],
         prompt[p].pc \notin {"persisting", "answered", "lost"},
         e.snapshot = prompt[p].snapshot,
         session' \in Entry, session'.turns = session.turns,
         UNCHANGED <<file, loading, starts>>,
         run' \in [Prompt -> {"none", "alive", "aborting", "lost"} \cup RunEnded],
         pump' \in [Prompt -> {"none", "on", "done", "stopped"}],
         \A q \in Prompt : IsFinished(q) => IsFinished(q)' \/ q = p,
         e.pc \in {"finished", "recording", "persisting"} => IsFinished(p)',
         e.pc \in {"recording", "persisting"} => e.stop \notin {"none", "Refusal"},
         e.pc = "answered" => e.stop # "none"
  PROVE  AcpIInv'
<1>1. prompt \in [Prompt -> Handler] /\ starts' \in 0..MaxServerStarts
  BY DEF AcpIInv, SessionTypes
<1>2. /\ prompt' \in [Prompt -> Handler] /\ prompt'[p] = e
      /\ \A q \in Prompt \ {p} : prompt'[q] = prompt[q]
  BY <1>1
<1>3. Lists' \subseteq Lists
  BY <1>2 DEF Lists
<1>4. \A q \in Prompt : MayBeShown(q) => MayBeShown(q)'
  BY <1>2 DEF MayBeShown
<1>5. ListsAreShown'
  BY <1>3, <1>4, ListsStay
<1>6. PromptsInStep'
  BY <1>2 DEF AcpIInv, PromptsInStep
<1> QED BY <1>1, <1>2, <1>5, <1>6 DEF AcpIInv, SessionTypes

\* Steps and answers of a handler, as changes of its record.
LEMMA HandlerFacts ==
  ASSUME AcpIInv, NEW p \in Prompt
  PROVE  /\ \A pc \in {"asked", "launched", "registered", "finished", "answered"} :
              Step(p, pc) =>
                \E e \in Handler : /\ prompt' = [prompt EXCEPT ![p] = e] /\ e.pc = pc
                                   /\ e.stop = prompt[p].stop /\ e.snapshot = prompt[p].snapshot
         /\ \A stop \in StopReasons :
              Answer(p, stop) =>
                \E e \in Handler : /\ prompt' = [prompt EXCEPT ![p] = e] /\ e.pc = "answered"
                                   /\ e.stop = stop /\ e.snapshot = prompt[p].snapshot
<1>1. prompt \in [Prompt -> Handler] /\ prompt[p] \in Handler
  BY DEF AcpIInv, SessionTypes
<1>2. ASSUME NEW pc \in {"asked", "launched", "registered", "finished", "answered"}, Step(p, pc)
      PROVE  \E e \in Handler : /\ prompt' = [prompt EXCEPT ![p] = e] /\ e.pc = pc
                                /\ e.stop = prompt[p].stop /\ e.snapshot = prompt[p].snapshot
  <2>1. prompt' = [prompt EXCEPT ![p] = [prompt[p] EXCEPT !.pc = pc]]
    BY <1>1, <1>2 DEF Step
  <2>2. /\ [prompt[p] EXCEPT !.pc = pc] \in Handler
        /\ [prompt[p] EXCEPT !.pc = pc].pc = pc
        /\ [prompt[p] EXCEPT !.pc = pc].stop = prompt[p].stop
        /\ [prompt[p] EXCEPT !.pc = pc].snapshot = prompt[p].snapshot
    BY <1>1 DEF Handler
  <2> QED BY <2>1, <2>2
<1>3. ASSUME NEW stop \in StopReasons, Answer(p, stop)
      PROVE  \E e \in Handler : /\ prompt' = [prompt EXCEPT ![p] = e] /\ e.pc = "answered"
                                /\ e.stop = stop /\ e.snapshot = prompt[p].snapshot
  <2>1. prompt' = [prompt EXCEPT ![p] = [prompt[p] EXCEPT !.pc = "answered", !.stop = stop]]
    BY <1>1, <1>3 DEF Answer
  <2>2. /\ [prompt[p] EXCEPT !.pc = "answered", !.stop = stop] \in Handler
        /\ [prompt[p] EXCEPT !.pc = "answered", !.stop = stop].pc = "answered"
        /\ [prompt[p] EXCEPT !.pc = "answered", !.stop = stop].stop = stop
        /\ [prompt[p] EXCEPT !.pc = "answered", !.stop = stop].snapshot = prompt[p].snapshot
    BY <1>1 DEF Handler
  <2> QED BY <2>1, <2>2
<1> QED BY <1>2, <1>3

\* A prompt is asked, and refused its workspace or launched.
LEMMA AskKeeps ==
  ASSUME AcpIInv, NEW p \in Prompt,
         Ask(p) \/ WorkspaceUnavailable(p) \/ Launch(p)
  PROVE  AcpIInv'
<1>1. prompt[p].pc \in {"idle", "asked"}
  BY DEF Ask, WorkspaceUnavailable, Launch
<1>2. Answer(p, "EndTurn") \/ \E pc \in {"asked", "launched"} : Step(p, pc)
  BY DEF Ask, WorkspaceUnavailable, Launch
<1>3. PICK e \in Handler :
         /\ prompt' = [prompt EXCEPT ![p] = e] /\ e.pc \in {"asked", "launched", "answered"}
         /\ e.snapshot = prompt[p].snapshot
         /\ e.pc = "answered" => e.stop # "none"
  BY <1>2, HandlerFacts DEF StopReasons
<1>4. /\ run' \in [Prompt -> {"none", "alive", "aborting", "lost"} \cup RunEnded]
      /\ pump' \in [Prompt -> {"none", "on", "done", "stopped"}]
      /\ \A q \in Prompt \ {p} : run'[q] = run[q]
  BY DEF Ask, WorkspaceUnavailable, Launch, AcpIInv, SessionTypes
<1>5. UNCHANGED <<session, file, loading, starts>> /\ session \in Entry
  BY DEF Ask, WorkspaceUnavailable, Launch, AcpIInv, SessionTypes
<1> QED BY <1>1, <1>3, <1>4, <1>5, HandlerMoves DEF IsFinished

\* A run is registered as the session's running one, or refused and told to stop;
\* when it is over it is cleared.
LEMMA RegisterKeeps ==
  ASSUME AcpIInv, NEW p \in Prompt, Register(p) \/ Finish(p)
  PROVE  AcpIInv'
<1>1. /\ prompt[p].pc \in {"launched", "registered"}
      /\ session \in Entry /\ run \in [Prompt -> {"none", "alive", "aborting", "lost"} \cup RunEnded]
      /\ pump \in [Prompt -> {"none", "on", "done", "stopped"}]
  BY DEF Register, Finish, AcpIInv, SessionTypes
<1>2. UNCHANGED <<file, loading, starts>>
  BY DEF Register, Finish
<1>3. CASE Register(p) /\ Busy
  <2>1. PICK e \in Handler : /\ prompt' = [prompt EXCEPT ![p] = e] /\ e.pc = "answered"
                             /\ e.stop = "Refusal" /\ e.snapshot = prompt[p].snapshot
    BY <1>3, HandlerFacts DEF Register, StopReasons
  <2>2. /\ run' \in [Prompt -> {"none", "alive", "aborting", "lost"} \cup RunEnded]
        /\ pump' \in [Prompt -> {"none", "on", "done", "stopped"}]
        /\ \A q \in Prompt \ {p} : run'[q] = run[q]
        /\ UNCHANGED session
    BY <1>1, <1>3 DEF Register
  <2> QED BY <1>1, <1>2, <2>1, <2>2, HandlerMoves DEF IsFinished
<1>4. CASE Register(p) /\ ~Busy
  <2>1. PICK e \in Handler : /\ prompt' = [prompt EXCEPT ![p] = e] /\ e.pc = "registered"
                             /\ e.snapshot = prompt[p].snapshot
    BY <1>4, HandlerFacts DEF Register
  <2>2. UNCHANGED <<run, pump>> /\ session' = [session EXCEPT !.open = TRUE, !.running = p]
    BY <1>4 DEF Register
  <2>3. session' \in Entry /\ session'.turns = session.turns
    BY <1>1, <2>2 DEF Entry
  <2> QED BY <1>1, <1>2, <2>1, <2>2, <2>3, HandlerMoves DEF IsFinished
<1>5. CASE Finish(p)
  <2>1. PICK e \in Handler : /\ prompt' = [prompt EXCEPT ![p] = e] /\ e.pc = "finished"
                             /\ e.snapshot = prompt[p].snapshot
    BY <1>5, HandlerFacts DEF Finish
  <2>2. /\ UNCHANGED <<run, pump>> /\ session' = [session EXCEPT !.running = Nobody]
        /\ IsFinished(p)
    BY <1>5 DEF Finish
  <2>3. session' \in Entry /\ session'.turns = session.turns
    BY <1>1, <2>2 DEF Entry
  <2> QED BY <1>1, <1>2, <2>1, <2>2, <2>3, HandlerMoves DEF IsFinished
<1> QED BY <1>3, <1>4, <1>5

\* The pump is drained, and the answer is known: not a refusal.
LEMMA DrainKeeps ==
  ASSUME AcpIInv, NEW p \in Prompt, Drain(p)
  PROVE  AcpIInv'
<1>1. prompt[p].pc = "finished" /\ prompt[p] \in Handler /\ prompt \in [Prompt -> Handler]
  BY DEF Drain, AcpIInv, SessionTypes
<1>2. StopReasonFor(run[p]) \in StopReasons \ {"Refusal"}
  BY DEF StopReasonFor, StopReasons
<1>3. PICK e \in Handler : /\ prompt' = [prompt EXCEPT ![p] = e] /\ e.pc = "recording"
                           /\ e.stop = StopReasonFor(run[p]) /\ e.snapshot = prompt[p].snapshot
  <2> DEFINE stop == StopReasonFor(run[p])
  <2>1. prompt' = [prompt EXCEPT ![p] = [prompt[p] EXCEPT !.pc = "recording", !.stop = stop]]
    BY <1>1 DEF Drain
  <2>2. stop \in StopReasons
    BY <1>2
  <2> HIDE DEF stop
  <2>3. /\ [prompt[p] EXCEPT !.pc = "recording", !.stop = stop] \in Handler
        /\ [prompt[p] EXCEPT !.pc = "recording", !.stop = stop].pc = "recording"
        /\ [prompt[p] EXCEPT !.pc = "recording", !.stop = stop].stop = stop
        /\ [prompt[p] EXCEPT !.pc = "recording", !.stop = stop].snapshot = prompt[p].snapshot
    BY <1>1, <2>2 DEF Handler
  <2> QED BY <2>1, <2>3 DEF stop
<1>4. /\ UNCHANGED <<session, file, run, loading, starts>>
      /\ pump' \in [Prompt -> {"none", "on", "done", "stopped"}]
      /\ session \in Entry /\ run \in [Prompt -> {"none", "alive", "aborting", "lost"} \cup RunEnded]
      /\ IsFinished(p)
  BY <1>1 DEF Drain, AcpIInv, SessionTypes, PromptsInStep
<1>5. "none" \notin StopReasons
  BY DEF StopReasons
<1> QED BY <1>1, <1>2, <1>3, <1>4, <1>5, HandlerMoves DEF IsFinished

\* The turn is recorded: it was in no list, its run is over and it was not refused.
LEMMA RecordKeeps ==
  ASSUME AcpIInv, NEW p \in Prompt, Record(p)
  PROVE  AcpIInv'
<1> DEFINE turns == Remembered(session.turns, p)
<1>1. /\ prompt[p].pc = "recording" /\ prompt[p] \in Handler /\ prompt \in [Prompt -> Handler]
      /\ session \in Entry /\ session' = [session EXCEPT !.turns = turns]
      /\ prompt' = [prompt EXCEPT ![p] = [prompt[p] EXCEPT !.pc = "persisting", !.snapshot = turns]]
      /\ UNCHANGED <<file, run, pump, loading, starts>>
  BY DEF Record, AcpIInv, SessionTypes
<1>2. /\ IsHistory(session.turns)
      /\ \A i \in DOMAIN session.turns : session.turns[i] \in Prompt /\ MayBeShown(session.turns[i])
  <2>1. session.turns \in Lists
    BY DEF Lists
  <2> QED BY <2>1 DEF AcpIInv, ListsAreShown, IsHistory
<1>3. \A i \in DOMAIN session.turns : session.turns[i] # p
  BY <1>1, <1>2 DEF MayBeShown
<1>4. /\ IsHistory(turns)
      /\ \A i \in DOMAIN turns : turns[i] = p \/ \E j \in DOMAIN session.turns : turns[i] = session.turns[j]
  BY <1>2, <1>3, RememberedFacts
<1>5. turns \in Seq(Prompt)
  BY <1>4 DEF IsHistory
<1> HIDE DEF turns
<1>6. session' \in Entry /\ session'.turns = turns
  BY <1>1, <1>5 DEF Entry
<1>7. PICK e \in Handler : /\ prompt' = [prompt EXCEPT ![p] = e] /\ e.pc = "persisting"
                           /\ e.stop = prompt[p].stop /\ e.snapshot = turns
  <2>1. /\ [prompt[p] EXCEPT !.pc = "persisting", !.snapshot = turns] \in Handler
        /\ [prompt[p] EXCEPT !.pc = "persisting", !.snapshot = turns].pc = "persisting"
        /\ [prompt[p] EXCEPT !.pc = "persisting", !.snapshot = turns].stop = prompt[p].stop
        /\ [prompt[p] EXCEPT !.pc = "persisting", !.snapshot = turns].snapshot = turns
    BY <1>1, <1>5 DEF Handler
  <2> QED BY <1>1, <2>1
<1>8. /\ prompt' \in [Prompt -> Handler] /\ prompt'[p] = e
      /\ \A q \in Prompt \ {p} : prompt'[q] = prompt[q]
  BY <1>1, <1>7
<1>9. IsFinished(p) /\ prompt[p].stop \notin {"none", "Refusal"}
  BY <1>1 DEF AcpIInv, PromptsInStep
<1>10. \A q \in Prompt : MayBeShown(q) \/ q = p => MayBeShown(q)'
  BY <1>1, <1>7, <1>8, <1>9 DEF MayBeShown, IsFinished
<1>11. Lists' \subseteq Lists \cup {turns}
  BY <1>1, <1>6, <1>7, <1>8 DEF Lists
<1>12. ListsAreShown'
  <2> SUFFICES ASSUME NEW list \in Lists'
               PROVE  IsHistory(list) /\ \A i \in DOMAIN list : MayBeShown(list[i])'
    BY DEF ListsAreShown
  <2>1. CASE list = turns
    BY <1>2, <1>4, <1>10, <2>1
  <2>2. CASE list \in Lists
    <3>1. IsHistory(list) /\ \A i \in DOMAIN list : list[i] \in Prompt /\ MayBeShown(list[i])
      BY <2>2 DEF AcpIInv, ListsAreShown, IsHistory
    <3> QED BY <1>10, <3>1
  <2> QED BY <1>11, <2>1, <2>2
<1>13. PromptsInStep'
  BY <1>1, <1>7, <1>8, <1>9 DEF AcpIInv, PromptsInStep, IsFinished
<1> QED BY <1>1, <1>6, <1>8, <1>12, <1>13 DEF AcpIInv, SessionTypes

\* What is written is a list that was in memory, nothing, or a torn file without
\* turns.
LEMMA PersistKeeps ==
  ASSUME AcpIInv, NEW p \in Prompt, SaveSession(p)
  PROVE  AcpIInv'
<1>1. /\ prompt[p].pc = "persisting" /\ prompt[p] \in Handler /\ prompt \in [Prompt -> Handler]
      /\ UNCHANGED <<session, run, pump, loading, starts>>
  BY DEF SaveSession, AcpIInv, SessionTypes
<1>2. PICK e \in Handler : /\ prompt' = [prompt EXCEPT ![p] = e] /\ e.pc = "answered"
                           /\ e.stop = prompt[p].stop /\ e.snapshot = prompt[p].snapshot
  BY HandlerFacts DEF SaveSession
<1>3. /\ prompt' \in [Prompt -> Handler] /\ prompt'[p] = e
      /\ \A q \in Prompt \ {p} : prompt'[q] = prompt[q]
  BY <1>1, <1>2
<1>4. /\ file' \in [state : {"absent", "torn", "whole"}, turns : Seq(Prompt)]
      /\ file'.turns \in {file.turns, prompt[p].snapshot, <<>>}
  <2>1. \/ file' = [state |-> "whole", turns |-> prompt[p].snapshot]
        \/ file' = file
        \/ file' = [state |-> "torn", turns |-> <<>>]
    BY DEF SaveSession
  <2>2. <<>> \in Seq(Prompt) /\ prompt[p].snapshot \in Seq(Prompt)
    BY <1>1 DEF Handler
  <2>3. CASE file' = file
    BY <2>3 DEF AcpIInv, SessionTypes
  <2>4. CASE file' = [state |-> "whole", turns |-> prompt[p].snapshot]
    BY <2>2, <2>4
  <2>5. CASE file' = [state |-> "torn", turns |-> <<>>]
    BY <2>2, <2>5
  <2> QED BY <2>1, <2>3, <2>4, <2>5
<1>5. prompt[p].stop \notin {"none", "Refusal"}
  BY <1>1 DEF AcpIInv, PromptsInStep
<1>6. Lists' \subseteq Lists \cup {<<>>}
  BY <1>1, <1>2, <1>3, <1>4 DEF Lists
<1>7. \A q \in Prompt : MayBeShown(q) => MayBeShown(q)'
  BY <1>1, <1>2, <1>3 DEF MayBeShown, IsFinished
<1>8. ListsAreShown'
  BY <1>6, <1>7, ListsStay
<1>9. PromptsInStep'
  BY <1>1, <1>2, <1>3, <1>5 DEF AcpIInv, PromptsInStep, IsFinished
<1> QED BY <1>1, <1>3, <1>4, <1>8, <1>9 DEF AcpIInv, SessionTypes

\* A run ends or is told to stop, its pump ends: no run that is over is touched.
LEMMA PromptRunKeeps ==
  ASSUME AcpIInv,
         CancelPrompt \/ \E p \in Prompt : OrchestratorEnds(p) \/ PumpEnds(p)
  PROVE  AcpIInv'
<1>1. /\ run \in [Prompt -> {"none", "alive", "aborting", "lost"} \cup RunEnded]
      /\ pump \in [Prompt -> {"none", "on", "done", "stopped"}]
      /\ session.running \in Prompt \cup {Nobody}
  BY DEF AcpIInv, SessionTypes, Entry
<1>2. UNCHANGED <<session, file, prompt, loading, starts>>
  BY DEF CancelPrompt, OrchestratorEnds, PumpEnds
<1> DEFINE Kept ==
      /\ run' \in [Prompt -> {"none", "alive", "aborting", "lost"} \cup RunEnded]
      /\ pump' \in [Prompt -> {"none", "on", "done", "stopped"}]
      /\ \A q \in Prompt : IsFinished(q) => IsFinished(q)'
<1>3. Kept
  <2>1. CASE CancelPrompt
    BY <1>1, <2>1 DEF CancelPrompt, Busy, IsFinished
  <2>2. ASSUME NEW p \in Prompt, OrchestratorEnds(p)
        PROVE  Kept
    <3>1. PICK how \in RunEnded : run' = [run EXCEPT ![p] = how]
      BY <2>2 DEF OrchestratorEnds
    <3> QED BY <1>1, <2>2, <3>1 DEF OrchestratorEnds, IsFinished
  <2>3. ASSUME NEW p \in Prompt, PumpEnds(p)
        PROVE  Kept
    BY <1>1, <2>3 DEF PumpEnds, IsFinished
  <2> QED BY <2>1, <2>2, <2>3
<1>4. Lists' \subseteq Lists \cup {<<>>}
  BY <1>2 DEF Lists
<1>5. \A q \in Prompt : MayBeShown(q) => MayBeShown(q)'
  BY <1>2, <1>3 DEF MayBeShown
<1>6. ListsAreShown'
  BY <1>4, <1>5, ListsStay
<1>7. PromptsInStep'
  BY <1>2, <1>3 DEF AcpIInv, PromptsInStep
<1> QED BY <1>2, <1>3, <1>6, <1>7 DEF AcpIInv, SessionTypes

\* A restart keeps the file and what was answered; a handler that was underway is
\* lost, and what it had recorded was recorded of a finished run.
LEMMA ServerRestartKeeps ==
  ASSUME AcpIInv, ServerRestart
  PROVE  AcpIInv'
<1>1. /\ run \in [Prompt -> {"none", "alive", "aborting", "lost"} \cup RunEnded]
      /\ pump \in [Prompt -> {"none", "on", "done", "stopped"}]
      /\ prompt \in [Prompt -> Handler] /\ starts \in 0..MaxServerStarts
  BY DEF AcpIInv, SessionTypes
<1>2. UNCHANGED file /\ session' = NoSession /\ loading' = NoSession
  BY DEF ServerRestart
<1>3. NoSession \in Entry /\ NoSession.turns = <<>>
  BY DEF NoSession, Entry
<1>4. /\ run' \in [Prompt -> {"none", "alive", "aborting", "lost"} \cup RunEnded]
      /\ pump' \in [Prompt -> {"none", "on", "done", "stopped"}]
      /\ \A q \in Prompt : IsFinished(q) => IsFinished(q)'
  BY <1>1 DEF ServerRestart, IsFinished, RunEnded
<1>5. \A q \in Prompt : /\ prompt'[q] \in Handler
                        /\ prompt'[q].stop = prompt[q].stop
                        /\ prompt'[q].snapshot = prompt[q].snapshot
                        /\ IF prompt[q].pc \in {"idle", "answered"}
                           THEN prompt'[q].pc = prompt[q].pc
                           ELSE prompt'[q].pc = "lost"
  <2> SUFFICES ASSUME NEW q \in Prompt
               PROVE  /\ prompt'[q] \in Handler
                      /\ prompt'[q].stop = prompt[q].stop
                      /\ prompt'[q].snapshot = prompt[q].snapshot
                      /\ IF prompt[q].pc \in {"idle", "answered"}
                         THEN prompt'[q].pc = prompt[q].pc
                         ELSE prompt'[q].pc = "lost"
    OBVIOUS
  <2>1. CASE prompt[q].pc \in {"idle", "answered"}
    BY <1>1, <2>1 DEF ServerRestart
  <2>2. CASE prompt[q].pc \notin {"idle", "answered"}
    <3>1. prompt'[q] = [prompt[q] EXCEPT !.pc = "lost"] /\ prompt[q] \in Handler
      BY <1>1, <2>2 DEF ServerRestart
    <3> QED BY <2>2, <3>1 DEF Handler
  <2> QED BY <2>1, <2>2
<1>6. prompt' \in [Prompt -> Handler]
  BY <1>1, <1>5 DEF ServerRestart
<1>7. starts' \in 0..MaxServerStarts
  BY <1>1, SessionAssumption DEF ServerRestart
<1>8. Lists' \subseteq Lists \cup {<<>>}
  BY <1>2, <1>3, <1>5 DEF Lists
<1>9. \A q \in Prompt : MayBeShown(q) => MayBeShown(q)'
  BY <1>4, <1>5 DEF MayBeShown
<1>10. ListsAreShown'
  BY <1>8, <1>9, ListsStay
<1>11. PromptsInStep'
  BY <1>4, <1>5 DEF AcpIInv, PromptsInStep
<1> QED BY <1>2, <1>3, <1>4, <1>6, <1>7, <1>10, <1>11 DEF AcpIInv, SessionTypes

\* Before the first prompt there is no list but the empty one.
LEMMA AcpInitIInv ==
  ASSUME AcpInit
  PROVE  AcpIInv
<1>1. NoSession \in Entry /\ NoSession.turns = <<>> /\ <<>> \in Seq(Prompt)
  BY DEF NoSession, Entry
<1>2. /\ prompt \in [Prompt -> Handler]
      /\ \A p \in Prompt : prompt[p].pc = "idle" /\ prompt[p].snapshot = <<>>
  <2>1. [pc |-> "idle", stop |-> "none", snapshot |-> <<>>] \in Handler
    BY DEF Handler
  <2> QED BY <2>1 DEF AcpInit
<1>3. file \in [state : {"absent", "torn", "whole"}, turns : Seq(Prompt)] /\ file.turns = <<>>
  BY <1>1 DEF AcpInit
<1>4. starts \in 0..MaxServerStarts
  BY SessionAssumption DEF AcpInit
<1>5. SessionTypes
  BY <1>1, <1>2, <1>3, <1>4 DEF AcpInit, SessionTypes
<1>6. PromptsInStep
  BY <1>2 DEF PromptsInStep
<1>7. Lists \subseteq {<<>>}
  BY <1>1, <1>2, <1>3 DEF AcpInit, Lists
<1>8. ListsAreShown
  BY <1>7, EmptyHistory DEF ListsAreShown
<1> QED BY <1>5, <1>6, <1>8 DEF AcpIInv

\* Every step of the session, its handlers, its runs and the server keeps it.
LEMMA AcpNextIInv ==
  ASSUME AcpIInv, [AcpNext]_acpVars
  PROVE  AcpIInv'
<1>1. CASE NewSession \/ LoadReads \/ LoadInserts
  BY <1>1, SessionKeeps
<1>2. CASE ServerRestart
  BY <1>2, ServerRestartKeeps
<1>3. CASE CancelPrompt \/ \E p \in Prompt : OrchestratorEnds(p) \/ PumpEnds(p)
  BY <1>3, PromptRunKeeps
<1>4. ASSUME NEW p \in Prompt, Ask(p) \/ PromptStep(p)
      PROVE  AcpIInv'
  BY <1>4, AskKeeps, RegisterKeeps, DrainKeeps, RecordKeeps, PersistKeeps DEF PromptStep
<1>5. CASE UNCHANGED acpVars
  BY <1>5 DEF acpVars, AcpIInv, SessionTypes, PromptsInStep, ListsAreShown, Lists, MayBeShown,
     IsFinished
<1> QED BY <1>1, <1>2, <1>3, <1>4, <1>5 DEF AcpNext

\* The invariant of the ACP server's session: every list of turns, in memory, in
\* the file, in a load underway and in a handler about to write, holds turns of
\* finished and admitted prompts only, each once.
THEOREM AcpInvariance ==
  AcpSpec => []AcpIInv
<1>1. AcpInit => AcpIInv
  BY AcpInitIInv
<1>2. AcpIInv /\ [AcpNext]_acpVars => AcpIInv'
  BY AcpNextIInv
<1> QED BY <1>1, <1>2, PTL DEF AcpSpec

\* The session's state has its type: no history grows past MaxHistory, and no
\* prompt is answered without a reason (session.rs, lib.rs).
THEOREM AcpTypeCorrect ==
  AcpSpec => []AcpTypeOK
<1>1. AcpIInv => AcpTypeOK
  <2> SUFFICES ASSUME AcpIInv PROVE AcpTypeOK
    OBVIOUS
  <2>1. Len(session.turns) <= MaxHistory /\ Len(file.turns) <= MaxHistory
    BY DEF AcpIInv, ListsAreShown, Lists, IsHistory
  <2>2. session.open \in BOOLEAN /\ session.running \in Prompt \cup {Nobody}
    BY DEF AcpIInv, SessionTypes, Entry
  <2>3. file.state \in {"absent", "torn", "whole"} /\ starts \in 0..MaxServerStarts
    BY DEF AcpIInv, SessionTypes
  <2>4. ASSUME NEW p \in Prompt
        PROVE  /\ prompt[p].pc \in {"idle", "asked", "launched", "registered", "finished", "recording",
                                    "persisting", "answered", "lost"}
               /\ prompt[p].stop \in StopReasons \cup {"none"}
               /\ prompt[p].pc = "answered" => prompt[p].stop # "none"
               /\ run[p] \in {"none", "alive", "aborting", "lost"} \cup RunEnded
               /\ pump[p] \in {"none", "on", "done", "stopped"}
    <3>1. prompt[p] \in Handler
      BY DEF AcpIInv, SessionTypes
    <3>2. prompt[p].pc = "answered" => prompt[p].stop # "none"
      BY DEF AcpIInv, PromptsInStep
    <3>3. /\ run[p] \in {"none", "alive", "aborting", "lost"} \cup RunEnded
          /\ pump[p] \in {"none", "on", "done", "stopped"}
      BY DEF AcpIInv, SessionTypes
    <3> QED BY <3>1, <3>2, <3>3 DEF Handler
  <2> QED BY <2>1, <2>2, <2>3, <2>4 DEF AcpTypeOK
<1> QED BY <1>1, AcpInvariance, PTL

\* A client is shown only turns that finished, each once, whatever was loaded,
\* recorded, written, torn or lost to a restart, for any number of prompts
\* (handle_prompt, record, persist and load of the server's sessions).
THEOREM ClientsSeeFinishedTurns ==
  AcpSpec => []TurnsAreFinished
<1>1. AcpIInv => TurnsAreFinished
  <2> SUFFICES ASSUME AcpIInv, NEW turns \in {session.turns, file.turns, loading.turns}
               PROVE  /\ IsInjective(turns)
                      /\ \A i \in DOMAIN turns : IsFinished(turns[i]) /\ prompt[turns[i]].stop # "Refusal"
    BY DEF TurnsAreFinished
  <2>1. turns \in Lists
    BY DEF Lists
  <2> QED BY <2>1 DEF AcpIInv, ListsAreShown, IsHistory, MayBeShown
<1> QED BY <1>1, AcpInvariance, PTL

=============================================================================
