------------------------------ MODULE Records ------------------------------
(***************************************************************************)
(* What a session leaves for later ones: attempts and their totals in the  *)
(* database (RoutingMemory), pages in long-term memory (LongTermMemory).   *)
(* The two are written through different ports and read independently.     *)
(***************************************************************************)
EXTENDS RoutingMemory, LongTermMemory

RecordsSpec == MemorySpec /\ NotesSpec

\* What is recorded agrees with what happened: the routing history with the
\* attempts it summarizes (store.rs), the pages of long-term memory with what agents
\* did with the tasks they are about (remember_success, publish_handoff).
RecordsAreTrue == HistoryAgrees /\ NotesAreTrue
=============================================================================
