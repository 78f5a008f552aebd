------------------------------ MODULE A2ATable ------------------------------
(***************************************************************************)
(* The table of an A2A server's tasks (TaskMap in server.rs): eviction and *)
(* listing, as operators on the retained tasks, oldest first.              *)
(***************************************************************************)
EXTENDS Naturals, Sequences, FiniteSets, SequencesExt

\* The retained tasks after the oldest settled one made room for one more. With
\* at most limit tasks one is enough; with none settled nothing goes.
MakeRoom(kept, settled, limit) ==
  LET old == {i \in DOMAIN kept : kept[i] \in settled}
  IN  IF Len(kept) < limit \/ old = {} THEN kept
      ELSE RemoveAt(kept, CHOOSE i \in old : \A j \in old : i <= j)

\* The matching tasks listed before a retained one, oldest first.
Older(kept, matching, t) ==
  {u \in matching : \E i, j \in DOMAIN kept : i < j /\ kept[i] = u /\ kept[j] = t}

\* The matching tasks listed before a retained one: the listing is newest first.
Newer(kept, matching, t) ==
  {u \in matching : \E i, j \in DOMAIN kept : i < j /\ kept[i] = t /\ kept[j] = u}

\* The tasks listed, those that match the request's filters, and the page of them
\* that starts at an offset.
Listed(kept, matching) == matching \cap ToSet(kept)

Page(kept, matching, offset, size) ==
  {t \in Listed(kept, matching) :
     /\ offset <= Cardinality(Newer(kept, matching, t))
     /\ Cardinality(Newer(kept, matching, t)) < offset + size}

=============================================================================
