-------------------------- MODULE Ownership_proofs --------------------------
(***************************************************************************)
(* Proofs about the ownership ledger, for every set of tasks, every        *)
(* workspace and every set of requests.                                    *)
(***************************************************************************)
EXTENDS Ownership, TLAPS

-----------------------------------------------------------------------------
(* Facts about paths.                                                      *)

\* Two paths that are both above one file (or are it) lie on one branch.
LEMMA CommonDescendant ==
  ASSUME NEW S, NEW p \in Seq(S), NEW q \in Seq(S), NEW f \in Seq(S),
         StartsWith(f, p), StartsWith(f, q)
  PROVE  StartsWith(p, q) \/ StartsWith(q, p)
<1>1. Len(p) \in Nat /\ Len(q) \in Nat
  OBVIOUS
<1>2. CASE Len(q) <= Len(p)
  BY <1>1, <1>2 DEF StartsWith
<1>3. CASE Len(p) <= Len(q)
  BY <1>1, <1>3 DEF StartsWith
<1> QED BY <1>1, <1>2, <1>3

\* A path starts with itself: an equal path always counts as an overlap.
LEMMA OverlapReflexive ==
  ASSUME NEW S, NEW p \in Seq(S)
  PROVE  Overlaps(p, p)
BY DEF Overlaps, StartsWith

\* Overlap does not depend on which of the two paths was claimed first.
LEMMA OverlapSymmetric ==
  ASSUME NEW p, NEW q, Overlaps(p, q)
  PROVE  Overlaps(q, p)
BY DEF Overlaps

\* Component sequences, the root included.
Component == Name \cup {"."}

\* Normalizing a spelling gives a path.
LEMMA NormalizeType ==
  ASSUME NEW raw \in Spellings(Name)
  PROVE  Normalize(raw) \in Seq(Component)
<1>1. raw.at \in Seq(Name)
  BY DEF Spellings
<1>2. raw.at \in Seq(Component)
  BY <1>1 DEF Component
<1>3. <<".">> \in Seq(Component)
  BY DEF Component
<1> QED BY <1>2, <1>3 DEF Normalize, Root

\* What a request is predicted to write are spellings.
LEMMA PredictedType ==
  ASSUME NEW r \in Request, NEW raw \in Predicted(r)
  PROVE  raw \in Spellings(Name)
<1>1. \A x \in r.names \cup r.outputs : x \in Spellings(Name)
  BY RequestAssumption
<1>2. ASSUME NEW x \in r.names, NEW y \in Resolve(Index, x)
      PROVE  y \in Spellings(Name)
  <2>1. CASE y = x
    BY <1>1, <2>1
  <2>2. CASE \E f \in Index : y = [dot |-> FALSE, at |-> f]
    BY <2>2, IndexAssumption DEF Spellings
  <2> QED BY <2>1, <2>2 DEF Resolve, EndingWith
<1>3. [dot |-> TRUE, at |-> <<>>] \in Spellings(Name)
  BY DEF Spellings
<1> QED BY <1>1, <1>2, <1>3 DEF Predicted, PredictWrites

\* A claimable path is a sequence of components.
LEMMA ClaimableType ==
  ASSUME NEW p \in ClaimablePath
  PROVE  p \in Seq(Component)
BY NormalizeType, PredictedType DEF ClaimablePath

\* Claims that cover one file overlap.
LEMMA CoveringPathsOverlap ==
  ASSUME NEW p \in ClaimablePath, NEW q \in ClaimablePath, NEW f \in Index,
         Covers(p, f), Covers(q, f)
  PROVE  Overlaps(p, q)
<1>1. p \in Seq(Component) /\ q \in Seq(Component)
  BY ClaimableType
<1>2. f \in Seq(Component)
  BY IndexAssumption DEF Component
<1> QED BY <1>1, <1>2, CommonDescendant DEF Covers, Overlaps

\* The heart of write prediction: a request that means the file f, however it
\* spells it, predicts a path that covers f.
LEMMA PredictionCovers ==
  ASSUME NEW r \in Request, NEW f \in Index,
         \/ r.names = {}
         \/ \E raw \in r.names : Denotes(raw, f)
         \/ \E raw \in r.outputs : StartsWith(f, raw.at)
  PROVE  \E raw \in Predicted(r) : Covers(Normalize(raw), f)
<1>1. CASE r.names = {}
  <2> DEFINE whole == [dot |-> TRUE, at |-> <<>>]
  <2>1. whole \in Predicted(r)
    BY <1>1 DEF Predicted, PredictWrites
  <2>2. Covers(Normalize(whole), f)
    BY DEF Normalize, Covers
  <2> QED BY <2>1, <2>2
<1>2. CASE r.names # {} /\ \E raw \in r.names : Denotes(raw, f)
  <2>1. PICK raw \in r.names : Denotes(raw, f)
    BY <1>2
  <2>2. raw \in Spellings(Name)
    BY RequestAssumption
  <2>3. Resolve(Index, raw) \subseteq Predicted(r)
    BY <1>2 DEF Predicted, PredictWrites
  <2>4. CASE StartsWith(f, raw.at)
    <3>1. Contains(Index, raw) \/ EndingWith(Index, raw) = {}
      BY <2>2, <2>4 DEF Contains, EndingWith, Spellings
    <3>2. raw \in Resolve(Index, raw)
      BY <3>1 DEF Resolve
    <3>3. Covers(Normalize(raw), f)
      BY <2>4 DEF Covers, Normalize
    <3> QED BY <2>3, <3>2, <3>3
  <2>5. CASE ~Contains(Index, raw) /\ f \in EndingWith(Index, raw)
    <3> DEFINE literal == [dot |-> FALSE, at |-> f]
    <3>1. literal \in Resolve(Index, raw)
      BY <2>5 DEF Resolve
    <3>2. Normalize(literal) = f
      BY IndexAssumption DEF Normalize
    <3>3. f \in Seq(Name)
      BY IndexAssumption
    <3>4. Covers(f, f)
      BY <3>3 DEF Covers, StartsWith
    <3> QED BY <2>3, <3>1, <3>2, <3>4
  <2> QED BY <2>1, <2>4, <2>5 DEF Denotes
<1>3. CASE r.names # {} /\ \E raw \in r.outputs : StartsWith(f, raw.at)
  <2>1. PICK raw \in r.outputs : StartsWith(f, raw.at)
    BY <1>3
  <2>2. raw \in Predicted(r)
    BY <1>3 DEF Predicted, PredictWrites
  <2>3. Covers(Normalize(raw), f)
    BY <2>1 DEF Covers, Normalize
  <2> QED BY <2>2, <2>3
<1> QED BY <1>1, <1>2, <1>3

-----------------------------------------------------------------------------
(* The inductive invariant.                                                *)

\* Rows of different holders never overlap, in either direction.
HoldersApart ==
  \A p, q \in DOMAIN claims : Overlaps(p, q) => claims[p] = claims[q]

\* Every predicted path of a granted request is a row of its task.
GrantedPathsHeld ==
  \A t \in Task : \A r \in granted[t] : \A raw \in Predicted(r) :
     /\ Normalize(raw) \in DOMAIN claims
     /\ claims[Normalize(raw)] = t

IInv == TypeOK /\ HoldersApart /\ GrantedPathsHeld

\* The empty ledger satisfies the invariant.
LEMMA InitIInv == Init => IInv
BY DEF Init, IInv, TypeOK, HoldersApart, GrantedPathsHeld

\* claim preserves the invariant: the conflict check looks at every row of
\* every other holder before a single row is written.
LEMMA ClaimIInv ==
  ASSUME IInv, NEW t \in Task, NEW r \in Request, Claim(t, r)
  PROVE  IInv'
<1> DEFINE new == {Normalize(raw) : raw \in Predicted(r)}
<1>1. /\ DOMAIN claims' = DOMAIN claims \cup new
      /\ \A p \in DOMAIN claims' : claims'[p] = IF p \in new THEN t ELSE claims[p]
  BY DEF Claim, Insert
<1>2. new \subseteq ClaimablePath
  BY DEF ClaimablePath
<1>3. \A p \in new, q \in DOMAIN claims : claims[q] # t => ~Overlaps(p, q)
  BY DEF Claim, Conflict
<1>4. \A p \in new : p \in DOMAIN claims => claims[p] = t
  BY <1>2, <1>3, ClaimableType, OverlapReflexive
<1>5. TypeOK'
  BY <1>1, <1>2 DEF IInv, TypeOK, Claim, Insert
<1>6. HoldersApart'
  <2> SUFFICES ASSUME NEW p \in DOMAIN claims', NEW q \in DOMAIN claims',
                      Overlaps(p, q)
               PROVE  claims'[p] = claims'[q]
    BY DEF HoldersApart
  <2>1. Overlaps(q, p)
    BY OverlapSymmetric
  <2>2. CASE p \in new
    BY <1>1, <1>3, <2>2
  <2>3. CASE q \in new
    BY <1>1, <1>3, <2>1, <2>3
  <2>4. CASE p \notin new /\ q \notin new
    BY <1>1, <2>4 DEF IInv, HoldersApart
  <2> QED BY <2>2, <2>3, <2>4
<1>7. GrantedPathsHeld'
  <2> SUFFICES ASSUME NEW u \in Task, NEW x \in granted'[u],
                      NEW raw \in Predicted(x)
               PROVE  /\ Normalize(raw) \in DOMAIN claims'
                      /\ claims'[Normalize(raw)] = u
    BY DEF GrantedPathsHeld
  <2>1. CASE u = t /\ x = r
    BY <1>1, <2>1
  <2>2. CASE x \in granted[u]
    BY <1>1, <1>4, <2>2 DEF IInv, GrantedPathsHeld
  <2> QED BY <2>1, <2>2 DEF Claim, IInv, TypeOK
<1> QED BY <1>5, <1>6, <1>7 DEF IInv

\* release preserves the invariant: only the releasing task's rows go.
LEMMA ReleaseIInv ==
  ASSUME IInv, NEW t \in Task, Release(t)
  PROVE  IInv'
<1>1. /\ DOMAIN claims' = {p \in DOMAIN claims : claims[p] # t}
      /\ \A p \in DOMAIN claims' : claims'[p] = claims[p]
  BY DEF Release, Retain, HeldBy
<1>2. TypeOK'
  BY <1>1 DEF IInv, TypeOK, Release, Retain
<1>3. HoldersApart'
  BY <1>1 DEF IInv, HoldersApart
<1>4. GrantedPathsHeld'
  <2> SUFFICES ASSUME NEW u \in Task, NEW x \in granted'[u],
                      NEW raw \in Predicted(x)
               PROVE  /\ Normalize(raw) \in DOMAIN claims'
                      /\ claims'[Normalize(raw)] = u
    BY DEF GrantedPathsHeld
  <2>1. u # t /\ x \in granted[u]
    BY DEF Release, IInv, TypeOK
  <2> QED BY <1>1, <2>1 DEF IInv, GrantedPathsHeld
<1> QED BY <1>2, <1>3, <1>4 DEF IInv

\* The invariant is inductive.
THEOREM LedgerInvariant == Spec => []IInv
<1>1. IInv /\ [Next]_vars => IInv'
  <2> SUFFICES ASSUME IInv, [Next]_vars PROVE IInv'
    OBVIOUS
  <2>1. CASE UNCHANGED vars
    BY <2>1 DEF vars, IInv, TypeOK, HoldersApart, GrantedPathsHeld
  <2>2. CASE Next
    BY <2>2, ClaimIInv, ReleaseIInv DEF Next
  <2> QED BY <2>1, <2>2
<1> QED BY InitIInv, <1>1, PTL DEF Spec

-----------------------------------------------------------------------------
(* The results.                                                            *)

\* Claims and grants are of tasks and of paths that normalising can give.
THEOREM TypeCorrect == Spec => []TypeOK
<1>1. IInv => TypeOK
  BY DEF IInv
<1> QED BY <1>1, LedgerInvariant, PTL

\* What a granted task may write, it holds a claim over (GrantsHold), because
\* prediction covers every spelling and no other task's insert or release can
\* take a row away.
THEOREM GrantsAreHeld == Spec => []GrantsHold
<1>1. IInv => GrantsHold
  <2> SUFFICES ASSUME IInv, NEW t \in Task, NEW f \in Index, MayWrite(t, f)
               PROVE  \E p \in HeldBy(claims, t) : Covers(p, f)
    BY DEF GrantsHold
  <2>1. PICK r \in granted[t] :
          \/ r.names = {}
          \/ \E raw \in r.names : Denotes(raw, f)
          \/ \E raw \in r.outputs : StartsWith(f, raw.at)
    BY DEF MayWrite
  <2>2. r \in Request
    BY DEF IInv, TypeOK
  <2>3. PICK raw \in Predicted(r) : Covers(Normalize(raw), f)
    BY <2>1, <2>2, PredictionCovers
  <2>4. Normalize(raw) \in HeldBy(claims, t)
    BY <2>1 DEF IInv, GrantedPathsHeld, HeldBy
  <2> QED BY <2>3, <2>4
<1> QED BY <1>1, LedgerInvariant, PTL

\* No file lies under the claims of two tasks (ExclusiveClaims).
THEOREM ClaimsAreExclusive == Spec => []ExclusiveClaims
<1>1. IInv => ExclusiveClaims
  BY CoveringPathsOverlap DEF IInv, TypeOK, HoldersApart, ExclusiveClaims
<1> QED BY <1>1, LedgerInvariant, PTL

\* Parallel writers never mean the same file (OneWriterPerFile): both would
\* hold a claim over it.
THEOREM OneWriterAtATime == Spec => []OneWriterPerFile
<1>1. ExclusiveClaims /\ GrantsHold => OneWriterPerFile
  BY DEF ExclusiveClaims, GrantsHold, OneWriterPerFile, HeldBy
<1> QED BY <1>1, GrantsAreHeld, ClaimsAreExclusive, PTL

=============================================================================
