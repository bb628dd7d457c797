---------------------------- MODULE StartupProofs ----------------------------
(***************************************************************************)
(* Machine-checked proofs about the start of a command: for every set of   *)
(* migrations, every graph document and every configuration, whatever is   *)
(* refused or killed on the way.                                           *)
(***************************************************************************)
EXTENDS Startup, SequencesExt, FiniteSetTheorems, WellFoundedInduction, TLAPS

(***************************************************************************)
(* Sequences and the sets of what they list.                               *)
(***************************************************************************)
LEMMA FrontAndLast ==
  ASSUME NEW S, NEW s \in Seq(S), s # <<>>
  PROVE  /\ Front(s) \in Seq(S) /\ Last(s) \in S
         /\ ToSet(s) = ToSet(Front(s)) \cup {Last(s)}
<1> DEFINE n == Len(s)
<1>1. n \in Nat \ {0} /\ DOMAIN s = 1..n OBVIOUS
<1>2. /\ Front(s) \in Seq(S) /\ DOMAIN Front(s) = 1..(n - 1)
      /\ \A i \in 1..(n - 1) : Front(s)[i] = s[i]
      /\ Last(s) = s[n] /\ Last(s) \in S
  BY DEF Front, Last
<1> HIDE DEF n
<1>3. 1..n = 1..(n - 1) \cup {n} BY <1>1
<1>4. ToSet(s) = {s[i] : i \in 1..(n - 1)} \cup {s[n]} BY <1>1, <1>3 DEF ToSet
<1>5. ToSet(Front(s)) = {s[i] : i \in 1..(n - 1)} BY <1>2 DEF ToSet
<1> QED BY <1>2, <1>4, <1>5

LEMMA Joined ==
  ASSUME NEW S, NEW s \in Seq(S), NEW t \in Seq(S)
  PROVE  s \o t \in Seq(S) /\ ToSet(s \o t) = ToSet(s) \cup ToSet(t)
<1> DEFINE m == Len(s) n == Len(t)
<1>1. /\ m \in Nat /\ n \in Nat /\ s \o t \in Seq(S)
      /\ DOMAIN s = 1..m /\ DOMAIN t = 1..n /\ DOMAIN (s \o t) = 1..(m + n)
      /\ \A i \in 1..m : (s \o t)[i] = s[i]
      /\ \A i \in 1..n : (s \o t)[i + m] = t[i]
  OBVIOUS
<1> HIDE DEF m, n
<1>2. ASSUME NEW x \in ToSet(s \o t) PROVE x \in ToSet(s) \cup ToSet(t)
  <2>1. PICK i \in 1..(m + n) : x = (s \o t)[i] BY <1>1 DEF ToSet
  <2>2. CASE i \in 1..m BY <1>1, <2>1, <2>2 DEF ToSet
  <2>3. CASE i \notin 1..m
    <3>1. i - m \in 1..n /\ (i - m) + m = i BY <1>1, <2>3
    <3> QED BY <1>1, <2>1, <3>1 DEF ToSet
  <2> QED BY <2>2, <2>3
<1>3. ToSet(s) \subseteq ToSet(s \o t)
  <2>1. \A i \in 1..m : i \in 1..(m + n) BY <1>1
  <2> QED BY <1>1, <2>1 DEF ToSet
<1>4. ToSet(t) \subseteq ToSet(s \o t)
  <2>1. \A i \in 1..n : i + m \in 1..(m + n) BY <1>1
  <2> QED BY <1>1, <2>1 DEF ToSet
<1> QED BY <1>1, <1>2, <1>3, <1>4

\* A listing of a finite set leaves nothing out.
LEMMA Listed ==
  ASSUME NEW S, IsFiniteSet(S), NEW f \in SetToSeqs(S)
  PROVE  f \in Seq(S) /\ ToSet(f) = S
<1> DEFINE n == Cardinality(S)
<1>1. n \in Nat BY FS_CardinalityType
<1>2. f \in [1..n -> S] /\ \A i, j \in 1..n : i # j => f[i] # f[j] BY DEF SetToSeqs
<1>3. IsFiniteSet(1..n) /\ Cardinality(1..n) = n BY <1>1, FS_Interval
<1>4. f \in Injection(1..n, S) BY <1>2 DEF Injection, IsInjective
<1>5. f \in Surjection(1..n, S) BY <1>3, <1>4, FS_Injection
<1> HIDE DEF n
<1>6. ToSet(f) = S BY <1>2, <1>5 DEF Surjection, ToSet
<1>7. f \in Seq(S) BY <1>1, <1>2
<1> QED BY <1>6, <1>7

(***************************************************************************)
(* The load of a graph.                                                    *)
(***************************************************************************)
\* The operators of the libraries are those GraphLoading uses.
LEMMA SameSets ==
  ASSUME NEW S
  PROVE  /\ Loading!IsFiniteSet(S) <=> IsFiniteSet(S)
         /\ Loading!Cardinality(S) = Cardinality(S)
         /\ Loading!SetToSeqs(S) = SetToSeqs(S)
<1>1. Loading!IsFiniteSet(S) <=> IsFiniteSet(S)
  BY DEF Loading!IsFiniteSet, IsFiniteSet
<1>2. Loading!Cardinality(S) = Cardinality(S)
  BY Zenon DEF Loading!Cardinality, Cardinality
<1>3. Loading!SetToSeqs(S) = SetToSeqs(S)
  BY <1>2, Zenon DEF Loading!SetToSeqs, SetToSeqs
<1> QED BY <1>1, <1>2, <1>3

LEMMA SameSequences ==
  ASSUME NEW s
  PROVE  /\ Loading!Front(s) = Front(s) /\ Loading!Last(s) = Last(s)
         /\ Loading!ToSet(s) = ToSet(s)
BY Zenon DEF Loading!Front, Front, Loading!Last, Last, Loading!ToSet, ToSet

\* What the edges lead to from a node that is reached is reached.
LEMMA ReachableIsClosed ==
  ASSUME Loading!TypeOK, NEW e \in Loading!Leads, e[1] \in Loading!Reachable
  PROVE  e[2] \in Loading!Reachable
<1>1. e[2] \in Names BY StartupAssumption DEF Loading!TypeOK, Loading!Leads
<1> QED BY <1>1 DEF Loading!Reachable

LEMMA EntryIsReachable ==
  ASSUME Loading!TypeOK
  PROVE  entry \in Loading!Reachable
BY StartupAssumption DEF Loading!TypeOK, Loading!Reachable

\* A set with the entry that follows the edges holds what is reachable.
LEMMA ReachableIsLeast ==
  ASSUME Loading!TypeOK, NEW S \in SUBSET Names, entry \in S,
         \A e \in Loading!Leads : e[1] \in S => e[2] \in S
  PROVE  Loading!Reachable \subseteq S
BY DEF Loading!Reachable

LEMMA ToPushIsFinite ==
  ASSUME Loading!TypeOK, NEW n
  PROVE  IsFiniteSet(Loading!ToPush(n)) /\ Loading!ToPush(n) \subseteq Names
<1> DEFINE out == {f \in edges : f.source = n}
           targets == {e.target : e \in out}
           target == [e \in out |-> e.target]
<1>1. IsFiniteSet(out) BY SameSets, FS_Subset DEF Loading!TypeOK
<1>2. target \in Surjection(out, targets) BY DEF Surjection
<1>3. IsFiniteSet(targets) BY <1>1, <1>2, FS_Surjection
<1>4. targets \subseteq Names BY StartupAssumption DEF Loading!TypeOK
<1>5. Loading!ToPush(n) \in SUBSET targets BY DEF Loading!ToPush
<1> QED BY <1>3, <1>4, <1>5, FS_Subset

\* The verdict rests on nothing but what was read and what was visited.
LEMMA ExactVerdict ==
  ASSUME Loading!TypeOK,
         entry \in seen, seen \subseteq Loading!Reachable,
         \A e \in Loading!Leads : e[1] \in seen => e[2] \in seen
  PROVE  Loading!WellFormed <=>
           /\ Loading!NodeProblems = {} /\ Loading!EdgeProblems = {}
           /\ Loading!Unreachable = {}
<1>1. Loading!Reachable = seen
  BY ReachableIsLeast DEF Loading!TypeOK
<1>2. Loading!Unreachable = {} <=> Loading!Ids \subseteq Loading!Reachable
  BY <1>1 DEF Loading!Unreachable
<1>3. Loading!NodeProblems = {} <=>
        /\ "" \notin Loading!Ids /\ nodes # {} /\ entry \in Loading!Ids
        /\ \A n \in nodes : n.legal /\ (n.needsHandler => n.handler)
  BY DEF Loading!NodeProblems, Loading!Problems
<1>4. Loading!EdgeProblems = {} <=>
        \A e \in edges : /\ e.source \in Loading!Ids /\ e.target \in Loading!Ids
                         /\ e.source # e.target
  BY DEF Loading!EdgeProblems, Loading!Problems
<1>5. (\A e \in Loading!Leads : e[1] \in Loading!Ids /\ e[2] \in Loading!Ids /\ e[1] # e[2]) <=>
        \A e \in edges : /\ e.source \in Loading!Ids /\ e.target \in Loading!Ids
                         /\ e.source # e.target
  <2>1. \A e \in edges : <<e.source, e.target>> \in Loading!Leads BY DEF Loading!Leads
  <2>2. \A l \in Loading!Leads : \E e \in edges : l[1] = e.source /\ l[2] = e.target
    BY DEF Loading!Leads
  <2>3. \A e \in edges : <<e.source, e.target>>[1] = e.source /\ <<e.source, e.target>>[2] = e.target
    OBVIOUS
  <2> QED BY <2>1, <2>2, <2>3
<1>6. entry \in Loading!Ids => nodes # {} BY DEF Loading!Ids
<1> QED BY <1>2, <1>3, <1>4, <1>5, <1>6 DEF Loading!WellFormed

\* The load of one document; Startup begins another when it has ended.
Loaded == Loading!LoadingInv /\ Loading!VerdictIsExact

LEMMA LoadingBegins ==
  ASSUME Loading!Init
  PROVE  Loaded
<1>1. Loading!TypeOK
  <2>1. IsFiniteSet(edges) /\ Cardinality(edges) = 0 BY FS_EmptySet DEF Loading!Init
  <2>2. frontier \in Seq(Names) BY DEF Loading!Init
  <2> QED BY <2>1, <2>2, SameSets, StartupAssumption DEF Loading!Init, Loading!TypeOK
<1> QED
  BY <1>1 DEF Loading!Init, Loaded, Loading!LoadingInv, Loading!ProblemsSoFar,
     Loading!WalkForgetsNothing, Loading!VerdictIsExact

LEMMA LoadingAsNewBegins ==
  ASSUME LoadingAsNew
  PROVE  Loaded'
<1>1. Loading!TypeOK'
  <2>1. IsFiniteSet(edges') /\ Cardinality(edges') = 0 BY FS_EmptySet DEF LoadingAsNew
  <2>2. frontier' \in Seq(Names) BY DEF LoadingAsNew
  <2> QED BY <2>1, <2>2, SameSets, StartupAssumption DEF LoadingAsNew, Loading!TypeOK
<1> QED
  BY <1>1 DEF LoadingAsNew, Loaded, Loading!LoadingInv, Loading!ProblemsSoFar,
     Loading!WalkForgetsNothing, Loading!VerdictIsExact

\* Reading: nodes and edges come in, nothing is judged.
LEMMA ReadingKeeps ==
  ASSUME Loaded,
         \/ \E raw \in RawNodes : Loading!ReadNode(raw)
         \/ Loading!EndNodes
         \/ \E raw \in RawEdges : Loading!ReadEdge(raw)
         \/ Loading!ReadMalformed
  PROVE  Loaded'
<1> USE DEF Loaded, Loading!LoadingInv
<1>1. CASE \E raw \in RawNodes : Loading!ReadNode(raw)
  <2>1. PICK raw \in RawNodes : Loading!ReadNode(raw) BY <1>1
  <2>2. Loading!TypeOK'
    BY <2>1 DEF Loading!TypeOK, Loading!ReadNode, Loading!Duplicate, Loading!Ids, Loading!Reject,
       Loading!Problems
  <2>3. (Loading!ProblemsSoFar /\ Loading!WalkForgetsNothing /\ Loading!VerdictIsExact)'
    BY <2>1 DEF Loading!ReadNode, Loading!Reject, Loading!ProblemsSoFar,
       Loading!WalkForgetsNothing, Loading!VerdictIsExact
  <2> QED BY <2>2, <2>3
<1>2. CASE Loading!EndNodes
  <2>1. Loading!TypeOK' BY <1>2 DEF Loading!TypeOK, Loading!EndNodes
  <2>2. (Loading!ProblemsSoFar /\ Loading!WalkForgetsNothing /\ Loading!VerdictIsExact)'
    BY <1>2 DEF Loading!EndNodes, Loading!ProblemsSoFar,
       Loading!WalkForgetsNothing, Loading!VerdictIsExact
  <2> QED BY <2>1, <2>2
<1>3. CASE \E raw \in RawEdges : Loading!ReadEdge(raw)
  <2>1. PICK raw \in RawEdges : Loading!ReadEdge(raw) BY <1>3
  <2>2. IsFiniteSet(edges')
    BY <2>1, SameSets, FS_AddElement DEF Loading!TypeOK, Loading!ReadEdge
  <2>3. Loading!TypeOK'
    BY <2>1, <2>2, SameSets DEF Loading!TypeOK, Loading!ReadEdge
  <2>4. (Loading!ProblemsSoFar /\ Loading!WalkForgetsNothing /\ Loading!VerdictIsExact)'
    BY <2>1 DEF Loading!ReadEdge, Loading!ProblemsSoFar,
       Loading!WalkForgetsNothing, Loading!VerdictIsExact
  <2> QED BY <2>3, <2>4
<1>4. CASE Loading!ReadMalformed
  <2>1. Loading!TypeOK'
    BY <1>4 DEF Loading!TypeOK, Loading!ReadMalformed, Loading!Reject, Loading!Problems
  <2>2. (Loading!ProblemsSoFar /\ Loading!WalkForgetsNothing /\ Loading!VerdictIsExact)'
    BY <1>4 DEF Loading!ReadMalformed, Loading!Reject, Loading!ProblemsSoFar,
       Loading!WalkForgetsNothing, Loading!VerdictIsExact
  <2> QED BY <2>1, <2>2
<1> QED BY <1>1, <1>2, <1>3, <1>4

LEMMA StartWalkKeeps ==
  ASSUME Loaded, Loading!StartWalk
  PROVE  Loaded'
<1> USE DEF Loaded, Loading!LoadingInv
<1>1. entry \in Names BY StartupAssumption DEF Loading!TypeOK
<1>2. frontier' = <<entry>> /\ ToSet(frontier') = {entry} /\ frontier' \in Seq(Names)
  BY <1>1 DEF Loading!StartWalk, ToSet
<1>3. Loading!TypeOK'
  BY <1>2 DEF Loading!StartWalk, Loading!TypeOK, Loading!NodeProblems, Loading!EdgeProblems
<1>4. Loading!ProblemsSoFar'
  BY DEF Loading!StartWalk, Loading!ProblemsSoFar, Loading!NodeProblems, Loading!EdgeProblems,
     Loading!Ids
<1>5. Loading!WalkForgetsNothing'
  <2>1. seen' = {} BY DEF Loading!StartWalk, Loading!ProblemsSoFar
  <2>2. entry' \in Loading!Reachable'
    BY <1>1 DEF Loading!StartWalk, Loading!Reachable
  <2> QED BY <1>2, <2>1, <2>2, SameSequences DEF Loading!WalkForgetsNothing, Loading!StartWalk
<1>6. Loading!VerdictIsExact' BY DEF Loading!StartWalk, Loading!VerdictIsExact
<1> QED BY <1>3, <1>4, <1>5, <1>6

LEMMA VisitKeeps ==
  ASSUME Loaded, Loading!Visit
  PROVE  Loaded'
<1> USE DEF Loaded, Loading!LoadingInv
<1> DEFINE current == Last(frontier)
           left == seen \cup ToSet(frontier)
<1>1. /\ loading = "walk" /\ frontier # <<>> /\ frontier \in Seq(Names) /\ seen \subseteq Names
      /\ Loading!TypeOK
  BY DEF Loading!Visit, Loading!TypeOK
<1>2. /\ Front(frontier) \in Seq(Names) /\ current \in Names
      /\ ToSet(frontier) = ToSet(Front(frontier)) \cup {current}
  BY <1>1, FrontAndLast
<1>3. /\ left \subseteq Loading!Reachable /\ entry \in left
      /\ \A e \in Loading!Leads : e[1] \in seen => e[2] \in left
  BY <1>1, SameSequences DEF Loading!WalkForgetsNothing
<1>4. UNCHANGED <<entry, nodes, edges, problems, loading>> BY DEF Loading!Visit
<1>5. /\ Loading!Reachable' = Loading!Reachable /\ Loading!Leads' = Loading!Leads
      /\ Loading!NodeProblems' = Loading!NodeProblems
      /\ Loading!EdgeProblems' = Loading!EdgeProblems
  BY <1>4 DEF Loading!Reachable, Loading!Leads, Loading!NodeProblems, Loading!EdgeProblems,
     Loading!Ids
<1>6. (Loading!ProblemsSoFar /\ Loading!VerdictIsExact)'
  BY <1>1, <1>4, <1>5 DEF Loading!ProblemsSoFar, Loading!VerdictIsExact
<1>7. /\ frontier' \in Seq(Names) /\ seen' \subseteq Names
      /\ seen' \cup ToSet(frontier') \subseteq Loading!Reachable
      /\ entry \in seen' \cup ToSet(frontier')
      /\ \A e \in Loading!Leads : e[1] \in seen' => e[2] \in seen' \cup ToSet(frontier')
  <2>1. CASE current \in seen
    <3>1. frontier' = Front(frontier) /\ seen' = seen
      BY <2>1, SameSequences DEF Loading!Visit
    <3>2. seen' \cup ToSet(frontier') = left BY <1>2, <2>1, <3>1
    <3> QED BY <1>1, <1>2, <1>3, <3>1, <3>2
  <2>2. CASE current \notin seen
    <3> DEFINE push == Loading!ToPush(current)
    <3>1. PICK pushed \in SetToSeqs(push) :
            seen' = seen \cup {current} /\ frontier' = Front(frontier) \o pushed
      BY <2>2, SameSequences, SameSets DEF Loading!Visit, Loading!Marked
    <3>2. IsFiniteSet(push) /\ push \subseteq Names BY <1>1, ToPushIsFinite
    <3>3. /\ \A e \in edges : e.source = current /\ e.target \notin seen \cup {current} => e.target \in push
          /\ \A m \in push : \E e \in edges : e.source = current /\ e.target = m
      BY DEF Loading!ToPush, Loading!Marked
    <3> HIDE DEF push
    <3>4. pushed \in Seq(push) /\ ToSet(pushed) = push BY <3>2, Listed
    <3>5. pushed \in Seq(Names) BY <3>2, <3>4
    <3>6. frontier' \in Seq(Names) /\ ToSet(frontier') = ToSet(Front(frontier)) \cup push
      BY <1>2, <3>1, <3>4, <3>5, Joined
    <3>7. seen' \cup ToSet(frontier') = left \cup push BY <1>2, <3>1, <3>6
    <3>8. \A e \in Loading!Leads : e[1] = current => e[2] \in left \cup push
      <4> SUFFICES ASSUME NEW e \in Loading!Leads, e[1] = current PROVE e[2] \in left \cup push
        OBVIOUS
      <4>1. PICK f \in edges : e[1] = f.source /\ e[2] = f.target BY DEF Loading!Leads
      <4>2. f.source = current BY <4>1
      <4>3. CASE f.target \in seen \cup {current} BY <1>2, <4>1, <4>3
      <4>4. CASE f.target \notin seen \cup {current} BY <3>3, <4>1, <4>2, <4>4
      <4> QED BY <4>3, <4>4
    <3>9. push \subseteq Loading!Reachable
      <4> SUFFICES ASSUME NEW m \in push PROVE m \in Loading!Reachable OBVIOUS
      <4>1. PICK f \in edges : f.source = current /\ f.target = m BY <3>3
      <4>2. <<f.source, f.target>> \in Loading!Leads BY DEF Loading!Leads
      <4>3. current \in Loading!Reachable BY <1>2, <1>3
      <4> QED BY <1>1, <4>1, <4>2, <4>3, ReachableIsClosed
    <3> QED BY <1>1, <1>2, <1>3, <3>1, <3>6, <3>7, <3>8, <3>9
  <2> QED BY <2>1, <2>2
<1>8. Loading!TypeOK' BY <1>1, <1>4, <1>7 DEF Loading!TypeOK
<1>9. Loading!WalkForgetsNothing'
  BY <1>4, <1>5, <1>7, SameSequences DEF Loading!WalkForgetsNothing
<1> QED BY <1>6, <1>8, <1>9

LEMMA ConcludeKeeps ==
  ASSUME Loaded, Loading!Conclude
  PROVE  Loaded'
<1> USE DEF Loaded, Loading!LoadingInv
<1>1. /\ loading = "walk" /\ frontier = <<>> /\ ToSet(frontier) = {}
      /\ UNCHANGED <<entry, nodes, edges, seen, frontier>>
      /\ loading' \in {"accepted", "rejected"} /\ (loading' = "accepted" <=> problems' = {})
      /\ problems' = problems \cup (IF Loading!Unreachable # {} THEN {"unreachable"} ELSE {})
  BY DEF Loading!Conclude, ToSet
<1>2. problems = Loading!NodeProblems \cup Loading!EdgeProblems
  BY <1>1 DEF Loading!ProblemsSoFar
<1>3. /\ seen \subseteq Loading!Reachable /\ entry \in seen
      /\ \A e \in Loading!Leads : e[1] \in seen => e[2] \in seen
  BY <1>1, SameSequences DEF Loading!WalkForgetsNothing
<1>4. problems' = {} <=> Loading!WellFormed BY <1>1, <1>2, <1>3, ExactVerdict
<1>5. Loading!WellFormed' <=> Loading!WellFormed
  BY <1>1 DEF Loading!WellFormed, Loading!Ids, Loading!Leads, Loading!Reachable
<1>6. Loading!VerdictIsExact' BY <1>1, <1>4, <1>5 DEF Loading!VerdictIsExact
<1>7. Loading!TypeOK' BY <1>1 DEF Loading!TypeOK, Loading!Problems
<1> QED BY <1>1, <1>6, <1>7 DEF Loading!ProblemsSoFar, Loading!WalkForgetsNothing

LEMMA LoadingKeeps ==
  ASSUME Loaded, Loading!Next
  PROVE  Loaded'
BY ReadingKeeps, StartWalkKeeps, VisitKeeps, ConcludeKeeps DEF Loading!Next

LEMMA LoadingStays ==
  ASSUME Loaded, UNCHANGED loadVars
  PROVE  Loaded'
<1>1. UNCHANGED <<entry, nodes, edges, seen, frontier, problems, loading>> BY DEF loadVars
<1>2. Loading!TypeOK' BY <1>1 DEF Loaded, Loading!LoadingInv, Loading!TypeOK
<1>3. Loading!ProblemsSoFar'
  BY <1>1 DEF Loaded, Loading!LoadingInv, Loading!ProblemsSoFar, Loading!NodeProblems,
     Loading!EdgeProblems, Loading!Ids
<1>4. Loading!WalkForgetsNothing'
  BY <1>1 DEF Loaded, Loading!LoadingInv, Loading!WalkForgetsNothing, Loading!Reachable,
     Loading!Leads
<1>5. Loading!VerdictIsExact'
  BY <1>1 DEF Loaded, Loading!VerdictIsExact, Loading!WellFormed, Loading!Reachable,
     Loading!Leads, Loading!Ids
<1> QED BY <1>2, <1>3, <1>4, <1>5 DEF Loaded, Loading!LoadingInv

(***************************************************************************)
(* The database.                                                           *)
(***************************************************************************)
LEMMA LeastOfNaturals ==
  ASSUME NEW S \in SUBSET Nat, S # {}
  PROVE  Min(S) \in S /\ \A y \in S : Min(S) <= y
<1> DEFINE R == {p \in Nat \X Nat : p[1] < p[2]}
<1>1. IsWellFoundedOn(R, Nat) BY NatLessThanWellFounded DEF OpToRel
<1>2. \A x, y \in Nat : x < y => <<x, y>> \in R OBVIOUS
<1> HIDE DEF R
<1>3. PICK x \in S : \A y \in S : ~(<<y, x>> \in R) BY <1>1, WFMin
<1>4. ASSUME NEW y \in S PROVE x <= y
  <2>1. x \in Nat /\ y \in Nat OBVIOUS
  <2>2. ~(y < x) BY <1>2, <1>3, <2>1
  <2> QED BY <2>1, <2>2
<1> QED BY <1>4 DEF Min

DatabaseInv == TypeOK /\ ScriptIsWritten /\ RecordedIsApplied /\ ActiveIsThere

LEMMA MigratingIsPending ==
  ASSUME TypeOK, Pending # {}
  PROVE  /\ Migrating \in files /\ Migrating \in Versions /\ Statements[Migrating] \in Nat
         /\ Script(Migrating) \subseteq AllStatements
<1>1. Pending \in SUBSET files /\ files \in SUBSET Versions /\ Versions \in SUBSET Nat
  BY BootstrapAssumption DEF Pending, TypeOK
<1>2. Migrating \in files BY <1>1, LeastOfNaturals DEF Migrating
<1> QED BY <1>1, <1>2, BootstrapAssumption DEF AllStatements

LEMMA MigrationStays ==
  ASSUME UNCHANGED <<files, versions>>
  PROVE  Pending' = Pending /\ Migrating' = Migrating /\ Script(Migrating)' = Script(Migrating)
<1>1. Pending' = Pending BY DEF Pending, CurrentVersion
<1>2. Migrating' = Migrating BY <1>1 DEF Migrating
<1> QED BY <1>1, <1>2 DEF Script

LEMMA CreatedStays ==
  ASSUME UNCHANGED assessments
  PROVE  Created' = Created
BY DEF Created

LEMMA CreatedAreIds ==
  ASSUME TypeOK
  PROVE  Created \subseteq Ids /\ None \notin Created
<1>1. assessments \in Seq(Ids) BY DEF TypeOK
<1>2. \A i \in DOMAIN assessments : assessments[i] \in Ids BY <1>1
<1>3. Created \subseteq Ids BY <1>2 DEF Created
<1>4. None \notin Ids BY BootstrapAssumption DEF Ids, None
<1> QED BY <1>3, <1>4

\* The first assessment is the only one.
LEMMA CreatedFirst ==
  ASSUME TypeOK, ActiveIsThere, CreateAssessment
  PROVE  /\ active' = 1 /\ active' \in Ids /\ Created' = {active'} /\ Created = {}
         /\ assessments' \in Seq(Ids) /\ Len(assessments') = 1 /\ 1 <= MaxAssessments
<1>1. assessments = <<>> /\ Len(assessments) = 0 BY DEF CreateAssessment, Adoptable
<1>2. active' = 1 /\ assessments' = <<1>> /\ 0 < MaxAssessments
  BY <1>1 DEF CreateAssessment
<1>3. 1 \in Ids /\ 1 <= MaxAssessments BY <1>2, BootstrapAssumption DEF Ids
<1>4. Created' = {1} /\ Created = {} BY <1>1, <1>2 DEF Created
<1> QED BY <1>2, <1>3, <1>4

LEMMA DatabaseBegins ==
  ASSUME Init
  PROVE  DatabaseInv
<1>1. TypeOK BY BootstrapAssumption DEF Init, TypeOK
<1>2. ActiveIsThere
  BY DEF Init, ActiveIsThere, Created, None
<1> QED BY <1>1, <1>2 DEF Init, DatabaseInv, ScriptIsWritten, RecordedIsApplied

LEMMA TypesKept ==
  ASSUME DatabaseInv, BootstrapStep
  PROVE  TypeOK'
<1> USE DEF DatabaseInv
<1>1. CASE PickMigration
  <2>1. script' \in Seq(AllStatements)
    <3>1. Statements[Migrating] \in Nat /\ Script(Migrating) \subseteq AllStatements
      BY <1>1, MigratingIsPending DEF PickMigration
    <3>2. \A i \in 1..Statements[Migrating] : <<Migrating, i>> \in AllStatements
      BY <3>1 DEF Script
    <3> QED BY <1>1, <3>1, <3>2 DEF PickMigration
  <2> QED BY <1>1, <2>1 DEF PickMigration, AfterPick, TypeOK, disk, call
<1>2. CASE Migrated BY <1>2 DEF Migrated, TypeOK, disk, call
<1>3. CASE ExecuteStatement
  <2>1. Head(script) \in AllStatements /\ Tail(script) \in Seq(AllStatements)
    BY <1>3 DEF ExecuteStatement, TypeOK
  <2> QED BY <1>3, <2>1 DEF ExecuteStatement, TypeOK, call
<1>4. CASE EndScript BY <1>4 DEF EndScript, TypeOK, disk, call
<1>5. CASE RecordVersion
  <2>1. Migrating \in files BY <1>5, MigratingIsPending DEF RecordVersion, ScriptIsWritten
  <2>2. script' \in Seq(AllStatements) BY <1>5 DEF RecordVersion
  <2> QED BY <1>5, <2>1, <2>2 DEF RecordVersion, TypeOK, call
<1>6. CASE FindActive BY <1>6 DEF FindActive, Named, TypeOK, disk
<1>7. CASE AdoptOldest
  <2>1. assessments[1] \in Ids BY <1>7 DEF AdoptOldest, Adoptable, TypeOK
  <2> QED BY <1>7, <2>1 DEF AdoptOldest, TypeOK, disk
<1>8. CASE CreateAssessment BY <1>8, CreatedFirst DEF CreateAssessment, TypeOK
<1>9. CASE RememberCreated BY <1>9 DEF RememberCreated, TypeOK, call
<1>10. CASE RestoreMeta BY <1>10 DEF RestoreMeta, TypeOK, call
<1>11. CASE OpenSession
  <2>1. Created \subseteq Ids BY CreatedAreIds
  <2> QED BY <1>11, <2>1 DEF OpenSession, TypeOK, call
<1>12. CASE ReadyEntry BY <1>12 DEF ReadyEntry, ActiveIsThere, TypeOK, call
<1> QED
  BY <1>1, <1>2, <1>3, <1>4, <1>5, <1>6, <1>7, <1>8, <1>9, <1>10, <1>11, <1>12 DEF BootstrapStep

LEMMA ScriptKept ==
  ASSUME DatabaseInv, BootstrapStep
  PROVE  ScriptIsWritten'
<1> USE DEF DatabaseInv
<1>1. CASE PickMigration
  <2>1. Pending' = Pending /\ Script(Migrating)' = Script(Migrating) /\ tables' = tables
    BY <1>1, MigrationStays DEF PickMigration, disk
  <2>2. Statements[Migrating] \in Nat BY <1>1, MigratingIsPending DEF PickMigration
  <2>3. \A s \in Script(Migrating) : \E i \in DOMAIN script' : script'[i] = s
    BY <1>1, <2>2 DEF PickMigration, Script
  <2>4. pc' = "script" /\ Pending # {} BY <1>1 DEF PickMigration, AfterPick
  <2> QED BY <2>1, <2>3, <2>4 DEF ScriptIsWritten
<1>2. CASE ExecuteStatement
  <2>1. /\ Pending' = Pending /\ Script(Migrating)' = Script(Migrating)
        /\ script \in Seq(AllStatements) /\ script # <<>>
        /\ pc = "script" /\ pc' = "script"
        /\ tables' = tables \cup {Head(script)} /\ script' = Tail(script)
    BY <1>2, MigrationStays DEF ExecuteStatement, Reruns, TypeOK
  <2>2. Pending # {} /\ \A s \in Script(Migrating) : s \in tables \/ \E i \in DOMAIN script : script[i] = s
    BY <2>1 DEF ScriptIsWritten
  <2>3. ASSUME NEW s \in Script(Migrating)
        PROVE  s \in tables' \/ \E i \in DOMAIN script' : script'[i] = s
    <3>1. CASE s \in tables BY <2>1, <3>1
    <3>2. CASE s \notin tables
      <4>1. PICK i \in DOMAIN script : script[i] = s BY <2>2, <3>2
      <4>2. CASE i = 1 BY <2>1, <4>1, <4>2
      <4>3. CASE i # 1
        <5>1. i - 1 \in DOMAIN Tail(script) /\ Tail(script)[i - 1] = script[i]
          BY <2>1, <4>1, <4>3
        <5> QED BY <2>1, <4>1, <5>1
      <4> QED BY <4>2, <4>3
    <3> QED BY <3>1, <3>2
  <2> QED BY <2>1, <2>2, <2>3 DEF ScriptIsWritten
<1>3. CASE EndScript
  <2>1. /\ Pending' = Pending /\ Script(Migrating)' = Script(Migrating) /\ tables' = tables
        /\ pc = "script" /\ pc' = "row" /\ DOMAIN script = {}
    BY <1>3, MigrationStays DEF EndScript, disk
  <2> QED BY <2>1 DEF ScriptIsWritten
<1>4. CASE Migrated \/ RecordVersion \/ FindActive \/ AdoptOldest \/ CreateAssessment
  BY <1>4 DEF Migrated, RecordVersion, FindActive, AdoptOldest, CreateAssessment, ScriptIsWritten
<1>5. CASE RememberCreated \/ RestoreMeta \/ OpenSession \/ ReadyEntry
  BY <1>5 DEF RememberCreated, RestoreMeta, OpenSession, ReadyEntry, ScriptIsWritten
<1> QED BY <1>1, <1>2, <1>3, <1>4, <1>5 DEF BootstrapStep

LEMMA RecordedKept ==
  ASSUME DatabaseInv, BootstrapStep
  PROVE  RecordedIsApplied'
<1> USE DEF DatabaseInv
<1>1. CASE RecordVersion
  <2>1. Script(Migrating) \subseteq tables /\ tables' = tables /\ versions' = versions \cup {Migrating}
    BY <1>1 DEF RecordVersion, ScriptIsWritten
  <2> QED BY <2>1 DEF RecordedIsApplied
<1>2. CASE ~RecordVersion
  <2>1. tables \subseteq tables' /\ versions' = versions
    BY <1>2 DEF BootstrapStep, PickMigration, Migrated, ExecuteStatement, EndScript, FindActive,
       AdoptOldest, CreateAssessment, RememberCreated, RestoreMeta, OpenSession, ReadyEntry, disk
  <2> QED BY <2>1 DEF RecordedIsApplied
<1> QED BY <1>1, <1>2

LEMMA ActiveKept ==
  ASSUME DatabaseInv, BootstrapStep
  PROVE  ActiveIsThere'
<1> USE DEF DatabaseInv
<1>0. Created \subseteq Ids /\ None \notin Created /\ None \notin Ghosts
  BY CreatedAreIds, BootstrapAssumption
<1>1. CASE CreateAssessment
  BY <1>0, <1>1, CreatedFirst DEF CreateAssessment, ActiveIsThere
<1>2. CASE ~CreateAssessment
  <2>1. Created' = Created /\ assessments' = assessments /\ override' = override
    BY <1>2, CreatedStays DEF BootstrapStep, PickMigration, Migrated, ExecuteStatement, EndScript,
       RecordVersion, FindActive, AdoptOldest, RememberCreated, RestoreMeta, OpenSession,
       ReadyEntry, disk, call
  <2>2. CASE PickMigration \/ Migrated \/ ExecuteStatement \/ EndScript \/ RecordVersion
    BY <2>1, <2>2 DEF PickMigration, AfterPick, Migrated, ExecuteStatement, EndScript,
       RecordVersion, disk, ActiveIsThere
  <2>3. CASE FindActive BY <2>1, <2>3 DEF FindActive, Named, disk, ActiveIsThere
  <2>4. CASE AdoptOldest
    <3>1. assessments[1] \in Created BY <2>4 DEF AdoptOldest, Adoptable, Created, TypeOK
    <3> QED BY <2>1, <2>4, <3>1 DEF AdoptOldest, disk, ActiveIsThere
  <2>5. CASE RememberCreated BY <2>1, <2>5 DEF RememberCreated, call, ActiveIsThere
  <2>6. CASE RestoreMeta BY <1>0, <2>1, <2>6 DEF RestoreMeta, ToRemember, call, ActiveIsThere
  <2>7. CASE OpenSession BY <2>1, <2>7 DEF OpenSession, call, ActiveIsThere
  <2>8. CASE ReadyEntry BY <2>1, <2>8 DEF ReadyEntry, call, ActiveIsThere
  <2> QED BY <1>2, <2>2, <2>3, <2>4, <2>5, <2>6, <2>7, <2>8 DEF BootstrapStep
<1> QED BY <1>1, <1>2

(***************************************************************************)
(* The configuration.                                                      *)
(***************************************************************************)
\* A document made of settings: what variables and overrides are turned into.
OfSettings(doc) ==
  \A s \in DOMAIN doc :
    /\ DOMAIN doc[s] \subseteq Settings /\ DOMAIN doc[s] # {} /\ doc[s] # Null

Gives(doc, k) == SectionOf[k] \in DOMAIN doc /\ k \in DOMAIN doc[SectionOf[k]]

LEMMA NullIsNoSection ==
  ASSUME NEW f, DOMAIN f \cap Settings # {}
  PROVE  f # Null
<1>1. DOMAIN Null = {"nothing"} BY DEF Null
<1> QED BY <1>1, ConfigurationAssumption

LEMMA NestedGives ==
  ASSUME NEW flat, DOMAIN flat \subseteq Settings
  PROVE  /\ OfSettings(Nested(flat))
         /\ \A k \in Settings :
              /\ Gives(Nested(flat), k) <=> k \in DOMAIN flat
              /\ k \in DOMAIN flat => Nested(flat)[SectionOf[k]][k] = flat[k]
<1> DEFINE doc == Nested(flat)
           D == DOMAIN flat
<1>1. /\ DOMAIN doc = {SectionOf[k] : k \in D}
      /\ \A s \in DOMAIN doc : /\ DOMAIN doc[s] = {j \in D : SectionOf[j] = s}
                               /\ \A k \in DOMAIN doc[s] : doc[s][k] = flat[k]
  BY DEF Nested
<1>2. D \subseteq Settings OBVIOUS
<1> HIDE DEF doc, D
<1>3. ASSUME NEW s \in DOMAIN doc
      PROVE  DOMAIN doc[s] \subseteq Settings /\ DOMAIN doc[s] # {} /\ doc[s] # Null
  <2>1. DOMAIN doc[s] \subseteq Settings /\ DOMAIN doc[s] # {} BY <1>1, <1>2
  <2> QED BY <2>1, NullIsNoSection
<1>4. ASSUME NEW k \in Settings
      PROVE  /\ Gives(doc, k) <=> k \in D
             /\ k \in D => doc[SectionOf[k]][k] = flat[k]
  BY <1>1 DEF Gives
<1> QED BY <1>3, <1>4 DEF OfSettings, doc, D

\* Merging: what the later document gives counts, and nothing else is lost.
LEMMA MergedGives ==
  ASSUME NEW base, NEW later, OfSettings(later)
  PROVE  /\ \A k \in Settings :
              ValueIn(Merged(base, later), k) =
                IF Gives(later, k) THEN later[SectionOf[k]][k] ELSE ValueIn(base, k)
         /\ \A s \in DOMAIN Merged(base, later) :
              /\ Merged(base, later)[s] = Null => s \in DOMAIN base /\ base[s] = Null
              /\ Stranger \in DOMAIN Merged(base, later)[s] =>
                   s \in DOMAIN base /\ Stranger \in DOMAIN base[s]
<1> DEFINE doc == Merged(base, later)
<1>1. DOMAIN doc = DOMAIN base \cup DOMAIN later BY DEF Merged
<1>2. ASSUME NEW s \in DOMAIN doc, s \notin DOMAIN later
      PROVE  s \in DOMAIN base /\ doc[s] = base[s]
  BY <1>2 DEF Merged
<1>3. ASSUME NEW s \in DOMAIN doc, s \in DOMAIN later, ~Mapping(base, s)
      PROVE  doc[s] = later[s]
  BY <1>3 DEF Merged
<1>4. ASSUME NEW s \in DOMAIN doc, s \in DOMAIN later, Mapping(base, s)
      PROVE  /\ DOMAIN doc[s] = DOMAIN later[s] \cup DOMAIN base[s]
             /\ \A k \in DOMAIN doc[s] :
                  doc[s][k] = IF k \in DOMAIN later[s] THEN later[s][k] ELSE base[s][k]
             /\ doc[s] # Null
  <2>1. doc[s] = Over(later[s], base[s]) BY <1>4 DEF Merged
  <2>2. /\ DOMAIN doc[s] = DOMAIN later[s] \cup DOMAIN base[s]
        /\ \A k \in DOMAIN doc[s] :
             doc[s][k] = IF k \in DOMAIN later[s] THEN later[s][k] ELSE base[s][k]
    BY <2>1 DEF Over
  <2>3. DOMAIN doc[s] \cap Settings # {} BY <1>4, <2>2 DEF OfSettings
  <2> QED BY <2>2, <2>3, NullIsNoSection
<1> HIDE DEF doc
<1>5. ASSUME NEW k \in Settings
      PROVE  ValueIn(doc, k) =
               IF Gives(later, k) THEN later[SectionOf[k]][k] ELSE ValueIn(base, k)
  <2> DEFINE s == SectionOf[k]
  <2> HIDE DEF s
  <2>1. CASE s \notin DOMAIN doc BY <1>1, <2>1 DEF ValueIn, Mapping, Gives, s
  <2>2. CASE s \in DOMAIN doc /\ s \notin DOMAIN later
    <3>1. doc[s] = base[s] /\ s \in DOMAIN base BY <1>2, <2>2
    <3> QED BY <2>2, <3>1 DEF ValueIn, Mapping, Gives, s
  <2>3. CASE s \in DOMAIN doc /\ s \in DOMAIN later /\ ~Mapping(base, s)
    <3>1. doc[s] = later[s] /\ later[s] # Null BY <1>3, <2>3 DEF OfSettings
    <3> QED BY <2>3, <3>1 DEF ValueIn, Mapping, Gives, s
  <2>4. CASE s \in DOMAIN doc /\ s \in DOMAIN later /\ Mapping(base, s)
    <3>1. /\ DOMAIN doc[s] = DOMAIN later[s] \cup DOMAIN base[s] /\ doc[s] # Null
          /\ \A j \in DOMAIN doc[s] :
               doc[s][j] = IF j \in DOMAIN later[s] THEN later[s][j] ELSE base[s][j]
      BY <1>4, <2>4
    <3> QED BY <2>4, <3>1 DEF ValueIn, Mapping, Gives, s
  <2> QED BY <1>1, <2>1, <2>2, <2>3, <2>4
<1>6. ASSUME NEW s \in DOMAIN doc
      PROVE  /\ doc[s] = Null => s \in DOMAIN base /\ base[s] = Null
             /\ Stranger \in DOMAIN doc[s] => s \in DOMAIN base /\ Stranger \in DOMAIN base[s]
  <2>1. s \in DOMAIN later => later[s] # Null /\ Stranger \notin DOMAIN later[s]
    BY ConfigurationAssumption DEF OfSettings
  <2>2. CASE s \notin DOMAIN later BY <1>2, <2>2
  <2>3. CASE s \in DOMAIN later /\ ~Mapping(base, s) BY <1>3, <2>1, <2>3
  <2>4. CASE s \in DOMAIN later /\ Mapping(base, s) BY <1>4, <2>1, <2>4 DEF Mapping
  <2> QED BY <2>2, <2>3, <2>4
<1> QED BY <1>5, <1>6 DEF doc

\* A setting, as its latest source says.
Says(file, env, overrides, k) ==
  IF k \in DOMAIN overrides THEN overrides[k]
  ELSE IF k \in Variables /\ env[k] # Unset THEN env[k]
  ELSE ValueIn(file, k)

LEMMA DocumentSays ==
  ASSUME NEW file, NEW env, NEW overrides, DOMAIN overrides \subseteq Overridable
  PROVE  LET doc == Document(file, env, overrides) IN
         /\ \A k \in Settings : ValueIn(doc, k) = Says(file, env, overrides, k)
         /\ \A s \in DOMAIN doc :
              /\ doc[s] = Null => s \in DOMAIN file /\ file[s] = Null
              /\ Stranger \in DOMAIN doc[s] => s \in DOMAIN file /\ Stranger \in DOMAIN file[s]
<1> DEFINE set == Restrict(env, SetVariables(env))
           explicit == Restrict(overrides, DOMAIN overrides \cap Overridable)
           first == Merged(file, Nested(set))
           doc == Merged(first, Nested(explicit))
<1>1. /\ DOMAIN set = {k \in Variables : env[k] # Unset} /\ DOMAIN set \subseteq Settings
      /\ \A k \in DOMAIN set : set[k] = env[k]
  BY ConfigurationAssumption DEF Restrict, SetVariables
<1>2. /\ DOMAIN explicit = DOMAIN overrides /\ DOMAIN explicit \subseteq Settings
      /\ \A k \in DOMAIN explicit : explicit[k] = overrides[k]
  BY ConfigurationAssumption DEF Restrict
<1>3. Document(file, env, overrides) = doc
  BY DEF Document, EnvDocument, OverridesDocument
<1> HIDE DEF set, explicit
<1>4. /\ OfSettings(Nested(set))
      /\ \A k \in Settings :
           /\ Gives(Nested(set), k) <=> k \in DOMAIN set
           /\ k \in DOMAIN set => Nested(set)[SectionOf[k]][k] = set[k]
  BY <1>1, NestedGives
<1>5. /\ OfSettings(Nested(explicit))
      /\ \A k \in Settings :
           /\ Gives(Nested(explicit), k) <=> k \in DOMAIN explicit
           /\ k \in DOMAIN explicit => Nested(explicit)[SectionOf[k]][k] = explicit[k]
  BY <1>2, NestedGives
<1>6. /\ \A k \in Settings :
           ValueIn(first, k) = IF k \in DOMAIN set THEN set[k] ELSE ValueIn(file, k)
      /\ \A s \in DOMAIN first :
           /\ first[s] = Null => s \in DOMAIN file /\ file[s] = Null
           /\ Stranger \in DOMAIN first[s] => s \in DOMAIN file /\ Stranger \in DOMAIN file[s]
  BY <1>4, MergedGives
<1> HIDE DEF first
<1>7. /\ \A k \in Settings :
           ValueIn(doc, k) = IF k \in DOMAIN explicit THEN explicit[k] ELSE ValueIn(first, k)
      /\ \A s \in DOMAIN doc :
           /\ doc[s] = Null => s \in DOMAIN first /\ first[s] = Null
           /\ Stranger \in DOMAIN doc[s] => s \in DOMAIN first /\ Stranger \in DOMAIN first[s]
  BY <1>5, MergedGives
<1> HIDE DEF doc
<1>8. \A k \in Settings : ValueIn(doc, k) = Says(file, env, overrides, k)
  BY <1>1, <1>2, <1>6, <1>7 DEF Says
<1> QED BY <1>3, <1>6, <1>7, <1>8

\* A setting nobody could load.
Wrong(file, env, overrides, k) ==
  \/ k \in Numeric /\ Says(file, env, overrides, k) = Text
  \/ k \in Numeric \cap Variables /\ env[k] = Text
  \/ SectionOf[k] # "top" /\ Says(file, env, overrides, k) = Invalid

\* What is loaded is what the sources say and is valid; what is not has something
\* in one of them to blame.
LEMMA OutcomeIsExact ==
  ASSUME NEW file, NEW env, NEW overrides
  PROVE  IF LoadConfig(file, env, overrides).outcome = "loaded"
           THEN \A k \in Settings :
                  /\ LoadConfig(file, env, overrides).values[k] = Says(file, env, overrides, k)
                  /\ ~Wrong(file, env, overrides, k)
           ELSE \/ \E k \in Settings : Wrong(file, env, overrides, k)
                \/ \E s \in DOMAIN file : file[s] = Null \/ Stranger \in DOMAIN file[s]
                \/ ~(DOMAIN overrides \subseteq Overridable)
<1> DEFINE loaded == LoadConfig(file, env, overrides)
           doc == Document(file, env, overrides)
<1>1. /\ loaded.outcome = Outcome(file, env, overrides)
      /\ \A k \in Settings : loaded.values[k] = ValueIn(doc, k)
  BY DEF LoadConfig
<1>2. CASE RefusedEarly(env, overrides)
  <2>1. loaded.outcome # "loaded" BY <1>1, <1>2 DEF Outcome
  <2>2. (\E k \in Settings : Wrong(file, env, overrides, k)) \/ ~(DOMAIN overrides \subseteq Overridable)
    BY <1>2, ConfigurationAssumption DEF RefusedEarly, SetVariables, Wrong
  <2> QED BY <2>1, <2>2
<1>3. CASE ~RefusedEarly(env, overrides)
  <2>1. DOMAIN overrides \subseteq Overridable BY <1>3 DEF RefusedEarly
  <2>2. /\ \A k \in Settings : ValueIn(doc, k) = Says(file, env, overrides, k)
        /\ \A s \in DOMAIN doc :
             /\ doc[s] = Null => s \in DOMAIN file /\ file[s] = Null
             /\ Stranger \in DOMAIN doc[s] => s \in DOMAIN file /\ Stranger \in DOMAIN file[s]
    BY <2>1, DocumentSays
  <2> HIDE DEF doc
  <2>3. \A k \in Numeric \cap Variables : env[k] # Text
    <3>1. Text # Unset BY DEF Text, Unset
    <3> QED BY <1>3, <3>1 DEF RefusedEarly, SetVariables
  <2>4. CASE Raises(doc)
    <3>1. loaded.outcome # "loaded" BY <1>1, <1>3, <2>4 DEF Outcome, doc
    <3>2. CASE \E s \in DOMAIN doc : doc[s] = Null BY <2>2, <3>1, <3>2
    <3>3. CASE \E s \in DOMAIN doc \ {"top", "redaction"} :
                 Mapping(doc, s) /\ Stranger \in DOMAIN doc[s]
      BY <2>2, <3>1, <3>3
    <3>4. CASE \E k \in Numeric : ValueIn(doc, k) = Text
      BY <2>2, <3>1, <3>4, ConfigurationAssumption DEF Wrong
    <3> QED BY <2>4, <3>2, <3>3, <3>4 DEF Raises
  <2>5. CASE ~Raises(doc) /\ Problems(doc) # {}
    <3>1. loaded.outcome # "loaded" BY <1>1, <1>3, <2>5 DEF Outcome, doc
    <3>2. \E k \in Settings : Wrong(file, env, overrides, k) BY <2>2, <2>5 DEF Problems, Wrong
    <3> QED BY <3>1, <3>2
  <2>6. CASE ~Raises(doc) /\ Problems(doc) = {}
    <3>1. loaded.outcome = "loaded" BY <1>1, <1>3, <2>6 DEF Outcome, doc
    <3>2. \A k \in Numeric : ValueIn(doc, k) # Text BY <2>6 DEF Raises
    <3>3. \A k \in Settings : SectionOf[k] # "top" => ValueIn(doc, k) # Invalid
      BY <2>6 DEF Problems
    <3>4. \A k \in Settings : ~Wrong(file, env, overrides, k) BY <2>2, <2>3, <3>2, <3>3 DEF Wrong
    <3> QED BY <1>1, <2>2, <3>1, <3>4
  <2> QED BY <2>4, <2>5, <2>6
<1> QED BY <1>2, <1>3

LEMMA PrecedenceOfLoaded ==
  ASSUME StartsInOrder
  PROVE  PrecedenceHolds
<1> SUFFICES ASSUME stage = "configured" PROVE PrecedenceHolds BY DEF PrecedenceHolds
<1> DEFINE file == given[1] env == given[2] overrides == given[3]
<1>1. config = LoadConfig(file, env, overrides) BY DEF StartsInOrder
<1>2. ASSUME NEW k \in Settings
      PROVE  Says(file, env, overrides, k) =
               IF k \in DOMAIN overrides THEN overrides[k]
               ELSE IF k \in Variables /\ env[k] # Unset THEN env[k]
               ELSE IF Mapping(file, SectionOf[k]) /\ k \in DOMAIN file[SectionOf[k]]
                 THEN file[SectionOf[k]][k] ELSE Default
  BY DEF Says, ValueIn
<1> HIDE DEF file, env, overrides
<1>3. ASSUME NEW k \in Settings
      PROVE  Wrong(file, env, overrides, k) <=>
               \/ /\ k \in Numeric
                  /\ \/ Says(file, env, overrides, k) = Text
                     \/ k \in Variables /\ env[k] = Text
               \/ SectionOf[k] # "top" /\ Says(file, env, overrides, k) = Invalid
  BY DEF Wrong
<1> QED BY <1>1, <1>2, <1>3, OutcomeIsExact DEF PrecedenceHolds, file, env, overrides

(***************************************************************************)
(* A command.                                                              *)
(***************************************************************************)
LEMMA DatabaseStays ==
  ASSUME DatabaseInv, UNCHANGED vars
  PROVE  DatabaseInv'
<1>1. UNCHANGED <<files, tables, versions, assessments, meta, sessions, ready, override, wants,
                  active, pc, script, commands, crashes>>
  BY DEF vars, disk, call
<1>2. TypeOK' BY <1>1 DEF DatabaseInv, TypeOK
<1>3. ScriptIsWritten' BY <1>1, MigrationStays DEF DatabaseInv, ScriptIsWritten
<1>4. RecordedIsApplied' BY <1>1 DEF DatabaseInv, RecordedIsApplied
<1>5. ActiveIsThere' BY <1>1, CreatedStays DEF DatabaseInv, ActiveIsThere
<1> QED BY <1>2, <1>3, <1>4, <1>5 DEF DatabaseInv

\* A kill, a release, the beginning of a command.
LEMMA DatabaseOutside ==
  ASSUME DatabaseInv,
         \/ Crash
         \/ \E v \in Versions : AddFile(v)
         \/ \E need \in {"assessment", "engine"}, named \in Created \cup Ghosts \cup {None} :
              Command(need, named)
  PROVE  DatabaseInv'
<1> USE DEF DatabaseInv
<1>0. Created \subseteq Ids /\ script \in Seq(AllStatements) BY CreatedAreIds DEF TypeOK
<1>1. CASE Crash
  <2>1. UNCHANGED <<files, tables, versions, assessments, meta, sessions, ready, override, wants,
                    active, commands>> /\ pc' = "idle" /\ script' = <<>> /\ crashes < MaxCrashes
        /\ crashes' = crashes + 1
    BY <1>1 DEF Crash, disk, call
  <2>2. TypeOK'
    <3>1. crashes' \in 0..MaxCrashes BY <2>1, BootstrapAssumption DEF TypeOK
    <3> QED BY <2>1, <3>1 DEF TypeOK
  <2>3. ScriptIsWritten' /\ RecordedIsApplied' BY <2>1 DEF ScriptIsWritten, RecordedIsApplied
  <2>4. ActiveIsThere' BY <2>1, CreatedStays DEF ActiveIsThere
  <2> QED BY <2>2, <2>3, <2>4
<1>2. CASE \E v \in Versions : AddFile(v)
  <2>1. PICK v \in Versions : AddFile(v) BY <1>2
  <2>2. UNCHANGED <<tables, versions, assessments, meta, sessions, ready, override, wants,
                    active, pc, script, commands, crashes>> /\ pc \in AtRest
        /\ files' = files \cup {v}
    BY <2>1 DEF AddFile, disk, call
  <2>3. TypeOK' BY <2>2 DEF TypeOK
  <2>4. ScriptIsWritten' /\ RecordedIsApplied'
    BY <2>2 DEF AtRest, ScriptIsWritten, RecordedIsApplied
  <2>5. ActiveIsThere' BY <2>2, CreatedStays DEF ActiveIsThere
  <2> QED BY <2>3, <2>4, <2>5
<1>3. CASE \E need \in {"assessment", "engine"}, named \in Created \cup Ghosts \cup {None} :
             Command(need, named)
  <2>1. PICK need \in {"assessment", "engine"}, named \in Created \cup Ghosts \cup {None} :
               Command(need, named)
    BY <1>3
  <2>2. UNCHANGED <<files, tables, versions, assessments, meta, sessions, ready, script, crashes>>
        /\ wants' = need /\ override' = named /\ active' = None /\ pc' = "migrate"
        /\ commands < MaxCommands /\ commands' = commands + 1
    BY <2>1 DEF Command, disk
  <2>3. TypeOK'
    <3>1. commands' \in 0..MaxCommands BY <2>2, BootstrapAssumption DEF TypeOK
    <3> QED BY <1>0, <2>2, <3>1 DEF TypeOK
  <2>4. ScriptIsWritten' /\ RecordedIsApplied' BY <2>2 DEF ScriptIsWritten, RecordedIsApplied
  <2>5. ActiveIsThere' BY <2>2, CreatedStays DEF ActiveIsThere
  <2> QED BY <2>3, <2>4, <2>5
<1> QED BY <1>1, <1>2, <1>3

\* How the parts of a start follow each other.
StagesInv ==
  /\ stage \in {"down", "configured", "load", "up"}
  /\ stage = "configured" <=> given # NothingGiven
  /\ config.outcome \in {"none", "refused", "raised", "loaded"}
  /\ graph \in {"unread", "accepted", "rejected"}
  /\ StartsInOrder /\ RefusedTouchesNothing

LEMMA StagesBegin ==
  ASSUME StartupInit
  PROVE  StagesInv
BY DEF StartupInit, Loading!Init, Init, StagesInv, StartsInOrder, RefusedTouchesNothing,
   NothingGiven, NoConfig, AtRest

LEMMA StagesKept ==
  ASSUME StagesInv, StartupNext
  PROVE  StagesInv'
<1> USE DEF StagesInv, StartsInOrder, RefusedTouchesNothing
<1>1. CASE Start
  <2>1. PICK file \in Files, env \in Environments, overrides \in Overrides :
          given' = <<file, env, overrides>> /\ config' = LoadConfig(file, env, overrides)
    BY <1>1 DEF Start
  <2>2. /\ given' \in Files \X Environments \X Overrides /\ given' # NothingGiven
        /\ given'[1] = file /\ given'[2] = env /\ given'[3] = overrides
    BY <2>1 DEF NothingGiven
  <2>3. config'.outcome \in {"none", "refused", "raised", "loaded"}
    BY <2>1 DEF LoadConfig, Outcome
  <2>4. /\ stage' = "configured" /\ pc \in AtRest
        /\ UNCHANGED <<pc, tables, versions, assessments, meta, graph, loading>>
    BY <1>1 DEF Start, vars, disk, loadVars
  <2> QED BY <2>1, <2>2, <2>3, <2>4 DEF AtRest
<1>2. CASE EditGraph
  <2>1. /\ stage = "down" /\ graph = "rejected" /\ graph' = "unread"
        /\ UNCHANGED <<pc, tables, versions, assessments, meta, stage, given, config, loading>>
    BY <1>2 DEF EditGraph, vars, disk, loadVars
  <2> QED BY <2>1 DEF AtRest
<1>3. CASE EndConfiguration
  <2>1. /\ stage = "configured" /\ given' = NothingGiven /\ stage' \in {"load", "down"}
        /\ config'.outcome \in {"none", "loaded"}
        /\ UNCHANGED <<pc, tables, versions, assessments, meta, graph, loading>>
    BY <1>3 DEF EndConfiguration, NoConfig, vars, disk, loadVars
  <2> QED BY <2>1 DEF AtRest
<1>4. CASE LoadStep
  <2>1. /\ stage = "load" /\ graph = "unread"
        /\ UNCHANGED <<pc, tables, versions, assessments, meta, stage, given, config, graph>>
    BY <1>4 DEF LoadStep, vars, disk, startVars
  <2> QED BY <2>1 DEF AtRest
<1>5. CASE GraphAccepted \/ GraphRejected
  <2>1. /\ stage = "load" /\ graph # "accepted" /\ loading' = "nodes"
        /\ graph' \in {"accepted", "rejected"} /\ stage' \in {"load", "down"}
        /\ config' \in {config, NoConfig}
        /\ UNCHANGED <<pc, tables, versions, assessments, meta, given>>
    BY <1>5 DEF GraphAccepted, GraphRejected, LoadingAsNew, vars, disk
  <2> QED BY <2>1 DEF AtRest, NoConfig
<1>6. CASE \E need \in {"assessment", "engine"}, named \in Created \cup Ghosts \cup {None} :
             Construct(need, named)
  <2>1. /\ stage = "load" /\ graph = "accepted" /\ stage' = "up" /\ config' = NoConfig
        /\ UNCHANGED <<given, graph, loading>>
    BY <1>6 DEF Construct, loadVars
  <2> QED BY <2>1 DEF NoConfig
<1>7. CASE ValidateEnds \/ Close
  <2>1. /\ stage \in {"load", "up"} /\ graph = "accepted" /\ stage' = "down" /\ pc \in AtRest
        /\ config' \in {config, NoConfig}
        /\ UNCHANGED <<pc, given, graph, loading>>
    BY <1>7 DEF ValidateEnds, Close, vars, loadVars
  <2> QED BY <2>1 DEF AtRest, NoConfig
<1>8. CASE DatabaseStep \/ Killed
  <2>1. /\ stage = "up" /\ graph = "accepted"
        /\ UNCHANGED <<stage, given, config, graph, loading>>
    BY <1>8 DEF DatabaseStep, Killed, Crash, startVars, loadVars
  <2> QED BY <2>1
<1>9. CASE Release
  <2>1. /\ graph = "accepted" /\ UNCHANGED <<pc, stage, given, config, graph, loading>>
    BY <1>9 DEF Release, AddFile, startVars, loadVars
  <2> QED BY <2>1 DEF AtRest
<1> QED
  BY <1>1, <1>2, <1>3, <1>4, <1>5, <1>6, <1>7, <1>8, <1>9 DEF StartupNext, StartupStep

\* The step of a start is the step of one of its parts.
LEMMA LoadedKept ==
  ASSUME Loaded, StartupNext
  PROVE  Loaded'
<1>1. CASE LoadStep BY <1>1, LoadingKeeps DEF LoadStep
<1>2. CASE GraphAccepted \/ GraphRejected
  BY <1>2, LoadingAsNewBegins DEF GraphAccepted, GraphRejected
<1>3. CASE UNCHANGED loadVars BY <1>3, LoadingStays
<1> QED
  BY <1>1, <1>2, <1>3 DEF StartupNext, StartupStep, Start, EditGraph, EndConfiguration, Construct,
     ValidateEnds, DatabaseStep, Close, Killed, Release

LEMMA DatabaseKept ==
  ASSUME DatabaseInv, StartupNext
  PROVE  DatabaseInv'
<1>1. CASE DatabaseStep
  BY <1>1, TypesKept, ScriptKept, RecordedKept, ActiveKept DEF DatabaseStep, DatabaseInv
<1>2. CASE \E need \in {"assessment", "engine"}, named \in Created \cup Ghosts \cup {None} :
             Construct(need, named)
  BY <1>2, DatabaseOutside DEF Construct
<1>3. CASE Killed \/ Release BY <1>3, DatabaseOutside DEF Killed, Release
<1>4. CASE UNCHANGED vars BY <1>4, DatabaseStays
<1> QED
  BY <1>1, <1>2, <1>3, <1>4 DEF StartupNext, StartupStep, Start, EditGraph, EndConfiguration,
     LoadStep, GraphAccepted, GraphRejected, ValidateEnds, Close

\* The inductive invariant: each part keeps its own, whatever the others do.
IInv == StagesInv /\ Loaded /\ DatabaseInv

LEMMA IInvInit == StartupInit => IInv
BY StagesBegin, LoadingBegins, DatabaseBegins DEF StartupInit, IInv

LEMMA StagesStay ==
  ASSUME StagesInv, UNCHANGED allVars
  PROVE  StagesInv'
<1>1. UNCHANGED <<pc, tables, versions, assessments, meta, stage, given, config, graph, loading>>
  BY DEF allVars, vars, disk, startVars, loadVars
<1> QED BY <1>1 DEF StagesInv, StartsInOrder, RefusedTouchesNothing

LEMMA IInvStep == IInv /\ [StartupNext]_allVars => IInv'
<1> SUFFICES ASSUME IInv, [StartupNext]_allVars PROVE IInv' OBVIOUS
<1>1. CASE StartupNext BY <1>1, StagesKept, LoadedKept, DatabaseKept DEF IInv
<1>2. CASE UNCHANGED allVars
  <2>1. UNCHANGED vars /\ UNCHANGED loadVars BY <1>2 DEF allVars
  <2> QED BY <1>2, <2>1, StagesStay, LoadingStays, DatabaseStays DEF IInv
<1> QED BY <1>1, <1>2

LEMMA IInvAlways == StartupSpec => []IInv
BY IInvInit, IInvStep, PTL DEF StartupSpec

LEMMA IInvIsStartInv == IInv => StartInv
BY DEF IInv, StagesInv, Loaded, DatabaseInv, StartInv, StartTypeOK

(***************************************************************************)
(* A version is recorded only when the schema holds all of its script,     *)
(* however many migrations there are and wherever they are killed.         *)
(***************************************************************************)
THEOREM MigrationsAreWhole == StartupSpec => []RecordedIsApplied
<1>1. IInv => RecordedIsApplied BY DEF IInv, DatabaseInv
<1> QED BY <1>1, IInvAlways, PTL

(***************************************************************************)
(* Every graph document is accepted exactly when it is well formed, in     *)
(* whatever order its edges are listed and its worklist is filled.         *)
(***************************************************************************)
THEOREM VerdictsAreExact == StartupSpec => []VerdictIsExact
<1>1. IInv => VerdictIsExact BY DEF IInv, Loaded, VerdictIsExact
<1> QED BY <1>1, IInvAlways, PTL

(***************************************************************************)
(* A setting is what its latest source says, for every document, every     *)
(* environment and every override.                                         *)
(***************************************************************************)
THEOREM PrecedenceIsKept == StartupSpec => []PrecedenceHolds
<1>1. IInv => PrecedenceHolds BY PrecedenceOfLoaded DEF IInv, StagesInv
<1> QED BY <1>1, IInvAlways, PTL

(***************************************************************************)
(* What holds at every step of the start of a command: no kill leaves a    *)
(* database on which a command fails, if the environment names no          *)
(* assessment but those that are there.                                    *)
(***************************************************************************)
LEMMA NothingBegins == StartupInit => NothingFails
BY DEF StartupInit, Init, NothingFails

LEMMA NothingFailsStep ==
  ASSUME Ghosts = {}, IInv, NothingFails, [StartupNext]_allVars
  PROVE  NothingFails'
<1>1. active \in Created \/ pc # "session" BY DEF IInv, DatabaseInv, ActiveIsThere
<1>2. CASE BootstrapStep
  BY <1>1, <1>2 DEF BootstrapStep, PickMigration, AfterPick, Migrated, ExecuteStatement, Reruns,
     EndScript, RecordVersion, FindActive, AdoptOldest, CreateAssessment, RememberCreated,
     RestoreMeta, OpenSession, ReadyEntry, NothingFails
<1>3. CASE pc' \in {pc, "idle", "migrate"} BY <1>3 DEF NothingFails
<1>4. BootstrapStep \/ pc' \in {pc, "idle", "migrate"}
  BY DEF StartupNext, StartupStep, Start, EditGraph, EndConfiguration, LoadStep, GraphAccepted,
     GraphRejected, Construct, Command, ValidateEnds, DatabaseStep, Close, Killed, Crash, Release,
     AddFile, allVars, vars
<1> QED BY <1>2, <1>3, <1>4

THEOREM StartIsSafe == Ghosts = {} => (StartupSpec => []StartupInv)
<1> SUFFICES ASSUME Ghosts = {} PROVE StartupSpec => []StartupInv OBVIOUS
<1>1. IInv /\ NothingFails /\ [StartupNext]_allVars => NothingFails' BY NothingFailsStep
<1>2. IInv /\ NothingFails => StartupInv BY IInvIsStartInv DEF StartupInv
<1> QED BY <1>1, <1>2, IInvAlways, NothingBegins, PTL DEF StartupSpec

(***************************************************************************)
(* Whatever is killed, one assessment is made, it is the one remembered,   *)
(* and an opened engine has its session and its entry node.                *)
(***************************************************************************)
THEOREM OpeningIsBacked == Ghosts = {} => (StartupSpec => []OpenedIsBacked)
<1> SUFFICES ASSUME Ghosts = {} PROVE StartupSpec => []OpenedIsBacked OBVIOUS
<1>1. IInv => OpenedIsBacked BY DEF IInv, DatabaseInv, ActiveIsThere, OpenedIsBacked
<1> QED BY <1>1, IInvAlways, PTL

(***************************************************************************)
(* What restores the statements of the documents that start-up does not    *)
(* keep in general: releases that come in order, commands that are not     *)
(* killed, an environment that makes no assessment up.                     *)
(***************************************************************************)
\* A step that is no step of the command and no release changes none of these.
LEMMA StartLeavesDatabase ==
  ASSUME [StartupNext]_allVars
  PROVE  \/ BootstrapStep
         \/ Crash
         \/ \E v \in Versions : AddFile(v)
         \/ /\ UNCHANGED <<files, disk, script, crashes>> /\ pc' \in {pc, "migrate"}
            /\ UNCHANGED pc \/ pc \in AtRest
BY DEF StartupNext, StartupStep, Start, EditGraph, EndConfiguration, LoadStep, GraphAccepted,
   GraphRejected, Construct, Command, ValidateEnds, DatabaseStep, Close, Killed, Release,
   allVars, vars

\* A set of numbers of which finitely many are given has a greatest.
LEMMA GreatestOfNaturals ==
  ASSUME NEW S \in SUBSET Nat, S # {}, IsFiniteSet(S)
  PROVE  Max(S) \in S /\ \A y \in S : y <= Max(S)
<1> DEFINE Above(x) == {y \in S : x < y}
           Counts == {Cardinality(Above(x)) : x \in S}
<1>1. \A x \in S : IsFiniteSet(Above(x)) /\ Cardinality(Above(x)) \in Nat
  BY FS_Subset, FS_CardinalityType
<1>2. Counts \in SUBSET Nat /\ Counts # {} BY <1>1
<1>3. Min(Counts) \in Counts /\ \A n \in Counts : Min(Counts) <= n
  BY <1>2, LeastOfNaturals
<1>4. PICK x \in S : \A y \in S : Cardinality(Above(x)) <= Cardinality(Above(y))
  BY <1>3
<1>5. ASSUME NEW y \in S, x < y PROVE FALSE
  <2>0. S \subseteq Nat /\ x \in Nat /\ y \in Nat OBVIOUS
  <2>1. \A z \in Nat : y < z => x < z BY <1>5, <2>0
  <2>2. y \in Above(x) /\ y \notin Above(y) BY <1>5, <2>0
  <2>3. Above(y) \in SUBSET Above(x) BY <2>0, <2>1
  <2> HIDE DEF Above
  <2>4. /\ Cardinality(Above(y)) <= Cardinality(Above(x))
        /\ Cardinality(Above(x)) # Cardinality(Above(y))
    BY <1>1, <2>2, <2>3, FS_Subset
  <2> QED BY <1>1, <1>4, <2>4
<1>6. \A y \in S : y <= x /\ y \in Nat BY <1>5
<1>7. Max(S) \in S /\ \A y \in S : Max(S) >= y BY <1>6 DEF Max
<1> QED BY <1>6, <1>7

\* A release ships versions above all that were shipped before.
ReleaseInOrder == \A v \in files' \ files : \A w \in files : w < v
ReleasesInOrder == [][ReleaseInOrder]_files

\* What is not recorded lies above what is; a command that is past its migrations
\* has recorded every file.
RecordedFirst ==
  /\ \A v \in files \ versions : \A w \in versions : w < v
  /\ pc = "find" => files = versions

LEMMA UnrecordedIsPending ==
  ASSUME TypeOK, RecordedFirst
  PROVE  Pending = files \ versions
<1>1. /\ versions \subseteq files /\ files \subseteq Versions
      /\ Versions \subseteq Nat \ {0} /\ IsFiniteSet(Versions)
  BY BootstrapAssumption DEF TypeOK
<1>2. versions \cup {0} \in SUBSET Nat /\ IsFiniteSet(versions \cup {0})
  <2>1. versions \in SUBSET Versions BY <1>1
  <2>2. IsFiniteSet(versions) BY <1>1, <2>1, FS_Subset
  <2>3. IsFiniteSet(versions \cup {0}) BY <2>2, FS_AddElement
  <2> QED BY <1>1, <2>3
<1>3. CurrentVersion \in versions \cup {0} /\ \A w \in versions \cup {0} : w <= CurrentVersion
  BY <1>2, GreatestOfNaturals DEF CurrentVersion
<1>4. ASSUME NEW v \in files \ versions PROVE v > CurrentVersion
  BY <1>1, <1>3 DEF RecordedFirst
<1>5. ASSUME NEW v \in versions PROVE ~(v > CurrentVersion) BY <1>1, <1>3
<1> QED BY <1>1, <1>4, <1>5 DEF Pending

LEMMA RecordedFirstStep ==
  ASSUME DatabaseInv, RecordedFirst, ReleaseInOrder, [StartupNext]_allVars
  PROVE  RecordedFirst'
<1> USE DEF DatabaseInv
<1>0. /\ versions \subseteq files /\ files \subseteq Versions /\ Versions \subseteq Nat
      /\ Pending = files \ versions
  BY BootstrapAssumption, UnrecordedIsPending DEF TypeOK
<1>1. CASE RecordVersion
  <2>1. /\ pc = "row" /\ pc' = "migrate" /\ files' = files
        /\ versions' = versions \cup {Migrating} /\ Pending # {}
    BY <1>1 DEF RecordVersion, ScriptIsWritten
  <2>2. Pending \in SUBSET Nat BY <1>0
  <2>3. Migrating \in Pending /\ \A v \in Pending : Migrating <= v
    BY <2>1, <2>2, LeastOfNaturals DEF Migrating
  <2>4. ASSUME NEW v \in files' \ versions', NEW w \in versions' PROVE w < v
    <3>1. v \in Pending /\ v # Migrating BY <1>0, <2>1
    <3>2. CASE w \in versions BY <1>0, <2>1, <3>2 DEF RecordedFirst
    <3>3. CASE w = Migrating BY <2>2, <2>3, <3>1, <3>3
    <3> QED BY <2>1, <3>2, <3>3
  <2> QED BY <2>1, <2>4 DEF RecordedFirst
<1>2. CASE Migrated BY <1>0, <1>2 DEF Migrated, disk, RecordedFirst
<1>3. CASE BootstrapStep /\ ~RecordVersion /\ ~Migrated
  <2>1. files' = files /\ versions' = versions /\ pc' # "find"
    BY <1>3 DEF BootstrapStep, PickMigration, AfterPick, ExecuteStatement, EndScript, FindActive,
       AdoptOldest, CreateAssessment, RememberCreated, RestoreMeta, OpenSession, ReadyEntry, disk
  <2> QED BY <2>1 DEF RecordedFirst
<1>4. CASE Crash BY <1>4 DEF Crash, disk, RecordedFirst
<1>5. CASE \E v \in Versions : AddFile(v)
  <2>1. PICK v \in Versions : AddFile(v) BY <1>5
  <2>2. pc \in AtRest /\ pc' = pc /\ versions' = versions /\ files' = files \cup {v} /\ v \notin files
    BY <2>1 DEF AddFile, disk
  <2>3. \A w \in files : w < v BY <2>2 DEF ReleaseInOrder
  <2> QED BY <1>0, <2>2, <2>3 DEF RecordedFirst, AtRest
<1>6. CASE UNCHANGED <<files, disk>> /\ pc' \in {pc, "migrate"} BY <1>6 DEF disk, RecordedFirst
<1> QED BY <1>1, <1>2, <1>3, <1>4, <1>5, <1>6, StartLeavesDatabase

(***************************************************************************)
(* docs/developer-guide.md, pending migrations are those not among the     *)
(* "already-applied versions": so it is when every release ships versions  *)
(* above all the earlier ones, whatever is killed on the way.              *)
(***************************************************************************)
THEOREM OrderedReleasesAreApplied ==
  StartupSpec /\ ReleasesInOrder => []EveryFileIsApplied
<1>1. StartupInit => RecordedFirst BY DEF StartupInit, Init, RecordedFirst
<1>2. [ReleaseInOrder]_files => ReleaseInOrder BY DEF ReleaseInOrder
<1>3. IInv /\ RecordedFirst /\ ReleaseInOrder /\ [StartupNext]_allVars => RecordedFirst'
  BY RecordedFirstStep DEF IInv
<1>4. RecordedFirst => EveryFileIsApplied BY DEF RecordedFirst, EveryFileIsApplied
<1> QED BY <1>1, <1>2, <1>3, <1>4, IInvAlways, PTL DEF StartupSpec, ReleasesInOrder

\* While no command is killed, only the version whose script is executing is in
\* the schema without being recorded.
OneUnderWay ==
  /\ crashes = 0
  /\ pc = "script" => \A i \in DOMAIN script : script[i] \in Script(Migrating)
  /\ \A v \in Versions : Script(v) \cap tables # {} =>
       v \in versions \/ (pc \in {"script", "row"} /\ v = Migrating)

LEMMA OneUnderWayStep ==
  ASSUME MaxCrashes = 0, DatabaseInv, OneUnderWay, [StartupNext]_allVars
  PROVE  OneUnderWay'
<1> USE DEF DatabaseInv
<1>0. ~Crash BY DEF Crash, OneUnderWay
<1>1. CASE PickMigration
  <2>1. /\ pc = "migrate" /\ pc' = "script" /\ UNCHANGED <<tables, versions, crashes>>
        /\ script' = [i \in 1..Statements[Migrating] |-> <<Migrating, i>>]
        /\ Migrating' = Migrating /\ Script(Migrating)' = Script(Migrating)
    BY <1>1, MigrationStays DEF PickMigration, AfterPick, disk
  <2>2. \A i \in DOMAIN script' : script'[i] \in Script(Migrating) BY <2>1 DEF Script
  <2> QED BY <2>1, <2>2 DEF OneUnderWay, Script
<1>2. CASE ExecuteStatement
  <2>1. /\ pc = "script" /\ pc' = "script" /\ UNCHANGED <<versions, crashes>>
        /\ script \in Seq(AllStatements) /\ script # <<>>
        /\ tables' = tables \cup {Head(script)} /\ script' = Tail(script)
        /\ Migrating' = Migrating /\ Script(Migrating)' = Script(Migrating)
    BY <1>2, MigrationStays DEF ExecuteStatement, Reruns, TypeOK
  <2>2. \A i \in DOMAIN script : script[i] \in Script(Migrating) BY <2>1 DEF OneUnderWay
  <2>3. Head(script) \in Script(Migrating) BY <2>1, <2>2
  <2>4. \A i \in DOMAIN script' : script'[i] \in Script(Migrating)
    <3> SUFFICES ASSUME NEW i \in DOMAIN script' PROVE script'[i] \in Script(Migrating) OBVIOUS
    <3>1. i + 1 \in DOMAIN script /\ script'[i] = script[i + 1] BY <2>1
    <3> QED BY <2>2, <3>1
  <2>5. ASSUME NEW v \in Versions, Head(script) \in Script(v) PROVE v = Migrating
    BY <2>3, <2>5 DEF Script
  <2> QED BY <2>1, <2>4, <2>5 DEF OneUnderWay, Script
<1>3. CASE EndScript
  <2>1. /\ pc = "script" /\ pc' = "row" /\ UNCHANGED <<tables, versions, crashes>>
        /\ Migrating' = Migrating
    BY <1>3, MigrationStays DEF EndScript, disk
  <2> QED BY <2>1 DEF OneUnderWay, Script
<1>4. CASE RecordVersion BY <1>4 DEF RecordVersion, OneUnderWay, Script
<1>5. CASE /\ UNCHANGED <<tables, versions, crashes>>
           /\ pc \notin {"script", "row"} /\ pc' \notin {"script", "row"}
  BY <1>5 DEF OneUnderWay, Script
<1>6. CASE UNCHANGED <<files, tables, versions, crashes, pc, script>>
  BY <1>6, MigrationStays DEF OneUnderWay, Script
<1>7. CASE BootstrapStep
  BY <1>1, <1>2, <1>3, <1>4, <1>5, <1>7 DEF BootstrapStep, Migrated, FindActive, AdoptOldest,
     CreateAssessment, RememberCreated, RestoreMeta, OpenSession, ReadyEntry, disk
<1>8. CASE \E v \in Versions : AddFile(v) BY <1>5, <1>8 DEF AddFile, AtRest, disk
<1>9. CASE /\ UNCHANGED <<files, disk, script, crashes>> /\ pc' \in {pc, "migrate"}
           /\ UNCHANGED pc \/ pc \in AtRest
  <2>1. CASE UNCHANGED pc BY <1>6, <1>9, <2>1 DEF disk
  <2>2. CASE pc \in AtRest BY <1>5, <1>9, <2>2 DEF disk, AtRest
  <2> QED BY <1>9, <2>1, <2>2
<1> QED BY <1>0, <1>7, <1>8, <1>9, StartLeavesDatabase

(***************************************************************************)
(* docs/developer-guide.md, "within a transaction": a migration is in the  *)
(* schema as a whole or not at all between commands none of which was      *)
(* killed; only a kill shows that statements commit one by one.            *)
(***************************************************************************)
THEOREM MigrationsAreAtomicWithoutKills ==
  MaxCrashes = 0 => (StartupSpec => []MigrationIsAtomic)
<1> SUFFICES ASSUME MaxCrashes = 0 PROVE StartupSpec => []MigrationIsAtomic OBVIOUS
<1>1. StartupInit => OneUnderWay BY DEF StartupInit, Init, OneUnderWay
<1>2. IInv /\ OneUnderWay /\ [StartupNext]_allVars => OneUnderWay'
  BY OneUnderWayStep DEF IInv
<1>3. IInv /\ OneUnderWay => MigrationIsAtomic
  BY DEF IInv, DatabaseInv, OneUnderWay, RecordedIsApplied, MigrationIsAtomic, AtRest
<1> QED BY <1>1, <1>2, <1>3, IInvAlways, PTL DEF StartupSpec

(***************************************************************************)
(* docs/operator-guide.md, init "creates the first assessment if none      *)
(* exists": it does when the configuration names no assessment that was    *)
(* never created, in spite of every kill.                                  *)
(***************************************************************************)
THEOREM InitCreates == Ghosts = {} => (StartupSpec => []InitCreatesAssessment)
<1> SUFFICES ASSUME Ghosts = {} PROVE StartupSpec => []InitCreatesAssessment OBVIOUS
<1>1. StartupInit => InitCreatesAssessment
  BY DEF StartupInit, Init, InitCreatesAssessment
<1>2. IInv /\ InitCreatesAssessment /\ [StartupNext]_allVars => InitCreatesAssessment'
  <2> SUFFICES ASSUME IInv, InitCreatesAssessment, [StartupNext]_allVars
               PROVE  InitCreatesAssessment'
    OBVIOUS
  <2>1. CASE RestoreMeta
    <3>1. active \in Created BY <2>1 DEF RestoreMeta, IInv, DatabaseInv, ActiveIsThere
    <3>2. assessments # <<>> BY <3>1 DEF Created
    <3> QED BY <2>1, <3>2 DEF RestoreMeta, InitCreatesAssessment
  <2>2. CASE BootstrapStep /\ ~RestoreMeta
    BY <2>2 DEF BootstrapStep, PickMigration, AfterPick, Migrated, ExecuteStatement, Reruns,
       EndScript, RecordVersion, FindActive, AdoptOldest, CreateAssessment, RememberCreated,
       OpenSession, ReadyEntry, InitCreatesAssessment
  <2>3. CASE assessments' = assessments /\ pc' \in {pc, "idle", "migrate"}
    BY <2>3 DEF InitCreatesAssessment
  <2> QED BY <2>1, <2>2, <2>3, StartLeavesDatabase DEF Crash, AddFile, disk
<1> QED BY <1>1, <1>2, IInvAlways, PTL DEF StartupSpec

=============================================================================
