--------------------------- MODULE EvidenceProofs ---------------------------
(***************************************************************************)
(* Machine-checked proofs about what the handlers leave behind: for every  *)
(* estate of files, every answer and every order of runs, whatever raises  *)
(* or is killed between two writes.                                        *)
(***************************************************************************)
EXTENDS EvidenceTrail, FiniteSetTheorems, WellFoundedInduction, TLAPS

(***************************************************************************)
(* Sequences of writes, put together.                                      *)
(***************************************************************************)
LEMMA LeastNatural ==
  ASSUME NEW S \in SUBSET Nat, S # {}
  PROVE  \E x \in S : \A y \in S : x <= y
<1> DEFINE R == {p \in Nat \X Nat : p[1] < p[2]}
<1>1. IsWellFoundedOn(R, Nat) BY NatLessThanWellFounded DEF OpToRel
<1>2. \A x, y \in Nat : x < y => <<x, y>> \in R OBVIOUS
<1> HIDE DEF R
<1>3. PICK x \in S : \A y \in S : ~(<<y, x>> \in R) BY <1>1, WFMin
<1>4. ASSUME NEW y \in S PROVE x <= y
  <2>1. x \in Nat /\ y \in Nat OBVIOUS
  <2>2. ~(y < x) BY <1>2, <1>3, <2>1
  <2> QED BY <2>1, <2>2
<1> QED BY <1>4

\* f[i] is the first i sequences of seqs, one after the other.
Joins(f, seqs) ==
  f = [i \in 1..Len(seqs) |-> IF i = 1 THEN seqs[i] ELSE f[i - 1] \o seqs[i]]

\* There is such a function, up to every length.
LEMMA JoiningIsPossible ==
  ASSUME NEW C, \A a, b \in C : a \o b \in C, NEW seqs \in Seq(C)
  PROVE  \E f : Joins(f, seqs)
<1> DEFINE n == Len(seqs)
           Step(f, k) == \A i \in 1..k :
             f[i] = IF i = 1 THEN seqs[i] ELSE f[i - 1] \o seqs[i]
           Short == {k \in 0..n : ~ \E f : f = [i \in 1..k |-> f[i]] /\ Step(f, k)}
<1>1. n \in Nat OBVIOUS
<1> HIDE DEF n
<1>2. Short = {}
  <2> SUFFICES ASSUME Short # {} PROVE FALSE OBVIOUS
  <2>1. Short \in SUBSET Nat BY <1>1
  <2>2. PICK k \in Short : \A y \in Short : k <= y BY <2>1, LeastNatural
  <2>3. k # 0
    <3> DEFINE g == [i \in 1..0 |-> i]
    <3>1. g = [i \in 1..0 |-> g[i]] /\ Step(g, 0) OBVIOUS
    <3> HIDE DEF g
    <3> QED BY <3>1, <2>2
  <2>4. k - 1 \in 0..n /\ k - 1 \notin Short /\ k \in 1..n
    <3>1. k \in 0..n BY <2>2
    <3>2. k \in 1..n /\ k - 1 \in 0..n /\ ~(k <= k - 1) BY <1>1, <2>3, <3>1
    <3>3. k - 1 \notin Short BY <2>2, <3>2
    <3> QED BY <3>2, <3>3
  <2>5. PICK f : f = [i \in 1..(k - 1) |-> f[i]] /\ Step(f, k - 1) BY <2>4
  <2> DEFINE g == [i \in 1..k |-> IF i = k
                     THEN (IF i = 1 THEN seqs[i] ELSE f[i - 1] \o seqs[i]) ELSE f[i]]
  <2>6. g = [i \in 1..k |-> g[i]] OBVIOUS
  <2>7. ASSUME NEW i \in 1..k
        PROVE  g[i] = IF i = 1 THEN seqs[i] ELSE g[i - 1] \o seqs[i]
    <3>1. CASE i = k
      <4>1. i # 1 => i - 1 \in 1..k /\ i - 1 # k BY <2>4, <3>1
      <4>2. i # 1 => g[i - 1] = f[i - 1] BY <4>1
      <4> QED BY <3>1, <4>2
    <3>2. CASE i # k
      <4>1. i \in 1..(k - 1) /\ (i # 1 => i - 1 \in 1..k /\ i - 1 # k) BY <2>4, <3>2
      <4>2. g[i] = f[i] /\ (i # 1 => g[i - 1] = f[i - 1]) BY <3>2, <4>1
      <4>3. f[i] = IF i = 1 THEN seqs[i] ELSE f[i - 1] \o seqs[i] BY <2>5, <4>1
      <4> QED BY <4>2, <4>3
    <3> QED BY <3>1, <3>2
  <2> HIDE DEF g
  <2>8. \E h : h = [i \in 1..k |-> h[i]] /\ Step(h, k) BY <2>6, <2>7
  <2> QED BY <2>2, <2>8
<1>3. n \notin Short /\ n \in 0..n BY <1>1, <1>2
<1>4. PICK f : f = [i \in 1..n |-> f[i]] /\ Step(f, n) BY <1>3
<1>5. f = [i \in 1..n |-> IF i = 1 THEN seqs[i] ELSE f[i - 1] \o seqs[i]] BY <1>4
<1> QED BY <1>5 DEF Joins, n

LEMMA FlattenJoins ==
  ASSUME NEW C, \A a, b \in C : a \o b \in C, NEW seqs \in Seq(C), Len(seqs) # 0
  PROVE  \E f : /\ Joins(f, seqs) /\ FlattenSeq(seqs) = f[Len(seqs)]
                /\ \A i \in 1..Len(seqs) : f[i] \in C
<1> DEFINE f == CHOOSE g : Joins(g, seqs)
           n == Len(seqs)
           Out == {k \in 1..n : f[k] \notin C}
<1>1. Joins(f, seqs) BY JoiningIsPossible
<1>2. FlattenSeq(seqs) = f[n] BY DEF FlattenSeq, Joins
<1>3. n \in Nat \ {0} /\ \A i \in 1..n : seqs[i] \in C OBVIOUS
<1> HIDE DEF f
<1>4. \A i \in 1..n : f[i] = IF i = 1 THEN seqs[i] ELSE f[i - 1] \o seqs[i]
  BY <1>1 DEF Joins
<1> HIDE DEF n
<1>5. Out = {}
  <2> SUFFICES ASSUME Out # {} PROVE FALSE OBVIOUS
  <2>1. Out \in SUBSET Nat BY <1>3
  <2>2. PICK k \in Out : \A y \in Out : k <= y BY <2>1, LeastNatural
  <2>3. k # 1 BY <1>3, <1>4, <2>2
  <2>4. k - 1 \in 1..n /\ k - 1 \notin Out BY <1>3, <2>2, <2>3
  <2>5. f[k - 1] \in C /\ f[k] = f[k - 1] \o seqs[k] BY <1>4, <2>2, <2>3, <2>4
  <2> QED BY <1>3, <2>2, <2>5
<1> QED BY <1>1, <1>2, <1>5 DEF n

\* What is true of every part, and of two one after the other, is true of all.
LEMMA FlattenIn ==
  ASSUME NEW C, \A a, b \in C : a \o b \in C, <<>> \in C, NEW seqs \in Seq(C)
  PROVE  FlattenSeq(seqs) \in C
<1>1. CASE Len(seqs) = 0
  <2>1. seqs = <<>> BY <1>1
  <2>2. FlattenSeq(seqs) = seqs BY <1>1 DEF FlattenSeq
  <2> QED BY <2>1, <2>2
<1>2. CASE Len(seqs) # 0
  <2>1. PICK f : /\ FlattenSeq(seqs) = f[Len(seqs)]
                 /\ \A i \in 1..Len(seqs) : f[i] \in C
    BY <1>2, FlattenJoins
  <2>2. Len(seqs) \in 1..Len(seqs) BY <1>2
  <2> QED BY <2>1, <2>2
<1> QED BY <1>1, <1>2

\* What one part has, and nothing before or after it takes away, all have.
LEMMA FlattenKeeps ==
  ASSUME NEW W, NEW C \in SUBSET Seq(W),
         \A a \in C, b \in Seq(W) : a \o b \in C /\ b \o a \in C,
         NEW seqs \in Seq(Seq(W)), NEW k \in 1..Len(seqs), seqs[k] \in C
  PROVE  FlattenSeq(seqs) \in C
<1> DEFINE n == Len(seqs)
<1>1. n \in Nat \ {0} /\ k \in 1..n /\ \A i \in 1..n : seqs[i] \in Seq(W)
  <2>1. n \in Nat OBVIOUS
  <2>2. k \in 1..n /\ n # 0 BY <2>1
  <2>3. \A i \in 1..n : seqs[i] \in Seq(W) OBVIOUS
  <2> QED BY <2>1, <2>2, <2>3
<1>2. \A a, b \in Seq(W) : a \o b \in Seq(W) OBVIOUS
<1>3. PICK f : /\ Joins(f, seqs) /\ FlattenSeq(seqs) = f[n]
               /\ \A i \in 1..n : f[i] \in Seq(W)
  BY <1>1, <1>2, FlattenJoins
<1>4. \A i \in 1..n : f[i] = IF i = 1 THEN seqs[i] ELSE f[i - 1] \o seqs[i]
  BY <1>3 DEF Joins
<1> DEFINE Out == {i \in k..n : f[i] \notin C}
<1> HIDE DEF n
<1>5. Out = {}
  <2> SUFFICES ASSUME Out # {} PROVE FALSE OBVIOUS
  <2>1. Out \in SUBSET Nat BY <1>1
  <2>2. PICK i \in Out : \A y \in Out : i <= y BY <2>1, LeastNatural
  <2>3. i \in 1..n BY <1>1, <2>2
  <2>4. CASE i = k
    <3>1. CASE i = 1 BY <1>4, <2>2, <2>3, <2>4, <3>1
    <3>2. CASE i # 1
      <4>1. i - 1 \in 1..n BY <1>1, <2>3, <3>2
      <4>2. f[i] = f[i - 1] \o seqs[k] /\ f[i - 1] \in Seq(W)
        BY <1>3, <1>4, <2>3, <2>4, <3>2, <4>1
      <4> QED BY <2>2, <4>2
    <3> QED BY <3>1, <3>2
  <2>5. CASE i # k
    <3>1. i \in Nat /\ k \in Nat /\ i > k /\ k >= 1 /\ i <= n
      BY <1>1, <2>2, <2>3, <2>5
    <3>2. i - 1 \in k..n /\ i # 1 BY <1>1, <3>1
    <3>3. i - 1 \notin Out
      <4>1. ~(i <= i - 1) BY <3>1
      <4> HIDE DEF Out
      <4> QED BY <2>2, <4>1
    <3>4. f[i - 1] \in C /\ f[i] = f[i - 1] \o seqs[i] /\ seqs[i] \in Seq(W)
      BY <1>1, <1>4, <2>3, <3>2, <3>3
    <3> QED BY <2>2, <3>4
  <2> QED BY <2>4, <2>5
<1>6. n \in k..n BY <1>1
<1> QED BY <1>3, <1>5, <1>6

LEMMA Concatenated ==
  ASSUME NEW S, NEW s \in Seq(S), NEW t \in Seq(S)
  PROVE  /\ s \o t \in Seq(S) /\ Len(s \o t) = Len(s) + Len(t)
         /\ \A i \in 1..Len(s) : (s \o t)[i] = s[i]
         /\ \A i \in 1..Len(t) : (s \o t)[Len(s) + i] = t[i]
OBVIOUS

LEMMA SameSequence ==
  ASSUME NEW S, NEW s \in Seq(S), NEW t \in Seq(S), NEW n \in Nat,
         Len(s) = n, Len(t) = n, \A i \in 1..n : s[i] = t[i]
  PROVE  s = t
<1>1. DOMAIN s = 1..n /\ DOMAIN t = 1..n OBVIOUS
<1>2. s = [i \in 1..n |-> s[i]] /\ t = [i \in 1..n |-> t[i]] BY <1>1
<1> QED BY <1>2

\* A pair and a triple are their first element and the rest.
LEMMA OneAndOne ==
  ASSUME NEW S, NEW a \in S, NEW b \in S
  PROVE  <<a>> \o <<b>> = <<a, b>>
<1> DEFINE s == <<a>> t == <<b>> p == <<a, b>> st == s \o t
<1>1. s \in Seq(S) /\ Len(s) = 1 /\ s[1] = a OBVIOUS
<1>2. t \in Seq(S) /\ Len(t) = 1 /\ t[1] = b OBVIOUS
<1>3. p \in Seq(S) /\ Len(p) = 2 /\ p[1] = a /\ p[2] = b OBVIOUS
<1> HIDE DEF s, t, p
<1>4. /\ st \in Seq(S) /\ Len(st) = Len(s) + Len(t)
      /\ \A i \in 1..Len(s) : st[i] = s[i]
      /\ \A i \in 1..Len(t) : st[Len(s) + i] = t[i]
  <2>1. s \in Seq(S) /\ t \in Seq(S) BY <1>1, <1>2
  <2> QED BY <2>1, Concatenated
<1> HIDE DEF st
<1>5. Len(st) = 2 BY <1>1, <1>2, <1>4
<1>6. st[1] = a /\ st[1 + 1] = b BY <1>1, <1>2, <1>4
<1>7. \A i \in 1..2 : st[i] = p[i] BY <1>3, <1>6
<1>8. st = p BY <1>3, <1>4, <1>5, <1>7, SameSequence
<1> QED BY <1>8 DEF s, t, p, st

LEMMA OneAndTwo ==
  ASSUME NEW S, NEW a \in S, NEW b \in S, NEW c \in S
  PROVE  <<a>> \o <<b, c>> = <<a, b, c>>
<1> DEFINE s == <<a>> t == <<b, c>> p == <<a, b, c>> st == s \o t
<1>1. s \in Seq(S) /\ Len(s) = 1 /\ s[1] = a OBVIOUS
<1>2. t \in Seq(S) /\ Len(t) = 2 /\ t[1] = b /\ t[2] = c OBVIOUS
<1>3. p \in Seq(S) /\ Len(p) = 3 /\ p[1] = a /\ p[2] = b /\ p[3] = c OBVIOUS
<1> HIDE DEF s, t, p
<1>4. /\ st \in Seq(S) /\ Len(st) = Len(s) + Len(t)
      /\ \A i \in 1..Len(s) : st[i] = s[i]
      /\ \A i \in 1..Len(t) : st[Len(s) + i] = t[i]
  <2>1. s \in Seq(S) /\ t \in Seq(S) BY <1>1, <1>2
  <2> QED BY <2>1, Concatenated
<1> HIDE DEF st
<1>5. Len(st) = 3 BY <1>1, <1>2, <1>4
<1>6. st[1] = a /\ st[1 + 1] = b /\ st[1 + 2] = c BY <1>1, <1>2, <1>4
<1>7. \A i \in 1..3 : st[i] = p[i] BY <1>3, <1>6
<1>8. st = p BY <1>3, <1>4, <1>5, <1>7, SameSequence
<1> QED BY <1>8 DEF s, t, p, st

(***************************************************************************)
(* The writes of a loop.                                                   *)
(***************************************************************************)
LEMMA ItemsAreListed ==
  ASSUME NEW D, IsFiniteSet(D)
  PROVE  /\ Cardinality(D) \in Nat
         /\ SetToSeq(D) \in [1..Cardinality(D) -> D]
         /\ \A x \in D : \E i \in 1..Cardinality(D) : SetToSeq(D)[i] = x
<1> DEFINE n == Cardinality(D)
<1>1. n \in Nat /\ ExistsBijection(1..n, D) BY FS_CardinalityType
<1>2. PICK f : f \in Bijection(1..n, D) BY <1>1 DEF ExistsBijection
<1>3. f \in [1..n -> D] /\ IsInjective(f)
  BY <1>2 DEF Bijection, Injection, IsInjective
<1>4. SetToSeq(D) \in [1..n -> D] /\ IsInjective(SetToSeq(D)) BY <1>3 DEF SetToSeq
<1>5. IsFiniteSet(1..n) /\ Cardinality(1..n) = n BY <1>1, FS_Interval
<1>6. SetToSeq(D) \in Injection(1..n, D) BY <1>4 DEF Injection, IsInjective
<1>7. SetToSeq(D) \in Surjection(1..n, D) BY <1>5, <1>6, FS_Injection
<1> QED BY <1>1, <1>4, <1>7 DEF Surjection

LEMMA EachIn ==
  ASSUME NEW C, \A a, b \in C : a \o b \in C, <<>> \in C,
         NEW w, IsFiniteSet(DOMAIN w), \A x \in DOMAIN w : w[x] \in C
  PROVE  Each(w) \in C
<1> DEFINE n == Cardinality(DOMAIN w)
           seqs == [i \in 1..n |-> w[SetToSeq(DOMAIN w)[i]]]
<1>1. n \in Nat /\ SetToSeq(DOMAIN w) \in [1..n -> DOMAIN w] BY ItemsAreListed
<1>2. seqs \in Seq(C) BY <1>1
<1>3. FlattenSeq(seqs) \in C BY <1>2, FlattenIn
<1> QED BY <1>3 DEF Each

LEMMA EachKeeps ==
  ASSUME NEW W, NEW C \in SUBSET Seq(W),
         \A a \in C, b \in Seq(W) : a \o b \in C /\ b \o a \in C,
         NEW w, IsFiniteSet(DOMAIN w), \A x \in DOMAIN w : w[x] \in Seq(W),
         NEW y \in DOMAIN w, w[y] \in C
  PROVE  Each(w) \in C
<1> DEFINE n == Cardinality(DOMAIN w)
           seqs == [i \in 1..n |-> w[SetToSeq(DOMAIN w)[i]]]
<1>1. n \in Nat /\ SetToSeq(DOMAIN w) \in [1..n -> DOMAIN w] BY ItemsAreListed
<1>2. PICK k \in 1..n : SetToSeq(DOMAIN w)[k] = y BY ItemsAreListed
<1>3. seqs \in [1..n -> Seq(W)] BY <1>1
<1>4. seqs[k] \in C BY <1>2
<1> HIDE DEF n, seqs
<1>5. seqs \in Seq(Seq(W)) /\ Len(seqs) = n BY <1>1, <1>3
<1>6. k \in 1..Len(seqs) BY <1>2, <1>5
<1>7. FlattenSeq(seqs) \in C BY <1>4, <1>5, <1>6, FlattenKeeps
<1> QED BY <1>7 DEF Each, n, seqs

(***************************************************************************)
(* Scripts.                                                                *)
(***************************************************************************)
\* The scripts that cite what is there or what they register, and all the ids
\* a script registers.
ScriptsOver(there) == {s \in Seq(Writes) : CitesInOrder(s, there)}
IdsOf(s) == Registers(s, Len(s))

LEMMA JoinedWrites ==
  ASSUME NEW s \in Seq(Writes), NEW t \in Seq(Writes)
  PROVE  /\ s \o t \in Seq(Writes)
         /\ IdsOf(s \o t) = IdsOf(s) \cup IdsOf(t)
         /\ EdgesOf(s \o t) = EdgesOf(s) \cup EdgesOf(t)
         /\ \A i \in 0..Len(s) : Registers(s \o t, i) = Registers(s, i)
         /\ \A i \in 0..Len(t) :
              Registers(s \o t, Len(s) + i) = IdsOf(s) \cup Registers(t, i)
<1> DEFINE m == Len(s) n == Len(t) st == s \o t
<1>1. /\ m \in Nat /\ n \in Nat /\ st \in Seq(Writes) /\ Len(st) = m + n
      /\ DOMAIN s = 1..m /\ DOMAIN t = 1..n /\ DOMAIN st = 1..(m + n)
      /\ \A i \in 1..m : st[i] = s[i]
      /\ \A i \in 1..n : st[m + i] = t[i]
  OBVIOUS
<1> HIDE DEF m, n, st
<1>2. ASSUME NEW i \in 0..m PROVE Registers(st, i) = Registers(s, i)
  <2>1. \A j \in 1..i : st[j] = s[j] BY <1>1
  <2> QED BY <2>1 DEF Registers
<1>3. ASSUME NEW i \in 0..n
      PROVE  Registers(st, m + i) = Registers(s, m) \cup Registers(t, i)
  <2>1. Registers(s, m) \subseteq Registers(st, m + i)
    <3>1. \A j \in 1..m : j \in 1..(m + i) /\ st[j] = s[j] BY <1>1
    <3> QED BY <3>1 DEF Registers
  <2>2. Registers(t, i) \subseteq Registers(st, m + i)
    <3>1. \A j \in 1..i : m + j \in 1..(m + i) /\ st[m + j] = t[j] BY <1>1
    <3> QED BY <3>1 DEF Registers
  <2>3. ASSUME NEW x \in Registers(st, m + i)
        PROVE  x \in Registers(s, m) \cup Registers(t, i)
    <3>1. PICK j \in 1..(m + i) : st[j].into = "evidence" /\ x = st[j].row
      BY DEF Registers
    <3>2. CASE j \in 1..m BY <1>1, <3>1, <3>2 DEF Registers
    <3>3. CASE j \notin 1..m
      <4>1. j - m \in 1..i /\ j - m \in 1..n /\ m + (j - m) = j BY <1>1, <3>1, <3>3
      <4>2. st[j] = t[j - m] BY <1>1, <4>1
      <4> QED BY <3>1, <4>1, <4>2 DEF Registers
    <3> QED BY <3>2, <3>3
  <2> QED BY <2>1, <2>2, <2>3
<1>4. IdsOf(st) = IdsOf(s) \cup IdsOf(t)
  <2>1. n \in 0..n BY <1>1
  <2> QED BY <1>1, <1>3, <2>1 DEF IdsOf, m, n
<1>5. EdgesOf(st) = EdgesOf(s) \cup EdgesOf(t)
  <2>1. EdgesOf(s) \subseteq EdgesOf(st)
    <3>1. \A j \in 1..m : j \in 1..(m + n) /\ st[j] = s[j] BY <1>1
    <3> QED BY <1>1, <3>1 DEF EdgesOf
  <2>2. EdgesOf(t) \subseteq EdgesOf(st)
    <3>1. \A j \in 1..n : m + j \in 1..(m + n) /\ st[m + j] = t[j] BY <1>1
    <3>2. ASSUME NEW x \in EdgesOf(t) PROVE x \in EdgesOf(st)
      <4>1. PICK j \in 1..n : t[j].into = "edges" /\ x = t[j].row.key
        BY <1>1 DEF EdgesOf
      <4>2. m + j \in DOMAIN st /\ st[m + j] = t[j] BY <1>1, <3>1
      <4> QED BY <4>1, <4>2 DEF EdgesOf
    <3> QED BY <3>2
  <2>3. ASSUME NEW x \in EdgesOf(st) PROVE x \in EdgesOf(s) \cup EdgesOf(t)
    <3>1. PICK j \in 1..(m + n) : st[j].into = "edges" /\ x = st[j].row.key
      BY <1>1 DEF EdgesOf
    <3>2. CASE j \in 1..m BY <1>1, <3>1, <3>2 DEF EdgesOf
    <3>3. CASE j \notin 1..m
      <4>1. j - m \in 1..n /\ m + (j - m) = j BY <1>1, <3>1, <3>3
      <4>2. st[j] = t[j - m] BY <1>1, <4>1
      <4> QED BY <1>1, <3>1, <4>1, <4>2 DEF EdgesOf
    <3> QED BY <3>2, <3>3
  <2> QED BY <2>1, <2>2, <2>3
<1> QED BY <1>1, <1>2, <1>3, <1>4, <1>5 DEF IdsOf, m, n, st

\* What the first script registers is there for the second.
LEMMA InOrder ==
  ASSUME NEW there, NEW s \in ScriptsOver(there),
         NEW t \in ScriptsOver(there \cup IdsOf(s))
  PROVE  s \o t \in ScriptsOver(there)
<1> DEFINE m == Len(s) n == Len(t) st == s \o t
<1>1. s \in Seq(Writes) /\ t \in Seq(Writes) /\ st \in Seq(Writes)
  BY JoinedWrites DEF ScriptsOver
<1>2. /\ m \in Nat /\ n \in Nat
      /\ DOMAIN s = 1..m /\ DOMAIN t = 1..n /\ DOMAIN st = 1..(m + n)
      /\ \A i \in 1..m : st[i] = s[i]
      /\ \A i \in 1..n : st[m + i] = t[i]
  BY <1>1
<1>3. /\ \A i \in 0..m : Registers(st, i) = Registers(s, i)
      /\ \A i \in 0..n : Registers(st, m + i) = IdsOf(s) \cup Registers(t, i)
  BY <1>1, JoinedWrites
<1> HIDE DEF m, n, st
<1>4. ASSUME NEW i \in DOMAIN st, st[i].into \in {"findings", "edges", "objects"}
      PROVE  st[i].row.cites \subseteq there \cup Registers(st, i - 1)
  <2>1. CASE i \in 1..m
    <3>1. i - 1 \in 0..m BY <1>2, <2>1
    <3>2. s[i].row.cites \subseteq there \cup Registers(s, i - 1)
      BY <1>2, <1>4, <2>1 DEF ScriptsOver, CitesInOrder
    <3> QED BY <1>2, <1>3, <2>1, <3>1, <3>2
  <2>2. CASE i \notin 1..m
    <3>1. i - m \in 1..n /\ m + (i - m) = i BY <1>2, <2>2
    <3>2. (i - m) - 1 \in 0..n /\ m + ((i - m) - 1) = i - 1 BY <1>2, <3>1
    <3>3. st[i] = t[i - m] BY <1>2, <3>1
    <3>4. t[i - m].row.cites \subseteq there \cup IdsOf(s) \cup Registers(t, (i - m) - 1)
      BY <1>2, <1>4, <3>1, <3>3 DEF ScriptsOver, CitesInOrder
    <3>5. Registers(st, i - 1) = IdsOf(s) \cup Registers(t, (i - m) - 1)
      BY <1>3, <3>2
    <3> QED BY <3>3, <3>4, <3>5
  <2> QED BY <2>1, <2>2
<1> QED BY <1>1, <1>4 DEF ScriptsOver, CitesInOrder, st

LEMMA MoreIsThere ==
  ASSUME NEW there, NEW more
  PROVE  ScriptsOver(there) \subseteq ScriptsOver(there \cup more)
BY DEF ScriptsOver, CitesInOrder

LEMMA NothingIsInOrder ==
  ASSUME NEW there
  PROVE  <<>> \in ScriptsOver(there) /\ IdsOf(<<>>) = {} /\ EdgesOf(<<>>) = {}
BY DEF ScriptsOver, CitesInOrder, IdsOf, Registers, EdgesOf

LEMMA OneInOrder ==
  ASSUME NEW there, NEW w \in Writes,
         w.into \in {"findings", "edges", "objects"} => w.row.cites \subseteq there
  PROVE  /\ <<w>> \in ScriptsOver(there)
         /\ w.into = "evidence" => w.row \in IdsOf(<<w>>)
         /\ w.into = "edges" => w.row.key \in EdgesOf(<<w>>)
<1> DEFINE s == <<w>>
<1>1. s \in Seq(Writes) /\ Len(s) = 1 /\ DOMAIN s = {1} /\ s[1] = w OBVIOUS
<1>2. 1 \in 1..1 OBVIOUS
<1> HIDE DEF s
<1>3. CitesInOrder(s, there) BY <1>1 DEF CitesInOrder
<1>4. w.into = "evidence" => w.row \in IdsOf(s) BY <1>1, <1>2 DEF IdsOf, Registers
<1>5. w.into = "edges" => w.row.key \in EdgesOf(s) BY <1>1 DEF EdgesOf
<1> QED BY <1>1, <1>3, <1>4, <1>5 DEF ScriptsOver, s

\* Two writes, the second of which may cite what the first registers.
Follows(there, a, b) ==
  <<a>> \in ScriptsOver(there) /\ <<b>> \in ScriptsOver(there \cup IdsOf(<<a>>)) =>
    /\ <<a, b>> \in ScriptsOver(there)
    /\ IdsOf(<<a, b>>) = IdsOf(<<a>>) \cup IdsOf(<<b>>)
    /\ EdgesOf(<<a, b>>) = EdgesOf(<<a>>) \cup EdgesOf(<<b>>)

LEMMA TwoInOrder ==
  ASSUME NEW there, NEW a, NEW b
  PROVE  Follows(there, a, b)
<1> SUFFICES ASSUME <<a>> \in ScriptsOver(there),
                    <<b>> \in ScriptsOver(there \cup IdsOf(<<a>>))
             PROVE  /\ <<a, b>> \in ScriptsOver(there)
                    /\ IdsOf(<<a, b>>) = IdsOf(<<a>>) \cup IdsOf(<<b>>)
                    /\ EdgesOf(<<a, b>>) = EdgesOf(<<a>>) \cup EdgesOf(<<b>>)
  BY DEF Follows
<1>1. <<a>> \in Seq(Writes) /\ <<b>> \in Seq(Writes) BY DEF ScriptsOver
<1>2. a \in Writes /\ b \in Writes
  <2>1. <<a>>[1] = a /\ 1 \in 1..Len(<<a>>) /\ <<b>>[1] = b /\ 1 \in 1..Len(<<b>>) OBVIOUS
  <2> QED BY <1>1, <2>1
<1>3. <<a>> \o <<b>> = <<a, b>> BY <1>2, OneAndOne
<1>4. <<a>> \o <<b>> \in ScriptsOver(there) BY InOrder
<1>5. /\ IdsOf(<<a>> \o <<b>>) = IdsOf(<<a>>) \cup IdsOf(<<b>>)
      /\ EdgesOf(<<a>> \o <<b>>) = EdgesOf(<<a>>) \cup EdgesOf(<<b>>)
  BY <1>1, JoinedWrites
<1> QED BY <1>3, <1>4, <1>5, Zenon

\* A loop is in order when every round of it is by itself, and does what its
\* rounds do.
LEMMA EachInOrder ==
  ASSUME NEW there, NEW w, IsFiniteSet(DOMAIN w),
         \A x \in DOMAIN w : w[x] \in ScriptsOver(there)
  PROVE  /\ Each(w) \in ScriptsOver(there)
         /\ \A x \in DOMAIN w : /\ IdsOf(w[x]) \subseteq IdsOf(Each(w))
                                /\ EdgesOf(w[x]) \subseteq EdgesOf(Each(w))
<1>1. \A a, b \in ScriptsOver(there) : a \o b \in ScriptsOver(there)
  BY InOrder, MoreIsThere
<1>2. Each(w) \in ScriptsOver(there) BY <1>1, NothingIsInOrder, EachIn
<1>3. \A x \in DOMAIN w : w[x] \in Seq(Writes) BY DEF ScriptsOver
<1>4. ASSUME NEW x \in DOMAIN w, NEW id \in IdsOf(w[x]) PROVE id \in IdsOf(Each(w))
  <2> DEFINE C == {s \in Seq(Writes) : id \in IdsOf(s)}
  <2>1. \A a \in C, b \in Seq(Writes) : a \o b \in C /\ b \o a \in C BY JoinedWrites
  <2>2. C \in SUBSET Seq(Writes) /\ w[x] \in C BY <1>3, <1>4
  <2>3. Each(w) \in C
    <3> HIDE DEF C
    <3> QED BY <1>3, <2>1, <2>2, EachKeeps
  <2> QED BY <2>3
<1>5. ASSUME NEW x \in DOMAIN w, NEW key \in EdgesOf(w[x]) PROVE key \in EdgesOf(Each(w))
  <2> DEFINE C == {s \in Seq(Writes) : key \in EdgesOf(s)}
  <2>1. \A a \in C, b \in Seq(Writes) : a \o b \in C /\ b \o a \in C BY JoinedWrites
  <2>2. C \in SUBSET Seq(Writes) /\ w[x] \in C BY <1>3, <1>5
  <2>3. Each(w) \in C
    <3> HIDE DEF C
    <3> QED BY <1>3, <2>1, <2>2, EachKeeps
  <2> QED BY <2>3
<1> QED BY <1>2, <1>4, <1>5

(***************************************************************************)
(* The writes of a node.                                                   *)
(***************************************************************************)
LEMMA IdsAreTyped ==
  ASSUME TypeOK, NEW n \in Nodes, NEW item \in Seq(Names)
  PROVE  Id(n, item) \in Ids
BY DEF TypeOK, Id, Ids

LEMMA WritesInOrder ==
  ASSUME TypeOK, NEW n \in Nodes, NEW there, NEW item \in Seq(Names)
  PROVE  /\ <<Evidence(n, item)>> \in ScriptsOver(there)
         /\ Id(n, item) \in IdsOf(<<Evidence(n, item)>>)
         /\ <<Gap(n, item)>> \in ScriptsOver(there)
         /\ n \in Askers => <<Request(n)>> \in ScriptsOver(there)
         /\ \A items \in SUBSET Seq(Names) :
              {Id(n, x) : x \in items} \subseteq there =>
                <<Finding(n, item, items)>> \in ScriptsOver(there)
         /\ \A a, b \in Names :
              Id(n, item) \in there => <<Object(n, a, b, item)>> \in ScriptsOver(there)
         /\ \A a, b, c \in Names :
              Id(n, item) \in there =>
                /\ <<Edge(n, a, b, c, item)>> \in ScriptsOver(there)
                /\ <<a, b, c>> \in EdgesOf(<<Edge(n, a, b, c, item)>>)
<1>1. Id(n, item) \in Ids BY IdsAreTyped
<1>2. Evidence(n, item) \in Writes /\ Gap(n, item) \in Writes
  BY <1>1 DEF Evidence, Gap, Write, Writes
<1>3. <<Evidence(n, item)>> \in ScriptsOver(there) /\ Id(n, item) \in IdsOf(<<Evidence(n, item)>>)
  <2>1. Evidence(n, item).into = "evidence" /\ Evidence(n, item).row = Id(n, item)
    BY DEF Evidence, Write
  <2> QED BY <1>2, <2>1, OneInOrder
<1>4. <<Gap(n, item)>> \in ScriptsOver(there)
  <2>1. Gap(n, item).into = "gaps" BY DEF Gap, Write
  <2> QED BY <1>2, <2>1, OneInOrder
<1>5. ASSUME n \in Askers PROVE <<Request(n)>> \in ScriptsOver(there)
  <2>1. Request(n) \in Writes /\ Request(n).into = "requests"
    BY <1>5 DEF Request, Write, Writes
  <2> QED BY <2>1, OneInOrder
<1>6. ASSUME NEW items \in SUBSET Seq(Names), {Id(n, x) : x \in items} \subseteq there
      PROVE  <<Finding(n, item, items)>> \in ScriptsOver(there)
  <2> DEFINE cites == {Id(n, x) : x \in items}
             row == [id |-> Id(n, item), cites |-> cites]
  <2>1. cites \in SUBSET Ids BY IdsAreTyped
  <2>2. Finding(n, item, items) = [into |-> "findings", row |-> row]
    BY DEF Finding, Write
  <2>3. row \in [id: Ids, cites: SUBSET Ids] /\ row.cites = cites
    <3> HIDE DEF cites
    <3> QED BY <1>1, <2>1
  <2> HIDE DEF row
  <2>4. Finding(n, item, items) \in Writes BY <2>2, <2>3 DEF Writes
  <2>5. Finding(n, item, items).into = "findings" /\ Finding(n, item, items).row = row
    BY <2>2
  <2> QED BY <1>6, <2>3, <2>4, <2>5, OneInOrder
<1>7. ASSUME NEW a \in Names, NEW b \in Names, Id(n, item) \in there
      PROVE  <<Object(n, a, b, item)>> \in ScriptsOver(there)
  <2> DEFINE row == [key |-> <<a, b>>, cites |-> {Id(n, item)}]
  <2>1. Object(n, a, b, item) = [into |-> "objects", row |-> row] BY DEF Object, Write
  <2>2. row \in [key: Seq(Names), cites: SUBSET Ids] /\ row.cites = {Id(n, item)}
    BY <1>1
  <2> HIDE DEF row
  <2>3. Object(n, a, b, item) \in Writes BY <2>1, <2>2 DEF Writes
  <2>4. Object(n, a, b, item).into = "objects" /\ Object(n, a, b, item).row = row
    BY <2>1
  <2> QED BY <1>7, <2>2, <2>3, <2>4, OneInOrder
<1>8. ASSUME NEW a \in Names, NEW b \in Names, NEW c \in Names, Id(n, item) \in there
      PROVE  /\ <<Edge(n, a, b, c, item)>> \in ScriptsOver(there)
             /\ <<a, b, c>> \in EdgesOf(<<Edge(n, a, b, c, item)>>)
  <2> DEFINE row == [key |-> <<a, b, c>>, cites |-> {Id(n, item)}]
  <2>1. Edge(n, a, b, c, item) = [into |-> "edges", row |-> row] BY DEF Edge, Write
  <2>2. /\ row \in [key: Seq(Names), cites: SUBSET Ids]
        /\ row.cites = {Id(n, item)} /\ row.key = <<a, b, c>>
    BY <1>1
  <2> HIDE DEF row
  <2>3. Edge(n, a, b, c, item) \in Writes BY <2>1, <2>2 DEF Writes
  <2>4. Edge(n, a, b, c, item).into = "edges" /\ Edge(n, a, b, c, item).row = row
    BY <2>1
  <2> QED BY <1>8, <2>2, <2>3, <2>4, OneInOrder
<1> QED BY <1>3, <1>4, <1>5, <1>6, <1>7, <1>8

LEMMA MaterialIsFinite ==
  ASSUME TypeOK
  PROVE  /\ \A f \in Files : \A columns :
              Rows(f, columns) \subseteq Mentions[f] /\ IsFiniteSet(Rows(f, columns))
         /\ \A f \in Files : IsFiniteSet(Mentions[f])
         /\ \A S \in SUBSET Files : /\ IsFiniteSet(S)
                                    /\ Books(S) \in SUBSET Files /\ IsFiniteSet(Books(S))
                                    /\ Latest(S) \in SUBSET Files /\ IsFiniteSet(Latest(S))
         /\ Files \subseteq Names
         /\ \A f \in Files : Mentions[f] \subseteq Names /\ Process[f] \in Names
<1>1. \A S \in SUBSET Files : IsFiniteSet(S) BY TrailAssumption, FS_Subset
<1>2. \A S \in SUBSET Files : Books(S) \in SUBSET Files /\ Latest(S) \in SUBSET Files
  BY DEF Books, Latest
<1>3. \A f \in Files : \A columns : Rows(f, columns) \subseteq Mentions[f] BY DEF Rows
<1>4. \A f \in Files : IsFiniteSet(Mentions[f]) BY TrailAssumption
<1>5. \A f \in Files : \A columns : IsFiniteSet(Rows(f, columns))
  BY <1>3, <1>4, FS_Subset
<1>6. /\ Files \subseteq Names
      /\ \A f \in Files : Mentions[f] \subseteq Names /\ Process[f] \in Names
  BY DEF Names
<1> QED BY <1>1, <1>2, <1>3, <1>4, <1>5, <1>6

\* A handler finds registered files, or files of the batch it was answered with.
LEMMA FoundAreFiles ==
  ASSUME TypeOK, NEW n, NEW found \in Found(n)
  PROVE  found \in SUBSET Files
<1>1. FilesOf({"sas-source"}) \subseteq Files BY DEF TypeOK, FilesOf
<1>2. FilesOf({"office-excel", "office-excel-legacy"}) \subseteq Files BY DEF TypeOK, FilesOf
<1>3. /\ FilesOf({"log-text", "text"}) \subseteq Files
      /\ FilesOf({"csv", "text"}) \subseteq Files
  BY DEF TypeOK, FilesOf
<1>4. Exports \subseteq Files BY DEF TypeOK, Exports
<1>5. Material(n) \subseteq Files BY <1>1, <1>2, <1>3, <1>4 DEF Material
<1> QED BY <1>5 DEF Found

\* What a handler that has found some files has to be for the properties to
\* follow.
Sound(h, n, found) ==
  /\ h.script \in ScriptsOver({}) /\ h.result \in Results
  /\ h.result = "success" => EdgesRead(n, found) \subseteq EdgesOf(h.script)

LEMMA NothingImplied ==
  ASSUME NEW n, n \notin {"sas.discover", "inventory.extract", "lineage.ingest_dba"}
  PROVE  \A found : EdgesRead(n, found) = {}
BY DEF EdgesRead

LEMMA WordsAreNames ==
  ASSUME NEW w \in Words
  PROVE  w \in Names /\ <<w>> \in Seq(Names)
<1>1. w \in Names BY DEF Names
<1> QED BY <1>1

LEMMA SysWorkspaceIsSound ==
  ASSUME TypeOK, NEW n \in Nodes, n = "sys.workspace"
  PROVE  \A found : Sound(SysWorkspace(n), n, found)
<1>1. <<"workspace">> \in Seq(Names) BY WordsAreNames DEF Words
<1>2. <<Evidence(n, <<"workspace">>)>> \in ScriptsOver({}) BY <1>1, WritesInOrder
<1> QED BY <1>2, NothingImplied DEF Sound, SysWorkspace, Handler, Results

LEMMA IntakeCoverageIsSound ==
  ASSUME TypeOK, NEW n \in Nodes, n = "intake.coverage"
  PROVE  \A found : Sound(IntakeCoverage(n), n, found)
<1> DEFINE first == <<Evidence(n, <<"coverage">>)>>
           gap == IF FilesOf({"sas-source"}) = {} THEN <<Gap(n, <<"no SAS sources">>)>> ELSE <<>>
           request == IF FilesOf({"log-text"}) = {} THEN <<Request(n)>> ELSE <<>>
<1>0. <<"coverage">> \in Seq(Names) /\ <<"no SAS sources">> \in Seq(Names)
  BY WordsAreNames DEF Words
<1>1. first \in ScriptsOver({}) BY <1>0, WritesInOrder
<1>2. gap \in ScriptsOver(IdsOf(first)) BY <1>0, WritesInOrder, NothingIsInOrder
<1>3. request \in ScriptsOver(IdsOf(first \o gap))
  BY <1>0, WritesInOrder, NothingIsInOrder DEF Askers
<1> HIDE DEF first, gap, request
<1>4. {} \cup IdsOf(first) = IdsOf(first) /\ {} \cup IdsOf(first \o gap) = IdsOf(first \o gap)
  OBVIOUS
<1>5. first \o gap \in ScriptsOver({}) BY <1>1, <1>2, <1>4, InOrder
<1>6. (first \o gap) \o request \in ScriptsOver({}) BY <1>3, <1>4, <1>5, InOrder
<1>7. IntakeCoverage(n) = [script |-> (first \o gap) \o request, result |-> "success"]
  BY DEF IntakeCoverage, Handler, first, gap, request
<1>8. \A found : EdgesRead(n, found) = {} BY NothingImplied
<1>9. IntakeCoverage(n).script = (first \o gap) \o request /\ IntakeCoverage(n).result = "success"
  BY <1>7
<1> QED BY <1>6, <1>8, <1>9 DEF Sound, Results

\* The writes a round of a loop makes of one item.
LEMMA ItemsAreNames ==
  ASSUME NEW f \in Names, NEW t \in Names
  PROVE  <<f>> \in Seq(Names) /\ <<f, t>> \in Seq(Names)
OBVIOUS

\* A row of evidence, and an edge or a finding that rests on it.
LEMMA EdgeAfterEvidence ==
  ASSUME TypeOK, NEW n \in Nodes, NEW there, NEW item \in Seq(Names),
         NEW a \in Names, NEW b \in Names, NEW c \in Names
  PROVE  /\ <<Evidence(n, item), Edge(n, a, b, c, item)>> \in ScriptsOver(there)
         /\ Id(n, item) \in IdsOf(<<Evidence(n, item), Edge(n, a, b, c, item)>>)
         /\ <<a, b, c>> \in EdgesOf(<<Evidence(n, item), Edge(n, a, b, c, item)>>)
<1> DEFINE v == Evidence(n, item) w == Edge(n, a, b, c, item)
<1>1. <<v>> \in ScriptsOver(there) BY WritesInOrder
<1>2. Id(n, item) \in IdsOf(<<v>>) BY WritesInOrder
<1>3. <<w>> \in ScriptsOver(there \cup IdsOf(<<v>>))
  <2>1. Id(n, item) \in there \cup IdsOf(<<v>>) BY <1>2
  <2> QED BY <2>1, WritesInOrder
<1>4. <<a, b, c>> \in EdgesOf(<<w>>)
  <2>1. Id(n, item) \in {Id(n, item)} OBVIOUS
  <2> QED BY <2>1, WritesInOrder
<1> HIDE DEF v, w
<1>5. /\ <<v, w>> \in ScriptsOver(there)
      /\ IdsOf(<<v, w>>) = IdsOf(<<v>>) \cup IdsOf(<<w>>)
      /\ EdgesOf(<<v, w>>) = EdgesOf(<<v>>) \cup EdgesOf(<<w>>)
  <2>1. Follows(there, v, w) BY TwoInOrder
  <2> QED BY <1>1, <1>3, <2>1 DEF Follows
<1>6. /\ <<v, w>> \in ScriptsOver(there)
      /\ Id(n, item) \in IdsOf(<<v, w>>) /\ <<a, b, c>> \in EdgesOf(<<v, w>>)
  BY <1>2, <1>5, <1>4
<1> QED BY <1>6 DEF v, w

LEMMA FindingAfterEvidence ==
  ASSUME TypeOK, NEW n \in Nodes, NEW there, NEW item \in Seq(Names)
  PROVE  /\ <<Evidence(n, item), Finding(n, item, {item})>> \in ScriptsOver(there)
         /\ Id(n, item) \in IdsOf(<<Evidence(n, item), Finding(n, item, {item})>>)
<1> DEFINE v == Evidence(n, item) w == Finding(n, item, {item})
<1>1. <<v>> \in ScriptsOver(there) BY WritesInOrder
<1>2. Id(n, item) \in IdsOf(<<v>>) BY WritesInOrder
<1>3. <<w>> \in ScriptsOver(there \cup IdsOf(<<v>>))
  <2>1. {item} \in SUBSET Seq(Names) OBVIOUS
  <2>2. {Id(n, x) : x \in {item}} \subseteq there \cup IdsOf(<<v>>) BY <1>2
  <2> QED BY <2>1, <2>2, WritesInOrder
<1> HIDE DEF v, w
<1>4. /\ <<v, w>> \in ScriptsOver(there)
      /\ IdsOf(<<v, w>>) = IdsOf(<<v>>) \cup IdsOf(<<w>>)
      /\ EdgesOf(<<v, w>>) = EdgesOf(<<v>>) \cup EdgesOf(<<w>>)
  <2>1. Follows(there, v, w) BY TwoInOrder
  <2> QED BY <1>1, <1>3, <2>1 DEF Follows
<1>5. <<v, w>> \in ScriptsOver(there) /\ Id(n, item) \in IdsOf(<<v, w>>) BY <1>2, <1>4
<1> QED BY <1>5 DEF v, w

LEMMA ObjectAfterEvidence ==
  ASSUME TypeOK, NEW n \in Nodes, NEW there, NEW item \in Seq(Names),
         NEW a \in Names, NEW b \in Names
  PROVE  /\ <<Evidence(n, item), Object(n, a, b, item)>> \in ScriptsOver(there)
         /\ Id(n, item) \in IdsOf(<<Evidence(n, item), Object(n, a, b, item)>>)
<1> DEFINE v == Evidence(n, item) w == Object(n, a, b, item)
<1>1. <<v>> \in ScriptsOver(there) BY WritesInOrder
<1>2. Id(n, item) \in IdsOf(<<v>>) BY WritesInOrder
<1>3. <<w>> \in ScriptsOver(there \cup IdsOf(<<v>>))
  <2>1. Id(n, item) \in there \cup IdsOf(<<v>>) BY <1>2
  <2> QED BY <2>1, WritesInOrder
<1> HIDE DEF v, w
<1>4. /\ <<v, w>> \in ScriptsOver(there)
      /\ IdsOf(<<v, w>>) = IdsOf(<<v>>) \cup IdsOf(<<w>>)
      /\ EdgesOf(<<v, w>>) = EdgesOf(<<v>>) \cup EdgesOf(<<w>>)
  <2>1. Follows(there, v, w) BY TwoInOrder
  <2> QED BY <1>1, <1>3, <2>1 DEF Follows
<1>5. <<v, w>> \in ScriptsOver(there) /\ Id(n, item) \in IdsOf(<<v, w>>) BY <1>2, <1>4
<1> QED BY <1>5 DEF v, w

\* An object and an edge over evidence that is there.
LEMMA EdgeAfterObject ==
  ASSUME TypeOK, NEW n \in Nodes, NEW there, NEW item \in Seq(Names),
         Id(n, item) \in there,
         NEW a \in Names, NEW b \in Names, NEW c \in Names, NEW d \in Names, NEW e \in Names
  PROVE  /\ <<Object(n, a, b, item), Edge(n, c, d, e, item)>> \in ScriptsOver(there)
         /\ <<c, d, e>> \in EdgesOf(<<Object(n, a, b, item), Edge(n, c, d, e, item)>>)
<1> DEFINE v == Object(n, a, b, item) w == Edge(n, c, d, e, item)
<1>1. <<v>> \in ScriptsOver(there) BY WritesInOrder
<1>2. <<c, d, e>> \in EdgesOf(<<w>>) BY WritesInOrder
<1>3. <<w>> \in ScriptsOver(there \cup IdsOf(<<v>>))
  <2>1. Id(n, item) \in there \cup IdsOf(<<v>>) OBVIOUS
  <2> QED BY <2>1, WritesInOrder
<1> HIDE DEF v, w
<1>4. <<v, w>> \in ScriptsOver(there) /\ EdgesOf(<<v, w>>) = EdgesOf(<<v>>) \cup EdgesOf(<<w>>)
  <2>1. Follows(there, v, w) BY TwoInOrder
  <2> QED BY <1>1, <1>3, <2>1 DEF Follows
<1>5. <<v, w>> \in ScriptsOver(there) /\ <<c, d, e>> \in EdgesOf(<<v, w>>) BY <1>2, <1>4
<1> QED BY <1>5 DEF v, w

\* A finding about everything the writes before it have registered.
LEMMA FindingAtTheEnd ==
  ASSUME TypeOK, NEW n \in Nodes, NEW s \in ScriptsOver({}),
         NEW item \in Seq(Names), NEW items \in SUBSET Seq(Names),
         \A x \in items : Id(n, x) \in IdsOf(s)
  PROVE  /\ s \o <<Finding(n, item, items)>> \in ScriptsOver({})
         /\ EdgesOf(s) \subseteq EdgesOf(s \o <<Finding(n, item, items)>>)
<1> DEFINE last == <<Finding(n, item, items)>>
<1>1. {Id(n, x) : x \in items} \subseteq {} \cup IdsOf(s) OBVIOUS
<1>2. last \in ScriptsOver({} \cup IdsOf(s)) BY <1>1, WritesInOrder
<1>3. s \o last \in ScriptsOver({}) BY <1>2, InOrder
<1>4. s \in Seq(Writes) /\ last \in Seq(Writes) BY <1>2 DEF ScriptsOver
<1> HIDE DEF last
<1>5. EdgesOf(s \o last) = EdgesOf(s) \cup EdgesOf(last) BY <1>4, JoinedWrites
<1> QED BY <1>3, <1>5 DEF last

LEMMA SasDiscoverIsSound ==
  ASSUME TypeOK, NEW n \in Nodes, NEW sources \in SUBSET Files, n = "sas.discover"
  PROVE  Sound(SasDiscover(n, sources), n, sources)
<1> DEFINE latest == Latest(sources)
           accesses(f) == [t \in Mentions[f] |->
             <<Object(n, "table", t, <<Process[f]>>),
               Edge(n, Process[f], "reads", t, <<Process[f]>>)>>]
           head(f) == <<Evidence(n, <<Process[f]>>),
                        Object(n, "sas_process", Process[f], <<Process[f]>>)>>
           programs == [f \in latest |-> head(f) \o Each(accesses(f))]
           items == {<<Process[f]>> : f \in latest}
           ending == <<Finding(n, <<"sas-processes">>, items)>>
<1>1. /\ "table" \in Names /\ "reads" \in Names /\ "sas_process" \in Names
      /\ <<"sas-processes">> \in Seq(Names)
  BY WordsAreNames DEF Words
<1>2. /\ latest \subseteq Files /\ IsFiniteSet(latest)
      /\ \A f \in latest : /\ IsFiniteSet(Mentions[f]) /\ Mentions[f] \subseteq Names
                            /\ Process[f] \in Names
  BY MaterialIsFinite
<1>3. ASSUME NEW f \in latest
      PROVE  /\ head(f) \in ScriptsOver({}) /\ Id(n, <<Process[f]>>) \in IdsOf(head(f))
  <2>1. <<Process[f]>> \in Seq(Names) /\ Process[f] \in Names BY <1>2
  <2> QED BY <1>1, <2>1, ObjectAfterEvidence
<1>4. ASSUME NEW f \in latest, NEW t \in Mentions[f]
      PROVE  /\ accesses(f)[t] \in ScriptsOver(IdsOf(head(f)))
             /\ <<Process[f], "reads", t>> \in EdgesOf(accesses(f)[t])
  <2>1. <<Process[f]>> \in Seq(Names) /\ Process[f] \in Names /\ t \in Names BY <1>2
  <2>2. Id(n, <<Process[f]>>) \in IdsOf(head(f)) BY <1>3
  <2> HIDE DEF head
  <2> QED BY <1>1, <2>1, <2>2, EdgeAfterObject
<1>5. ASSUME NEW f \in latest
      PROVE  /\ programs[f] \in ScriptsOver({}) /\ Id(n, <<Process[f]>>) \in IdsOf(programs[f])
             /\ \A t \in Mentions[f] : <<Process[f], "reads", t>> \in EdgesOf(programs[f])
  <2> HIDE DEF head, accesses
  <2>1. DOMAIN accesses(f) = Mentions[f] BY DEF accesses
  <2>2. /\ Each(accesses(f)) \in ScriptsOver(IdsOf(head(f)))
        /\ \A t \in Mentions[f] : EdgesOf(accesses(f)[t]) \subseteq EdgesOf(Each(accesses(f)))
    BY <1>2, <1>4, <2>1, EachInOrder
  <2>3. head(f) \in ScriptsOver({}) /\ {} \cup IdsOf(head(f)) = IdsOf(head(f)) BY <1>3
  <2>4. head(f) \o Each(accesses(f)) \in ScriptsOver({}) BY <2>2, <2>3, InOrder
  <2>5. head(f) \in Seq(Writes) /\ Each(accesses(f)) \in Seq(Writes)
    BY <2>2, <2>3 DEF ScriptsOver
  <2>6. /\ IdsOf(programs[f]) = IdsOf(head(f)) \cup IdsOf(Each(accesses(f)))
        /\ EdgesOf(programs[f]) = EdgesOf(head(f)) \cup EdgesOf(Each(accesses(f)))
    BY <2>5, JoinedWrites
  <2> QED BY <1>3, <1>4, <2>2, <2>4, <2>6
<1>6. DOMAIN programs = latest OBVIOUS
<1> HIDE DEF programs, accesses, head, latest
<1>7. /\ Each(programs) \in ScriptsOver({})
      /\ \A f \in latest : /\ IdsOf(programs[f]) \subseteq IdsOf(Each(programs))
                            /\ EdgesOf(programs[f]) \subseteq EdgesOf(Each(programs))
  BY <1>2, <1>5, <1>6, EachInOrder
<1>8. items \in SUBSET Seq(Names) /\ \A x \in items : Id(n, x) \in IdsOf(Each(programs))
  <2>1. \A f \in latest : <<Process[f]>> \in Seq(Names) BY <1>2
  <2>2. \A f \in latest : Id(n, <<Process[f]>>) \in IdsOf(Each(programs)) BY <1>5, <1>7
  <2> QED BY <2>1, <2>2
<1>9. /\ Each(programs) \o ending \in ScriptsOver({})
      /\ EdgesOf(Each(programs)) \subseteq EdgesOf(Each(programs) \o ending)
  BY <1>1, <1>7, <1>8, FindingAtTheEnd
<1>10. EdgesRead(n, sources) = UNION {{<<Process[f], "reads", t>> : t \in Mentions[f]} : f \in latest}
  BY DEF EdgesRead, latest
<1>11. EdgesRead(n, sources) \subseteq EdgesOf(Each(programs) \o ending)
  <2>1. \A f \in latest : \A t \in Mentions[f] :
          <<Process[f], "reads", t>> \in EdgesOf(Each(programs) \o ending)
    BY <1>5, <1>7, <1>9
  <2> QED BY <1>10, <2>1
<1>12. CASE sources = {}
  <2>1. SasDiscover(n, sources) = [script |-> <<>>, result |-> "waiting_for_input"]
    BY <1>12 DEF SasDiscover, Handler
  <2> QED BY <2>1, NothingIsInOrder DEF Sound, Results
<1>13. CASE sources # {}
  <2>1. SasDiscover(n, sources) = [script |-> Each(programs) \o ending, result |-> "success"]
    BY <1>13 DEF SasDiscover, Handler, programs, accesses, head, latest
  <2>2. /\ SasDiscover(n, sources).script = Each(programs) \o ending
        /\ SasDiscover(n, sources).result = "success"
    BY <2>1
  <2> QED BY <1>9, <1>11, <2>2 DEF Sound, Results
<1> QED BY <1>12, <1>13

\* An object over evidence that is there, and an edge with evidence of its own.
LEMMA OwnedInOrder ==
  ASSUME TypeOK, NEW n \in Nodes, NEW there, NEW item \in Seq(Names),
         Id(n, item) \in there, NEW other \in Seq(Names),
         NEW a \in Names, NEW b \in Names, NEW c \in Names, NEW d \in Names, NEW e \in Names
  PROVE  LET round == <<Object(n, a, b, item), Evidence(n, other), Edge(n, c, d, e, other)>>
         IN round \in ScriptsOver(there) /\ <<c, d, e>> \in EdgesOf(round)
<1> DEFINE u == Object(n, a, b, item) v == Evidence(n, other) w == Edge(n, c, d, e, other)
<1>1. <<u>> \in ScriptsOver(there) BY WritesInOrder
<1>2. <<v, w>> \in ScriptsOver(there \cup IdsOf(<<u>>)) BY EdgeAfterEvidence
<1>3. <<c, d, e>> \in EdgesOf(<<v, w>>) BY EdgeAfterEvidence
<1> HIDE DEF u, v, w
<1>4. <<u>> \in Seq(Writes) /\ <<v, w>> \in Seq(Writes) BY <1>1, <1>2 DEF ScriptsOver
<1>5. u \in Writes /\ v \in Writes /\ w \in Writes
  <2>1. <<u>>[1] = u /\ 1 \in 1..Len(<<u>>) OBVIOUS
  <2>2. <<v, w>>[1] = v /\ 1 \in 1..Len(<<v, w>>) OBVIOUS
  <2>3. <<v, w>>[2] = w /\ 2 \in 1..Len(<<v, w>>) OBVIOUS
  <2> QED BY <1>4, <2>1, <2>2, <2>3
<1>6. <<u>> \o <<v, w>> = <<u, v, w>> BY <1>5, OneAndTwo
<1>7. <<u>> \o <<v, w>> \in ScriptsOver(there) BY <1>1, <1>2, InOrder
<1>8. EdgesOf(<<u>> \o <<v, w>>) = EdgesOf(<<u>>) \cup EdgesOf(<<v, w>>)
  BY <1>4, JoinedWrites
<1>9. <<u, v, w>> \in ScriptsOver(there) /\ <<c, d, e>> \in EdgesOf(<<u, v, w>>)
  <2>1. EdgesOf(<<u, v, w>>) = EdgesOf(<<u>>) \cup EdgesOf(<<v, w>>) BY <1>6, <1>8, Zenon
  <2>2. <<u, v, w>> \in ScriptsOver(there) BY <1>6, <1>7, Zenon
  <2> QED BY <1>3, <2>1, <2>2
<1> QED BY <1>9 DEF u, v, w

LEMMA InventoryExtractIsSound ==
  ASSUME TypeOK, NEW n \in Nodes, NEW found \in SUBSET Files, n = "inventory.extract"
  PROVE  Sound(InventoryExtract(n, found), n, found)
<1> DEFINE legacy == {b \in found : Media[b] = "office-excel-legacy"}
           books == Books(found)
           converted == [f \in legacy |->
             IF f \in Convertible THEN <<Evidence(n, <<f, "converted">>)>>
             ELSE <<Gap(n, <<f>>)>>]
           owned(f) == [t \in Rows(f, "inventory") |->
             <<Object(n, "table", t, <<f>>), Evidence(n, <<f, t>>),
               Edge(n, "app", "owns", t, <<f, t>>)>>]
           processes(f) == [p \in Rows(f, "process") |->
             <<Object(n, "sas_process", p, <<f>>)>>]
           start(f) == IF f \in Blank \cup Corrupt THEN <<>> ELSE <<Evidence(n, <<f>>)>>
           sheets == [f \in books |-> start(f) \o Each(owned(f)) \o Each(processes(f))]
<1>1. /\ "table" \in Names /\ "app" \in Names /\ "owns" \in Names
      /\ "sas_process" \in Names /\ "converted" \in Names
  BY WordsAreNames DEF Words
<1>2. /\ legacy \subseteq Files /\ IsFiniteSet(legacy) /\ legacy \subseteq Names
      /\ books \subseteq Files /\ IsFiniteSet(books) /\ books \subseteq Names
  <2>1. legacy \in SUBSET Files OBVIOUS
  <2> QED BY <2>1, MaterialIsFinite
<1>3. \A f \in books : \A columns :
        /\ IsFiniteSet(Rows(f, columns)) /\ Rows(f, columns) \subseteq Mentions[f]
        /\ Rows(f, columns) \subseteq Names /\ (f \in Blank \cup Corrupt => Rows(f, columns) = {})
  <2>1. \A f \in books : f \in Blank \cup Corrupt => \A columns : Rows(f, columns) = {}
    BY <1>2, TrailAssumption DEF Rows
  <2> QED BY <1>2, <2>1, MaterialIsFinite
<1>4. Each(converted) \in ScriptsOver({})
  <2>1. ASSUME NEW f \in legacy PROVE converted[f] \in ScriptsOver({})
    <3>1. <<f>> \in Seq(Names) /\ <<f, "converted">> \in Seq(Names) BY <1>1, <1>2
    <3> QED BY <3>1, WritesInOrder
  <2>2. DOMAIN converted = legacy OBVIOUS
  <2> HIDE DEF converted
  <2> QED BY <1>2, <2>1, <2>2, EachInOrder
<1>5. ASSUME NEW f \in books
      PROVE  /\ start(f) \in ScriptsOver({})
             /\ f \notin Blank \cup Corrupt => Id(n, <<f>>) \in IdsOf(start(f))
  <2>1. <<f>> \in Seq(Names) BY <1>2
  <2> QED BY <2>1, WritesInOrder, NothingIsInOrder
<1>6. ASSUME NEW f \in books
      PROVE  /\ Each(owned(f)) \in ScriptsOver(IdsOf(start(f)))
             /\ \A t \in Rows(f, "inventory") : <<"app", "owns", t>> \in EdgesOf(Each(owned(f)))
  <2>1. ASSUME NEW t \in Rows(f, "inventory")
        PROVE  /\ owned(f)[t] \in ScriptsOver(IdsOf(start(f)))
               /\ <<"app", "owns", t>> \in EdgesOf(owned(f)[t])
    <3>1. <<f>> \in Seq(Names) /\ <<f, t>> \in Seq(Names) /\ t \in Names BY <1>2, <1>3
    <3>2. Id(n, <<f>>) \in IdsOf(start(f)) BY <1>3, <1>5
    <3> HIDE DEF start
    <3> QED BY <1>1, <3>1, <3>2, OwnedInOrder
  <2>2. DOMAIN owned(f) = Rows(f, "inventory") OBVIOUS
  <2> HIDE DEF owned, start
  <2> QED BY <1>3, <2>1, <2>2, EachInOrder
<1>7. ASSUME NEW f \in books PROVE Each(processes(f)) \in ScriptsOver(IdsOf(start(f)))
  <2>1. ASSUME NEW p \in Rows(f, "process")
        PROVE  processes(f)[p] \in ScriptsOver(IdsOf(start(f)))
    <3>1. <<f>> \in Seq(Names) /\ p \in Names BY <1>2, <1>3
    <3>2. Id(n, <<f>>) \in IdsOf(start(f)) BY <1>3, <1>5
    <3> HIDE DEF start
    <3> QED BY <1>1, <3>1, <3>2, WritesInOrder
  <2>2. DOMAIN processes(f) = Rows(f, "process") OBVIOUS
  <2> HIDE DEF processes, start
  <2> QED BY <1>3, <2>1, <2>2, EachInOrder
<1>8. DOMAIN sheets = books
      /\ \A f \in books : sheets[f] = start(f) \o Each(owned(f)) \o Each(processes(f))
  OBVIOUS
<1> HIDE DEF books, legacy, converted, owned, processes, start, sheets
<1>9. ASSUME NEW f \in books
      PROVE  /\ sheets[f] \in ScriptsOver({})
             /\ \A t \in Rows(f, "inventory") : <<"app", "owns", t>> \in EdgesOf(sheets[f])
  <2> DEFINE a == start(f) b == Each(owned(f)) c == Each(processes(f))
  <2>1. /\ a \in ScriptsOver({}) /\ b \in ScriptsOver({} \cup IdsOf(a))
        /\ c \in ScriptsOver({} \cup IdsOf(a))
    BY <1>5, <1>6, <1>7
  <2>2. \A t \in Rows(f, "inventory") : <<"app", "owns", t>> \in EdgesOf(b) BY <1>6
  <2>3. sheets[f] = (a \o b) \o c BY <1>8
  <2> HIDE DEF a, b, c
  <2>4. a \in Seq(Writes) /\ b \in Seq(Writes) /\ c \in Seq(Writes) BY <2>1 DEF ScriptsOver
  <2>5. /\ a \o b \in Seq(Writes) /\ a \o b \in ScriptsOver({})
        /\ IdsOf(a \o b) = IdsOf(a) \cup IdsOf(b)
        /\ EdgesOf(a \o b) = EdgesOf(a) \cup EdgesOf(b)
    BY <2>1, <2>4, InOrder, JoinedWrites
  <2> DEFINE ab == a \o b
  <2>6. {} \cup IdsOf(ab) = ({} \cup IdsOf(a)) \cup IdsOf(b) BY <2>5
  <2>7. c \in ScriptsOver({} \cup IdsOf(ab)) BY <2>1, <2>6, MoreIsThere
  <2> HIDE DEF ab
  <2>8. ab \o c \in ScriptsOver({}) BY <2>5, <2>7, InOrder DEF ab
  <2>9. EdgesOf(ab \o c) = EdgesOf(ab) \cup EdgesOf(c) BY <2>4, <2>5, JoinedWrites DEF ab
  <2> QED BY <2>2, <2>3, <2>5, <2>8, <2>9 DEF ab
<1>10. /\ Each(sheets) \in ScriptsOver({})
       /\ \A f \in books : EdgesOf(sheets[f]) \subseteq EdgesOf(Each(sheets))
  BY <1>2, <1>8, <1>9, EachInOrder
<1> DEFINE s == Each(converted) \o Each(sheets)
<1>11. Each(converted) \in Seq(Writes) /\ Each(sheets) \in Seq(Writes)
  BY <1>4, <1>10 DEF ScriptsOver
<1>12. s \in ScriptsOver({})
  <2>1. Each(sheets) \in ScriptsOver({} \cup IdsOf(Each(converted))) BY <1>10, MoreIsThere
  <2> QED BY <1>4, <2>1, InOrder
<1>13. EdgesOf(s) = EdgesOf(Each(converted)) \cup EdgesOf(Each(sheets))
  BY <1>11, JoinedWrites
<1>14. EdgesRead(n, found) = UNION {{<<"app", "owns", t>> : t \in Rows(f, "inventory")} : f \in books}
  BY DEF EdgesRead, books
<1>15. EdgesRead(n, found) \subseteq EdgesOf(s)
  <2>1. \A f \in books : \A t \in Rows(f, "inventory") : <<"app", "owns", t>> \in EdgesOf(s)
    BY <1>9, <1>10, <1>13
  <2> QED BY <1>14, <2>1
<1>16. /\ InventoryExtract(n, found).script = s
       /\ InventoryExtract(n, found).result \in Results
  BY DEF InventoryExtract, Handler, Results, s, books, legacy, converted, owned, processes, start, sheets
<1> QED BY <1>12, <1>15, <1>16 DEF Sound

LEMMA RuntimeCorrelateIsSound ==
  ASSUME TypeOK, NEW n \in Nodes, NEW logs \in SUBSET Files, n = "runtime.correlate"
  PROVE  Sound(RuntimeCorrelate(n, logs), n, logs)
<1> DEFINE processes == UNION {Rows(f, "events") : f \in logs}
           executions == [p \in processes |-> <<Evidence(n, <<p>>), Finding(n, <<p>>, {<<p>>})>>]
           items == {<<p>> : p \in processes}
           s == Each(executions) \o <<Finding(n, <<"orphans">>, items)>>
<1>1. <<"orphans">> \in Seq(Names) BY WordsAreNames DEF Words
<1>2. processes \subseteq Names /\ IsFiniteSet(processes)
  <2>1. /\ logs \subseteq Files /\ IsFiniteSet(logs)
        /\ \A f \in logs : Rows(f, "events") \subseteq Names /\ IsFiniteSet(Rows(f, "events"))
    BY MaterialIsFinite
  <2> DEFINE all == {Rows(f, "events") : f \in logs}
             rows == [f \in logs |-> Rows(f, "events")]
  <2>2. rows \in Surjection(logs, all) BY DEF Surjection
  <2>3. IsFiniteSet(all) BY <2>1, <2>2, FS_Surjection
  <2>4. \A T \in all : IsFiniteSet(T) BY <2>1
  <2>5. IsFiniteSet(UNION all) BY <2>3, <2>4, FS_UNION
  <2> QED BY <2>1, <2>5
<1> HIDE DEF processes
<1>3. ASSUME NEW p \in processes
      PROVE  executions[p] \in ScriptsOver({}) /\ Id(n, <<p>>) \in IdsOf(executions[p])
  <2>1. <<p>> \in Seq(Names) BY <1>2
  <2> QED BY <2>1, FindingAfterEvidence
<1>4. DOMAIN executions = processes OBVIOUS
<1> HIDE DEF executions
<1>5. /\ Each(executions) \in ScriptsOver({})
      /\ \A p \in processes : IdsOf(executions[p]) \subseteq IdsOf(Each(executions))
  BY <1>2, <1>3, <1>4, EachInOrder
<1>6. items \in SUBSET Seq(Names) /\ \A x \in items : Id(n, x) \in IdsOf(Each(executions))
  <2>1. \A p \in processes : <<p>> \in Seq(Names) BY <1>2
  <2>2. \A p \in processes : Id(n, <<p>>) \in IdsOf(Each(executions)) BY <1>3, <1>5
  <2> QED BY <2>1, <2>2
<1>7. s \in ScriptsOver({}) BY <1>1, <1>5, <1>6, FindingAtTheEnd
<1>8. <<Request(n)>> \in ScriptsOver({}) BY <1>1, WritesInOrder DEF Askers
<1>9. /\ RuntimeCorrelate(n, logs).script = s \/ RuntimeCorrelate(n, logs).script = <<Request(n)>>
      /\ RuntimeCorrelate(n, logs).result \in Results
  BY DEF RuntimeCorrelate, Handler, Results, processes, executions
<1>10. \A found : EdgesRead(n, found) = {} BY NothingImplied
<1> HIDE DEF s
<1> QED BY <1>7, <1>8, <1>9, <1>10 DEF Sound

LEMMA RuntimeDmfLogsIsSound ==
  ASSUME TypeOK, NEW n \in Nodes, NEW logs \in SUBSET Files, n = "runtime.dmf_logs"
  PROVE  Sound(RuntimeDmfLogs(n, logs), n, logs)
<1> DEFINE reports == [f \in logs |-> <<Evidence(n, <<f>>), Finding(n, <<f>>, {<<f>>})>>]
<1>1. logs \subseteq Names /\ IsFiniteSet(logs) BY MaterialIsFinite
<1>2. ASSUME NEW f \in logs PROVE reports[f] \in ScriptsOver({})
  <2>1. <<f>> \in Seq(Names) BY <1>1
  <2> QED BY <2>1, FindingAfterEvidence
<1>3. DOMAIN reports = logs OBVIOUS
<1> HIDE DEF reports
<1>4. Each(reports) \in ScriptsOver({}) BY <1>1, <1>2, <1>3, EachInOrder
<1>5. RuntimeDmfLogs(n, logs).script = Each(reports) /\ RuntimeDmfLogs(n, logs).result \in Results
  BY DEF RuntimeDmfLogs, Handler, Results, reports
<1>6. \A found : EdgesRead(n, found) = {} BY NothingImplied
<1> QED BY <1>4, <1>5, <1>6 DEF Sound

LEMMA DbaRequestIsSound ==
  ASSUME TypeOK, NEW n \in Nodes, n = "lineage.dba_request"
  PROVE  \A found : Sound(DbaRequest(n), n, found)
<1>1. <<"live">> \in Seq(Names) BY WordsAreNames DEF Words
<1>2. /\ <<>> \in ScriptsOver({}) /\ <<Gap(n, <<"live">>)>> \in ScriptsOver({})
      /\ <<Request(n)>> \in ScriptsOver({})
  BY <1>1, WritesInOrder, NothingIsInOrder DEF Askers
<1>3. /\ DbaRequest(n).script \in {<<>>, <<Gap(n, <<"live">>)>>, <<Request(n)>>}
      /\ DbaRequest(n).result \in Results
  BY DEF DbaRequest, Handler, Results
<1>4. \A found : EdgesRead(n, found) = {} BY NothingImplied
<1> QED BY <1>2, <1>3, <1>4 DEF Sound

LEMMA DocMapAppsIsSound ==
  ASSUME TypeOK, NEW n \in Nodes, NEW found \in SUBSET Files, n = "doc.map_apps"
  PROVE  Sound(DocMapApps(n, found), n, found)
<1> DEFINE dictionaries == found \ Blank
           known(f) == Rows(f, "dictionary") \cap ObjectNames
           owned(f) == [t \in known(f) |->
             <<Evidence(n, <<f, t>>), Edge(n, "app", "owns", t, <<f, t>>)>>]
           maps == [f \in dictionaries |-> Each(owned(f))]
           items == UNION {{<<f, t>> : t \in known(f)} : f \in dictionaries}
           s == Each(maps) \o <<Finding(n, <<"applications">>, items)>>
<1>1. "app" \in Names /\ "owns" \in Names /\ <<"applications">> \in Seq(Names)
  BY WordsAreNames DEF Words
<1>2. dictionaries \subseteq Files /\ dictionaries \subseteq Names /\ IsFiniteSet(dictionaries)
  BY MaterialIsFinite
<1>3. \A f \in dictionaries : known(f) \subseteq Names /\ IsFiniteSet(known(f))
  <2>1. \A f \in dictionaries : /\ Rows(f, "dictionary") \subseteq Names
                                /\ IsFiniteSet(Rows(f, "dictionary"))
    BY <1>2, MaterialIsFinite
  <2>2. \A f \in dictionaries : known(f) \in SUBSET Rows(f, "dictionary") OBVIOUS
  <2> HIDE DEF known
  <2> QED BY <2>1, <2>2, FS_Subset
<1> HIDE DEF known, dictionaries
<1>4. ASSUME NEW f \in dictionaries
      PROVE  /\ maps[f] \in ScriptsOver({})
             /\ \A t \in known(f) : Id(n, <<f, t>>) \in IdsOf(maps[f])
  <2>1. ASSUME NEW t \in known(f)
        PROVE  owned(f)[t] \in ScriptsOver({}) /\ Id(n, <<f, t>>) \in IdsOf(owned(f)[t])
    <3>1. <<f, t>> \in Seq(Names) /\ t \in Names BY <1>2, <1>3
    <3> QED BY <1>1, <3>1, EdgeAfterEvidence
  <2>2. DOMAIN owned(f) = known(f) /\ maps[f] = Each(owned(f)) OBVIOUS
  <2> HIDE DEF owned, maps
  <2>3. /\ Each(owned(f)) \in ScriptsOver({})
        /\ \A t \in known(f) : IdsOf(owned(f)[t]) \subseteq IdsOf(Each(owned(f)))
    BY <1>3, <2>1, <2>2, EachInOrder
  <2> QED BY <2>1, <2>2, <2>3
<1>5. DOMAIN maps = dictionaries OBVIOUS
<1> HIDE DEF maps
<1>6. /\ Each(maps) \in ScriptsOver({})
      /\ \A f \in dictionaries : IdsOf(maps[f]) \subseteq IdsOf(Each(maps))
  BY <1>2, <1>4, <1>5, EachInOrder
<1>7. items \in SUBSET Seq(Names) /\ \A x \in items : Id(n, x) \in IdsOf(Each(maps))
  <2>1. \A f \in dictionaries : \A t \in known(f) : <<f, t>> \in Seq(Names)
    BY <1>2, <1>3
  <2>2. \A f \in dictionaries : \A t \in known(f) : Id(n, <<f, t>>) \in IdsOf(Each(maps))
    BY <1>4, <1>6
  <2>3. ASSUME NEW x \in items
        PROVE  x \in Seq(Names) /\ Id(n, x) \in IdsOf(Each(maps))
    <3>1. PICK f \in dictionaries : x \in {<<f, t>> : t \in known(f)} OBVIOUS
    <3>2. PICK t \in known(f) : x = <<f, t>> BY <3>1
    <3> QED BY <2>1, <2>2, <3>2
  <2> HIDE DEF items
  <2> QED BY <2>3
<1>8. s \in ScriptsOver({})
  <2> HIDE DEF items
  <2> QED BY <1>1, <1>6, <1>7, FindingAtTheEnd
<1>9. /\ DocMapApps(n, found).script = <<>> \/ DocMapApps(n, found).script = s
      /\ DocMapApps(n, found).result \in Results
  BY DEF DocMapApps, Handler, Results, maps, owned, known, dictionaries
<1>10. EdgesRead(n, found) = {} BY NothingImplied
<1> HIDE DEF s
<1> QED BY <1>8, <1>9, <1>10, NothingIsInOrder DEF Sound

LEMMA IngestDbaIsSound ==
  ASSUME TypeOK, NEW n \in Nodes, NEW exports \in SUBSET Files, n = "lineage.ingest_dba"
  PROVE  Sound(IngestDba(n, exports), n, exports)
<1> DEFINE dependencies(f) == [t \in Rows(f, "export") |->
             <<Evidence(n, <<f, t>>), Edge(n, "oracle", "depends_on", t, <<f, t>>)>>]
           ingested == [f \in exports |-> Each(dependencies(f))]
           items == UNION {{<<f, t>> : t \in Rows(f, "export")} : f \in exports}
           ending == <<Finding(n, <<"lineage">>, items)>>
           s == Each(ingested) \o ending
<1>1. /\ "oracle" \in Names /\ "depends_on" \in Names
      /\ <<"lineage">> \in Seq(Names) /\ <<"manifest">> \in Seq(Names)
  BY WordsAreNames DEF Words
<1>2. exports \subseteq Files /\ exports \subseteq Names /\ IsFiniteSet(exports)
  BY MaterialIsFinite
<1>3. \A f \in exports : /\ Rows(f, "export") \subseteq Names
                         /\ IsFiniteSet(Rows(f, "export"))
  BY <1>2, MaterialIsFinite
<1>4. EdgesRead(n, exports) = UNION {{<<"oracle", "depends_on", t>> : t \in Rows(f, "export")}
                            : f \in exports}
  BY DEF EdgesRead
<1>5. ASSUME NEW f \in exports
      PROVE  /\ ingested[f] \in ScriptsOver({})
             /\ \A t \in Rows(f, "export") :
                  /\ Id(n, <<f, t>>) \in IdsOf(ingested[f])
                  /\ <<"oracle", "depends_on", t>> \in EdgesOf(ingested[f])
  <2>1. ASSUME NEW t \in Rows(f, "export")
        PROVE  /\ dependencies(f)[t] \in ScriptsOver({})
               /\ Id(n, <<f, t>>) \in IdsOf(dependencies(f)[t])
               /\ <<"oracle", "depends_on", t>> \in EdgesOf(dependencies(f)[t])
    <3>1. <<f, t>> \in Seq(Names) /\ t \in Names BY <1>2, <1>3
    <3> QED BY <1>1, <3>1, EdgeAfterEvidence
  <2>2. DOMAIN dependencies(f) = Rows(f, "export") /\ ingested[f] = Each(dependencies(f))
    OBVIOUS
  <2> HIDE DEF dependencies, ingested
  <2>3. /\ Each(dependencies(f)) \in ScriptsOver({})
        /\ \A t \in Rows(f, "export") :
             /\ IdsOf(dependencies(f)[t]) \subseteq IdsOf(Each(dependencies(f)))
             /\ EdgesOf(dependencies(f)[t]) \subseteq EdgesOf(Each(dependencies(f)))
    BY <1>3, <2>1, <2>2, EachInOrder
  <2> QED BY <2>1, <2>2, <2>3
<1>6. DOMAIN ingested = exports OBVIOUS
<1> HIDE DEF ingested
<1>7. /\ Each(ingested) \in ScriptsOver({})
      /\ \A f \in exports : /\ IdsOf(ingested[f]) \subseteq IdsOf(Each(ingested))
                            /\ EdgesOf(ingested[f]) \subseteq EdgesOf(Each(ingested))
  BY <1>2, <1>5, <1>6, EachInOrder
<1>8. items \in SUBSET Seq(Names) /\ \A x \in items : Id(n, x) \in IdsOf(Each(ingested))
  <2>1. \A f \in exports : \A t \in Rows(f, "export") : <<f, t>> \in Seq(Names)
    BY <1>2, <1>3
  <2>2. \A f \in exports : \A t \in Rows(f, "export") :
          Id(n, <<f, t>>) \in IdsOf(Each(ingested))
    BY <1>5, <1>7
  <2>3. ASSUME NEW x \in items
        PROVE  x \in Seq(Names) /\ Id(n, x) \in IdsOf(Each(ingested))
    <3>1. PICK f \in exports : x \in {<<f, t>> : t \in Rows(f, "export")} OBVIOUS
    <3>2. PICK t \in Rows(f, "export") : x = <<f, t>> BY <3>1
    <3> QED BY <2>1, <2>2, <3>2
  <2> HIDE DEF items
  <2> QED BY <2>3
<1>9. s \in ScriptsOver({}) /\ EdgesOf(Each(ingested)) \subseteq EdgesOf(s)
  <2> HIDE DEF items
  <2> QED BY <1>1, <1>7, <1>8, FindingAtTheEnd
<1> HIDE DEF s
<1>10. EdgesRead(n, exports) \subseteq EdgesOf(s)
  <2>1. \A f \in exports : \A t \in Rows(f, "export") :
          <<"oracle", "depends_on", t>> \in EdgesOf(s)
    BY <1>5, <1>7, <1>9
  <2> QED BY <1>4, <2>1
<1>11. <<>> \in ScriptsOver({}) /\ <<Gap(n, <<"manifest">>)>> \in ScriptsOver({})
  BY <1>1, WritesInOrder, NothingIsInOrder
<1>12. /\ IngestDba(n, exports).result \in Results
       /\ \/ IngestDba(n, exports).script = s
          \/ /\ IngestDba(n, exports).script \in {<<>>, <<Gap(n, <<"manifest">>)>>}
             /\ IngestDba(n, exports).result # "success"
  BY DEF IngestDba, Handler, Results, s, ingested, dependencies
<1> QED BY <1>9, <1>10, <1>11, <1>12 DEF Sound

LEMMA QualityGateIsSound ==
  ASSUME TypeOK, NEW n \in Nodes, n = "quality.gate"
  PROVE  /\ \A found : Sound(QualityGate(n), n, found)
         /\ QualityGate(n).result = "success" =>
              \A row \in findings \cup edges
                           \cup RowsInto(QualityGate(n).script, {"findings", "edges"}) :
                row.cites # {}
<1> DEFINE failures == {row \in findings \cup edges : Untraced(row)}
           explained == [row \in failures |-> <<Gap(n, <<"untraced">>)>>]
           verdict == <<Evidence(n, <<"quality">>), Finding(n, <<"quality">>, {<<"quality">>})>>
<1>1. /\ <<"untraced">> \in Seq(Names) /\ <<"quality">> \in Seq(Names)
      /\ <<"nothing">> \in Seq(Names)
  BY WordsAreNames DEF Words
<1>2. Each(explained) \in ScriptsOver({})
  <2>1. failures \in SUBSET (findings \cup edges) OBVIOUS
  <2>2. IsFiniteSet(failures)
    <3> HIDE DEF failures
    <3> QED BY <2>1, FS_Subset DEF TypeOK
  <2>3. \A row \in failures : explained[row] \in ScriptsOver({}) BY <1>1, WritesInOrder
  <2>4. DOMAIN explained = failures OBVIOUS
  <2> HIDE DEF explained, failures
  <2> QED BY <2>2, <2>3, <2>4, EachInOrder
<1>3. verdict \in ScriptsOver({}) BY <1>1, FindingAfterEvidence
<1>4. <<Gap(n, <<"nothing">>)>> \in ScriptsOver({}) BY <1>1, WritesInOrder
<1>5. \/ /\ QualityGate(n).script \in {<<Gap(n, <<"nothing">>)>>, Each(explained)}
         /\ QualityGate(n).result = "failed"
      \/ /\ failures = {}
         /\ QualityGate(n).script = verdict /\ QualityGate(n).result = "success"
  BY DEF QualityGate, Handler
<1>6. \A found : EdgesRead(n, found) = {} BY NothingImplied
<1>7. \A found : Sound(QualityGate(n), n, found)
  <2> HIDE DEF verdict, explained, failures
  <2> QED BY <1>2, <1>3, <1>4, <1>5, <1>6 DEF Sound, Results
<1>8. failures = {} => \A row \in findings \cup edges : row.cites # {} BY DEF Untraced
<1>9. \A row \in RowsInto(verdict, {"findings", "edges"}) : row.cites # {}
  <2> DEFINE v == Evidence(n, <<"quality">>) w == Finding(n, <<"quality">>, {<<"quality">>})
  <2>1. v.into = "evidence" BY DEF Evidence, Write
  <2>2. w.row.cites = {Id(n, x) : x \in {<<"quality">>}} BY DEF Finding, Write
  <2>3. w.row.cites # {} BY <2>2
  <2>4. verdict = <<v, w>> OBVIOUS
  <2> HIDE DEF v, w
  <2>5. DOMAIN <<v, w>> = {1, 2} /\ <<v, w>>[1] = v /\ <<v, w>>[2] = w OBVIOUS
  <2>6. \A row \in RowsInto(<<v, w>>, {"findings", "edges"}) : row = w.row
    BY <2>1, <2>5 DEF RowsInto
  <2> QED BY <2>3, <2>4, <2>6
<1> HIDE DEF verdict, failures
<1> QED BY <1>5, <1>7, <1>8, <1>9

LEMMA HandlerIsSound ==
  ASSUME TypeOK, NEW n \in Handled, NEW found \in SUBSET Files
  PROVE  /\ Sound(HandlerOf(n, found), n, found)
         /\ n = "quality.gate" /\ HandlerOf(n, found).result = "success" =>
              \A row \in findings \cup edges
                           \cup RowsInto(HandlerOf(n, found).script, {"findings", "edges"}) :
                row.cites # {}
<1>1. n \in Nodes BY TrailAssumption
<1>2. CASE n = "sys.workspace"
  <2>1. HandlerOf(n, found) = SysWorkspace(n) BY <1>2 DEF HandlerOf
  <2> QED BY <1>1, <1>2, <2>1, SysWorkspaceIsSound
<1>3. CASE n = "intake.coverage"
  <2>1. HandlerOf(n, found) = IntakeCoverage(n) BY <1>3 DEF HandlerOf
  <2> QED BY <1>1, <1>3, <2>1, IntakeCoverageIsSound
<1>4. CASE n = "inventory.extract"
  <2>1. HandlerOf(n, found) = InventoryExtract(n, found) BY <1>4 DEF HandlerOf
  <2> QED BY <1>1, <1>4, <2>1, InventoryExtractIsSound
<1>5. CASE n = "sas.discover"
  <2>1. HandlerOf(n, found) = SasDiscover(n, found) BY <1>5 DEF HandlerOf
  <2> QED BY <1>1, <1>5, <2>1, SasDiscoverIsSound
<1>6. CASE n = "runtime.correlate"
  <2>1. HandlerOf(n, found) = RuntimeCorrelate(n, found) BY <1>6 DEF HandlerOf
  <2> QED BY <1>1, <1>6, <2>1, RuntimeCorrelateIsSound
<1>7. CASE n = "runtime.dmf_logs"
  <2>1. HandlerOf(n, found) = RuntimeDmfLogs(n, found) BY <1>7 DEF HandlerOf
  <2> QED BY <1>1, <1>7, <2>1, RuntimeDmfLogsIsSound
<1>8. CASE n = "lineage.dba_request"
  <2>1. HandlerOf(n, found) = DbaRequest(n) BY <1>8 DEF HandlerOf
  <2> QED BY <1>1, <1>8, <2>1, DbaRequestIsSound
<1>9. CASE n = "doc.map_apps"
  <2>1. HandlerOf(n, found) = DocMapApps(n, found) BY <1>9 DEF HandlerOf
  <2> QED BY <1>1, <1>9, <2>1, DocMapAppsIsSound
<1>10. CASE n = "lineage.ingest_dba"
  <2>1. HandlerOf(n, found) = IngestDba(n, found) BY <1>10 DEF HandlerOf
  <2> QED BY <1>1, <1>10, <2>1, IngestDbaIsSound
<1>11. CASE n = "quality.gate"
  <2>1. HandlerOf(n, found) = QualityGate(n) BY <1>11 DEF HandlerOf
  <2> QED BY <1>1, <1>11, <2>1, QualityGateIsSound
<1>12. CASE n = "audit.export"
  <2>1. HandlerOf(n, found) = [script |-> <<>>, result |-> "success"]
    BY <1>12 DEF HandlerOf, Handler
  <2>2. EdgesRead(n, found) = {} BY <1>12, NothingImplied
  <2> QED BY <1>12, <2>1, <2>2, NothingIsInOrder DEF Sound, Results
<1> QED BY <1>2, <1>3, <1>4, <1>5, <1>6, <1>7, <1>8, <1>9, <1>10, <1>11, <1>12
        DEF Handled

(***************************************************************************)
(* One write after the other.                                              *)
(***************************************************************************)
Added(w, table) == IF w.into = table THEN {w.row} ELSE {}

LEMMA FirstOfAScript ==
  ASSUME NEW there, NEW s \in ScriptsOver(there), s # <<>>
  PROVE  /\ Head(s) \in Writes /\ Tail(s) \in Seq(Writes)
         /\ Head(s).into \in {"findings", "edges", "objects"} =>
              Head(s).row.cites \subseteq there
         /\ CitesInOrder(Tail(s), there \cup Added(Head(s), "evidence"))
         /\ \A key \in EdgesOf(s) :
              key \in EdgesOf(Tail(s)) \/ (Head(s).into = "edges" /\ key = Head(s).row.key)
         /\ \A tables : /\ RowsInto(Tail(s), tables) \subseteq RowsInto(s, tables)
                        /\ Head(s).into \in tables => Head(s).row \in RowsInto(s, tables)
<1> DEFINE n == Len(s) w == Head(s) t == Tail(s)
<1>1. s \in Seq(Writes) BY DEF ScriptsOver
<1>2. /\ n \in Nat /\ n >= 1 /\ DOMAIN s = 1..n /\ w = s[1] /\ w \in Writes
      /\ t \in Seq(Writes) /\ DOMAIN t = 1..(n - 1)
      /\ \A i \in 1..(n - 1) : t[i] = s[i + 1]
  BY <1>1
<1> HIDE DEF n, w, t
<1>3. \A i \in 1..n : s[i].into \in {"findings", "edges", "objects"} =>
                        s[i].row.cites \subseteq there \cup Registers(s, i - 1)
  BY <1>2 DEF ScriptsOver, CitesInOrder
<1>4. w.into \in {"findings", "edges", "objects"} => w.row.cites \subseteq there
  <2>1. 1 \in 1..n BY <1>2
  <2>2. Registers(s, 1 - 1) = {}
    <3>1. 1..(1 - 1) = {} OBVIOUS
    <3> QED BY <3>1 DEF Registers
  <2> QED BY <1>2, <1>3, <2>1, <2>2
<1>5. ASSUME NEW i \in 1..(n - 1)
      PROVE  Registers(s, i) \subseteq Registers(t, i - 1) \cup Added(w, "evidence")
  <2>1. ASSUME NEW x \in Registers(s, i)
        PROVE  x \in Registers(t, i - 1) \cup Added(w, "evidence")
    <3>1. PICK j \in 1..i : s[j].into = "evidence" /\ x = s[j].row BY DEF Registers
    <3>2. CASE j = 1 BY <1>2, <3>1, <3>2 DEF Added
    <3>3. CASE j # 1
      <4>1. j - 1 \in 1..(i - 1) /\ j - 1 \in 1..(n - 1) /\ (j - 1) + 1 = j
        BY <1>2, <3>1, <3>3
      <4>2. t[j - 1] = s[j] BY <1>2, <4>1
      <4> QED BY <3>1, <4>1, <4>2 DEF Registers
    <3> QED BY <3>2, <3>3
  <2> QED BY <2>1
<1>6. CitesInOrder(t, there \cup Added(w, "evidence"))
  <2>1. ASSUME NEW i \in 1..(n - 1), t[i].into \in {"findings", "edges", "objects"}
        PROVE  t[i].row.cites \subseteq
                 (there \cup Added(w, "evidence")) \cup Registers(t, i - 1)
    <3>1. i + 1 \in 1..n /\ (i + 1) - 1 = i BY <1>2
    <3>2. s[i + 1].row.cites \subseteq there \cup Registers(s, i)
      BY <1>2, <1>3, <2>1, <3>1
    <3>3. t[i] = s[i + 1] BY <1>2
    <3> QED BY <1>5, <3>2, <3>3
  <2> QED BY <1>2, <2>1 DEF CitesInOrder
<1>7. ASSUME NEW key \in EdgesOf(s)
      PROVE  key \in EdgesOf(t) \/ (w.into = "edges" /\ key = w.row.key)
  <2>1. PICK j \in 1..n : s[j].into = "edges" /\ key = s[j].row.key
    BY <1>2 DEF EdgesOf
  <2>2. CASE j = 1 BY <1>2, <2>1, <2>2
  <2>3. CASE j # 1
    <3>1. j - 1 \in 1..(n - 1) /\ (j - 1) + 1 = j BY <1>2, <2>1, <2>3
    <3>2. t[j - 1] = s[j] BY <1>2, <3>1
    <3> QED BY <1>2, <2>1, <3>1, <3>2 DEF EdgesOf
  <2> QED BY <2>2, <2>3
<1>8. ASSUME NEW tables
      PROVE  /\ RowsInto(t, tables) \subseteq RowsInto(s, tables)
             /\ w.into \in tables => w.row \in RowsInto(s, tables)
  <2>1. ASSUME NEW x \in RowsInto(t, tables) PROVE x \in RowsInto(s, tables)
    <3>1. PICK j \in 1..(n - 1) : t[j].into \in tables /\ x = t[j].row
      BY <1>2 DEF RowsInto
    <3>2. j + 1 \in 1..n /\ t[j] = s[j + 1] BY <1>2
    <3> QED BY <1>2, <3>1, <3>2 DEF RowsInto
  <2>2. w.into \in tables => w.row \in RowsInto(s, tables)
    <3>1. 1 \in 1..n BY <1>2
    <3> QED BY <1>2, <3>1 DEF RowsInto
  <2> QED BY <2>1, <2>2
<1> QED BY <1>2, <1>4, <1>6, <1>7, <1>8 DEF w, t

(***************************************************************************)
(* The invariant, action by action.                                        *)
(***************************************************************************)
LEMMA InitKeeps == Init => EvidenceInv
<1> SUFFICES ASSUME Init PROVE EvidenceInv OBVIOUS
<1> DEFINE batch == [by |-> "intake.register", try |-> 1, item |-> <<"batch">>]
           row == [id |-> batch, cites |-> {batch}]
<1>1. batch \in Ids
  <2>1. <<"batch">> \in Seq(Names) BY WordsAreNames DEF Words
  <2>2. "intake.register" \in Nodes BY TrailAssumption
  <2> QED BY <2>1, <2>2 DEF Ids
<1>2. evidence = {batch} /\ findings = {row} /\ row.cites = {batch} BY DEF Init
<1>3. edges = {} /\ objects = {} /\ gaps = {} /\ script = <<>> /\ cur = Idle BY DEF Init
<1> HIDE DEF batch, row
<1>4. TypeOK
  <2>1. registered \subseteq Files BY TrailAssumption DEF Init
  <2>2. evidence \cup gaps \subseteq Ids BY <1>1, <1>2, <1>3
  <2>3. IsFiniteSet(findings \cup edges)
    <3>1. findings \cup edges = {row} BY <1>2, <1>3
    <3> QED BY <3>1, FS_Singleton
  <2>4. open \cup resolved \subseteq Askers BY DEF Init
  <2>5. export.files \subseteq Files /\ export.listed \in BOOLEAN BY DEF Init, NoExport
  <2>6. status \in [Nodes -> NodeStatuses] /\ attempts \in [Nodes -> Nat]
    BY DEF Init, NodeStatuses
  <2>7. cur \in Handled \cup {Idle} /\ result \in Results BY DEF Init, Results
  <2>8. script \in Seq(Writes) /\ read \in [Nodes -> SUBSET Files] BY <1>3 DEF Init
  <2>9. {runs, answers, breaks} \subseteq Nat BY DEF Init
  <2> QED BY <2>1, <2>2, <2>3, <2>4, <2>5, <2>6, <2>7, <2>8, <2>9 DEF TypeOK
<1>5. NothingDangles
  <2>1. findings \cup edges \cup objects = {row} BY <1>2, <1>3
  <2> QED BY <1>2, <2>1 DEF NothingDangles, Cited
<1>6. FactsAreUnique BY <1>3 DEF FactsAreUnique
<1>7. CitesInOrder(script, evidence) BY <1>3 DEF CitesInOrder
<1>8. OneNodeAtWork BY DEF OneNodeAtWork, Init
<1>9. NothingForgotten BY <1>3 DEF NothingForgotten
<1>10. GateHasJudged BY <1>3 DEF GateHasJudged, Idle
<1> QED BY <1>4, <1>5, <1>6, <1>7, <1>8, <1>9, <1>10 DEF EvidenceInv

LEMMA BeginKeeps ==
  ASSUME EvidenceInv, NEW n \in Nodes, Begin(n), runs' \in Nat
  PROVE  EvidenceInv'
<1>1. TypeOK /\ NothingDangles /\ FactsAreUnique /\ OneNodeAtWork BY DEF EvidenceInv
<1>2. PICK found \in Found(n) :
      /\ n \in Handled /\ cur = Idle /\ cur' = n
      /\ script' = HandlerOf(n, found).script
      /\ result' = HandlerOf(n, found).result
      /\ read' = [read EXCEPT ![n] = found]
      /\ status' = [status EXCEPT ![n] = "RUNNING"]
      /\ attempts' = [attempts EXCEPT ![n] = @ + 1]
      /\ registered' = registered /\ evidence' = evidence /\ findings' = findings
      /\ edges' = edges /\ objects' = objects /\ gaps' = gaps
      /\ open' = open /\ resolved' = resolved /\ export' = export
      /\ answers' = answers /\ breaks' = breaks
  BY DEF Begin, MayRun, trail, requests
<1>. found \in SUBSET Files BY <1>1, FoundAreFiles
<1>3. /\ script' \in ScriptsOver({}) /\ result' \in Results
      /\ result' = "success" => EdgesRead(n, found) \subseteq EdgesOf(script')
  BY <1>1, <1>2, HandlerIsSound DEF Sound
<1>4. n = "quality.gate" /\ result' = "success" =>
        \A row \in findings \cup edges \cup RowsInto(script', {"findings", "edges"}) :
          row.cites # {}
  BY <1>1, <1>2, HandlerIsSound
<1>5. TypeOK'
  <2>1. script' \in Seq(Writes) BY <1>3 DEF ScriptsOver
  <2>3. read' \in [Nodes -> SUBSET Files] BY <1>1, <1>2 DEF TypeOK
  <2>2. status' \in [Nodes -> NodeStatuses] /\ attempts' \in [Nodes -> Nat]
    BY <1>1, <1>2 DEF TypeOK, NodeStatuses
  <2> QED BY <1>1, <1>2, <1>3, <2>1, <2>2, <2>3 DEF TypeOK
<1>6. NothingDangles' BY <1>1, <1>2 DEF NothingDangles, Cited
<1>7. FactsAreUnique' BY <1>1, <1>2 DEF FactsAreUnique
<1>8. CitesInOrder(script', evidence') BY <1>3 DEF ScriptsOver, CitesInOrder
<1>9. OneNodeAtWork' BY <1>1, <1>2 DEF OneNodeAtWork, TypeOK, Handled, Idle
<1>10. NothingForgotten'
  <2>1. Implied(cur)' = EdgesRead(n, found) BY <1>1, <1>2 DEF Implied, TypeOK, EdgesRead, Rows, Books, Latest
  <2> QED BY <1>3, <2>1 DEF NothingForgotten
<1>11. GateHasJudged' BY <1>2, <1>4 DEF GateHasJudged
<1> QED BY <1>5, <1>6, <1>7, <1>8, <1>9, <1>10, <1>11 DEF EvidenceInv

\* What the six actions that write share.
LEMMA WriteKeeps ==
  ASSUME EvidenceInv, NEW table, NextWrite(table)
  PROVE  /\ Head(script) \in Writes /\ Head(script).into = table
         /\ table \in {"findings", "edges", "objects"} =>
              Head(script).row.cites \subseteq evidence
         /\ script' \in Seq(Writes)
         /\ CitesInOrder(script', evidence \cup Added(Head(script), "evidence"))
         /\ OneNodeAtWork'
         /\ cur # Idle /\ result = "success" =>
              Implied(cur)' \subseteq
                {e.key : e \in edges} \cup EdgesOf(script')
                  \cup (IF table = "edges" THEN {Head(script).row.key} ELSE {})
         /\ cur = "quality.gate" /\ result = "success" =>
              \A row \in findings \cup edges \cup RowsInto(script', {"findings", "edges"})
                           \cup (IF table \in {"findings", "edges"} THEN {Head(script).row}
                                 ELSE {}) :
                row.cites # {}
<1>1. /\ TypeOK /\ OneNodeAtWork /\ NothingForgotten /\ GateHasJudged
      /\ CitesInOrder(script, evidence)
  BY DEF EvidenceInv
<1>2. /\ script # <<>> /\ Head(script).into = table /\ script' = Tail(script)
      /\ registered' = registered /\ status' = status /\ cur' = cur /\ read' = read
  BY DEF NextWrite, node
<1>3. script \in ScriptsOver(evidence) BY <1>1 DEF ScriptsOver, TypeOK
<1>4. /\ Head(script) \in Writes /\ Tail(script) \in Seq(Writes)
      /\ Head(script).into \in {"findings", "edges", "objects"} =>
           Head(script).row.cites \subseteq evidence
      /\ CitesInOrder(Tail(script), evidence \cup Added(Head(script), "evidence"))
      /\ \A key \in EdgesOf(script) :
           key \in EdgesOf(Tail(script))
             \/ (Head(script).into = "edges" /\ key = Head(script).row.key)
      /\ \A tables :
           /\ RowsInto(Tail(script), tables) \subseteq RowsInto(script, tables)
           /\ Head(script).into \in tables => Head(script).row \in RowsInto(script, tables)
  BY <1>2, <1>3, FirstOfAScript
<1>5. OneNodeAtWork' BY <1>1, <1>2 DEF OneNodeAtWork
<1>6. ASSUME cur # Idle, result = "success"
      PROVE  Implied(cur)' \subseteq
               {e.key : e \in edges} \cup EdgesOf(script')
                 \cup (IF table = "edges" THEN {Head(script).row.key} ELSE {})
  <2>1. Implied(cur)' = Implied(cur) BY <1>2 DEF Implied, EdgesRead, Rows, Books, Latest
  <2>2. Implied(cur) \subseteq {e.key : e \in edges} \cup EdgesOf(script)
    BY <1>1, <1>6 DEF NothingForgotten
  <2>3. ASSUME NEW key \in EdgesOf(script)
        PROVE  key \in EdgesOf(script')
                 \cup (IF table = "edges" THEN {Head(script).row.key} ELSE {})
    BY <1>2, <1>4, <2>3
  <2> QED BY <2>1, <2>2, <2>3
<1>7. ASSUME cur = "quality.gate", result = "success",
             NEW row \in findings \cup edges \cup RowsInto(script', {"findings", "edges"})
                           \cup (IF table \in {"findings", "edges"} THEN {Head(script).row}
                                 ELSE {})
      PROVE  row.cites # {}
  <2>1. \A r \in findings \cup edges \cup RowsInto(script, {"findings", "edges"}) :
          r.cites # {}
    BY <1>1, <1>7 DEF GateHasJudged
  <2>2. row \in findings \cup edges \cup RowsInto(script, {"findings", "edges"})
    BY <1>2, <1>4, <1>7
  <2> QED BY <2>1, <2>2
<1> QED BY <1>2, <1>4, <1>5, <1>6, <1>7

LEMMA RegisterEvidenceKeeps == EvidenceInv /\ RegisterEvidence => EvidenceInv'
<1> SUFFICES ASSUME EvidenceInv, RegisterEvidence PROVE EvidenceInv' OBVIOUS
<1> DEFINE row == Head(script).row
<1>1. TypeOK /\ NothingDangles /\ FactsAreUnique BY DEF EvidenceInv
<1>2. /\ NextWrite("evidence") /\ evidence' = evidence \cup {row}
      /\ registered' = registered /\ findings' = findings /\ edges' = edges
      /\ objects' = objects /\ gaps' = gaps
      /\ open' = open /\ resolved' = resolved /\ export' = export
      /\ status' = status /\ attempts' = attempts /\ cur' = cur /\ result' = result
      /\ read' = read
      /\ runs' = runs /\ answers' = answers /\ breaks' = breaks
  BY DEF RegisterEvidence, NextWrite, requests, node, budgets
<1>3. /\ Head(script) \in Writes /\ Head(script).into = "evidence"
      /\ script' \in Seq(Writes) /\ OneNodeAtWork'
      /\ CitesInOrder(script', evidence \cup Added(Head(script), "evidence"))
  BY <1>2, WriteKeeps
<1>4. row \in Ids BY <1>3 DEF Writes
<1> HIDE DEF row
<1>5. TypeOK' BY <1>1, <1>2, <1>3, <1>4 DEF TypeOK
<1>6. NothingDangles' BY <1>1, <1>2 DEF NothingDangles, Cited
<1>7. FactsAreUnique' BY <1>1, <1>2 DEF FactsAreUnique
<1>8. CitesInOrder(script', evidence') BY <1>2, <1>3 DEF Added, row
<1>9. NothingForgotten'
  <2>1. cur # Idle /\ result = "success" =>
          Implied(cur)' \subseteq {e.key : e \in edges} \cup EdgesOf(script')
    BY <1>2, WriteKeeps
  <2> QED BY <1>2, <2>1 DEF NothingForgotten
<1>10. GateHasJudged'
  <2>1. cur = "quality.gate" /\ result = "success" =>
          \A r \in findings \cup edges \cup RowsInto(script', {"findings", "edges"}) :
            r.cites # {}
    BY <1>2, WriteKeeps
  <2> QED BY <1>2, <2>1 DEF GateHasJudged
<1> QED BY <1>3, <1>5, <1>6, <1>7, <1>8, <1>9, <1>10 DEF EvidenceInv

LEMMA RegisterFindingKeeps == EvidenceInv /\ RegisterFinding => EvidenceInv'
<1> SUFFICES ASSUME EvidenceInv, RegisterFinding PROVE EvidenceInv' OBVIOUS
<1> DEFINE row == Head(script).row
<1>1. TypeOK /\ NothingDangles /\ FactsAreUnique BY DEF EvidenceInv
<1>2. /\ NextWrite("findings") /\ findings' = findings \cup {row}
      /\ registered' = registered /\ evidence' = evidence /\ edges' = edges
      /\ objects' = objects /\ gaps' = gaps
      /\ open' = open /\ resolved' = resolved /\ export' = export
      /\ status' = status /\ attempts' = attempts /\ cur' = cur /\ result' = result
      /\ read' = read
      /\ runs' = runs /\ answers' = answers /\ breaks' = breaks
  BY DEF RegisterFinding, NextWrite, requests, node, budgets
<1>3. /\ Head(script).into = "findings" /\ row.cites \subseteq evidence
      /\ script' \in Seq(Writes) /\ OneNodeAtWork'
      /\ CitesInOrder(script', evidence \cup Added(Head(script), "evidence"))
  BY <1>2, WriteKeeps
<1>4. cur = "quality.gate" /\ result = "success" =>
        \A r \in findings \cup edges \cup RowsInto(script', {"findings", "edges"})
                   \cup {row} :
          r.cites # {}
  BY <1>2, WriteKeeps
<1> HIDE DEF row
<1>5. TypeOK'
  <2>1. findings' \cup edges' = (findings \cup edges) \cup {row} BY <1>2
  <2>2. IsFiniteSet(findings' \cup edges') BY <1>1, <2>1, FS_AddElement DEF TypeOK
  <2> QED BY <1>1, <1>2, <1>3, <2>2 DEF TypeOK
<1>6. NothingDangles' BY <1>1, <1>2, <1>3 DEF NothingDangles, Cited
<1>7. FactsAreUnique' BY <1>1, <1>2 DEF FactsAreUnique
<1>8. CitesInOrder(script', evidence') BY <1>2, <1>3 DEF Added
<1>9. NothingForgotten'
  <2>1. cur # Idle /\ result = "success" =>
          Implied(cur)' \subseteq {e.key : e \in edges} \cup EdgesOf(script')
    BY <1>2, WriteKeeps
  <2> QED BY <1>2, <2>1 DEF NothingForgotten
<1>10. GateHasJudged' BY <1>2, <1>4 DEF GateHasJudged
<1> QED BY <1>3, <1>5, <1>6, <1>7, <1>8, <1>9, <1>10 DEF EvidenceInv

LEMMA AddLineageEdgeKeeps == EvidenceInv /\ AddLineageEdge => EvidenceInv'
<1> SUFFICES ASSUME EvidenceInv, AddLineageEdge PROVE EvidenceInv' OBVIOUS
<1> DEFINE row == Head(script).row
<1>1. TypeOK /\ NothingDangles /\ FactsAreUnique BY DEF EvidenceInv
<1>2. /\ NextWrite("edges")
      /\ edges' = IF IsThere(row, edges) THEN edges ELSE edges \cup {row}
      /\ registered' = registered /\ evidence' = evidence /\ findings' = findings
      /\ objects' = objects /\ gaps' = gaps
      /\ open' = open /\ resolved' = resolved /\ export' = export
      /\ status' = status /\ attempts' = attempts /\ cur' = cur /\ result' = result
      /\ read' = read
      /\ runs' = runs /\ answers' = answers /\ breaks' = breaks
  BY DEF AddLineageEdge, NextWrite, requests, node, budgets
<1>3. /\ Head(script).into = "edges" /\ row.cites \subseteq evidence
      /\ script' \in Seq(Writes) /\ OneNodeAtWork'
      /\ CitesInOrder(script', evidence \cup Added(Head(script), "evidence"))
  BY <1>2, WriteKeeps
<1>4. cur = "quality.gate" /\ result = "success" =>
        \A r \in findings \cup edges \cup RowsInto(script', {"findings", "edges"})
                   \cup {row} :
          r.cites # {}
  BY <1>2, WriteKeeps
<1>5. cur # Idle /\ result = "success" =>
        Implied(cur)' \subseteq
          {e.key : e \in edges} \cup EdgesOf(script') \cup {row.key}
  BY <1>2, WriteKeeps
<1> HIDE DEF row
<1>6. edges \subseteq edges' /\ edges' \subseteq edges \cup {row} BY <1>2
<1>7. \E e \in edges' : e.key = row.key BY <1>2 DEF IsThere
<1>8. TypeOK'
  <2>1. IsFiniteSet((findings \cup edges) \cup {row}) BY <1>1, FS_AddElement DEF TypeOK
  <2>2. findings' \cup edges' \in SUBSET ((findings \cup edges) \cup {row}) BY <1>2, <1>6
  <2>3. IsFiniteSet(findings' \cup edges') BY <2>1, <2>2, FS_Subset
  <2> QED BY <1>1, <1>2, <1>3, <2>3 DEF TypeOK
<1>9. NothingDangles' BY <1>1, <1>2, <1>3 DEF NothingDangles, Cited
<1>10. FactsAreUnique'
  <2>1. \A r, t \in edges' : r.key = t.key => r = t
    BY <1>1, <1>2 DEF FactsAreUnique, IsThere
  <2> QED BY <1>1, <1>2, <2>1 DEF FactsAreUnique
<1>11. CitesInOrder(script', evidence') BY <1>2, <1>3 DEF Added
<1>12. NothingForgotten'
  <2>1. {e.key : e \in edges} \cup {row.key} \subseteq {e.key : e \in edges'}
    BY <1>6, <1>7
  <2> QED BY <1>2, <1>5, <2>1 DEF NothingForgotten
<1>13. GateHasJudged' BY <1>2, <1>4, <1>6 DEF GateHasJudged
<1> QED BY <1>3, <1>8, <1>9, <1>10, <1>11, <1>12, <1>13 DEF EvidenceInv

LEMMA UpsertDomainObjectKeeps == EvidenceInv /\ UpsertDomainObject => EvidenceInv'
<1> SUFFICES ASSUME EvidenceInv, UpsertDomainObject PROVE EvidenceInv' OBVIOUS
<1> DEFINE row == Head(script).row
<1>1. TypeOK /\ NothingDangles /\ FactsAreUnique BY DEF EvidenceInv
<1>2. /\ NextWrite("objects")
      /\ objects' = IF IsThere(row, objects) THEN objects ELSE objects \cup {row}
      /\ registered' = registered /\ evidence' = evidence /\ findings' = findings
      /\ edges' = edges /\ gaps' = gaps
      /\ open' = open /\ resolved' = resolved /\ export' = export
      /\ status' = status /\ attempts' = attempts /\ cur' = cur /\ result' = result
      /\ read' = read
      /\ runs' = runs /\ answers' = answers /\ breaks' = breaks
  BY DEF UpsertDomainObject, NextWrite, requests, node, budgets
<1>3. /\ Head(script).into = "objects" /\ row.cites \subseteq evidence
      /\ script' \in Seq(Writes) /\ OneNodeAtWork'
      /\ CitesInOrder(script', evidence \cup Added(Head(script), "evidence"))
  BY <1>2, WriteKeeps
<1> HIDE DEF row
<1>4. TypeOK' BY <1>1, <1>2, <1>3 DEF TypeOK
<1>5. NothingDangles' BY <1>1, <1>2, <1>3 DEF NothingDangles, Cited
<1>6. FactsAreUnique'
  <2>1. \A r, t \in objects' : r.key = t.key => r = t
    BY <1>1, <1>2 DEF FactsAreUnique, IsThere
  <2> QED BY <1>1, <1>2, <2>1 DEF FactsAreUnique
<1>7. CitesInOrder(script', evidence') BY <1>2, <1>3 DEF Added
<1>8. NothingForgotten'
  <2>1. cur # Idle /\ result = "success" =>
          Implied(cur)' \subseteq {e.key : e \in edges} \cup EdgesOf(script')
    BY <1>2, WriteKeeps
  <2> QED BY <1>2, <2>1 DEF NothingForgotten
<1>9. GateHasJudged'
  <2>1. cur = "quality.gate" /\ result = "success" =>
          \A r \in findings \cup edges \cup RowsInto(script', {"findings", "edges"}) :
            r.cites # {}
    BY <1>2, WriteKeeps
  <2> QED BY <1>2, <2>1 DEF GateHasJudged
<1> QED BY <1>3, <1>4, <1>5, <1>6, <1>7, <1>8, <1>9 DEF EvidenceInv

\* Neither a gap nor a request is cited, or cites anything.
LEMMA ExplanationKeeps == EvidenceInv /\ (RegisterGap \/ RequestHumanInput) => EvidenceInv'
<1> SUFFICES ASSUME EvidenceInv, RegisterGap \/ RequestHumanInput PROVE EvidenceInv' OBVIOUS
<1> DEFINE row == Head(script).row
<1>1. TypeOK /\ NothingDangles /\ FactsAreUnique BY DEF EvidenceInv
<1>2. PICK table \in {"gaps", "requests"} :
        /\ NextWrite(table)
        /\ gaps' = gaps \cup Added(Head(script), "gaps")
        /\ open' = open \cup Added(Head(script), "requests")
        /\ registered' = registered /\ evidence' = evidence /\ findings' = findings
        /\ edges' = edges /\ objects' = objects
        /\ resolved' = resolved /\ export' = export
        /\ status' = status /\ attempts' = attempts /\ cur' = cur /\ result' = result
        /\ read' = read
        /\ runs' = runs /\ answers' = answers /\ breaks' = breaks
  <2>1. CASE RegisterGap
    BY <2>1 DEF RegisterGap, NextWrite, requests, node, budgets, Added
  <2>2. CASE RequestHumanInput
    BY <2>2 DEF RequestHumanInput, NextWrite, trail, node, budgets, Added
  <2> QED BY <2>1, <2>2
<1>3. /\ Head(script) \in Writes /\ Head(script).into = table
      /\ script' \in Seq(Writes) /\ OneNodeAtWork'
      /\ CitesInOrder(script', evidence \cup Added(Head(script), "evidence"))
  BY <1>2, WriteKeeps
<1>4. TypeOK'
  <2>1. Added(Head(script), "gaps") \subseteq Ids BY <1>3 DEF Writes, Added
  <2>2. Added(Head(script), "requests") \subseteq Askers BY <1>3 DEF Writes, Added
  <2> QED BY <1>1, <1>2, <1>3, <2>1, <2>2 DEF TypeOK
<1>5. NothingDangles' BY <1>1, <1>2 DEF NothingDangles, Cited
<1>6. FactsAreUnique' BY <1>1, <1>2 DEF FactsAreUnique
<1>7. CitesInOrder(script', evidence') BY <1>2, <1>3 DEF Added
<1>8. NothingForgotten'
  <2>1. cur # Idle /\ result = "success" =>
          Implied(cur)' \subseteq {e.key : e \in edges} \cup EdgesOf(script')
    BY <1>2, WriteKeeps
  <2> QED BY <1>2, <2>1 DEF NothingForgotten
<1>9. GateHasJudged'
  <2>1. cur = "quality.gate" /\ result = "success" =>
          \A r \in findings \cup edges \cup RowsInto(script', {"findings", "edges"}) :
            r.cites # {}
    BY <1>2, WriteKeeps
  <2> QED BY <1>2, <2>1 DEF GateHasJudged
<1> QED BY <1>3, <1>4, <1>5, <1>6, <1>7, <1>8, <1>9 DEF EvidenceInv

\* When no handler is at work, what is left to say is about the tables.
LEMMA IdleKeeps ==
  ASSUME EvidenceInv, TypeOK', OneNodeAtWork', cur' = Idle, script' = <<>>,
         UNCHANGED trail
  PROVE  EvidenceInv'
<1>1. NothingDangles /\ FactsAreUnique BY DEF EvidenceInv
<1>2. evidence' = evidence /\ findings' = findings /\ edges' = edges /\ objects' = objects
  BY DEF trail
<1>3. NothingDangles' BY <1>1, <1>2 DEF NothingDangles, Cited
<1>4. FactsAreUnique' BY <1>1, <1>2 DEF FactsAreUnique
<1>5. CitesInOrder(script', evidence') BY DEF CitesInOrder
<1>6. NothingForgotten' BY DEF NothingForgotten
<1>7. GateHasJudged' BY DEF GateHasJudged, Idle
<1> QED BY <1>3, <1>4, <1>5, <1>6, <1>7 DEF EvidenceInv

LEMMA ReturnKeeps ==
  ASSUME EvidenceInv, cur # Idle, breaks' \in Nat,
         NEW outcome \in NodeStatuses \ {"RUNNING"}, Return(outcome)
  PROVE  EvidenceInv'
<1>1. TypeOK /\ OneNodeAtWork BY DEF EvidenceInv
<1>2. /\ cur' = Idle /\ script' = <<>> /\ result' = "success" /\ UNCHANGED trail
      /\ registered' = registered /\ evidence' = evidence /\ findings' = findings
      /\ edges' = edges /\ gaps' = gaps
      /\ open' = open /\ resolved' = resolved /\ export' = export
      /\ attempts' = attempts /\ read' = read /\ runs' = runs /\ answers' = answers
  BY DEF Return, requests, trail
<1>3. /\ DOMAIN status' = Nodes
      /\ \A t \in Nodes : /\ t = cur => status'[t] = outcome
                          /\ t # cur => status'[t] \in {"READY", status[t]}
      /\ status' \in [Nodes -> NodeStatuses]
  <2>1. status' = [t \in Nodes |->
                     IF t = cur THEN outcome
                     ELSE IF outcome = "SUCCEEDED" /\ Activates(cur, t) THEN "READY"
                     ELSE status[t]]
    BY DEF Return
  <2> QED BY <1>1, <2>1 DEF TypeOK, NodeStatuses
<1>4. TypeOK'
  <2>1. script' \in Seq(Writes) BY <1>2
  <2> QED BY <1>1, <1>2, <1>3, <2>1 DEF TypeOK, Results
<1>5. OneNodeAtWork' BY <1>1, <1>2, <1>3 DEF OneNodeAtWork
<1> QED BY <1>2, <1>4, <1>5, IdleKeeps

LEMMA HandlersReturn == EvidenceInv /\ (Settle \/ HandlerRaises \/ Crash) => EvidenceInv'
<1> SUFFICES ASSUME EvidenceInv, Settle \/ HandlerRaises \/ Crash PROVE EvidenceInv'
  OBVIOUS
<1>1. TypeOK BY DEF EvidenceInv
<1>2. CASE Settle
  <2>1. cur # Idle /\ Return(Persisted(result)) /\ breaks' \in Nat
    BY <1>1, <1>2 DEF Settle, TypeOK
  <2>2. Persisted(result) \in NodeStatuses \ {"RUNNING"}
    BY <1>1 DEF TypeOK, Results, Persisted, NodeStatuses
  <2> QED BY <2>1, <2>2, ReturnKeeps
<1>3. ASSUME NEW outcome \in {"FAILED", "READY"}, Break(outcome) PROVE EvidenceInv'
  <2>1. cur # Idle /\ Return(outcome) /\ breaks' \in Nat
    BY <1>1, <1>3 DEF Break, TypeOK
  <2>2. outcome \in NodeStatuses \ {"RUNNING"} BY DEF NodeStatuses
  <2> QED BY <2>1, <2>2, ReturnKeeps
<1> QED BY <1>2, <1>3 DEF HandlerRaises, Crash

LEMMA UnblockKeeps ==
  ASSUME EvidenceInv, NEW n \in Nodes, Unblock(n)
  PROVE  EvidenceInv'
<1>1. TypeOK /\ OneNodeAtWork /\ cur = Idle BY DEF EvidenceInv, Unblock
<1>2. /\ cur' = cur /\ script' = script /\ result' = result /\ read' = read /\ UNCHANGED trail
      /\ registered' = registered /\ evidence' = evidence /\ findings' = findings
      /\ edges' = edges /\ objects' = objects /\ gaps' = gaps
      /\ open' = open /\ resolved' = resolved /\ export' = export
      /\ attempts' = attempts /\ runs' = runs /\ answers' = answers /\ breaks' = breaks
      /\ status' = [status EXCEPT ![n] = "READY"]
  BY DEF Unblock, trail, requests, frame, budgets
<1>3. TypeOK'
  <2>1. status' \in [Nodes -> NodeStatuses] BY <1>1, <1>2 DEF TypeOK, NodeStatuses
  <2> QED BY <1>1, <1>2, <2>1 DEF TypeOK
<1>4. OneNodeAtWork' BY <1>1, <1>2 DEF OneNodeAtWork, TypeOK
<1>5. NothingDangles' /\ FactsAreUnique' /\ CitesInOrder(script', evidence')
  <2>1. NothingDangles' BY <1>2 DEF EvidenceInv, NothingDangles, Cited
  <2>2. FactsAreUnique' BY <1>2 DEF EvidenceInv, FactsAreUnique
  <2>3. CitesInOrder(script', evidence') BY <1>2 DEF EvidenceInv
  <2> QED BY <2>1, <2>2, <2>3
<1>6. NothingForgotten' BY <1>1, <1>2 DEF NothingForgotten
<1>7. GateHasJudged' BY <1>1, <1>2 DEF GateHasJudged, Idle
<1> QED BY <1>3, <1>4, <1>5, <1>6, <1>7 DEF EvidenceInv

LEMMA AnswerKeeps ==
  ASSUME EvidenceInv, NEW n \in open, NEW batch \in Delivered, Answer(n, batch)
  PROVE  EvidenceInv'
<1>1. /\ TypeOK /\ OneNodeAtWork /\ NothingDangles /\ FactsAreUnique
      /\ CitesInOrder(script, evidence) /\ cur = Idle
  BY DEF EvidenceInv, Answer
<1>2. /\ cur' = cur /\ script' = script /\ result' = result /\ read' = read /\ UNCHANGED trail
      /\ evidence' = evidence /\ findings' = findings
      /\ edges' = edges /\ objects' = objects /\ gaps' = gaps
      /\ registered' = registered \cup batch
      /\ open' = open \ {n} /\ resolved' = resolved \cup {n}
      /\ attempts' = attempts /\ runs' = runs /\ answers' = answers + 1 /\ breaks' = breaks
      /\ status' = [status EXCEPT ![n] = "SUCCEEDED", ![ResumeNode(n)] = "READY"]
  BY DEF Answer, trail, frame
<1>3. export' = export \/ \E listed \in BOOLEAN : export' = [files |-> batch, listed |-> listed]
  BY DEF Answer
<1>4. TypeOK'
  <2>1. batch \subseteq Files BY TrailAssumption
  <2>2. status' \in [Nodes -> NodeStatuses] BY <1>1, <1>2 DEF TypeOK, NodeStatuses
  <2>3. registered' \subseteq Files BY <1>1, <1>2, <2>1 DEF TypeOK
  <2>4. open' \cup resolved' \subseteq Askers BY <1>1, <1>2 DEF TypeOK
  <2>5. export'.files \subseteq Files /\ export'.listed \in BOOLEAN
    BY <1>1, <1>3, <2>1 DEF TypeOK
  <2>6. IsFiniteSet(findings' \cup edges') BY <1>1, <1>2 DEF TypeOK
  <2>7. {runs', answers', breaks'} \subseteq Nat BY <1>1, <1>2 DEF TypeOK
  <2> QED BY <1>1, <1>2, <2>2, <2>3, <2>4, <2>5, <2>6, <2>7 DEF TypeOK
<1>5. OneNodeAtWork' BY <1>1, <1>2 DEF OneNodeAtWork, TypeOK
<1>6. NothingDangles' BY <1>1, <1>2 DEF NothingDangles, Cited
<1>7. FactsAreUnique' BY <1>1, <1>2 DEF FactsAreUnique
<1>8. CitesInOrder(script', evidence') BY <1>1, <1>2
<1>9. NothingForgotten' BY <1>1, <1>2 DEF NothingForgotten
<1>10. GateHasJudged' BY <1>1, <1>2 DEF GateHasJudged, Idle
<1> QED BY <1>4, <1>5, <1>6, <1>7, <1>8, <1>9, <1>10 DEF EvidenceInv

LEMMA StutterKeeps == EvidenceInv /\ UNCHANGED vars => EvidenceInv'
<1> SUFFICES ASSUME EvidenceInv, UNCHANGED vars PROVE EvidenceInv' OBVIOUS
<1>1. /\ cur' = cur /\ script' = script /\ result' = result /\ read' = read
      /\ registered' = registered /\ evidence' = evidence /\ findings' = findings
      /\ edges' = edges /\ objects' = objects /\ gaps' = gaps
      /\ open' = open /\ resolved' = resolved /\ export' = export
      /\ status' = status /\ attempts' = attempts
      /\ runs' = runs /\ answers' = answers /\ breaks' = breaks
  BY DEF vars, trail, requests, node, frame, budgets
<1>2. TypeOK' BY <1>1 DEF EvidenceInv, TypeOK
<1>3. NothingDangles' BY <1>1 DEF EvidenceInv, NothingDangles, Cited
<1>4. FactsAreUnique' BY <1>1 DEF EvidenceInv, FactsAreUnique
<1>5. CitesInOrder(script', evidence') BY <1>1 DEF EvidenceInv
<1>6. OneNodeAtWork' BY <1>1 DEF EvidenceInv, OneNodeAtWork
<1>7. NothingForgotten'
  <2>1. Implied(cur)' = Implied(cur) BY <1>1 DEF Implied, EdgesRead, Rows, Books, Latest
  <2> QED BY <1>1, <2>1 DEF EvidenceInv, NothingForgotten
<1>8. GateHasJudged' BY <1>1 DEF EvidenceInv, GateHasJudged
<1> QED BY <1>2, <1>3, <1>4, <1>5, <1>6, <1>7, <1>8 DEF EvidenceInv

LEMMA StepKeeps == EvidenceInv /\ [Next]_vars => EvidenceInv'
<1> SUFFICES ASSUME EvidenceInv, [Next]_vars PROVE EvidenceInv' OBVIOUS
<1>1. TypeOK BY DEF EvidenceInv
<1>2. CASE Start
  <2>1. PICK n \in Nodes : Begin(n) /\ UNCHANGED runs BY <1>2 DEF Start, Runnable
  <2>2. runs' \in Nat BY <1>1, <2>1 DEF TypeOK
  <2> QED BY <2>1, <2>2, BeginKeeps
<1>3. ASSUME NEW n \in Nodes, RunNode(n) PROVE EvidenceInv'
  <2>1. Begin(n) /\ runs' \in Nat BY <1>1, <1>3 DEF RunNode, TypeOK
  <2> QED BY <2>1, BeginKeeps
<1>4. ASSUME NEW n \in Nodes, Unblock(n) PROVE EvidenceInv' BY <1>4, UnblockKeeps
<1>5. CASE HandlerWrites
  BY <1>5, RegisterEvidenceKeeps, RegisterFindingKeeps, AddLineageEdgeKeeps,
     UpsertDomainObjectKeeps, ExplanationKeeps DEF HandlerWrites
<1>6. CASE Settle \/ HandlerRaises \/ Crash BY <1>6, HandlersReturn
<1>7. ASSUME NEW n \in open, NEW batch \in Delivered, Answer(n, batch) PROVE EvidenceInv'
  BY <1>7, AnswerKeeps
<1>8. CASE UNCHANGED vars BY <1>8, StutterKeeps
<1> QED BY <1>2, <1>3, <1>4, <1>5, <1>6, <1>7, <1>8 DEF Next

\* Nothing cites an id that is not registered and a fact has one row, whichever
\* handler raised or was killed between two of its writes, for every estate and
\* every order of runs and answers.
THEOREM EvidenceIsSafe == Spec => []EvidenceInv
<1>1. Init => EvidenceInv BY InitKeeps
<1>2. EvidenceInv /\ [Next]_vars => EvidenceInv' BY StepKeeps
<1> QED BY <1>1, <1>2, PTL DEF Spec

(***************************************************************************)
(* What a success says.                                                    *)
(***************************************************************************)
\* The gate passes only over rows that cite something that is there.
THEOREM GatePassIsTruthful == Spec => GateTellsTheTruth
<1>1. EvidenceInv /\ [Next]_vars =>
        [GateSucceeds => \A row \in findings \cup edges :
                           row.cites # {} /\ row.cites \subseteq evidence]_vars
  <2> SUFFICES ASSUME EvidenceInv, Next, GateSucceeds, NEW row \in findings \cup edges
               PROVE  row.cites # {} /\ row.cites \subseteq evidence
    OBVIOUS
  <2>1. /\ TypeOK /\ NothingDangles /\ OneNodeAtWork /\ GateHasJudged
        /\ "quality.gate" \in Nodes
    BY TrailAssumption DEF EvidenceInv, Handled
  <2>2. cur = "quality.gate" /\ cur # Idle
    BY <2>1 DEF GateSucceeds, OneNodeAtWork, Idle
  <2>3. Settle
    <3>1. ~Start /\ ~\E n \in Nodes : RunNode(n) \/ Unblock(n)
      BY <2>2 DEF Start, RunNode, Begin, Unblock
    <3>2. ~HandlerWrites
      <4>1. ASSUME HandlerWrites PROVE status' = status
        BY <4>1 DEF HandlerWrites, RegisterEvidence, RegisterFinding, AddLineageEdge,
          UpsertDomainObject, RegisterGap, RequestHumanInput, NextWrite, node
      <4> QED BY <4>1 DEF GateSucceeds
    <3>3. ~HandlerRaises /\ ~Crash
      BY <2>1, <2>2 DEF HandlerRaises, Crash, Break, Return, GateSucceeds
    <3>4. ~\E n \in open, batch \in Delivered : Answer(n, batch) BY <2>2 DEF Answer
    <3> QED BY <3>1, <3>2, <3>3, <3>4 DEF Next
  <2>4. Persisted(result) = "SUCCEEDED"
    BY <2>1, <2>2, <2>3 DEF Settle, Return, GateSucceeds
  <2>5. result = "success" BY <2>1, <2>4 DEF TypeOK, Results, Persisted
  <2>6. row.cites # {} BY <2>1, <2>2, <2>5 DEF GateHasJudged
  <2>7. row.cites \subseteq evidence BY <2>1 DEF NothingDangles, Cited
  <2> QED BY <2>6, <2>7
<1> QED BY <1>1, EvidenceIsSafe, PTL DEF Spec, GateTellsTheTruth

\* A node's edges last: only its next attempt reads anything else, and no step
\* takes an edge away.
LEMMA EdgesLast ==
  ASSUME LineageIsComplete, NEW n \in Nodes, status[n] = "SUCCEEDED",
         read'[n] = read[n],
         {e.key : e \in edges} \subseteq {e.key : e \in edges'}
  PROVE  Implied(n)' \subseteq {e.key : e \in edges'}
<1>1. Implied(n)' = Implied(n) BY DEF Implied, EdgesRead, Rows, Books, Latest
<1> QED BY <1>1 DEF LineageIsComplete

LEMMA WritesKeepLineage ==
  EvidenceInv /\ LineageIsComplete /\ HandlerWrites => LineageIsComplete'
<1> SUFFICES ASSUME LineageIsComplete, HandlerWrites,
                    NEW n \in Nodes, status'[n] = "SUCCEEDED"
             PROVE  Implied(n)' \subseteq {e.key : e \in edges'}
  BY DEF LineageIsComplete
<1>1. /\ read' = read /\ status' = status
      /\ edges \subseteq edges'
  BY DEF HandlerWrites, RegisterEvidence, RegisterFinding, AddLineageEdge,
    UpsertDomainObject, RegisterGap, RequestHumanInput, NextWrite, node, requests, trail
<1>2. status[n] = "SUCCEEDED" /\ {e.key : e \in edges} \subseteq {e.key : e \in edges'}
  BY <1>1
<1> QED BY <1>1, <1>2, EdgesLast

LEMMA ReturnKeepsLineage ==
  EvidenceInv /\ LineageIsComplete /\ (Settle \/ HandlerRaises \/ Crash)
    => LineageIsComplete'
<1> SUFFICES ASSUME EvidenceInv, LineageIsComplete, Settle \/ HandlerRaises \/ Crash,
                    NEW n \in Nodes, status'[n] = "SUCCEEDED"
             PROVE  Implied(n)' \subseteq {e.key : e \in edges'}
  BY DEF LineageIsComplete
<1>1. TypeOK /\ NothingForgotten BY DEF EvidenceInv
<1>2. PICK outcome : Return(outcome) /\ (outcome = "SUCCEEDED" => Settle)
  BY DEF Settle, HandlerRaises, Crash, Break
<1>3. /\ read' = read /\ edges' = edges
      /\ n = cur => outcome = "SUCCEEDED"
      /\ n # cur => status[n] = "SUCCEEDED"
  BY <1>2 DEF Return, trail, requests
<1>4. CASE n = cur
  <2>1. /\ cur # Idle /\ script = <<>> /\ Persisted(result) = "SUCCEEDED"
    BY <1>2, <1>3, <1>4 DEF Settle, Return
  <2>2. result = "success" BY <1>1, <2>1 DEF TypeOK, Results, Persisted
  <2>3. EdgesOf(script) = {} BY <2>1 DEF EdgesOf
  <2>4. Implied(n) \subseteq {e.key : e \in edges}
    BY <1>1, <1>4, <2>1, <2>2, <2>3 DEF NothingForgotten
  <2>5. Implied(n)' = Implied(n) BY <1>3 DEF Implied, EdgesRead, Rows, Books, Latest
  <2> QED BY <1>3, <2>4, <2>5
<1>5. CASE n # cur
  <2>1. {e.key : e \in edges} \subseteq {e.key : e \in edges'} BY <1>3
  <2> QED BY <1>3, <1>5, <2>1, EdgesLast
<1> QED BY <1>4, <1>5

\* An answer marks the node that asked as SUCCEEDED; it reads nothing.
LEMMA AnswerKeepsLineage ==
  ASSUME EvidenceInv, LineageIsComplete,
         NEW n \in open, NEW batch \in Delivered, Answer(n, batch)
  PROVE  LineageIsComplete'
<1> SUFFICES ASSUME NEW m \in Nodes, status'[m] = "SUCCEEDED"
             PROVE  Implied(m)' \subseteq {e.key : e \in edges'}
  BY DEF LineageIsComplete
<1>1. TypeOK /\ n \in Askers BY DEF EvidenceInv, TypeOK
<1>2. /\ edges' = edges /\ read' = read
      /\ status' = [status EXCEPT ![n] = "SUCCEEDED", ![ResumeNode(n)] = "READY"]
  BY DEF Answer, trail, frame
<1>3. CASE m \in Askers
  <2>1. Implied(m)' = {} BY <1>3 DEF Implied, EdgesRead, Askers
  <2> QED BY <2>1
<1>4. CASE m \notin Askers
  <2>1. status[m] = "SUCCEEDED" BY <1>1, <1>2, <1>4 DEF TypeOK
  <2>2. {e.key : e \in edges} \subseteq {e.key : e \in edges'} BY <1>2
  <2> QED BY <1>2, <2>1, <2>2, EdgesLast
<1> QED BY <1>3, <1>4

LEMMA StepKeepsLineage ==
  ASSUME EvidenceInv, LineageIsComplete, [Next]_vars
  PROVE  LineageIsComplete'
<1>1. ASSUME edges' = edges,
             \A n \in Nodes : status'[n] = "SUCCEEDED" =>
                                status[n] = "SUCCEEDED" /\ read'[n] = read[n]
      PROVE  LineageIsComplete'
  <2>1. {e.key : e \in edges} \subseteq {e.key : e \in edges'} BY <1>1
  <2>2. ASSUME NEW n \in Nodes, status'[n] = "SUCCEEDED"
        PROVE  Implied(n)' \subseteq {e.key : e \in edges'}
    BY <1>1, <2>1, <2>2, EdgesLast
  <2> QED BY <2>2 DEF LineageIsComplete
<1>2. /\ status \in [Nodes -> NodeStatuses] /\ read \in [Nodes -> SUBSET Files]
  BY DEF EvidenceInv, TypeOK
<1>3. ASSUME NEW n \in Nodes, Begin(n) PROVE LineageIsComplete'
  <2>1. /\ edges' = edges /\ status' = [status EXCEPT ![n] = "RUNNING"]
        /\ \E found : read' = [read EXCEPT ![n] = found]
    BY <1>3 DEF Begin, trail
  <2>2. \A m \in Nodes : status'[m] = "SUCCEEDED" =>
                           status[m] = "SUCCEEDED" /\ read'[m] = read[m]
    BY <1>2, <2>1
  <2> QED BY <1>1, <2>1, <2>2
<1>4. ASSUME NEW n \in Nodes, Unblock(n) PROVE LineageIsComplete'
  <2>1. /\ read' = read /\ edges' = edges
        /\ status' = [status EXCEPT ![n] = "READY"]
    BY <1>4 DEF Unblock, trail, frame
  <2>2. \A m \in Nodes : status'[m] = "SUCCEEDED" => status[m] = "SUCCEEDED"
    BY <1>2, <2>1
  <2> QED BY <1>1, <2>1, <2>2
<1>5. CASE UNCHANGED vars
  <2>1. read' = read /\ edges' = edges /\ status' = status
    BY <1>5 DEF vars, trail, frame, node
  <2> QED BY <1>1, <2>1
<1>6. CASE Start BY <1>3, <1>6 DEF Start, Runnable
<1>7. ASSUME NEW n \in Nodes, RunNode(n) PROVE LineageIsComplete'
  BY <1>3, <1>7 DEF RunNode
<1>8. CASE HandlerWrites BY <1>8, WritesKeepLineage
<1>9. CASE Settle \/ HandlerRaises \/ Crash BY <1>9, ReturnKeepsLineage
<1>10. ASSUME NEW n \in open, NEW batch \in Delivered, Answer(n, batch)
       PROVE  LineageIsComplete'
  BY <1>10, AnswerKeepsLineage
<1> QED BY <1>4, <1>5, <1>6, <1>7, <1>8, <1>9, <1>10 DEF Next

\* A node that succeeded has left every edge of what its last attempt read,
\* also when an earlier attempt was broken off among them or another node had
\* written some of them.
THEOREM LineageStaysComplete == Spec => []LineageIsComplete
<1>1. Init => LineageIsComplete
  <2> SUFFICES ASSUME Init, NEW n \in Nodes, status[n] = "SUCCEEDED"
               PROVE  Implied(n) = {}
    BY DEF LineageIsComplete
  <2>1. n \in {"sys.workspace", "intake.register"} BY DEF Init
  <2> QED BY <2>1, NothingImplied DEF Implied
<1>2. EvidenceInv /\ LineageIsComplete /\ [Next]_vars => LineageIsComplete'
  BY StepKeepsLineage
<1> QED BY <1>1, <1>2, EvidenceIsSafe, PTL DEF Spec

=============================================================================
