----------------------------- MODULE DataLemmas -----------------------------
(***************************************************************************)
(* Facts about numbers, sums and sequences that the proofs of several      *)
(* components need. They are proved by induction, which the theorems of    *)
(* the library that take a predicate as a parameter cannot give here: an   *)
(* induction is the search for the least number that refutes the claim,    *)
(* and LeastNumber is its principle.                                       *)
(***************************************************************************)
EXTENDS Integers, Sequences, FiniteSets, FiniteSetsExt, SequencesExt,
        FiniteSetTheorems, SequenceTheorems, WellFoundedInduction, TLAPS

(* Every inhabited set of natural numbers has a least element. *)
LEMMA LeastNumber ==
    ASSUME NEW T \in SUBSET Nat, T # {}
    PROVE  \E x \in T : \A y \in T : x <= y
<1> DEFINE R == OpToRel(<, Nat)
<1>1. IsWellFoundedOn(R, Nat)
  BY NatLessThanWellFounded
<1>2. \A x, y \in Nat : (<<y, x>> \in R) <=> y < x
  BY DEF OpToRel
<1> HIDE DEF R
<1>3. PICK x \in T : \A y \in T : ~ (<<y, x>> \in R)
  BY <1>1, WFMin
<1>4. ASSUME NEW y \in T PROVE x <= y
  <2>1. ~ (<<y, x>> \in R)
    BY <1>3
  <2>2. y \in Nat /\ x \in Nat
    OBVIOUS
  <2>3. ~ (y < x)
    BY <2>1, <2>2, <1>2, Zenon
  <2> QED
    BY <2>2, <2>3
<1> QED
  BY <1>4

(* A set of natural numbers that holds 0 and the successor of each of its  *)
(* elements is the set of all of them.                                     *)
LEMMA Induction ==
    ASSUME NEW P \in SUBSET Nat, 0 \in P, \A n \in P : n + 1 \in P
    PROVE  P = Nat
<1> SUFFICES ASSUME P # Nat PROVE FALSE
  OBVIOUS
<1>1. Nat \ P # {}
  OBVIOUS
<1>2. PICK x \in Nat \ P : \A y \in Nat \ P : x <= y
  BY <1>1, LeastNumber
<1>3. x - 1 \in Nat /\ x - 1 \notin Nat \ P
  BY <1>2
<1>4. x - 1 + 1 \in P
  BY <1>3
<1> QED
  BY <1>4

(* The same from 1 to n. *)
LEMMA IntervalInduction ==
    ASSUME NEW n \in Nat, NEW Q \in SUBSET (1 .. n),
           n # 0 => 1 \in Q, \A j \in 2 .. n : j - 1 \in Q => j \in Q
    PROVE  \A j \in 1 .. n : j \in Q
<1> SUFFICES ASSUME (1 .. n) \ Q # {} PROVE FALSE
  OBVIOUS
<1>1. PICK x \in (1 .. n) \ Q : \A y \in (1 .. n) \ Q : x <= y
  <2> DEFINE T == (1 .. n) \ Q
  <2>1. T \in SUBSET Nat /\ T # {}
    OBVIOUS
  <2> HIDE DEF T
  <2>2. \E x \in T : \A y \in T : x <= y
    BY <2>1, LeastNumber
  <2> QED
    BY <2>2 DEF T
<1>2. x # 1 /\ x \in 2 .. n
  BY <1>1
<1>3. x - 1 \in Q
  BY <1>1, <1>2
<1> QED
  BY <1>1, <1>2, <1>3

-----------------------------------------------------------------------------
(* The sum of a function over a finite set, as FiniteSetsExt computes it:  *)
(* one element after the other, in the order of Pick.                      *)
SumOver(d, S) == MapThenSumSet(LAMBDA t : d[t], S)

Pick(s) == CHOOSE x \in s : TRUE

Accumulates(g, d, Sets) ==
    g = [s \in Sets |-> IF s = {} THEN 0 ELSE d[Pick(s)] + g[s \ {Pick(s)}]]

UpToSize(S, n) == {s \in SUBSET S : Cardinality(s) <= n}

(* Taking the picked element out of a finite set. *)
LEMMA PickTakesOne ==
    ASSUME NEW S, IsFiniteSet(S), NEW s \in SUBSET S, s # {}
    PROVE  /\ Pick(s) \in s
           /\ IsFiniteSet(s) /\ s \ {Pick(s)} \in SUBSET S
           /\ Cardinality(s) \in Nat \ {0}
           /\ Cardinality(s \ {Pick(s)}) = Cardinality(s) - 1
<1>1. Pick(s) \in s
  BY DEF Pick
<1>2. IsFiniteSet(s)
  BY FS_Subset
<1>3. Cardinality(s) \in Nat /\ Cardinality(s) # 0
  BY <1>2, FS_CardinalityType, FS_EmptySet
<1>4. Cardinality(s \ {Pick(s)}) = Cardinality(s) - 1
  BY <1>1, <1>2, FS_RemoveElement
<1> QED
  BY <1>1, <1>2, <1>3, <1>4

(* The recursion that computes the sum has a solution. *)
LEMMA AccumulatorExists ==
    ASSUME NEW S, IsFiniteSet(S), NEW d
    PROVE  \E g : Accumulates(g, d, SUBSET S)
<1> DEFINE P == {n \in Nat : \E g : Accumulates(g, d, UpToSize(S, n))}
<1>1. 0 \in P
  <2> DEFINE g == [s \in UpToSize(S, 0) |-> 0]
  <2>1. \A s \in UpToSize(S, 0) : s = {}
    BY FS_Subset, FS_EmptySet, FS_CardinalityType DEF UpToSize
  <2>2. Accumulates(g, d, UpToSize(S, 0))
    BY <2>1 DEF Accumulates
  <2> QED
    BY <2>2
<1>2. ASSUME NEW n \in P PROVE n + 1 \in P
  <2>1. n \in Nat
    OBVIOUS
  <2>2. PICK g : Accumulates(g, d, UpToSize(S, n))
    OBVIOUS
  <2> DEFINE h == [s \in UpToSize(S, n + 1) |->
                     IF s = {} THEN 0 ELSE d[Pick(s)] + g[s \ {Pick(s)}]]
  <2>3. ASSUME NEW s \in UpToSize(S, n + 1), s # {}
        PROVE  s \ {Pick(s)} \in UpToSize(S, n)
    BY <2>1, <2>3, PickTakesOne DEF UpToSize
  <2>4. UpToSize(S, n) \subseteq UpToSize(S, n + 1)
    BY <2>1, FS_Subset, FS_CardinalityType DEF UpToSize
  <2>5. \A s \in UpToSize(S, n) : h[s] = g[s]
    BY <2>2, <2>4, Zenon DEF Accumulates
  <2>6. Accumulates(h, d, UpToSize(S, n + 1))
    BY <2>3, <2>5, Zenon DEF Accumulates
  <2> QED
    BY <2>1, <2>6
<1>3. P = Nat
  <2> HIDE DEF P
  <2>1. P \subseteq Nat
    BY DEF P
  <2> QED
    BY <1>1, <1>2, <2>1, Induction
<1>4. Cardinality(S) \in Nat
  BY FS_CardinalityType
<1>5. UpToSize(S, Cardinality(S)) = SUBSET S
  BY FS_Subset DEF UpToSize
<1>6. Cardinality(S) \in P
  BY <1>3, <1>4, Zenon
<1>7. \E g : Accumulates(g, d, UpToSize(S, Cardinality(S)))
  BY <1>6
<1> QED
  BY <1>5, <1>7, Zenon

(* The sum is what such a solution says of the whole set. *)
LEMMA SumIsAccumulated ==
    ASSUME NEW S, IsFiniteSet(S), NEW d
    PROVE  \E g : Accumulates(g, d, SUBSET S) /\ SumOver(d, S) = g[S]
<1> DEFINE g == CHOOSE h : Accumulates(h, d, SUBSET S)
<1>1. Accumulates(g, d, SUBSET S)
  BY AccumulatorExists
<1>2. SumOver(d, S) = g[S]
  BY DEF SumOver, MapThenSumSet, MapThenFoldSet, Accumulates, Pick
<1> QED
  BY <1>1, <1>2

(* One step of the accumulation. *)
LEMMA Accumulation ==
    ASSUME NEW S, IsFiniteSet(S), NEW d, NEW g, Accumulates(g, d, SUBSET S)
    PROVE  /\ g[{}] = 0
           /\ \A s \in SUBSET S : s # {} => g[s] = d[Pick(s)] + g[s \ {Pick(s)}]
  BY Zenon DEF Accumulates

(* A sum moves with each of its terms. *)
LEMMA SumMoves ==
    ASSUME NEW S, IsFiniteSet(S), NEW d \in [S -> Int], NEW e \in [S -> Int],
           NEW t \in S, \A u \in S \ {t} : e[u] = d[u]
    PROVE  /\ SumOver(d, S) \in Int
           /\ SumOver(e, S) = SumOver(d, S) - d[t] + e[t]
<1>1. PICK g : Accumulates(g, d, SUBSET S) /\ SumOver(d, S) = g[S]
  BY SumIsAccumulated
<1>2. PICK h : Accumulates(h, e, SUBSET S) /\ SumOver(e, S) = h[S]
  BY SumIsAccumulated
<1>a. \A s \in SUBSET S : s # {} => g[s] = d[Pick(s)] + g[s \ {Pick(s)}]
  BY <1>1, Zenon DEF Accumulates
<1>b. \A s \in SUBSET S : s # {} => h[s] = e[Pick(s)] + h[s \ {Pick(s)}]
  BY <1>2, Zenon DEF Accumulates
<1> DEFINE Claim(s) == /\ g[s] \in Int
                       /\ h[s] = IF t \in s THEN g[s] - d[t] + e[t] ELSE g[s]
           P == {n \in Nat : \A s \in SUBSET S : Cardinality(s) = n => Claim(s)}
<1>3. 0 \in P
  <2>1. ASSUME NEW s \in SUBSET S, Cardinality(s) = 0 PROVE s = {}
    BY <2>1, FS_Subset, FS_EmptySet
  <2>2. Claim({})
    BY <1>1, <1>2, Accumulation
  <2> QED
    BY <2>1, <2>2
<1>4. ASSUME NEW n \in P PROVE n + 1 \in P
  <2>1. n \in Nat /\ \A s \in SUBSET S : Cardinality(s) = n => Claim(s)
    OBVIOUS
  <2> HIDE DEF P, Claim
  <2>2. ASSUME NEW s \in SUBSET S, Cardinality(s) = n + 1 PROVE Claim(s)
    <3> DEFINE x == Pick(s)
               r == s \ {x}
    <3>0. n \in Nat
      BY <2>1
    <3>1. s # {}
      BY <2>2, <3>0, FS_EmptySet
    <3>2. x \in s /\ r \in SUBSET S /\ Cardinality(r) = n
      BY <2>1, <2>2, <3>1, PickTakesOne
    <3>3. g[s] = d[x] + g[r] /\ h[s] = e[x] + h[r]
      BY <1>a, <1>b, <3>1
    <3>4. Claim(r)
      BY <2>1, <3>2
    <3>5. x \in S /\ d[x] \in Int /\ e[x] \in Int /\ d[t] \in Int /\ e[t] \in Int
      BY <3>2
    <3> HIDE DEF x
    <3>6. CASE x = t
      BY <3>2, <3>3, <3>4, <3>5, <3>6 DEF Claim
    <3>7. CASE x # t
      BY <3>2, <3>3, <3>4, <3>5, <3>7 DEF Claim
    <3> QED
      BY <3>6, <3>7
  <2> QED
    BY <2>1, <2>2 DEF P
<1>5. P = Nat
  <2> HIDE DEF P
  <2>1. P \subseteq Nat
    BY DEF P
  <2> QED
    BY <1>3, <1>4, <2>1, Induction
<1>6. Claim(S)
  <2> HIDE DEF Claim
  <2>1. Cardinality(S) \in P
    BY <1>5, FS_CardinalityType
  <2> QED
    BY <2>1
<1> QED
  BY <1>1, <1>2, <1>6

(* A sum of zeros. *)
LEMMA SumOfZeros ==
    ASSUME NEW S, IsFiniteSet(S), NEW d, \A u \in S : d[u] = 0
    PROVE  SumOver(d, S) = 0
<1>1. PICK g : Accumulates(g, d, SUBSET S) /\ SumOver(d, S) = g[S]
  BY SumIsAccumulated
<1> DEFINE P == {n \in Nat : \A s \in SUBSET S : Cardinality(s) = n => g[s] = 0}
<1>2. 0 \in P
  <2>1. ASSUME NEW s \in SUBSET S, Cardinality(s) = 0 PROVE s = {}
    BY <2>1, FS_Subset, FS_EmptySet
  <2> QED
    BY <1>1, <2>1, Accumulation
<1>3. ASSUME NEW n \in P PROVE n + 1 \in P
  <2>1. n \in Nat /\ \A s \in SUBSET S : Cardinality(s) = n => g[s] = 0
    OBVIOUS
  <2>2. ASSUME NEW s \in SUBSET S, Cardinality(s) = n + 1 PROVE g[s] = 0
    <3>1. s # {}
      BY <2>1, <2>2, FS_EmptySet
    <3>2. Pick(s) \in s /\ s \ {Pick(s)} \in SUBSET S /\ Cardinality(s \ {Pick(s)}) = n
      BY <2>1, <2>2, <3>1, PickTakesOne
    <3>3. g[s] = d[Pick(s)] + g[s \ {Pick(s)}]
      BY <1>1, <3>1, Accumulation
    <3> QED
      BY <2>1, <3>2, <3>3
  <2> QED
    BY <2>1, <2>2
<1>4. P = Nat
  <2> HIDE DEF P
  <2>1. P \subseteq Nat
    BY DEF P
  <2> QED
    BY <1>2, <1>3, <2>1, Induction
<1>5. Cardinality(S) \in P
  BY <1>4, FS_CardinalityType
<1> QED
  BY <1>1, <1>5

-----------------------------------------------------------------------------
(* FlattenSeq of SequencesExt, which joins one sequence after the other. *)

Joins(g, seqs, n) == g = [i \in 1 .. n |-> IF i = 1 THEN seqs[i] ELSE g[i - 1] \o seqs[i]]

(* The recursion that joins the sequences has a solution. *)
LEMMA JoinExists ==
    ASSUME NEW seqs, NEW k \in Nat
    PROVE  \E g : Joins(g, seqs, k)
<1> DEFINE P == {n \in Nat : \E g : Joins(g, seqs, n)}
<1>1. 0 \in P
  <2>1. Joins([i \in 1 .. 0 |-> 0], seqs, 0)
    BY DEF Joins
  <2> QED
    BY <2>1
<1>2. ASSUME NEW n \in P PROVE n + 1 \in P
  <2>1. n \in Nat
    OBVIOUS
  <2>2. PICK g : Joins(g, seqs, n)
    OBVIOUS
  <2> DEFINE h == [i \in 1 .. n + 1 |-> IF i = 1 THEN seqs[i] ELSE g[i - 1] \o seqs[i]]
  <2>a. \A i \in 1 .. n : i \in 1 .. n + 1
    BY <2>1
  <2>3. \A i \in 1 .. n : h[i] = g[i]
    BY <2>2, <2>a, Zenon DEF Joins
  <2>4. \A i \in 1 .. n + 1 : i # 1 => i - 1 \in 1 .. n
    BY <2>1
  <2>5. Joins(h, seqs, n + 1)
    BY <2>3, <2>4, Zenon DEF Joins
  <2> QED
    BY <2>1, <2>5
<1>3. P = Nat
  <2> HIDE DEF P
  <2>1. P \subseteq Nat
    BY DEF P
  <2> QED
    BY <1>1, <1>2, <2>1, Induction
<1>4. k \in P
  BY <1>3, Zenon
<1> QED
  BY <1>4

Joined(g, seqs, n) ==
    \A i \in 1 .. n : /\ i = 1 => g[i] = seqs[i]
                      /\ i # 1 => g[i] = g[i - 1] \o seqs[i]

(* The flattened sequence is the last of the joins. *)
LEMMA FlattenJoins ==
    ASSUME NEW A, NEW seqs \in Seq(Seq(A)), seqs # <<>>
    PROVE  \E g : Joined(g, seqs, Len(seqs)) /\ FlattenSeq(seqs) = g[Len(seqs)]
<1> DEFINE g == CHOOSE h : Joins(h, seqs, Len(seqs))
<1>1. Len(seqs) \in Nat /\ Len(seqs) # 0
  BY EmptySeq
<1>2. Joins(g, seqs, Len(seqs))
  BY <1>1, JoinExists
<1>3. FlattenSeq(seqs) = g[Len(seqs)]
  BY <1>1 DEF FlattenSeq, Joins
<1>4. Joined(g, seqs, Len(seqs))
  <2> HIDE DEF g
  <2>1. \A i \in 1 .. Len(seqs) : g[i] = IF i = 1 THEN seqs[i] ELSE g[i - 1] \o seqs[i]
    BY <1>2, Zenon DEF Joins
  <2> QED
    BY <2>1, Zenon DEF Joined
<1> QED
  BY <1>3, <1>4

(* Every partial result of a fold of sequences is a sequence. *)
LEMMA JoinType ==
    ASSUME NEW A, NEW seqs \in Seq(Seq(A)), NEW n \in 1 .. Len(seqs), NEW g, Joined(g, seqs, n)
    PROVE  \A i \in 1 .. n : g[i] \in Seq(A)
<1> DEFINE Q == {i \in 1 .. n : g[i] \in Seq(A)}
<1>0. n \in Nat /\ 1 \in 1 .. n /\ \A i \in 1 .. n : seqs[i] \in Seq(A)
  BY ElementOfSeq
<1>1. 1 \in Q
  BY <1>0 DEF Joined
<1>2. ASSUME NEW j \in 2 .. n, j - 1 \in Q PROVE j \in Q
  <2>1. j \in 1 .. n /\ j # 1 /\ g[j - 1] \in Seq(A)
    BY <1>0, <1>2
  <2>2. g[j] = g[j - 1] \o seqs[j]
    BY <2>1 DEF Joined
  <2>3. g[j] \in Seq(A)
    BY <1>0, <2>1, <2>2, ConcatProperties
  <2> QED
    BY <2>1, <2>3
<1>3. \A i \in 1 .. n : i \in Q
  <2>1. Q \subseteq 1 .. n
    OBVIOUS
  <2> HIDE DEF Q
  <2> QED
    BY <1>0, <1>1, <1>2, <2>1, IntervalInduction
<1> QED
  BY <1>3

(* The flattening of sequences over A is a sequence over A. *)
LEMMA FlattenType ==
    ASSUME NEW A, NEW seqs \in Seq(Seq(A))
    PROVE  FlattenSeq(seqs) \in Seq(A)
<1>1. CASE seqs = <<>>
  BY <1>1, EmptySeq DEF FlattenSeq
<1>2. CASE seqs # <<>>
  <2>1. PICK g : Joined(g, seqs, Len(seqs)) /\ FlattenSeq(seqs) = g[Len(seqs)]
    BY <1>2, FlattenJoins
  <2>2. Len(seqs) \in 1 .. Len(seqs)
    BY <1>2, EmptySeq
  <2>3. \A i \in 1 .. Len(seqs) : g[i] \in Seq(A)
    BY <2>1, <2>2, JoinType
  <2> QED
    BY <2>1, <2>2, <2>3
<1> QED
  BY <1>1, <1>2

(* A sequence appended goes to the end of the flattened one. *)
LEMMA FlattenAppend ==
    ASSUME NEW A, NEW seqs \in Seq(Seq(A)), NEW s \in Seq(A)
    PROVE  FlattenSeq(Append(seqs, s)) = FlattenSeq(seqs) \o s
<1> DEFINE more == Append(seqs, s)
           n == Len(seqs)
<1>1. /\ n \in Nat /\ more \in Seq(Seq(A)) /\ more # <<>> /\ Len(more) = n + 1
      /\ more[n + 1] = s /\ \A i \in 1 .. n : more[i] = seqs[i]
  BY AppendProperties, LenProperties
<1> HIDE DEF more
<1>2. PICK h : Joined(h, more, n + 1) /\ FlattenSeq(more) = h[n + 1]
  BY <1>1, FlattenJoins
<1>3. \A i \in 1 .. n + 1 : /\ i = 1 => h[i] = more[i]
                            /\ i # 1 => h[i] = h[i - 1] \o more[i]
  BY <1>2, Zenon DEF Joined
<1>4. CASE n = 0
  <2>1. seqs = <<>> /\ n + 1 = 1 /\ 1 \in 1 .. n + 1
    BY <1>1, <1>4
  <2>2. h[1] = s
    BY <1>1, <1>3, <2>1
  <2>3. FlattenSeq(seqs) = <<>>
    BY <2>1 DEF FlattenSeq
  <2> QED
    BY <1>2, <2>1, <2>2, <2>3, ConcatEmptySeq DEF more
<1>5. CASE n # 0
  <2>1. PICK g : Joined(g, seqs, n) /\ FlattenSeq(seqs) = g[n]
    <3>1. seqs # <<>>
      BY <1>5
    <3> QED
      BY <3>1, FlattenJoins
  <2>2. \A i \in 1 .. n : /\ i = 1 => g[i] = seqs[i]
                          /\ i # 1 => g[i] = g[i - 1] \o seqs[i]
    BY <2>1, Zenon DEF Joined
  <2> DEFINE Q == {i \in 1 .. n : h[i] = g[i]}
  <2>3. 1 \in Q
    <3>1. 1 \in 1 .. n /\ 1 \in 1 .. n + 1
      BY <1>1, <1>5
    <3>2. h[1] = more[1] /\ g[1] = seqs[1]
      BY <1>3, <2>2, <3>1, Zenon
    <3> QED
      BY <1>1, <3>1, <3>2
  <2>4. ASSUME NEW j \in 2 .. n, j - 1 \in Q PROVE j \in Q
    <3>1. j \in 1 .. n /\ j # 1 /\ j \in 1 .. n + 1 /\ h[j - 1] = g[j - 1]
      BY <1>1, <2>4
    <3>2. h[j] = h[j - 1] \o more[j] /\ g[j] = g[j - 1] \o seqs[j] /\ more[j] = seqs[j]
      BY <1>1, <1>3, <2>2, <3>1, Zenon
    <3> QED
      BY <3>1, <3>2
  <2>5. \A i \in 1 .. n : i \in Q
    <3>1. Q \subseteq 1 .. n
      OBVIOUS
    <3> HIDE DEF Q
    <3> QED
      BY <1>1, <2>3, <2>4, <3>1, IntervalInduction
  <2>6. h[n] = g[n]
    <3>1. n \in 1 .. n
      BY <1>1, <1>5
    <3> QED
      BY <2>5, <3>1
  <2>7. h[n + 1] = h[n] \o s
    <3>1. PICK j \in 1 .. n + 1 : j = n + 1 /\ j # 1 /\ j - 1 = n
      BY <1>1, <1>5
    <3> QED
      BY <1>1, <1>3, <3>1
  <2> QED
    BY <1>2, <2>1, <2>6, <2>7 DEF more
<1> QED
  BY <1>1, <1>4, <1>5

(* The first sequence is the beginning of the flattened one. *)
LEMMA FlattenHeadTail ==
    ASSUME NEW A, NEW seqs \in Seq(Seq(A)), seqs # <<>>
    PROVE  FlattenSeq(seqs) = Head(seqs) \o FlattenSeq(Tail(seqs))
<1> DEFINE rest == Tail(seqs)
           n == Len(rest)
           first == Head(seqs)
<1>1. /\ n \in Nat /\ Len(seqs) = n + 1
      /\ rest \in Seq(Seq(A)) /\ \A i \in 1 .. n : rest[i] = seqs[i + 1]
      /\ first = seqs[1] /\ first \in Seq(A)
  <2>1. Len(seqs) \in Nat \ {0}
    BY EmptySeq
  <2>2. rest \in Seq(Seq(A)) /\ n = Len(seqs) - 1 /\ \A i \in 1 .. n : rest[i] = seqs[i + 1]
    BY HeadTailProperties
  <2>3. 1 \in 1 .. Len(seqs)
    BY <2>1
  <2> QED
    BY <2>1, <2>2, <2>3, ElementOfSeq
<1> HIDE DEF rest, first, n
<1>2. PICK g : Joined(g, seqs, n + 1) /\ FlattenSeq(seqs) = g[n + 1]
  BY <1>1, FlattenJoins
<1>3. \A i \in 1 .. n + 1 : /\ i = 1 => g[i] = seqs[i]
                            /\ i # 1 => g[i] = g[i - 1] \o seqs[i]
  BY <1>2, Zenon DEF Joined
<1>4. g[1] = first
  <2>1. 1 \in 1 .. n + 1
    BY <1>1
  <2> QED
    BY <1>1, <1>3, <2>1, Zenon
<1>5. CASE n = 0
  <2>1. rest = <<>> /\ n + 1 = 1
    BY <1>1, <1>5 DEF n
  <2>2. FlattenSeq(rest) = <<>>
    BY <2>1 DEF FlattenSeq
  <2> QED
    BY <1>1, <1>2, <1>4, <2>1, <2>2, ConcatEmptySeq DEF rest, first
<1>6. CASE n # 0
  <2>0. rest # <<>> /\ n \in 1 .. n /\ Len(rest) = n
    BY <1>1, <1>6 DEF n
  <2>1. PICK h : Joined(h, rest, n) /\ FlattenSeq(rest) = h[n]
    BY <1>1, <2>0, FlattenJoins
  <2>2. \A i \in 1 .. n : /\ i = 1 => h[i] = rest[i]
                          /\ i # 1 => h[i] = h[i - 1] \o rest[i]
    BY <2>1, Zenon DEF Joined
  <2>3. \A i \in 1 .. n : h[i] \in Seq(A) /\ rest[i] \in Seq(A)
    BY <1>1, <2>0, <2>1, JoinType, ElementOfSeq
  <2> DEFINE Claim(i) == g[i + 1] = first \o h[i]
             Q == {i \in 1 .. n : Claim(i)}
  <2>4. ASSUME NEW i \in 1 .. n PROVE g[i + 1] = g[i] \o rest[i]
    <3>1. PICK k \in 1 .. n + 1 : k = i + 1 /\ k # 1 /\ k - 1 = i
      BY <1>1
    <3>2. g[k] = g[k - 1] \o seqs[k]
      BY <1>3, <3>1, Zenon
    <3> QED
      BY <1>1, <3>1, <3>2
  <2>5. 1 \in Q
    <3>1. 1 \in 1 .. n
      BY <1>1, <1>6
    <3>2. h[1] = rest[1]
      BY <2>2, <3>1, Zenon
    <3> QED
      BY <1>4, <2>4, <3>1, <3>2, Zenon
  <2>6. ASSUME NEW j \in 2 .. n, j - 1 \in Q PROVE j \in Q
    <3>1. j \in 1 .. n /\ j # 1 /\ j - 1 + 1 = j /\ j - 1 \in 1 .. n
      BY <1>1
    <3>2. g[j - 1 + 1] = first \o h[j - 1]
      BY <2>6
    <3>3. g[j + 1] = g[j] \o rest[j] /\ h[j] = h[j - 1] \o rest[j]
      BY <2>2, <2>4, <3>1, Zenon
    <3>4. h[j - 1] \in Seq(A) /\ rest[j] \in Seq(A)
      BY <2>3, <3>1, Zenon
    <3>5. (first \o h[j - 1]) \o rest[j] = first \o (h[j - 1] \o rest[j])
      <4> DEFINE u == h[j - 1]
                 v == rest[j]
      <4>1. first \in Seq(A) /\ u \in Seq(A) /\ v \in Seq(A)
        BY <1>1, <3>4, Zenon
      <4> HIDE DEF Q, Claim, u, v
      <4>2. (first \o u) \o v = first \o (u \o v)
        BY <4>1, SMTT(60)
      <4> QED
        BY <4>2 DEF u, v
    <3>6. Claim(j)
      BY <3>1, <3>2, <3>3, <3>5, Zenon
    <3> QED
      BY <3>1, <3>6, Zenon
  <2>7. \A i \in 1 .. n : i \in Q
    <3>1. Q \subseteq 1 .. n
      OBVIOUS
    <3> HIDE DEF Q
    <3> QED
      BY <1>1, <2>5, <2>6, <3>1, IntervalInduction
  <2>8. g[n + 1] = first \o h[n]
    BY <2>0, <2>7, Zenon
  <2> QED
    BY <1>2, <2>1, <2>8 DEF rest, first
<1> QED
  BY <1>1, <1>5, <1>6

-----------------------------------------------------------------------------
(* Sequences of parts of a body, each with the chunks it carries *)

Payloads(parts) == [i \in 1 .. Len(parts) |-> parts[i].chunks]

Contents(parts) == FlattenSeq(Payloads(parts))

(* The payloads of parts, part by part. *)
LEMMA PayloadsType ==
    ASSUME NEW A, NEW P, \A p \in P : p.chunks \in Seq(A), NEW c \in Seq(P)
    PROVE  Payloads(c) \in Seq(Seq(A)) /\ Len(Payloads(c)) = Len(c)
<1>1. \A i \in 1 .. Len(c) : c[i].chunks \in Seq(A)
  <2>1. \A i \in 1 .. Len(c) : c[i] \in P
    BY ElementOfSeq
  <2> QED
    BY <2>1
<1>2. Payloads(c) \in [1 .. Len(c) -> Seq(A)] /\ Len(c) \in Nat
  BY <1>1 DEF Payloads
<1> HIDE DEF Payloads
<1> QED
  BY <1>2, SeqDef

(* All that a channel of parts carries. *)
LEMMA ContentsType ==
    ASSUME NEW A, NEW P, \A p \in P : p.chunks \in Seq(A), NEW c \in Seq(P)
    PROVE  Contents(c) \in Seq(A)
  BY PayloadsType, FlattenType DEF Contents

(* An empty channel carries nothing. *)
LEMMA ContentsEmpty == Contents(<<>>) = <<>>
<1>1. Payloads(<<>>) = <<>>
  BY DEF Payloads
<1> QED
  BY <1>1 DEF Contents, FlattenSeq

(* A part that is sent adds its chunks at the end. *)
LEMMA ContentsAppend ==
    ASSUME NEW A, NEW P, \A p \in P : p.chunks \in Seq(A), NEW c \in Seq(P), NEW p \in P
    PROVE  Contents(Append(c, p)) = Contents(c) \o p.chunks
<1>0. p.chunks \in Seq(A) /\ Append(c, p) \in Seq(P)
  OBVIOUS
<1>1. Payloads(Append(c, p)) = Append(Payloads(c), p.chunks)
  BY <1>0, PayloadsType DEF Payloads
<1>2. FlattenSeq(Append(Payloads(c), p.chunks)) = FlattenSeq(Payloads(c)) \o p.chunks
  BY <1>0, PayloadsType, FlattenAppend
<1> QED
  BY <1>1, <1>2 DEF Contents

(* A part that is received takes its chunks from the front. *)
LEMMA ContentsHead ==
    ASSUME NEW A, NEW P, \A p \in P : p.chunks \in Seq(A), NEW c \in Seq(P), c # <<>>
    PROVE  /\ Tail(c) \in Seq(P) /\ Head(c) \in P
           /\ Contents(c) = Head(c).chunks \o Contents(Tail(c))
<1>1. Payloads(c) # <<>> /\ Head(Payloads(c)) = Head(c).chunks
  BY PayloadsType DEF Payloads
<1>2. Payloads(Tail(c)) = Tail(Payloads(c))
  BY PayloadsType DEF Payloads
<1>3. FlattenSeq(Payloads(c)) = Head(Payloads(c)) \o FlattenSeq(Tail(Payloads(c)))
  BY <1>1, PayloadsType, FlattenHeadTail
<1>4. Tail(c) \in Seq(P) /\ Head(c) \in P
  BY HeadTailProperties
<1> QED
  BY <1>1, <1>2, <1>3, <1>4 DEF Contents

-----------------------------------------------------------------------------
(* Sequences that grow and shrink *)

(* What a sent part adds to a channel. *)
LEMMA SentPart ==
    ASSUME NEW P, NEW c \in Seq(P), NEW p \in P
    PROVE  /\ Append(c, p) \in Seq(P) /\ Len(Append(c, p)) = Len(c) + 1
           /\ \A i \in DOMAIN Append(c, p) :
                 \/ i \in DOMAIN c /\ Append(c, p)[i] = c[i]
                 \/ i = Len(c) + 1 /\ Append(c, p)[i] = p
  BY AppendProperties, LenProperties

(* Where a later element goes when the i-th of n leaves. *)
LEMMA BehindRemoved ==
    ASSUME NEW n \in Nat, NEW i \in 1 .. n, NEW j \in 1 .. n - 1, ~(j < i), NEW k, k = i - 1
    PROVE  j - k \in 1 .. n - i /\ ~(j <= k) /\ i + (j - k) = j + 1
  OBVIOUS

(* What RemoveAt leaves, element by element. *)
LEMMA Removed ==
    ASSUME NEW A, NEW q \in Seq(A), NEW i \in DOMAIN q
    PROVE  /\ RemoveAt(q, i) \in Seq(A)
           /\ Len(RemoveAt(q, i)) = Len(q) - 1
           /\ \A j \in 1 .. Len(q) - 1 : RemoveAt(q, i)[j] = q[IF j < i THEN j ELSE j + 1]
<1>0. i \in 1 .. Len(q) /\ Len(q) \in Nat /\ i \in Nat
  BY LenProperties
<1> DEFINE a == SubSeq(q, 1, i - 1)
           b == SubSeq(q, i + 1, Len(q))
<1>1. a \in Seq(A) /\ Len(a) = i - 1 /\ \A j \in 1 .. i - 1 : a[j] = q[j]
  BY <1>0
<1>2. b \in Seq(A) /\ Len(b) = Len(q) - i /\ \A j \in 1 .. Len(q) - i : b[j] = q[i + j]
  BY <1>0
<1>3. RemoveAt(q, i) = a \o b
  BY DEF RemoveAt
<1> HIDE DEF a, b
<1>4. /\ a \o b \in Seq(A) /\ Len(a \o b) = Len(a) + Len(b)
      /\ \A j \in 1 .. Len(a) + Len(b) : (a \o b)[j] = IF j <= Len(a) THEN a[j] ELSE b[j - Len(a)]
  BY <1>1, <1>2, ConcatProperties
<1>n. Len(a) = i - 1 /\ Len(b) = Len(q) - i
  BY <1>1, <1>2
<1>5. Len(a) + Len(b) = Len(q) - 1
  BY <1>0, <1>n
<1>6. ASSUME NEW j \in 1 .. Len(q) - 1 PROVE (a \o b)[j] = q[IF j < i THEN j ELSE j + 1]
  <2>1. CASE j < i
    <3>1. j \in 1 .. i - 1 /\ j <= Len(a) /\ j \in 1 .. Len(a) + Len(b)
      BY <1>0, <1>n, <2>1
    <3> QED
      BY <1>1, <1>4, <2>1, <3>1
  <2>2. CASE ~(j < i)
    <3>1. j - Len(a) \in 1 .. Len(q) - i /\ ~(j <= Len(a)) /\ i + (j - Len(a)) = j + 1
      BY <1>0, <1>n, <2>2, BehindRemoved
    <3>2. (a \o b)[j] = b[j - Len(a)]
      BY <1>4, <1>5, <3>1
    <3>3. b[j - Len(a)] = q[i + (j - Len(a))]
      BY <1>2, <3>1
    <3> QED
      BY <2>2, <3>1, <3>2, <3>3
  <2> QED
    BY <2>1, <2>2
<1> QED
  BY <1>3, <1>4, <1>5, <1>6
=============================================================================
