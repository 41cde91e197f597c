----------------------------- MODULE DataProofs -----------------------------
(***************************************************************************)
(* Proofs about a bulk load of data (BulkLoad) and about the portions of a *)
(* Snowfakery load (PortionGenerator), for every mapping, size of a batch  *)
(* and target.  A load is proved with one inductive invariant, LoadInv;    *)
(* before it come what the steps and the results of a job are, joined by   *)
(* FlattenSeq, and what ElementsAt takes of a sequence.                    *)
(***************************************************************************)
EXTENDS BulkLoad, PortionGenerator, FiniteSetTheorems, WellFoundedInduction, TLAPS

-----------------------------------------------------------------------------
(* FlattenSeq puts each sequence after the ones before it.  Its recursive   *)
(* function is unfolded where a least counterexample would be.              *)

\* A nonempty set of natural numbers has a least one; with it the lemmas below reason from
\* the first place where something would fail.
LEMMA LeastExists ==
  ASSUME NEW S \in SUBSET Nat, S # {}
  PROVE  \E n \in S : \A m \in S : n <= m
<1> DEFINE T == {0..n : n \in S}
<1>1. T \subseteq FiniteSubsetsOf(Nat) /\ T # {}
  <2>1. ASSUME NEW n \in S PROVE 0..n \in FiniteSubsetsOf(Nat)
    <3>1. IsFiniteSet(0..n) /\ 0..n \subseteq Nat
      BY FS_Interval
    <3> QED BY <3>1 DEF FiniteSubsetsOf
  <2> QED BY <2>1
<1>2. IsWellFoundedOn(StrictSubsetOrdering(Nat), FiniteSubsetsOf(Nat))
  BY FS_StrictSubsetOrderingWellFounded
<1>3. PICK x \in T : \A y \in T : <<y, x>> \notin StrictSubsetOrdering(Nat)
  <2> HIDE DEF T
  <2> QED BY ONLY <1>1, <1>2, WFMin, Zenon
<1>4. PICK n \in S : x = 0..n
  BY <1>3
<1>5. ASSUME NEW m \in S, m < n PROVE FALSE
  <2>1. 0..m \subseteq 0..n /\ 0..m # 0..n
    BY <1>5
  <2>2. 0..m \in SUBSET Nat /\ 0..n \in SUBSET Nat
    OBVIOUS
  <2>3. <<0..m, 0..n>> \in StrictSubsetOrdering(Nat)
    BY <2>1, <2>2, Zenon DEF StrictSubsetOrdering
  <2> QED BY <1>3, <1>4, <2>3
<1> QED BY <1>5

\* f is the function FlattenSeq is defined by: f[i] joins the first i sequences.
Adds(f, seqs, m) == f = [i \in 1..m |-> IF i = 1 THEN seqs[1] ELSE f[i - 1] \o seqs[i]]

\* There is such a function, of any length.
LEMMA AddsExists ==
  ASSUME NEW seqs, NEW n \in Nat
  PROVE  \A m \in 1..n : \E f : Adds(f, seqs, m)
<1> DEFINE Bad == {m \in 1..n : ~\E f : Adds(f, seqs, m)}
<1>0. SUFFICES ASSUME Bad # {} PROVE FALSE
  OBVIOUS
<1>1. PICK m \in Bad : \A k \in Bad : m <= k
  <2>1. Bad \in SUBSET Nat
    OBVIOUS
  <2> HIDE DEF Bad
  <2> QED BY <1>0, <2>1, LeastExists
<1>2. CASE m = 1
  <2>1. Adds([i \in 1..1 |-> seqs[1]], seqs, 1)
    BY DEF Adds
  <2> QED BY <1>2, <2>1
<1>3. CASE m # 1
  <2>1. m - 1 \in 1..n /\ m - 1 \notin Bad
    BY <1>1, <1>3
  <2>2. PICK f : Adds(f, seqs, m - 1)
    BY <2>1
  <2> DEFINE g == [i \in 1..m |-> IF i = m THEN f[m - 1] \o seqs[m] ELSE f[i]]
  <2>3. \A i \in 1..m : g[i] = IF i = 1 THEN seqs[1] ELSE g[i - 1] \o seqs[i]
    <3> SUFFICES ASSUME NEW i \in 1..m PROVE g[i] = IF i = 1 THEN seqs[1] ELSE g[i - 1] \o seqs[i]
      OBVIOUS
    <3>1. CASE i = m
      <4>1. i - 1 \in 1..m /\ i - 1 # m
        BY <3>1, <1>3
      <4> QED BY <4>1, <3>1, <1>3
    <3>2. CASE i # m
      <4>1. i \in 1..(m - 1) /\ (i # 1 => i - 1 \in 1..m /\ i - 1 # m)
        BY <3>2
      <4>2. f[i] = IF i = 1 THEN seqs[1] ELSE f[i - 1] \o seqs[i]
        BY <4>1, <2>2 DEF Adds
      <4> QED BY <4>1, <4>2, <3>2
    <3> QED BY <3>1, <3>2
  <2>4. Adds(g, seqs, m)
    BY <2>3 DEF Adds
  <2> QED BY <2>4
<1> QED BY <1>2, <1>3

\* FlattenSeq is its last value.
LEMMA FlattenAdds ==
  ASSUME NEW seqs, Len(seqs) \in Nat \ {0}
  PROVE  \E f : Adds(f, seqs, Len(seqs)) /\ FlattenSeq(seqs) = f[Len(seqs)]
<1> DEFINE F == CHOOSE f : f = [i \in 1..Len(seqs) |-> IF i = 1 THEN seqs[i] ELSE f[i - 1] \o seqs[i]]
<1>1. FlattenSeq(seqs) = F[Len(seqs)]
  BY DEF FlattenSeq
<1>2. PICK f : Adds(f, seqs, Len(seqs))
  <2>1. \A m \in 1..Len(seqs) : \E f : Adds(f, seqs, m)
    BY AddsExists
  <2>2. Len(seqs) \in 1..Len(seqs)
    OBVIOUS
  <2> QED BY ONLY <2>1, <2>2
<1>3. f = [i \in 1..Len(seqs) |-> IF i = 1 THEN seqs[i] ELSE f[i - 1] \o seqs[i]]
  BY <1>2 DEF Adds
<1>4. F = [i \in 1..Len(seqs) |-> IF i = 1 THEN seqs[i] ELSE F[i - 1] \o seqs[i]]
  BY <1>3
<1> HIDE DEF F
<1>5. [i \in 1..Len(seqs) |-> IF i = 1 THEN seqs[i] ELSE F[i - 1] \o seqs[i]] =
      [i \in 1..Len(seqs) |-> IF i = 1 THEN seqs[1] ELSE F[i - 1] \o seqs[i]]
  OBVIOUS
<1>6. Adds(F, seqs, Len(seqs))
  BY <1>4, <1>5 DEF Adds
<1> QED BY <1>1, <1>6

\* FlattenSeq puts each sequence after the ones before it.
Offsets(off, seqs) ==
  /\ off \in [1..(Len(seqs) + 1) -> Nat] /\ off[1] = 0
  /\ \A i \in 1..Len(seqs) : off[i + 1] = off[i] + Len(seqs[i])

\* A sequence ends no later than any sequence after it starts.
LEMMA OffsetsGrow ==
  ASSUME NEW seqs, Len(seqs) \in Nat, \A i \in 1..Len(seqs) : Len(seqs[i]) \in Nat, NEW off, Offsets(off, seqs)
  PROVE  \A i \in 1..Len(seqs) : \A k \in 1..(Len(seqs) + 1) : i < k => off[i + 1] <= off[k]
<1> SUFFICES ASSUME NEW i \in 1..Len(seqs)
             PROVE  \A k \in 1..(Len(seqs) + 1) : i < k => off[i + 1] <= off[k]
  OBVIOUS
<1> DEFINE Bad == {k \in 1..(Len(seqs) + 1) : i < k /\ ~(off[i + 1] <= off[k])}
<1>1. ASSUME Bad # {} PROVE FALSE
  <2>1. PICK k \in Bad : \A l \in Bad : k <= l
    <3>1. Bad \in SUBSET Nat
      OBVIOUS
    <3> HIDE DEF Bad
    <3> QED BY <1>1, <3>1, LeastExists
  <2>2. k \in 1..(Len(seqs) + 1) /\ i < k /\ ~(off[i + 1] <= off[k])
    OBVIOUS
  <2>3. \A n \in 1..(Len(seqs) + 1) : off[n] \in Nat
    BY DEF Offsets
  <2>4. k # i + 1
    BY <2>2, <2>3
  <2>5. k - 1 \in 1..(Len(seqs) + 1) /\ k - 1 \in 1..Len(seqs) /\ i < k - 1 /\ k - 1 \notin Bad
    BY <2>1, <2>2, <2>4
  <2>6. off[i + 1] <= off[k - 1]
    BY <2>5
  <2>7. off[k] = off[k - 1] + Len(seqs[k - 1])
    <3>1. (k - 1) + 1 = k
      BY <2>2
    <3> QED BY <2>5, <3>1 DEF Offsets
  <2>8. off[i + 1] \in Nat /\ off[k - 1] \in Nat /\ Len(seqs[k - 1]) \in Nat
    BY <2>3, <2>5
  <2> QED BY ONLY <2>2, <2>6, <2>7, <2>8
<1> QED BY <1>1

\* The offsets depend on the lengths alone.
LEMMA OffsetsAgree ==
  ASSUME NEW a, NEW b, Len(a) \in Nat, Len(b) = Len(a), \A i \in 1..Len(a) : Len(a[i]) \in Nat /\ Len(b[i]) = Len(a[i]),
         NEW f, Offsets(f, a), NEW g, Offsets(g, b)
  PROVE  f = g
<1> DEFINE Bad == {k \in 1..(Len(a) + 1) : f[k] # g[k]}
<1>1. ASSUME Bad # {} PROVE FALSE
  <2>1. PICK k \in Bad : \A l \in Bad : k <= l
    <3>1. Bad \in SUBSET Nat
      OBVIOUS
    <3> HIDE DEF Bad
    <3> QED BY <1>1, <3>1, LeastExists
  <2>2. k # 1
    BY DEF Offsets
  <2>3. k - 1 \in 1..Len(a) /\ k - 1 \notin Bad
    BY <2>1, <2>2
  <2>4. f[k] = f[k - 1] + Len(a[k - 1]) /\ g[k] = g[k - 1] + Len(b[k - 1])
    BY <2>3 DEF Offsets
  <2> QED BY <2>3, <2>4
<1> QED BY <1>1 DEF Offsets

\* How many elements come before the i-th sequence.
Before(f, i) == IF i = 1 THEN 0 ELSE Len(f[i - 1])

\* The same of sequences over S, with their types.
Added(S, n, seqs, f) == n \in Nat /\ seqs \in [1..n -> Seq(S)] /\ Adds(f, seqs, n)

\* Each join is a sequence over S, longer than the one before by what it adds.
LEMMA AddsTyped ==
  ASSUME NEW S, NEW n, NEW seqs, NEW f, Added(S, n, seqs, f), NEW m \in 1..n
  PROVE  f[m] \in Seq(S) /\ Before(f, m) \in Nat /\ Len(f[m]) = Before(f, m) + Len(seqs[m])
<1> USE DEF Added
<1>1. \A k \in 1..n : f[k] \in Seq(S)
  <2> DEFINE Bad == {k \in 1..n : f[k] \notin Seq(S)}
  <2>1. ASSUME Bad # {} PROVE FALSE
    <3>1. PICK k \in Bad : \A l \in Bad : k <= l
      <4>1. Bad \in SUBSET Nat
        OBVIOUS
      <4> HIDE DEF Bad
      <4> QED BY <2>1, <4>1, LeastExists
    <3>2. k # 1
      BY DEF Adds
    <3>3. k - 1 \in 1..n /\ k - 1 \notin Bad
      BY <3>1, <3>2
    <3>4. f[k] = f[k - 1] \o seqs[k] /\ f[k - 1] \in Seq(S) /\ seqs[k] \in Seq(S)
      BY <3>2, <3>3 DEF Adds
    <3>5. f[k] \in Seq(S)
      BY <3>4
    <3> QED BY <3>5
  <2> QED BY <2>1
<1>2. CASE m = 1
  <2>1. f[m] = seqs[m] /\ f[m] \in Seq(S) /\ Before(f, m) = 0
    BY <1>1, <1>2 DEF Adds, Before
  <2>2. Len(f[m]) \in Nat
    BY <2>1
  <2> QED BY <1>2, <2>1, <2>2
<1>3. CASE m # 1
  <2>1. m - 1 \in 1..n
    BY <1>3
  <2>2. f[m] = f[m - 1] \o seqs[m] /\ f[m - 1] \in Seq(S) /\ seqs[m] \in Seq(S) /\ f[m] \in Seq(S)
    BY <1>1, <1>3, <2>1 DEF Adds
  <2>3. Before(f, m) = Len(f[m - 1])
    BY <1>3 DEF Before
  <2>4. Len(f[m - 1]) \in Nat /\ Len(f[m]) = Len(f[m - 1]) + Len(seqs[m])
    BY <2>2
  <2> QED BY <2>2, <2>3, <2>4
<1> QED BY <1>2, <1>3

\* The join before one is a sequence too.
LEMMA AddsNext ==
  ASSUME NEW S, NEW n, NEW seqs, NEW f, Added(S, n, seqs, f), NEW m \in 1..n, m # 1
  PROVE  f[m - 1] \in Seq(S)
<1>1. m - 1 \in 1..n
  BY DEF Added
<1> QED BY <1>1, AddsTyped

\* The sequence added last is at the end.
LEMMA AddsPlaces ==
  ASSUME NEW S, NEW n, NEW seqs, NEW f, Added(S, n, seqs, f), NEW m \in 1..n
  PROVE  \A j \in 1..Len(seqs[m]) : f[m][Before(f, m) + j] = seqs[m][j]
<1>0. seqs[m] \in Seq(S)
  BY DEF Added
<1>1. CASE m = 1
  <2>1. f[m] = seqs[m] /\ Before(f, m) = 0
    BY <1>1 DEF Added, Adds, Before
  <2>2. \A j \in 1..Len(seqs[m]) : 0 + j = j
    BY <1>0
  <2> QED BY <2>1, <2>2
<1>2. CASE m # 1
  <2>1. f[m] = f[m - 1] \o seqs[m]
    BY <1>2 DEF Added, Adds
  <2>4. f[m - 1] \in Seq(S)
    BY <1>2, AddsNext
  <2>2. Before(f, m) = Len(f[m - 1])
    BY <1>2 DEF Before
  <2>3. \A j \in 1..Len(seqs[m]) : f[m][Len(f[m - 1]) + j] = seqs[m][j]
    <3>1. PICK a \in Seq(S), b \in Seq(S) : a = f[m - 1] /\ b = seqs[m]
      BY <1>0, <2>4
    <3>2. \A j \in 1..Len(b) : (a \o b)[Len(a) + j] = b[j]
      OBVIOUS
    <3> QED BY <2>1, <3>1, <3>2
  <2> QED BY <2>2, <2>3
<1> QED BY <1>1, <1>2

\* What is there stays there.
Stays(f, i, m) == Len(f[i]) <= Len(f[m]) /\ \A k \in 1..Len(f[i]) : f[m][k] = f[i][k]

\* What a join holds, all later ones hold at the same places.
LEMMA AddsStays ==
  ASSUME NEW S, NEW n, NEW seqs, NEW f, Added(S, n, seqs, f), NEW i \in 1..n
  PROVE  \A m \in i..n : Stays(f, i, m)
<1>0. n \in Nat
  BY DEF Added
<1>1. f[i] \in Seq(S)
  BY AddsTyped
<1> DEFINE Bad == {m \in i..n : ~Stays(f, i, m)}
<1>2. ASSUME Bad # {} PROVE FALSE
  <2>1. PICK m \in Bad : \A l \in Bad : m <= l
    <3>1. Bad \in SUBSET Nat
      BY <1>0
    <3> HIDE DEF Bad
    <3> QED BY <1>2, <3>1, LeastExists
  <2>2. m \in i..n /\ m \in 1..n /\ ~Stays(f, i, m)
    BY <1>0
  <2>3. m # i
    <3>1. Stays(f, i, i)
      BY <1>1 DEF Stays
    <3> QED BY <2>2, <3>1
  <2>4. m - 1 \in i..n /\ m # 1 /\ m - 1 \notin Bad
    BY <1>0, <2>1, <2>2, <2>3
  <2>5. Stays(f, i, m - 1)
    BY <2>4
  <2>6. f[m] = f[m - 1] \o seqs[m] /\ f[m - 1] \in Seq(S) /\ seqs[m] \in Seq(S)
    <3>1. f[m] = f[m - 1] \o seqs[m] /\ seqs[m] \in Seq(S)
      BY <2>2, <2>4 DEF Added, Adds
    <3>2. f[m - 1] \in Seq(S)
      BY <2>2, <2>4, AddsNext
    <3> QED BY <3>1, <3>2
  <2>7. PICK a \in Seq(S), b \in Seq(S) : a = f[m - 1] /\ b = seqs[m]
    BY <2>6
  <2>8. PICK c \in Seq(S) : c = f[i]
    BY <1>1
  <2>9. Len(c) <= Len(a) /\ \A k \in 1..Len(c) : a[k] = c[k]
    BY <2>5, <2>7, <2>8 DEF Stays
  <2>10. Len(c) <= Len(a \o b) /\ \A k \in 1..Len(c) : (a \o b)[k] = c[k]
    BY <2>9
  <2>11. f[m] = a \o b
    BY <2>6, <2>7
  <2>12. Stays(f, i, m)
    BY <2>8, <2>10, <2>11 DEF Stays
  <2> QED BY <2>2, <2>12
<1> QED BY <1>2

\* In the whole, the j-th element of the i-th sequence is j places after its offset.
LEMMA FlattenPlaces ==
  ASSUME NEW S, NEW seqs \in Seq(Seq(S))
  PROVE  /\ FlattenSeq(seqs) \in Seq(S)
         /\ \E off : Offsets(off, seqs) /\ off[Len(seqs) + 1] = Len(FlattenSeq(seqs))
              /\ \A i \in DOMAIN seqs : \A j \in DOMAIN seqs[i] : FlattenSeq(seqs)[off[i] + j] = seqs[i][j]
<1>1. CASE seqs = <<>>
  <2>1. FlattenSeq(seqs) = <<>> /\ Len(seqs) = 0 /\ DOMAIN seqs = {}
    BY <1>1 DEF FlattenSeq
  <2>2. Offsets([i \in 1..1 |-> 0], seqs)
    BY <2>1 DEF Offsets
  <2>3. <<>> \in Seq(S) /\ Len(<<>>) = 0 /\ [i \in 1..1 |-> 0][0 + 1] = 0
    OBVIOUS
  <2> QED BY <2>1, <2>2, <2>3
<1>2. CASE seqs # <<>>
  <2>1. PICK n \in Nat \ {0} : n = Len(seqs)
    BY <1>2
  <2>2. seqs \in [1..n -> Seq(S)]
    BY <2>1
  <2>3. PICK f : Adds(f, seqs, n) /\ FlattenSeq(seqs) = f[n]
    BY <2>1, FlattenAdds
  <2>0. Added(S, n, seqs, f)
    BY <2>2, <2>3 DEF Added
  <2>4. \A m \in 1..n : /\ f[m] \in Seq(S) /\ Before(f, m) \in Nat
                        /\ Len(f[m]) = Before(f, m) + Len(seqs[m])
    BY <2>0, AddsTyped
  <2> DEFINE off == [i \in 1..(n + 1) |-> Before(f, i)]
  <2>5. /\ off \in [1..(n + 1) -> Nat] /\ off[1] = 0 /\ off[n + 1] = Len(f[n])
        /\ \A i \in 1..n : off[i + 1] = Len(f[i]) /\ off[i] = Before(f, i)
    <3>1. \A i \in 1..n : i + 1 \in 1..(n + 1) /\ i \in 1..(n + 1) /\ Before(f, i + 1) = Len(f[i])
      BY DEF Before
    <3>2. Before(f, 1) = 0 /\ \A i \in 1..(n + 1) : Before(f, i) \in Nat
      <4>1. \A i \in 1..(n + 1) : i = 1 \/ i - 1 \in 1..n
        OBVIOUS
      <4> QED BY <4>1, <2>4 DEF Before
    <3>3. n \in 1..n /\ 1 \in 1..(n + 1)
      OBVIOUS
    <3> QED BY <3>1, <3>2, <3>3
  <2> HIDE DEF off
  <2>6. Offsets(off, seqs)
    BY <2>1, <2>4, <2>5 DEF Offsets
  <2>7. ASSUME NEW i \in 1..n PROVE \A j \in DOMAIN seqs[i] : f[n][off[i] + j] = seqs[i][j]
    <3>1. Stays(f, i, n)
      <4>1. n \in i..n
        OBVIOUS
      <4> QED BY <2>0, <4>1, AddsStays
    <3>2. \A j \in 1..Len(seqs[i]) : f[i][Before(f, i) + j] = seqs[i][j]
      BY <2>0, AddsPlaces
    <3>3. Len(f[i]) = Before(f, i) + Len(seqs[i]) /\ Before(f, i) \in Nat
      BY <2>4
    <3>4. DOMAIN seqs[i] = 1..Len(seqs[i]) /\ Len(seqs[i]) \in Nat
      BY <2>2
    <3>5. \A j \in 1..Len(seqs[i]) : Before(f, i) + j \in 1..Len(f[i])
      BY <3>3, <3>4
    <3>6. off[i] = Before(f, i)
      BY <2>5
    <3> QED BY <3>1, <3>2, <3>4, <3>5, <3>6 DEF Stays
  <2>8. f[n] \in Seq(S) /\ off[Len(seqs) + 1] = Len(FlattenSeq(seqs))
    BY <2>1, <2>3, <2>4, <2>5
  <2>9. \A i \in DOMAIN seqs : \A j \in DOMAIN seqs[i] : FlattenSeq(seqs)[off[i] + j] = seqs[i][j]
    BY <2>1, <2>2, <2>3, <2>7
  <2>10. FlattenSeq(seqs) \in Seq(S)
    BY <2>3, <2>8
  <2> QED BY ONLY <2>6, <2>8, <2>9, <2>10
<1> QED BY <1>1, <1>2

\* Every place of the whole is a place of one of them.
LEMMA FlattenCovers ==
  ASSUME NEW seqs, Len(seqs) \in Nat, \A i \in 1..Len(seqs) : Len(seqs[i]) \in Nat, NEW off, Offsets(off, seqs),
         NEW n \in 1..off[Len(seqs) + 1]
  PROVE  \E i \in 1..Len(seqs) : \E j \in 1..Len(seqs[i]) : n = off[i] + j
<1> DEFINE Past == {i \in 1..(Len(seqs) + 1) : n <= off[i]}
<1>0. off[Len(seqs) + 1] \in Nat /\ Len(seqs) + 1 \in 1..(Len(seqs) + 1)
  BY DEF Offsets
<1>1. PICK m \in Past : \A k \in Past : m <= k
  <2>1. Past \in SUBSET Nat /\ Past # {}
    BY <1>0
  <2> HIDE DEF Past
  <2> QED BY <2>1, LeastExists
<1>2. m \in 1..(Len(seqs) + 1) /\ n <= off[m]
  OBVIOUS
<1>3. m # 1
  BY <1>0, <1>2 DEF Offsets
<1>4. m - 1 \in 1..Len(seqs) /\ m - 1 \in 1..(Len(seqs) + 1) /\ m - 1 \notin Past /\ (m - 1) + 1 = m
  BY <1>1, <1>2, <1>3
<1>5. ~(n <= off[m - 1])
  BY <1>4
<1>6. off[m] = off[m - 1] + Len(seqs[m - 1]) /\ off[m - 1] \in Nat /\ Len(seqs[m - 1]) \in Nat
  BY <1>4 DEF Offsets
<1>7. n - off[m - 1] \in 1..Len(seqs[m - 1]) /\ n = off[m - 1] + (n - off[m - 1])
  BY <1>0, <1>2, <1>5, <1>6
<1> QED BY <1>4, <1>7

-----------------------------------------------------------------------------
(* The elements of a sequence at some of its positions.                        *)

\* The place of position i among the positions P.
Rank(P, i) == Cardinality({j \in P : j <= i})

\* Ranks are between 1 and the number of positions,
LEMMA RankIs ==
  ASSUME NEW P, P \subseteq Nat, IsFiniteSet(P), NEW i \in P
  PROVE  Rank(P, i) \in 1..Cardinality(P) /\ Rank(P, i) \in Nat /\ Cardinality(P) \in Nat
<1> DEFINE T == {j \in P : j <= i}
<1>1. T \subseteq P /\ i \in T
  OBVIOUS
<1>2. Cardinality(T) <= Cardinality(P) /\ Cardinality(T) \in Nat /\ Cardinality(P) \in Nat
  BY <1>1, FS_Subset, FS_CardinalityType
<1>3. Cardinality(T) # 0
  BY <1>1, FS_Subset, FS_EmptySet
<1> QED BY <1>2, <1>3 DEF Rank

\* grow with the positions,
LEMMA RanksGrow ==
  ASSUME NEW P, P \subseteq Nat, IsFiniteSet(P), NEW i \in P, NEW j \in P, i < j
  PROVE  Rank(P, i) < Rank(P, j)
<1> DEFINE T == {k \in P : k <= i}
           U == {k \in P : k <= j}
<1>1. \A k \in T : k \in U
  <2> SUFFICES ASSUME NEW k \in T PROVE k \in U
    OBVIOUS
  <2>1. k \in Nat /\ k <= i /\ k \in P
    OBVIOUS
  <2> QED BY <2>1
<1>2. j \in U /\ j \notin T
  OBVIOUS
<1>3. IsFiniteSet(U) /\ T \subseteq U /\ T # U
  <2>1. U \subseteq P
    OBVIOUS
  <2> QED BY <1>1, <1>2, <2>1, FS_Subset
<1>4. Cardinality(T) <= Cardinality(U) /\ Cardinality(T) # Cardinality(U)
      /\ Cardinality(T) \in Nat /\ Cardinality(U) \in Nat
  <2> HIDE DEF T, U
  <2> QED BY <1>3, FS_Subset, FS_CardinalityType
<1> QED BY <1>4 DEF Rank

\* tell them apart,
LEMMA RanksDiffer ==
  ASSUME NEW P, P \subseteq Nat, IsFiniteSet(P), NEW i \in P, NEW j \in P, Rank(P, i) = Rank(P, j)
  PROVE  i = j
<1>1. Rank(P, i) \in Nat /\ Rank(P, j) \in Nat
  BY RankIs
<1>2. i \in Nat /\ j \in Nat
  OBVIOUS
<1>3. ASSUME i < j PROVE FALSE
  <2>1. Rank(P, i) < Rank(P, j)
    BY <1>3, RanksGrow
  <2> QED BY <1>1, <2>1
<1>4. ASSUME j < i PROVE FALSE
  <2>1. Rank(P, j) < Rank(P, i)
    BY <1>4, RanksGrow
  <2> QED BY <1>1, <2>1
<1> QED BY <1>2, <1>3, <1>4

\* and leave no place out.
LEMMA RanksReach ==
  ASSUME NEW P, P \subseteq Nat, IsFiniteSet(P), NEW k \in 1..Cardinality(P)
  PROVE  \E i \in P : Rank(P, i) = k
<1> DEFINE f == [i \in P |-> Rank(P, i)]
           T == 1..Cardinality(P)
<1>1. f \in Injection(P, T)
  <2>1. f \in [P -> T]
    BY RankIs
  <2>2. \A i, j \in P : f[i] = f[j] => i = j
    BY RanksDiffer
  <2> QED BY <2>1, <2>2 DEF Injection, IsInjective
<1>2. IsFiniteSet(T) /\ Cardinality(T) = Cardinality(P)
  BY FS_CardinalityType, FS_Interval
<1>3. f \in Surjection(P, T)
  <2> HIDE DEF f, T
  <2> QED BY <1>1, <1>2, FS_Injection
<1> QED BY <1>3 DEF Surjection

\* e has the elements of s at the positions P.
Takes(e, s, P) ==
  /\ Cardinality(P) \in Nat
  /\ DOMAIN e = 1..Cardinality(P) /\ Len(e) = Cardinality(P)
  /\ \A i \in P : e[Rank(P, i)] = s[i]
  /\ \A k \in 1..Cardinality(P) : \E i \in P : Rank(P, i) = k /\ e[k] = s[i]

\* ElementsAt does, whatever the sequence holds.
LEMMA ElementsAtIs ==
  ASSUME NEW P, P \subseteq Nat, IsFiniteSet(P), NEW s
  PROVE  Takes(ElementsAt(s, P), s, P)
<1>1. ElementsAt(s, P) = [k \in 1..Cardinality(P) |-> s[CHOOSE i \in P : Rank(P, i) = k]]
  BY DEF ElementsAt, Rank
<1>2. Cardinality(P) \in Nat
  BY FS_CardinalityType
<1>3. ASSUME NEW i \in P PROVE ElementsAt(s, P)[Rank(P, i)] = s[i]
  <2>1. (CHOOSE j \in P : Rank(P, j) = Rank(P, i)) = i
    BY RanksDiffer
  <2>2. Rank(P, i) \in 1..Cardinality(P)
    BY RankIs
  <2> QED BY <1>1, <2>1, <2>2
<1>4. DOMAIN ElementsAt(s, P) = 1..Cardinality(P) /\ Len(ElementsAt(s, P)) = Cardinality(P)
  BY <1>1, <1>2
<1>5. ASSUME NEW k \in 1..Cardinality(P) PROVE \E i \in P : Rank(P, i) = k /\ ElementsAt(s, P)[k] = s[i]
  <2>1. PICK i \in P : Rank(P, i) = k
    BY RanksReach
  <2> QED BY <1>3, <2>1
<1> QED BY <1>2, <1>3, <1>4, <1>5 DEF Takes

-----------------------------------------------------------------------------
(* The steps of a load.                                                    *)

\* The steps of a load, and the two kinds of them.
StepSet == [action : {"insert", "update"}, table : Table]

Insert(t) == [action |-> "insert", table |-> t]
Update(t) == [action |-> "update", table |-> t]

\* The tables in the order of the mapping, each once, and what `after` may name.
LEMMA TablesAre ==
  /\ Tables \in Seq(Table) /\ Len(Tables) \in Nat /\ DOMAIN Tables = 1..Len(Tables)
  /\ \A i, j \in DOMAIN Tables : Tables[i] = Tables[j] => i = j
  /\ \A t \in Table : \E i \in DOMAIN Tables : t = Tables[i]
  /\ \A t \in Table : t # "" /\ After[t] \in Table \cup {""}
<1>1. Tables \in Seq(Table) /\ \A i, j \in DOMAIN Tables : Tables[i] = Tables[j] => i = j
  BY LoadAssumption DEF IsInjective
<1>2. Len(Tables) \in Nat /\ DOMAIN Tables = 1..Len(Tables)
  BY <1>1
<1>3. \A t \in Table : \E i \in DOMAIN Tables : t = Tables[i]
  BY DEF Table, ToSet
<1>4. \A t \in Table : t # "" /\ After[t] \in Table \cup {""}
  BY LoadAssumption
<1> QED BY <1>1, <1>2, <1>3, <1>4

\* The steps of a table: its insertion, then the updates deferred to it.
LEMMA StepsOfIs ==
  ASSUME NEW t \in Table
  PROVE  /\ StepsOf(t) \in Seq(StepSet) /\ Len(StepsOf(t)) \in Nat \ {0}
         /\ StepsOf(t)[1] = Insert(t)
         /\ \A j \in 2..Len(StepsOf(t)) :
              \E u \in Table : After[u] = t /\ StepsOf(t)[j] = Update(u)
         /\ \A u \in Table : After[u] = t => \E j \in 2..Len(StepsOf(t)) : StepsOf(t)[j] = Update(u)
<1> DEFINE P == {i \in DOMAIN Tables : After[Tables[i]] = t}
           U == UpdatesAfter(t)
           ups == [i \in DOMAIN U |-> Update(U[i])]
<1>1. P \subseteq Nat /\ IsFiniteSet(P)
  <2>1. DOMAIN Tables = 1..Len(Tables) /\ Len(Tables) \in Nat
    BY TablesAre
  <2>2. IsFiniteSet(1..Len(Tables)) /\ P \subseteq 1..Len(Tables)
    BY <2>1, FS_Interval
  <2> QED BY <2>2, FS_Subset
<1>2. U = ElementsAt(Tables, P)
  BY DEF UpdatesAfter
<1>3. /\ Cardinality(P) \in Nat /\ DOMAIN U = 1..Cardinality(P)
      /\ \A i \in P : U[Rank(P, i)] = Tables[i] /\ Rank(P, i) \in 1..Cardinality(P)
      /\ \A k \in 1..Cardinality(P) : \E i \in P : U[k] = Tables[i]
  <2> HIDE DEF P, U
  <2>0. Takes(U, Tables, P)
    BY <1>1, <1>2, ElementsAtIs
  <2>1. /\ Cardinality(P) \in Nat /\ DOMAIN U = 1..Cardinality(P)
        /\ \A i \in P : U[Rank(P, i)] = Tables[i]
    BY <2>0 DEF Takes
  <2>2. \A k \in 1..Cardinality(P) : \E i \in P : Rank(P, i) = k /\ U[k] = Tables[i]
    BY <2>0, Zenon DEF Takes
  <2>3. \A i \in P : Rank(P, i) \in 1..Cardinality(P)
    BY <1>1, RankIs
  <2> QED BY <2>1, <2>2, <2>3
<1>4. \A i \in P : Tables[i] \in Table /\ After[Tables[i]] = t
  <2>1. \A i \in DOMAIN Tables : Tables[i] \in Table
    BY DEF Table, ToSet
  <2> QED BY <2>1
<1>5. \A u \in Table : After[u] = t => \E i \in P : u = Tables[i]
  BY TablesAre
<1> HIDE DEF P, U
<1>6. ups \in Seq(StepSet) /\ Len(ups) = Cardinality(P) /\ \A k \in 1..Cardinality(P) : ups[k] = Update(U[k])
  <2>1. \A k \in 1..Cardinality(P) : U[k] \in Table
    BY <1>3, <1>4
  <2>2. ups \in [1..Cardinality(P) -> StepSet]
    BY <1>3, <2>1 DEF Update, StepSet
  <2> QED BY <1>3, <2>2
<1>7. StepsOf(t) = <<Insert(t)>> \o ups
  BY DEF StepsOf, Insert, Update, U
<1>8. <<Insert(t)>> \in Seq(StepSet) /\ Len(<<Insert(t)>>) = 1 /\ <<Insert(t)>>[1] = Insert(t)
  BY DEF Insert, StepSet
<1> HIDE DEF ups
<1>9. /\ StepsOf(t) \in Seq(StepSet) /\ Len(StepsOf(t)) = 1 + Cardinality(P)
      /\ StepsOf(t)[1] = Insert(t)
      /\ \A k \in 1..Cardinality(P) : StepsOf(t)[1 + k] = Update(U[k])
  BY <1>3, <1>6, <1>7, <1>8
<1>10. ASSUME NEW j \in 2..Len(StepsOf(t))
       PROVE  \E u \in Table : After[u] = t /\ StepsOf(t)[j] = Update(u)
  <2>1. j - 1 \in 1..Cardinality(P) /\ 1 + (j - 1) = j
    BY <1>3, <1>9
  <2>2. StepsOf(t)[j] = Update(U[j - 1])
    BY <1>9, <2>1
  <2> QED BY <1>3, <1>4, <2>1, <2>2
<1>11. ASSUME NEW u \in Table, After[u] = t
       PROVE  \E j \in 2..Len(StepsOf(t)) : StepsOf(t)[j] = Update(u)
  <2>1. PICK i \in P : u = Tables[i]
    BY <1>5, <1>11
  <2>2. PICK k \in 1..Cardinality(P) : U[k] = u
    BY <1>3, <2>1
  <2>3. 1 + k \in 2..Len(StepsOf(t))
    BY <1>3, <1>9
  <2> QED BY <1>9, <2>2, <2>3
<1> QED BY <1>3, <1>9, <1>10, <1>11

\* Where the steps of the tables are: each table is inserted once, in the order of the
\* mapping, and an update comes after the insertion it is deferred to.
Inserts(p, t) == Steps[p].action = "insert" /\ Steps[p].table = t
Updates(p, t) == Steps[p].action = "update" /\ Steps[p].table = t

Placed(first, at) ==
  /\ \A i \in DOMAIN Tables : first[i] \in DOMAIN Steps /\ Inserts(first[i], Tables[i])
  /\ \A i, j \in DOMAIN Tables : i < j => first[i] < first[j]
  /\ \A p \in DOMAIN Steps : at[p] \in DOMAIN Tables
  /\ \A p \in DOMAIN Steps : \A t \in Table :
       Inserts(p, t) => t = Tables[at[p]] /\ p = first[at[p]]
  /\ \A p \in DOMAIN Steps : \A t \in Table :
       Updates(p, t) => After[t] = Tables[at[p]] /\ first[at[p]] < p
  /\ \A t \in Table : After[t] # "" => \E p \in DOMAIN Steps : Updates(p, t)

\* The load has exactly these places: the steps of each table, one table after the other.
LEMMA StepsArePlaced ==
  Steps \in Seq(StepSet) /\ \E first, at : Placed(first, at)
<1> DEFINE N == Len(Tables)
           parts == [i \in DOMAIN Tables |-> StepsOf(Tables[i])]
<1>1. N \in Nat /\ DOMAIN Tables = 1..N /\ \A i \in 1..N : Tables[i] \in Table
  <2>1. \A i \in DOMAIN Tables : Tables[i] \in Table
    BY DEF Table, ToSet
  <2>2. N \in Nat /\ DOMAIN Tables = 1..N
    BY TablesAre
  <2> QED BY <2>1, <2>2
<1>2. parts \in Seq(Seq(StepSet)) /\ Len(parts) = N /\ DOMAIN parts = 1..N
      /\ \A i \in 1..N : parts[i] = StepsOf(Tables[i])
  <2>1. \A i \in 1..N : StepsOf(Tables[i]) \in Seq(StepSet)
    BY <1>1, StepsOfIs
  <2>2. parts \in [1..N -> Seq(StepSet)]
    BY <1>1, <2>1
  <2> QED BY <1>1, <2>2
<1>3. Steps = FlattenSeq(parts)
  BY DEF Steps
<1> HIDE DEF parts
<1>4. PICK off : /\ Offsets(off, parts) /\ off[N + 1] = Len(Steps)
                 /\ \A i \in 1..N : \A j \in DOMAIN parts[i] : Steps[off[i] + j] = parts[i][j]
  BY <1>2, <1>3, FlattenPlaces
<1>5. Steps \in Seq(StepSet) /\ DOMAIN Steps = 1..Len(Steps) /\ Len(Steps) \in Nat
  <2>1. Steps \in Seq(StepSet)
    BY <1>2, <1>3, FlattenPlaces
  <2> QED BY <2>1
<1>6. /\ \A i \in 1..N : Len(parts[i]) \in Nat \ {0} /\ DOMAIN parts[i] = 1..Len(parts[i])
      /\ \A i \in 1..N : parts[i][1] = Insert(Tables[i])
      /\ \A i \in 1..N : \A j \in 2..Len(parts[i]) :
            \E u \in Table : After[u] = Tables[i] /\ parts[i][j] = Update(u)
      /\ \A i \in 1..N : \A u \in Table : After[u] = Tables[i] =>
            \E j \in 2..Len(parts[i]) : parts[i][j] = Update(u)
  <2> SUFFICES ASSUME NEW i \in 1..N
               PROVE  /\ Len(parts[i]) \in Nat \ {0} /\ DOMAIN parts[i] = 1..Len(parts[i])
                      /\ parts[i][1] = Insert(Tables[i])
                      /\ \A j \in 2..Len(parts[i]) :
                            \E u \in Table : After[u] = Tables[i] /\ parts[i][j] = Update(u)
                      /\ \A u \in Table : After[u] = Tables[i] =>
                            \E j \in 2..Len(parts[i]) : parts[i][j] = Update(u)
    OBVIOUS
  <2>1. Tables[i] \in Table /\ parts[i] = StepsOf(Tables[i])
    BY <1>1, <1>2
  <2>2. DOMAIN StepsOf(Tables[i]) = 1..Len(StepsOf(Tables[i]))
    BY <2>1, StepsOfIs
  <2>3. PICK t \in Table : t = Tables[i]
    BY <2>1
  <2>4. Len(StepsOf(t)) \in Nat \ {0} /\ StepsOf(t)[1] = Insert(t)
    BY StepsOfIs
  <2>5. \A j \in 2..Len(StepsOf(t)) : \E u \in Table : After[u] = t /\ StepsOf(t)[j] = Update(u)
    BY StepsOfIs
  <2>6. \A u \in Table : After[u] = t => \E j \in 2..Len(StepsOf(t)) : StepsOf(t)[j] = Update(u)
    BY StepsOfIs
  <2>7. parts[i] = StepsOf(t)
    BY <2>1, <2>3
  <2> QED BY <2>2, <2>3, <2>4, <2>5, <2>6, <2>7
<1>7. /\ \A i \in 1..(N + 1) : off[i] \in Nat
      /\ \A i \in 1..N : off[i + 1] = off[i] + Len(parts[i])
  BY <1>2, <1>4 DEF Offsets
<1>0. Len(parts) \in Nat /\ \A i \in 1..Len(parts) : Len(parts[i]) \in Nat
  BY <1>1, <1>2, <1>6
<1>8. \A i \in 1..N : \A k \in 1..(N + 1) : i < k => off[i + 1] <= off[k]
  <2>1. \A i \in 1..Len(parts) : \A k \in 1..(Len(parts) + 1) : i < k => off[i + 1] <= off[k]
    BY <1>0, <1>4, OffsetsGrow
  <2> QED BY <1>2, <2>1
<1>9. \A i \in 1..N : \A j \in 1..Len(parts[i]) : off[i] + j \in 1..Len(Steps)
  <2> SUFFICES ASSUME NEW i \in 1..N, NEW j \in 1..Len(parts[i]) PROVE off[i] + j \in 1..Len(Steps)
    OBVIOUS
  <2>1. i \in 1..(N + 1) /\ N + 1 \in 1..(N + 1) /\ i < N + 1
    BY <1>1
  <2>2. off[i + 1] <= off[N + 1] /\ off[i] \in Nat /\ off[i + 1] = off[i] + Len(parts[i])
    BY <1>7, <1>8, <2>1
  <2> QED BY <1>4, <1>5, <1>6, <2>2
<1>10. \A p \in 1..Len(Steps) : \E i \in 1..N : \E j \in 1..Len(parts[i]) : p = off[i] + j
  <2>1. ASSUME NEW p \in 1..off[Len(parts) + 1]
        PROVE  \E i \in 1..Len(parts) : \E j \in 1..Len(parts[i]) : p = off[i] + j
    <3>1. Offsets(off, parts)
      BY <1>4
    <3> QED BY ONLY <1>0, <3>1, FlattenCovers
  <2>2. Len(parts) = N /\ off[N + 1] = Len(Steps)
    BY <1>2, <1>4
  <2> QED BY <2>1, <2>2
<1> DEFINE first == [i \in DOMAIN Tables |-> off[i] + 1]
           part(p) == CHOOSE i \in 1..N : \E j \in 1..Len(parts[i]) : p = off[i] + j
           at == [p \in DOMAIN Steps |-> part(p)]
<1>11. first \in [DOMAIN Tables -> DOMAIN Steps] /\ \A i \in 1..N : first[i] = off[i] + 1
  <2>1. \A i \in 1..N : 1 \in 1..Len(parts[i])
    BY <1>6
  <2> QED BY <1>1, <1>5, <1>9, <2>1
<1>12. /\ at \in [DOMAIN Steps -> DOMAIN Tables]
       /\ \A p \in DOMAIN Steps : \E j \in 1..Len(parts[at[p]]) : p = off[at[p]] + j
  <2>1. ASSUME NEW p \in DOMAIN Steps
        PROVE  part(p) \in 1..N /\ \E j \in 1..Len(parts[part(p)]) : p = off[part(p)] + j
    BY <1>5, <1>10
  <2> HIDE DEF part
  <2> QED BY <1>1, <2>1
<1> HIDE DEF first, at
<1>13. \A i \in DOMAIN Tables : Steps[first[i]] = Insert(Tables[i])
  <2> SUFFICES ASSUME NEW i \in 1..N PROVE Steps[off[i] + 1] = Insert(Tables[i])
    BY <1>1, <1>11
  <2>1. 1 \in DOMAIN parts[i]
    BY <1>6
  <2> QED BY <1>4, <1>6, <2>1
<1>14. \A i, j \in DOMAIN Tables : i < j => first[i] < first[j]
  <2> SUFFICES ASSUME NEW i \in 1..N, NEW j \in 1..N, i < j PROVE off[i] + 1 < off[j] + 1
    BY <1>1, <1>11
  <2>1. off[i + 1] <= off[j] /\ off[i] \in Nat /\ off[j] \in Nat /\ off[i + 1] = off[i] + Len(parts[i])
    BY <1>1, <1>7, <1>8
  <2> QED BY <1>6, <2>1
<1>15. ASSUME NEW p \in DOMAIN Steps
       PROVE  \/ Steps[p] = Insert(Tables[at[p]]) /\ p = first[at[p]]
              \/ \E u \in Table : /\ Steps[p] = Update(u) /\ After[u] = Tables[at[p]]
                                  /\ first[at[p]] < p
  <2>0. PICK i \in 1..N : i = at[p]
    BY <1>1, <1>12
  <2>1. PICK j \in 1..Len(parts[i]) : i = at[p] /\ p = off[i] + j
    BY <1>12, <2>0
  <2>2. Steps[p] = parts[i][j] /\ first[i] = off[i] + 1 /\ off[i] \in Nat /\ j \in Nat
    <3>1. i \in 1..(N + 1) /\ j \in DOMAIN parts[i] /\ j \in Nat
      BY <1>1, <1>6
    <3>2. Steps[off[i] + j] = parts[i][j]
      BY <1>4, <3>1
    <3> QED BY <1>7, <1>11, <2>1, <3>1, <3>2
  <2>3. CASE j = 1
    BY <1>6, <2>1, <2>2, <2>3
  <2>4. CASE j # 1
    <3>1. j \in 2..Len(parts[i])
      BY <1>6, <2>4
    <3>2. first[i] < p
      BY <2>1, <2>2, <3>1
    <3>3. PICK u \in Table : After[u] = Tables[i] /\ parts[i][j] = Update(u)
      BY <1>6, <3>1
    <3>4. i = at[p]
      BY <2>1
    <3> QED BY <2>2, <3>2, <3>3, <3>4
  <2> QED BY <2>3, <2>4
<1>16. ASSUME NEW u \in Table, After[u] # "" PROVE \E p \in DOMAIN Steps : Steps[p] = Update(u)
  <2>1. PICK i \in 1..N : After[u] = Tables[i]
    BY <1>1, <1>16, TablesAre
  <2>2. PICK j \in 2..Len(parts[i]) : parts[i][j] = Update(u)
    BY <1>6, <2>1
  <2>3. j \in 1..Len(parts[i])
    BY <1>6
  <2> QED BY <1>4, <1>5, <1>6, <1>9, <2>2, <2>3
<1>17. \A p \in DOMAIN Steps : at[p] \in DOMAIN Tables
  BY <1>12
<1>18. \A i \in DOMAIN Tables : first[i] \in DOMAIN Steps /\ Inserts(first[i], Tables[i])
  <2>1. \A p, t : Steps[p] = Insert(t) => Inserts(p, t)
    BY DEF Inserts, Insert
  <2> QED BY <1>11, <1>13, <2>1
<1>19. ASSUME NEW p \in DOMAIN Steps, NEW t \in Table, Inserts(p, t)
       PROVE  t = Tables[at[p]] /\ p = first[at[p]]
  <2>1. Steps[p] = Insert(Tables[at[p]]) /\ p = first[at[p]]
    <3>1. ASSUME NEW u \in Table, Steps[p] = Update(u) PROVE FALSE
      BY <1>19, <3>1 DEF Inserts, Update
    <3> QED BY <1>15, <3>1
  <2> QED BY <1>19, <2>1 DEF Inserts, Insert
<1>20. ASSUME NEW p \in DOMAIN Steps, NEW t \in Table, Updates(p, t)
       PROVE  After[t] = Tables[at[p]] /\ first[at[p]] < p
  <2>1. Steps[p] # Insert(Tables[at[p]])
    BY <1>20 DEF Updates, Insert
  <2>2. PICK u \in Table : Steps[p] = Update(u) /\ After[u] = Tables[at[p]] /\ first[at[p]] < p
    BY <1>15, <2>1
  <2> QED BY <1>20, <2>2 DEF Updates, Update
<1>21. \A t \in Table : After[t] # "" => \E p \in DOMAIN Steps : Updates(p, t)
  <2>1. \A p \in DOMAIN Steps : \A t \in Table : Steps[p] = Update(t) => Updates(p, t)
    BY DEF Updates, Update
  <2> QED BY <1>16, <2>1
<1>22. Placed(first, at)
  BY <1>14, <1>17, <1>18, <1>19, <1>20, <1>21 DEF Placed
<1> QED BY <1>5, <1>22

\* The rows of a table.
Rows(t) == ToSet(RowsOf[t])

\* Every row is of one table, once.
LEMMA RowsAre ==
  /\ \A t \in Table : RowsOf[t] \in Seq(Row) /\ IsInjective(RowsOf[t]) /\ Rows(t) \subseteq Row
  /\ \A t, u \in Table : \A r \in Rows(t) : r \in Rows(u) => t = u
  /\ \A r \in Row : \E t \in Table : r \in Rows(t)
  /\ Ref \in [Row -> Row \cup {NoRow}] /\ NoRow \notin Row
<1>1. \A t \in Table : RowsOf[t] \in Seq(Row)
  BY LoadAssumption
<1>2. \A r \in Row : \E t \in Table : r \in Rows(t)
  BY DEF Row, Rows
<1>3. \A t \in Table : Rows(t) \subseteq Row
  BY DEF Row, Rows
<1>4. \A t \in Table : IsInjective(RowsOf[t])
  BY LoadAssumption DEF IsInjective
<1>5. ASSUME NEW t \in Table, NEW u \in Table, NEW r \in Rows(t), r \in Rows(u) PROVE t = u
  <2>1. PICK i \in DOMAIN RowsOf[t] : RowsOf[t][i] = r
    BY DEF Rows, ToSet
  <2>2. PICK j \in DOMAIN RowsOf[u] : RowsOf[u][j] = r
    BY <1>5 DEF Rows, ToSet
  <2> QED BY <2>1, <2>2, LoadAssumption
<1>6. Ref \in [Row -> Row \cup {NoRow}] /\ NoRow \notin Row
  BY LoadAssumption
<1> QED BY <1>1, <1>2, <1>3, <1>4, <1>5, <1>6

\* The steps by their types.
LEMMA StepsAre ==
  /\ Steps \in Seq(StepSet) /\ Len(Steps) \in Nat /\ DOMAIN Steps = 1..Len(Steps)
  /\ \A p \in DOMAIN Steps : Steps[p].table \in Table /\ Steps[p].action \in {"insert", "update"}
<1>1. Steps \in Seq(StepSet)
  BY StepsArePlaced
<1>2. \A p \in DOMAIN Steps : Steps[p] \in StepSet
  BY <1>1
<1> QED BY <1>1, <1>2 DEF StepSet

\* A table is inserted by one step.
LEMMA InsertedOnce ==
  ASSUME NEW p \in DOMAIN Steps, NEW q \in DOMAIN Steps, NEW t \in Table, Inserts(p, t), Inserts(q, t)
  PROVE  p = q
<1>1. PICK first, at : Placed(first, at)
  BY StepsArePlaced
<1>2. t = Tables[at[p]] /\ p = first[at[p]] /\ at[p] \in DOMAIN Tables
  BY <1>1 DEF Placed
<1>3. t = Tables[at[q]] /\ q = first[at[q]] /\ at[q] \in DOMAIN Tables
  BY <1>1 DEF Placed
<1>4. at[p] = at[q]
  BY <1>2, <1>3, TablesAre
<1> QED BY <1>2, <1>3, <1>4

\* Every table is inserted, and updated if its lookups are deferred.
LEMMA StepsOfTable ==
  ASSUME NEW t \in Table
  PROVE  /\ \E p \in DOMAIN Steps : Inserts(p, t)
         /\ After[t] # "" => \E p \in DOMAIN Steps : Updates(p, t)
<1>1. PICK first, at : Placed(first, at)
  BY StepsArePlaced
<1>2. PICK i \in DOMAIN Tables : t = Tables[i]
  BY TablesAre
<1>3. first[i] \in DOMAIN Steps /\ Inserts(first[i], t)
  BY <1>1, <1>2 DEF Placed
<1>4. After[t] # "" => \E p \in DOMAIN Steps : Updates(p, t)
  BY <1>1 DEF Placed
<1> QED BY <1>3, <1>4

\* If lookups are in order, what a lookup refers to is inserted before it is loaded.
LEMMA InsertsInOrder ==
  ASSUME LookupsInOrder, NEW t \in Table, NEW u \in Table, NEW r \in Rows(t), Ref[r] \in Rows(u),
         After[t] = "", NEW p \in DOMAIN Steps, Inserts(p, t), NEW q \in DOMAIN Steps, Inserts(q, u)
  PROVE  q < p
<1>1. PICK first, at : Placed(first, at)
  BY StepsArePlaced
<1>2. t = Tables[at[p]] /\ p = first[at[p]] /\ at[p] \in DOMAIN Tables
  BY <1>1 DEF Placed
<1>3. u = Tables[at[q]] /\ q = first[at[q]] /\ at[q] \in DOMAIN Tables
  BY <1>1 DEF Placed
<1>4. at[q] < at[p]
  BY <1>2, <1>3 DEF LookupsInOrder, Rows
<1>5. \A i, j \in DOMAIN Tables : i < j => first[i] < first[j]
  BY <1>1 DEF Placed
<1> QED BY <1>2, <1>3, <1>4, <1>5

\* A deferred lookup is loaded when both its records have been inserted.
LEMMA UpdatesInOrder ==
  ASSUME LookupsInOrder, NEW t \in Table, NEW u \in Table, NEW r \in Rows(t), Ref[r] \in Rows(u),
         NEW p \in DOMAIN Steps, Updates(p, t),
         NEW q \in DOMAIN Steps, Inserts(q, t) \/ Inserts(q, u)
  PROVE  q < p
<1>1. PICK first, at : Placed(first, at)
  BY StepsArePlaced
<1>2. After[t] = Tables[at[p]] /\ first[at[p]] < p /\ at[p] \in DOMAIN Tables
  BY <1>1 DEF Placed
<1>3. q = first[at[q]] /\ at[q] \in DOMAIN Tables /\ (Tables[at[q]] = t \/ Tables[at[q]] = u)
  BY <1>1 DEF Placed
<1>4. PICK i \in DOMAIN Tables : t = Tables[i]
  BY TablesAre
<1>5. PICK j \in DOMAIN Tables : u = Tables[j]
  BY TablesAre
<1>6. After[t] # ""
  <2>1. Tables[at[p]] \in Table
    BY <1>2 DEF Table, ToSet
  <2> QED BY <1>2, <2>1, TablesAre
<1>7. PICK k \in DOMAIN Tables : Tables[k] = After[t] /\ i <= k /\ j <= k
  BY <1>4, <1>5, <1>6 DEF LookupsInOrder, Rows
<1>8. k = at[p]
  BY <1>2, <1>7, TablesAre
<1>9. at[q] = i \/ at[q] = j
  BY <1>3, <1>4, <1>5, TablesAre
<1>10. at[q] <= at[p] /\ at[q] \in Nat /\ at[p] \in Nat
  <2>1. DOMAIN Tables = 1..Len(Tables) /\ Len(Tables) \in Nat
    BY TablesAre
  <2> QED BY <1>2, <1>3, <1>7, <1>8, <1>9, <2>1
<1>11. first[at[p]] \in Nat /\ p \in Nat /\ q \in Nat
  <2>1. DOMAIN Steps = 1..Len(Steps) /\ Len(Steps) \in Nat
    BY StepsAre
  <2>2. first[at[p]] \in DOMAIN Steps
    BY <1>1, <1>2 DEF Placed
  <2> QED BY <2>1, <2>2
<1>12. CASE at[q] = at[p]
  BY <1>2, <1>3, <1>12
<1>13. CASE at[q] # at[p]
  <2>1. at[q] < at[p]
    BY <1>10, <1>13
  <2>2. first[at[q]] < first[at[p]]
    BY <1>1, <1>2, <1>3, <2>1 DEF Placed
  <2> QED BY <1>2, <1>3, <1>11, <2>2
<1> QED BY <1>12, <1>13

-----------------------------------------------------------------------------
(* The inductive invariant of a load.                                      *)

\* The values of the variables, and where the load is.
Record == [row : Row, alive : BOOLEAN, ref : Nat]
BatchSet == [rows : Seq(Row), state : {"Queued", "Completed", "Failed", "Not Processed"}, results : Seq(Nat)]
Busy == bulkPc \in {"sending", "wait", "results"}
IsInsert == Step.action = "insert"

\* The types, and what is known where the load is.
Chosen ==
  /\ bulkPc \in {"idle", "step", "sending", "wait", "results", "rollback", "done", "failed"}
  /\ dataOption \in [ignore : BOOLEAN, rollback : BOOLEAN] /\ stepAt \in 1..(Len(Steps) + 1)
  /\ dataApi \in {"bulk", "rest"} /\ rolledBack \in BOOLEAN
  /\ jobStatus \in {"none", "Success", "Row failure", "Job failure", "Aborted"}

Filed ==
  /\ unsent \in Seq(Row) /\ batches \in Seq(BatchSet)
  /\ \A i \in DOMAIN batches : Len(batches[i].rows) <= BatchRows /\ batches[i].results \in Seq(0..Len(org))

Recorded ==
  /\ org \in Seq(Record) /\ \A k \in DOMAIN org : org[k].ref \in 0..Len(org)
  /\ idTable \in [Row -> 0..Len(org)] /\ insertTable \subseteq DOMAIN org
  /\ \A u \in upsertTable : u.id \in DOMAIN org /\ u.ref \in 0..Len(org)

Placing ==
  /\ Busy \/ bulkPc = "rollback" => stepAt \in DOMAIN Steps
  /\ bulkPc = "idle" => org = <<>> /\ batches = <<>> /\ stepAt = 1
  /\ bulkPc = "done" => stepAt = Len(Steps) + 1
  /\ bulkPc \in {"wait", "results"} => unsent = <<>>

Typed == Chosen /\ Filed /\ Recorded /\ Placing

\* The results of a batch that is completed are those of its rows, of the others there
\* are none.
Aligned ==
  \A i \in DOMAIN batches :
    IF batches[i].state = "Completed"
    THEN /\ Len(batches[i].results) = Len(batches[i].rows)
         /\ \A j \in DOMAIN batches[i].rows : batches[i].results[j] # 0 =>
              org[batches[i].results[j]].row = batches[i].rows[j]
    ELSE batches[i].results = <<>>

\* Lookups refer to what they mean, and what would be put back does.
Right ==
  /\ LookupsAreRight
  /\ \A u \in upsertTable : u.ref # 0 => org[u.ref].row = Ref[org[u.id].row]

\* What the task knows of the job.
Known ==
  /\ NothingStillRuns
  /\ bulkPc = "results" =>
       /\ jobStatus \in {"Success", "Row failure", "Aborted"}
       /\ jobStatus # "Aborted" => \A i \in DOMAIN batches : batches[i].state = "Completed"

\* What a rollback has to delete is noted, or a result at hand.
IsResult(k) ==
  IsInsert /\ \E i \in DOMAIN batches : \E j \in DOMAIN batches[i].rows :
                batches[i].state = "Completed" /\ batches[i].results[j] = k

Noted ==
  /\ bulkPc = "rollback" => dataOption.rollback
  /\ dataOption.rollback /\ bulkPc = "step" => DOMAIN org \subseteq insertTable
  /\ dataOption.rollback /\ Busy => \A k \in DOMAIN org : k \in insertTable \/ IsResult(k)
  /\ bulkPc = "rollback" /\ jobStatus = "Row failure" => DOMAIN org \subseteq insertTable
  /\ rolledBack => bulkPc = "failed"
  /\ RowErrorsLeaveNothing

\* A row is inserted once: its record is of a step so far, and what is still to be
\* inserted is not there yet, and is to be inserted once.
InsertedBy(r, p) == p \in DOMAIN Steps /\ Steps[p].action = "insert" /\ r \in Rows(Steps[p].table)

Once ==
  /\ \A k, l \in DOMAIN org : org[k].row = org[l].row => k = l
  /\ \A k \in DOMAIN org : \E p \in 1..stepAt :
       InsertedBy(org[k].row, p) /\ (bulkPc = "step" => p # stepAt)
  /\ Busy /\ IsInsert =>
       /\ IsInjective(unsent)
       /\ \A i \in DOMAIN batches : IsInjective(batches[i].rows)
       /\ \A i \in DOMAIN batches : ToSet(batches[i].rows) \cap ToSet(unsent) = {}
       /\ \A i, j \in DOMAIN batches : i # j => ToSet(batches[i].rows) \cap ToSet(batches[j].rows) = {}
       /\ \A k \in DOMAIN org : org[k].row \notin ToSet(unsent)
       /\ \A k \in DOMAIN org : \A i \in DOMAIN batches :
            batches[i].state = "Queued" => org[k].row \notin ToSet(batches[i].rows)

\* The rows of the step are in its batches or still to be sent.
Asked == {r \in Rows(Step.table) : IsInsert \/ LookupId(r) # 0}

Sending ==
  Busy => ToSet(unsent) \cup UNION {ToSet(batches[i].rows) : i \in DOMAIN batches} = Asked

\* If no row may fail, every step so far has done its part.
Linked(r) == Ref[r] # NoRow => idTable[r] # 0 /\ org[idTable[r]].ref # 0

StepIsFilled(p) ==
  \A r \in Rows(Steps[p].table) :
    /\ Steps[p].action = "insert" => idTable[r] # 0
    /\ Steps[p].action = "update" \/ After[Steps[p].table] = "" => Linked(r)

ResultsAreFilled ==
  \A i \in DOMAIN batches : batches[i].state = "Completed" =>
    \A j \in DOMAIN batches[i].rows : batches[i].results[j] # 0 =>
      /\ ~IsInsert => batches[i].results[j] = idTable[batches[i].rows[j]]
      /\ ~IsInsert \/ After[Step.table] = "" =>
           (Ref[batches[i].rows[j]] # NoRow => org[batches[i].results[j]].ref # 0)

Complete ==
  LookupsInOrder /\ ~dataOption.ignore /\ (Busy \/ bulkPc \in {"step", "done"}) =>
    /\ \A p \in DOMAIN Steps : p < stepAt => StepIsFilled(p)
    /\ Busy => ResultsAreFilled

\* The inductive invariant: without Once a row could be inserted twice, without Aligned and
\* Right an id could go to another row, without Noted a rollback could miss a record.
LoadInv == Typed /\ Aligned /\ Right /\ Known /\ Noted /\ Once /\ Sending /\ Complete

-----------------------------------------------------------------------------
(* What the operators of a step return.                                    *)

\* The table of a step and its rows.
LEMMA StepIs ==
  ASSUME stepAt \in DOMAIN Steps
  PROVE  /\ Step.table \in Table /\ Rows(Step.table) \subseteq Row
         /\ RowsOf[Step.table] \in Seq(Row) /\ IsInjective(RowsOf[Step.table])
         /\ Step.action \in {"insert", "update"}
<1>1. Step.table \in Table /\ Step.action \in {"insert", "update"}
  BY StepsAre DEF Step
<1> QED BY <1>1, RowsAre

\* _query_db returns the rows of the table, those without their lookups left out of an update.
LEMMA QueriedIs ==
  ASSUME stepAt \in DOMAIN Steps
  PROVE  QueriedRows \in Seq(Row) /\ ToSet(QueriedRows) = Asked /\ (IsInsert => IsInjective(QueriedRows))
<1> DEFINE t == Step.table
           R == RowsOf[t]
<1>1. R \in Seq(Row) /\ IsInjective(R) /\ Rows(t) = {R[i] : i \in DOMAIN R}
  BY StepIs DEF Rows, ToSet
<1>2. CASE IsInsert
  <2>1. QueriedRows = R
    BY <1>2 DEF QueriedRows, IsInsert
  <2> QED BY <1>1, <1>2, <2>1 DEF Asked, ToSet
<1>3. CASE ~IsInsert
  <2> DEFINE P == {i \in DOMAIN R : LookupId(R[i]) # 0}
  <2>1. QueriedRows = ElementsAt(R, P)
    BY <1>3 DEF QueriedRows, IsInsert
  <2>2. P \subseteq Nat /\ IsFiniteSet(P)
    <3>1. DOMAIN R = 1..Len(R) /\ Len(R) \in Nat
      BY <1>1
    <3>2. IsFiniteSet(1..Len(R)) /\ P \subseteq 1..Len(R)
      BY <3>1, FS_Interval
    <3> QED BY <3>2, FS_Subset
  <2>3. Asked = {R[i] : i \in P}
    BY <1>1, <1>3 DEF Asked
  <2>4. \A i \in P : R[i] \in Row
    BY <1>1
  <2> HIDE DEF P, R
  <2>5. Takes(QueriedRows, R, P)
    BY <2>1, <2>2, ElementsAtIs
  <2>6. \A k \in 1..Cardinality(P) : \E i \in P : QueriedRows[k] = R[i]
    BY <2>5 DEF Takes
  <2>7. \A i \in P : \E k \in 1..Cardinality(P) : QueriedRows[k] = R[i]
    <3>1. \A i \in P : Rank(P, i) \in 1..Cardinality(P)
      BY <2>2, RankIs
    <3> QED BY <2>5, <3>1 DEF Takes
  <2>8. QueriedRows = [k \in 1..Cardinality(P) |-> QueriedRows[k]] /\ Cardinality(P) \in Nat
        /\ DOMAIN QueriedRows = 1..Cardinality(P)
    BY <2>1, <2>5 DEF Takes, ElementsAt
  <2>9. QueriedRows \in [1..Cardinality(P) -> Row]
    BY <2>4, <2>6, <2>8
  <2>10. QueriedRows \in Seq(Row)
    BY <2>8, <2>9
  <2>11. ToSet(QueriedRows) = Asked
    BY <2>3, <2>6, <2>7, <2>8 DEF ToSet
  <2> QED BY <1>3, <2>10, <2>11
<1> QED BY <1>2, <1>3

\* Facts of sequences: a join,
LEMMA ConcatIs ==
  ASSUME NEW S, NEW a \in Seq(S), NEW b \in Seq(S)
  PROVE  /\ a \o b \in Seq(S) /\ Len(a \o b) = Len(a) + Len(b) /\ DOMAIN (a \o b) = 1..(Len(a) + Len(b))
         /\ \A k \in 1..Len(a) : (a \o b)[k] = a[k]
         /\ \A k \in 1..Len(b) : (a \o b)[Len(a) + k] = b[k]
OBVIOUS

\* a function on 1..n,
LEMMA SeqIs ==
  ASSUME NEW S, NEW n \in Nat, NEW f \in [1..n -> S]
  PROVE  f \in Seq(S) /\ Len(f) = n
OBVIOUS

\* what is left after the first n,
LEMMA TailIs ==
  ASSUME NEW S, NEW s \in Seq(S), NEW n \in Nat, n <= Len(s)
  PROVE  /\ SubSeq(s, n + 1, Len(s)) \in Seq(S) /\ Len(SubSeq(s, n + 1, Len(s))) = Len(s) - n
         /\ \A k \in 1..(Len(s) - n) : SubSeq(s, n + 1, Len(s))[k] = s[n + k]
<1>1. SubSeq(s, n + 1, Len(s)) \in Seq(S)
  <2>1. \A k \in (n + 1)..Len(s) : s[k] \in S
    OBVIOUS
  <2> QED BY <2>1
<1>2. Len(SubSeq(s, n + 1, Len(s))) = Len(s) - n
  OBVIOUS
<1>3. ASSUME NEW k \in 1..(Len(s) - n) PROVE SubSeq(s, n + 1, Len(s))[k] = s[n + k]
  <2>1. SubSeq(s, n + 1, Len(s))[k] = s[(n + 1) + k - 1] /\ (n + 1) + k - 1 = n + k
    OBVIOUS
  <2> QED BY <2>1
<1> QED BY <1>1, <1>2, <1>3

\* and the division of what is unsent into the next batch and the rest.
LEMMA NextIs ==
  ASSUME unsent \in Seq(Row), unsent # <<>>
  PROVE  /\ NextRows \in Seq(Row) /\ Len(NextRows) <= BatchRows /\ Rest \in Seq(Row)
         /\ ToSet(unsent) = ToSet(NextRows) \cup ToSet(Rest)
         /\ IsInjective(unsent) =>
              IsInjective(NextRows) /\ IsInjective(Rest) /\ ToSet(NextRows) \cap ToSet(Rest) = {}
<1> DEFINE n == IF Len(unsent) < BatchRows THEN Len(unsent) ELSE BatchRows
           m == Len(unsent)
<1>1. BatchRows \in Nat \ {0} /\ m \in Nat /\ n \in Nat /\ n <= m /\ n <= BatchRows /\ DOMAIN unsent = 1..m
  <2>1. BatchRows \in Nat \ {0}
    BY LoadAssumption
  <2> QED BY <2>1
<1>2. /\ NextRows \in Seq(Row) /\ DOMAIN NextRows = 1..n /\ Len(NextRows) = n
      /\ \A k \in 1..n : NextRows[k] = unsent[k]
  BY <1>1 DEF NextRows
<1>3. /\ Rest \in Seq(Row) /\ DOMAIN Rest = 1..(m - n)
      /\ \A k \in 1..(m - n) : Rest[k] = unsent[n + k]
  <2>1. Rest = SubSeq(unsent, n + 1, m)
    BY <1>2 DEF Rest
  <2> HIDE DEF n
  <2>2. /\ SubSeq(unsent, n + 1, m) \in Seq(Row) /\ Len(SubSeq(unsent, n + 1, m)) = m - n
        /\ \A k \in 1..(m - n) : SubSeq(unsent, n + 1, m)[k] = unsent[n + k]
    BY <1>1, TailIs
  <2> QED BY <2>1, <2>2
<1> HIDE DEF n, m
<1>4. ToSet(unsent) = ToSet(NextRows) \cup ToSet(Rest)
  <2>1. \A k \in 1..m : k \in 1..n \/ (k - n \in 1..(m - n) /\ n + (k - n) = k)
    BY <1>1
  <2>2. \A k \in 1..(m - n) : n + k \in 1..m
    BY <1>1
  <2>3. \A k \in 1..n : k \in 1..m
    BY <1>1
  <2>4. ASSUME NEW r \in ToSet(unsent) PROVE r \in ToSet(NextRows) \cup ToSet(Rest)
    <3>1. PICK k \in 1..m : unsent[k] = r
      BY <1>1 DEF ToSet
    <3>2. CASE k \in 1..n
      BY <1>2, <3>1, <3>2 DEF ToSet
    <3>3. CASE k \notin 1..n
      <4>1. k - n \in 1..(m - n) /\ Rest[k - n] = r
        BY <1>3, <2>1, <3>1, <3>3
      <4> QED BY <1>3, <4>1 DEF ToSet
    <3> QED BY <3>2, <3>3
  <2>5. ASSUME NEW r \in ToSet(NextRows) PROVE r \in ToSet(unsent)
    BY <1>1, <1>2, <2>3 DEF ToSet
  <2>6. ASSUME NEW r \in ToSet(Rest) PROVE r \in ToSet(unsent)
    BY <1>1, <1>3, <2>2 DEF ToSet
  <2> QED BY <2>4, <2>5, <2>6
<1>5. ASSUME IsInjective(unsent)
      PROVE  IsInjective(NextRows) /\ IsInjective(Rest) /\ ToSet(NextRows) \cap ToSet(Rest) = {}
  <2>1. \A k, l \in 1..m : unsent[k] = unsent[l] => k = l
    BY <1>1, <1>5 DEF IsInjective
  <2>2. IsInjective(NextRows)
    <3>1. \A k \in 1..n : k \in 1..m
      BY <1>1
    <3> QED BY <1>2, <2>1, <3>1 DEF IsInjective
  <2>3. IsInjective(Rest)
    <3> SUFFICES ASSUME NEW k \in 1..(m - n), NEW l \in 1..(m - n), Rest[k] = Rest[l] PROVE k = l
      BY <1>3 DEF IsInjective
    <3>1. n + k \in 1..m /\ n + l \in 1..m /\ unsent[n + k] = unsent[n + l]
      BY <1>1, <1>3
    <3>2. n + k = n + l
      BY <2>1, <3>1
    <3> QED BY <1>1, <3>2
  <2>4. ASSUME NEW r \in ToSet(NextRows), r \in ToSet(Rest) PROVE FALSE
    <3>1. PICK k \in 1..n : NextRows[k] = r
      BY <1>2 DEF ToSet
    <3>2. PICK l \in 1..(m - n) : Rest[l] = r
      BY <1>3, <2>4 DEF ToSet
    <3>3. k \in 1..m /\ n + l \in 1..m /\ unsent[k] = unsent[n + l]
      BY <1>1, <1>2, <1>3, <3>1, <3>2
    <3>4. k = n + l
      BY <2>1, <3>3
    <3> QED BY <1>1, <3>4
  <2> QED BY <2>2, <2>3, <2>4
<1> QED BY <1>1, <1>2, <1>3, <1>4, <1>5

\* What the results of a call or a batch are, and what it leaves in the org.
Sound ==
  /\ stepAt \in DOMAIN Steps /\ org \in Seq(Record) /\ \A k \in DOMAIN org : org[k].ref \in 0..Len(org)
  /\ idTable \in [Row -> 0..Len(org)] /\ LookupsAreRight

\* The results are ids of records of the rows; records are added, not moved.
Effect(rows, o, res) ==
  /\ o \in Seq(Record) /\ Len(org) <= Len(o) /\ \A k \in DOMAIN o : o[k].ref \in 0..Len(org)
  /\ res \in Seq(0..Len(o)) /\ Len(res) = Len(rows)
  /\ \A k \in DOMAIN org : o[k].row = org[k].row /\ (IsInsert => o[k] = org[k])
  /\ \A k \in DOMAIN o : o[k].ref # 0 => org[o[k].ref].row = Ref[o[k].row]
  /\ \A j \in DOMAIN rows : res[j] # 0 => o[res[j]].row = rows[j]
  /\ \A k \in DOMAIN o : k \in DOMAIN org \/ (IsInsert /\ \E j \in DOMAIN rows : res[j] = k)

\* What it does to the lookups that are to be loaded.
Loads(rows, o, res) ==
  /\ ~IsInsert => \A j \in DOMAIN rows : res[j] # 0 => res[j] = idTable[rows[j]]
  /\ \A j \in DOMAIN rows : res[j] # 0 /\ (IsInsert => After[Step.table] = "") =>
       o[res[j]].ref = LookupId(rows[j])
  /\ (~IsInsert => \A j \in DOMAIN rows : LookupId(rows[j]) # 0) =>
       \A k \in DOMAIN org : org[k].ref # 0 => o[k].ref # 0

\* A lookup that is found is the id of a record of the row meant.
LEMMA LookupIs ==
  ASSUME Sound, NEW r \in Row
  PROVE  /\ LookupId(r) \in 0..Len(org)
         /\ LookupId(r) # 0 => org[LookupId(r)].row = Ref[r]
<1>1. Len(org) \in Nat /\ Ref[r] \in Row \cup {NoRow}
  BY RowsAre DEF Sound
<1>2. CASE Ref[r] = NoRow
  BY <1>1, <1>2 DEF LookupId
<1>3. CASE Ref[r] # NoRow
  <2>1. Ref[r] \in Row /\ LookupId(r) = idTable[Ref[r]]
    BY <1>1, <1>3 DEF LookupId
  <2> QED BY <2>1 DEF Sound, LookupsAreRight
<1> QED BY <1>2, <1>3

\* A batch that inserts has that effect,
LEMMA InsertedIs ==
  ASSUME Sound, NEW rows \in Seq(Row), NEW s \in [DOMAIN rows -> BOOLEAN], IsInsert
  PROVE  Effect(rows, Applied(rows, s), Results(rows, s)) /\ Loads(rows, Applied(rows, s), Results(rows, s))
<1> DEFINE P == {i \in DOMAIN rows : s[i]}
           c == Cardinality(P)
           n == Len(org)
           new == ElementsAt(rows, P)
           ref(r) == IF After[Step.table] = "" THEN LookupId(r) ELSE 0
           made == [i \in DOMAIN new |-> [row |-> new[i], alive |-> TRUE, ref |-> ref(new[i])]]
           o == Applied(rows, s)
           res == Results(rows, s)
<1>1. DOMAIN rows = 1..Len(rows) /\ Len(rows) \in Nat /\ \A i \in DOMAIN rows : rows[i] \in Row
  OBVIOUS
<1>2. P \subseteq Nat /\ IsFiniteSet(P) /\ P \subseteq DOMAIN rows
  <2>1. IsFiniteSet(1..Len(rows)) /\ P \subseteq 1..Len(rows)
    BY <1>1, FS_Interval
  <2> QED BY <1>1, <2>1, FS_Subset
<1>3. \A i \in P : s[i]
  OBVIOUS
<1>4. \A i \in DOMAIN rows : s[i] => i \in P
  OBVIOUS
<1>5. \A i \in P : Made(s, i) = Rank(P, i)
  <2> SUFFICES ASSUME NEW i \in P PROVE Made(s, i) = Rank(P, i)
    OBVIOUS
  <2>1. \A j \in 1..i : j \in DOMAIN rows /\ j <= i
    BY <1>1, <1>2
  <2>2. \A j \in DOMAIN rows : j <= i => j \in 1..i
    BY <1>1, <1>2
  <2>3. {j \in 1..i : s[j]} = {j \in P : j <= i}
    BY <2>1, <2>2
  <2> QED BY <2>3 DEF Made, Rank
<1> HIDE DEF P
<1>6. Takes(new, rows, P)
  BY <1>2, ElementsAtIs
<1>7. c \in Nat /\ DOMAIN new = 1..c /\ \A k \in 1..c : \E i \in P : Rank(P, i) = k /\ new[k] = rows[i]
  BY <1>6 DEF Takes
<1>8. \A i \in P : Rank(P, i) \in 1..c /\ new[Rank(P, i)] = rows[i]
  <2>1. \A i \in P : Rank(P, i) \in 1..c
    BY <1>2, RankIs
  <2> QED BY <1>6, <2>1 DEF Takes
<1>9. \A k \in 1..c : new[k] \in Row
  BY <1>1, <1>2, <1>7
<1>10. n \in Nat /\ org \in Seq(Record) /\ DOMAIN org = 1..n
  BY DEF Sound
<1>11. \A r \in Row : ref(r) \in 0..n /\ (ref(r) # 0 => org[ref(r)].row = Ref[r])
  <2> SUFFICES ASSUME NEW r \in Row PROVE ref(r) \in 0..n /\ (ref(r) # 0 => org[ref(r)].row = Ref[r])
    OBVIOUS
  <2>1. LookupId(r) \in 0..n /\ (LookupId(r) # 0 => org[LookupId(r)].row = Ref[r])
    BY LookupIs
  <2>2. ref(r) = LookupId(r) \/ ref(r) = 0
    OBVIOUS
  <2> HIDE DEF ref
  <2> QED BY <1>10, <2>1, <2>2
<1>12. o = org \o made
  BY DEF Applied, IsInsert, P
<1> HIDE DEF ref, new
<1>13. made \in Seq(Record) /\ Len(made) = c
       /\ \A k \in 1..c : made[k].row = new[k] /\ made[k].ref = ref(new[k])
  <2>1. \A k \in 1..c : ref(new[k]) \in Nat
    BY <1>9, <1>10, <1>11
  <2>2. made \in [1..c -> Record]
    BY <1>7, <1>9, <2>1 DEF Record
  <2>3. made \in Seq(Record) /\ Len(made) = c
    BY <1>7, <2>2
  <2>4. \A k \in 1..c : made[k].row = new[k] /\ made[k].ref = ref(new[k])
    BY <1>7
  <2> QED BY <2>3, <2>4
<1> HIDE DEF o, made, c
<1>14. /\ o \in Seq(Record) /\ Len(o) = n + c /\ DOMAIN o = 1..(n + c)
       /\ \A k \in 1..n : o[k] = org[k]
       /\ \A k \in 1..c : o[n + k] = made[k]
  <2>1. /\ org \o made \in Seq(Record) /\ Len(org \o made) = Len(org) + Len(made)
        /\ DOMAIN (org \o made) = 1..(Len(org) + Len(made))
    BY <1>10, <1>13, ConcatIs
  <2>2. \A k \in 1..Len(org) : (org \o made)[k] = org[k]
    BY <1>10, <1>13, ConcatIs
  <2>3. \A k \in 1..Len(made) : (org \o made)[Len(org) + k] = made[k]
    BY <1>10, <1>13, ConcatIs
  <2> QED BY <1>12, <1>13, <2>1, <2>2, <2>3 DEF n
<1>15. /\ DOMAIN res = DOMAIN rows
       /\ \A i \in DOMAIN rows : IF s[i] THEN res[i] = n + Rank(P, i) ELSE res[i] = 0
  BY <1>4, <1>5 DEF Results, IsInsert
<1> HIDE DEF res, n
<1>16. \A j \in DOMAIN rows : res[j] # 0 => j \in P /\ res[j] = n + Rank(P, j) /\ Rank(P, j) \in 1..c
  BY <1>4, <1>8, <1>15
<1>17. res \in Seq(0..Len(o)) /\ Len(res) = Len(rows)
  <2>1. \A j \in DOMAIN rows : res[j] \in 0..(n + c)
    BY <1>4, <1>7, <1>8, <1>10, <1>15
  <2>2. res = [i \in DOMAIN rows |-> res[i]]
    BY DEF res, Results
  <2>3. res \in [1..Len(rows) -> 0..(n + c)]
    BY <1>1, <2>1, <2>2
  <2> QED BY <1>1, <1>14, <2>3
<1>18. \A j \in DOMAIN rows : res[j] # 0 => o[res[j]].row = rows[j] /\ o[res[j]].ref = ref(rows[j])
  <2> SUFFICES ASSUME NEW j \in DOMAIN rows, res[j] # 0
               PROVE  o[res[j]].row = rows[j] /\ o[res[j]].ref = ref(rows[j])
    OBVIOUS
  <2>1. j \in P /\ res[j] = n + Rank(P, j) /\ Rank(P, j) \in 1..c
    BY <1>16
  <2>2. o[res[j]] = made[Rank(P, j)] /\ new[Rank(P, j)] = rows[j]
    BY <1>8, <1>14, <2>1
  <2> QED BY <1>13, <2>1, <2>2
<1>19. \A k \in DOMAIN o : k \in 1..n \/ \E i \in 1..c : k = n + i
  <2> SUFFICES ASSUME NEW k \in 1..(n + c), k \notin 1..n PROVE \E i \in 1..c : k = n + i
    BY <1>14
  <2>1. k - n \in 1..c /\ k = n + (k - n)
    BY <1>7, <1>10
  <2> QED BY <2>1
<1>20. \A k \in DOMAIN o : k \in DOMAIN org \/ \E j \in DOMAIN rows : res[j] = k
  <2> SUFFICES ASSUME NEW i \in 1..c PROVE \E j \in DOMAIN rows : res[j] = n + i
    BY <1>10, <1>19
  <2>1. PICK j \in P : Rank(P, j) = i
    BY <1>7
  <2> QED BY <1>2, <1>3, <1>15, <2>1
<1>21. \A k \in DOMAIN o : o[k].ref \in 0..n /\ (o[k].ref # 0 => org[o[k].ref].row = Ref[o[k].row])
  <2>1. \A k \in 1..n : o[k].ref \in 0..n /\ (o[k].ref # 0 => org[o[k].ref].row = Ref[o[k].row])
    BY <1>10, <1>14 DEF Sound, LookupsAreRight, n
  <2>2. \A k \in 1..c : o[n + k].ref \in 0..n /\ (o[n + k].ref # 0 => org[o[n + k].ref].row = Ref[o[n + k].row])
    <3> SUFFICES ASSUME NEW k \in 1..c
                 PROVE  o[n + k].ref \in 0..n /\ (o[n + k].ref # 0 => org[o[n + k].ref].row = Ref[o[n + k].row])
      OBVIOUS
    <3>1. o[n + k].row = new[k] /\ o[n + k].ref = ref(new[k]) /\ new[k] \in Row
      BY <1>9, <1>13, <1>14
    <3> QED BY <1>11, <3>1
  <2> QED BY <1>19, <2>1, <2>2
<1>22. Effect(rows, o, res)
  <2>1. Len(org) <= Len(o) /\ n = Len(org)
    BY <1>7, <1>10, <1>14 DEF n
  <2>2. \A k \in DOMAIN org : o[k] = org[k]
    BY <1>10, <1>14
  <2>3. \A k \in DOMAIN o : k \in DOMAIN org \/ (IsInsert /\ \E j \in DOMAIN rows : res[j] = k)
    BY <1>20
  <2> QED BY <1>14, <1>17, <1>18, <1>21, <2>1, <2>2, <2>3 DEF Effect
<1>23. Loads(rows, o, res)
  <2>1. \A k \in DOMAIN org : o[k] = org[k]
    BY <1>10, <1>14
  <2>2. \A j \in DOMAIN rows : res[j] # 0 /\ After[Step.table] = "" => o[res[j]].ref = LookupId(rows[j])
    BY <1>18 DEF ref
  <2> QED BY <2>1, <2>2 DEF Loads
<1> QED BY <1>22, <1>23 DEF o, res

\* and one that updates,
LEMMA UpdatedIs ==
  ASSUME Sound, NEW rows \in Seq(Row), NEW s \in Success(rows), ~IsInsert
  PROVE  Effect(rows, Applied(rows, s), Results(rows, s)) /\ Loads(rows, Applied(rows, s), Results(rows, s))
<1> DEFINE o == Applied(rows, s)
           res == Results(rows, s)
           n == Len(org)
           touched(k) == \E i \in DOMAIN rows : s[i] /\ idTable[rows[i]] = k
<1>1. DOMAIN rows = 1..Len(rows) /\ Len(rows) \in Nat /\ \A i \in DOMAIN rows : rows[i] \in Row
  OBVIOUS
<1>2. n \in Nat /\ org \in Seq(Record) /\ DOMAIN org = 1..n /\ \A k \in 1..n : org[k] \in Record
  BY DEF Sound
<1>3. o = [k \in 1..n |-> IF touched(k) THEN [org[k] EXCEPT !.ref = LookupId(org[k].row)] ELSE org[k]]
  BY <1>2 DEF Applied, IsInsert
<1> HIDE DEF o, n, touched
<1>4. \A k \in 1..n : /\ org[k].row \in Row /\ LookupId(org[k].row) \in 0..n
                      /\ LookupId(org[k].row) # 0 => org[LookupId(org[k].row)].row = Ref[org[k].row]
  <2>1. \A k \in 1..n : org[k].row \in Row
    BY <1>2 DEF Record
  <2> QED BY <2>1, LookupIs DEF n
<1>5. \A k \in 1..n : /\ o[k] \in Record /\ o[k].row = org[k].row
                      /\ o[k].ref = IF touched(k) THEN LookupId(org[k].row) ELSE org[k].ref
  <2> SUFFICES ASSUME NEW k \in 1..n
               PROVE  /\ o[k] \in Record /\ o[k].row = org[k].row
                      /\ o[k].ref = IF touched(k) THEN LookupId(org[k].row) ELSE org[k].ref
    OBVIOUS
  <2>1. org[k] \in Record /\ LookupId(org[k].row) \in Nat
    BY <1>2, <1>4
  <2>2. CASE touched(k)
    <3>1. o[k] = [org[k] EXCEPT !.ref = LookupId(org[k].row)]
      BY <1>3, <2>2
    <3> QED BY <2>1, <2>2, <3>1 DEF Record
  <2>3. CASE ~touched(k)
    BY <1>3, <2>1, <2>3
  <2> QED BY <2>2, <2>3
<1>6. o \in Seq(Record) /\ Len(o) = n /\ DOMAIN o = 1..n
  <2>1. o \in [1..n -> Record]
    BY <1>3, <1>5
  <2> QED BY <1>2, <2>1
<1>7. \A k \in 1..n : o[k].ref \in 0..n /\ (o[k].ref # 0 => org[o[k].ref].row = Ref[o[k].row])
  <2>1. \A k \in 1..n : org[k].ref \in 0..n /\ (org[k].ref # 0 => org[org[k].ref].row = Ref[org[k].row])
    BY <1>2 DEF Sound, LookupsAreRight, n
  <2> QED BY <1>4, <1>5, <2>1
<1>8. /\ DOMAIN res = DOMAIN rows
      /\ \A i \in DOMAIN rows : IF s[i] THEN res[i] = idTable[rows[i]] ELSE res[i] = 0
  BY DEF Results, IsInsert
<1>9. \A i \in DOMAIN rows : s[i] => idTable[rows[i]] # 0
  BY DEF Success, IsInsert
<1>10. \A r \in Row : idTable[r] \in 0..n /\ (idTable[r] # 0 => org[idTable[r]].row = r)
  BY DEF Sound, LookupsAreRight, n
<1>11. res \in Seq(0..n) /\ Len(res) = Len(rows)
  <2>1. \A j \in DOMAIN rows : res[j] \in 0..n
    BY <1>1, <1>2, <1>8, <1>10
  <2>2. res = [i \in DOMAIN rows |-> res[i]]
    BY DEF Results
  <2> HIDE DEF res
  <2>3. res \in [1..Len(rows) -> 0..n]
    BY <1>1, <2>1, <2>2
  <2>4. Len(res) = Len(rows)
    BY <1>1, <1>8
  <2> QED BY <1>1, <2>3, <2>4, SeqIs
<1> HIDE DEF res
<1>12. \A j \in DOMAIN rows : res[j] # 0 =>
         /\ res[j] = idTable[rows[j]] /\ res[j] \in 1..n /\ o[res[j]].row = rows[j]
         /\ o[res[j]].ref = LookupId(rows[j])
  <2> SUFFICES ASSUME NEW j \in DOMAIN rows, res[j] # 0
               PROVE  /\ res[j] = idTable[rows[j]] /\ res[j] \in 1..n /\ o[res[j]].row = rows[j]
                      /\ o[res[j]].ref = LookupId(rows[j])
    OBVIOUS
  <2>1. s[j] /\ res[j] = idTable[rows[j]] /\ rows[j] \in Row
    BY <1>1, <1>8
  <2>2. res[j] \in 1..n /\ org[res[j]].row = rows[j]
    BY <1>2, <1>10, <2>1
  <2>3. touched(res[j])
    BY <2>1 DEF touched
  <2> QED BY <1>5, <2>1, <2>2, <2>3
<1>13. Effect(rows, o, res)
  <2>1. n = Len(org) /\ Len(org) <= Len(o) /\ DOMAIN org = DOMAIN o
    BY <1>2, <1>6 DEF n
  <2>2. \A k \in DOMAIN org : o[k].row = org[k].row
    BY <1>2, <1>5
  <2>3. res \in Seq(0..Len(o)) /\ Len(res) = Len(rows)
    BY <1>6, <1>11
  <2>4. \A j \in DOMAIN rows : res[j] # 0 => o[res[j]].row = rows[j]
    BY <1>12
  <2>5. \A k \in DOMAIN o : o[k].ref \in 0..Len(org) /\ (o[k].ref # 0 => org[o[k].ref].row = Ref[o[k].row])
    BY <1>6, <1>7, <2>1
  <2> QED BY <1>6, <2>1, <2>2, <2>3, <2>4, <2>5 DEF Effect
<1>14. Loads(rows, o, res)
  <2>1. ASSUME \A j \in DOMAIN rows : LookupId(rows[j]) # 0, NEW k \in DOMAIN org, org[k].ref # 0
        PROVE  o[k].ref # 0
    <3>1. k \in 1..n
      BY <1>2
    <3>2. CASE touched(k)
      <4>1. PICK i \in DOMAIN rows : s[i] /\ idTable[rows[i]] = k
        BY <3>2 DEF touched
      <4>2. org[k].row = rows[i]
        BY <1>1, <1>9, <1>10, <4>1
      <4> QED BY <1>5, <2>1, <3>1, <3>2, <4>2
    <3>3. CASE ~touched(k)
      BY <1>5, <2>1, <3>1, <3>3
    <3> QED BY <3>2, <3>3
  <2> QED BY <1>12, <2>1 DEF Loads
<1> QED BY <1>13, <1>14 DEF o, res

\* so that either has.
LEMMA AppliedIs ==
  ASSUME Sound, NEW rows \in Seq(Row), NEW s \in Success(rows)
  PROVE  Effect(rows, Applied(rows, s), Results(rows, s)) /\ Loads(rows, Applied(rows, s), Results(rows, s))
<1>1. s \in [DOMAIN rows -> BOOLEAN]
  BY DEF Success
<1> QED BY <1>1, InsertedIs, UpdatedIs

\* The result of each row of the job is the one of its batch.
LEMMA JobIs ==
  ASSUME batches \in Seq(BatchSet),
         \A i \in DOMAIN batches : Len(batches[i].results) = Len(batches[i].rows)
  PROVE  /\ \A n \in DOMAIN LocalIds : \E i \in DOMAIN batches : \E j \in DOMAIN batches[i].rows :
              LocalIds[n] = batches[i].rows[j] /\ ResultOf(n) = batches[i].results[j]
         /\ \A i \in DOMAIN batches : \A j \in DOMAIN batches[i].rows : \E n \in DOMAIN LocalIds :
              LocalIds[n] = batches[i].rows[j] /\ ResultOf(n) = batches[i].results[j]
<1> DEFINE rs == [i \in DOMAIN batches |-> batches[i].rows]
           ss == [i \in DOMAIN batches |-> batches[i].results]
           m == Len(batches)
<1>1. m \in Nat /\ DOMAIN batches = 1..m /\ \A i \in 1..m : batches[i] \in BatchSet
  OBVIOUS
<1>2. \A i \in 1..m : /\ batches[i].rows \in Seq(Row) /\ batches[i].results \in Seq(Nat)
                      /\ Len(batches[i].rows) \in Nat /\ DOMAIN batches[i].rows = 1..Len(batches[i].rows)
                      /\ DOMAIN batches[i].results = DOMAIN batches[i].rows
  <2> SUFFICES ASSUME NEW i \in 1..m
               PROVE  /\ batches[i].rows \in Seq(Row) /\ batches[i].results \in Seq(Nat)
                      /\ Len(batches[i].rows) \in Nat /\ DOMAIN batches[i].rows = 1..Len(batches[i].rows)
                      /\ DOMAIN batches[i].results = DOMAIN batches[i].rows
    OBVIOUS
  <2>1. batches[i].rows \in Seq(Row) /\ batches[i].results \in Seq(Nat)
    BY <1>1 DEF BatchSet
  <2>2. Len(batches[i].results) = Len(batches[i].rows)
    BY <1>1
  <2> QED BY <2>1, <2>2
<1>3. rs \in Seq(Seq(Row)) /\ Len(rs) = m
  <2>1. rs \in [1..m -> Seq(Row)]
    BY <1>1, <1>2
  <2> QED BY <1>1, <2>1, SeqIs
<1>4. ss \in Seq(Seq(Nat)) /\ Len(ss) = m
  <2>1. ss \in [1..m -> Seq(Nat)]
    BY <1>1, <1>2
  <2> QED BY <1>1, <2>1, SeqIs
<1>5. LocalIds = FlattenSeq(rs) /\ AllResults = FlattenSeq(ss)
  BY DEF LocalIds, AllResults
<1>6. \A i \in 1..m : rs[i] = batches[i].rows /\ ss[i] = batches[i].results
  BY <1>1
<1> HIDE DEF rs, ss, m
<1>0. PICK off : /\ Offsets(off, rs) /\ off[Len(rs) + 1] = Len(FlattenSeq(rs))
                 /\ \A i \in DOMAIN rs : \A j \in DOMAIN rs[i] : FlattenSeq(rs)[off[i] + j] = rs[i][j]
  BY <1>3, FlattenPlaces
<1>7. /\ Offsets(off, rs) /\ off[m + 1] = Len(LocalIds)
      /\ \A i \in DOMAIN rs : \A j \in DOMAIN rs[i] : LocalIds[off[i] + j] = rs[i][j]
  BY <1>0, <1>3, <1>5
<1>8. PICK offs : /\ Offsets(offs, ss)
                  /\ \A i \in DOMAIN ss : \A j \in DOMAIN ss[i] : AllResults[offs[i] + j] = ss[i][j]
  BY <1>4, <1>5, FlattenPlaces
<1>9. \A i \in 1..m : Len(rs[i]) \in Nat /\ Len(ss[i]) = Len(rs[i])
  BY <1>1, <1>2, <1>6
<1>10. off = offs
  <2>1. Len(rs) \in Nat /\ Len(ss) = Len(rs) /\ \A i \in 1..Len(rs) : Len(rs[i]) \in Nat /\ Len(ss[i]) = Len(rs[i])
    BY <1>1, <1>3, <1>4, <1>9
  <2> QED BY <1>7, <1>8, <2>1, OffsetsAgree
<1>11. LocalIds \in Seq(Row) /\ DOMAIN LocalIds = 1..Len(LocalIds)
  <2>1. LocalIds \in Seq(Row)
    BY <1>3, <1>5, FlattenPlaces
  <2> QED BY <2>1
<1>12. DOMAIN rs = 1..m /\ DOMAIN ss = 1..m
  BY <1>1, <1>3, <1>4
<1>13. \A i \in 1..m : \A j \in DOMAIN batches[i].rows :
         LocalIds[off[i] + j] = batches[i].rows[j] /\ ResultOf(off[i] + j) = batches[i].results[j]
  <2> SUFFICES ASSUME NEW i \in 1..m, NEW j \in DOMAIN batches[i].rows
               PROVE  LocalIds[off[i] + j] = batches[i].rows[j] /\ AllResults[off[i] + j] = batches[i].results[j]
    BY DEF ResultOf
  <2>1. LocalIds[off[i] + j] = batches[i].rows[j]
    BY <1>6, <1>7, <1>12
  <2>2. AllResults[off[i] + j] = batches[i].results[j]
    BY <1>2, <1>6, <1>8, <1>10, <1>12
  <2> QED BY <2>1, <2>2
<1>14. \A n \in DOMAIN LocalIds : \E i \in 1..m : \E j \in DOMAIN batches[i].rows : n = off[i] + j
  <2>1. Len(rs) \in Nat /\ \A i \in 1..Len(rs) : Len(rs[i]) \in Nat
    BY <1>1, <1>3, <1>9
  <2>2. ASSUME NEW n \in 1..off[Len(rs) + 1] PROVE \E i \in 1..Len(rs) : \E j \in 1..Len(rs[i]) : n = off[i] + j
    <3>1. Offsets(off, rs)
      BY <1>7
    <3> QED BY ONLY <2>1, <3>1, FlattenCovers
  <2>3. \A i \in 1..m : 1..Len(rs[i]) = DOMAIN batches[i].rows
    BY <1>2, <1>6
  <2>4. DOMAIN LocalIds = 1..off[Len(rs) + 1] /\ Len(rs) = m
    BY <1>3, <1>7, <1>11
  <2> QED BY <2>2, <2>3, <2>4
<1>15. ASSUME NEW i \in 1..m, NEW j \in DOMAIN batches[i].rows PROVE off[i] + j \in DOMAIN LocalIds
  <2>1. \A k \in 1..Len(rs) : \A l \in 1..(Len(rs) + 1) : k < l => off[k + 1] <= off[l]
    <3>1. Len(rs) \in Nat /\ \A k \in 1..Len(rs) : Len(rs[k]) \in Nat
      BY <1>1, <1>3, <1>9
    <3> QED BY <1>7, <3>1, OffsetsGrow
  <2>2. off[i + 1] <= off[m + 1]
    <3>1. m + 1 \in 1..(m + 1) /\ i < m + 1
      BY <1>1
    <3> QED BY <1>3, <2>1, <3>1
  <2>3. off[i + 1] = off[i] + Len(rs[i]) /\ off[i] \in Nat /\ off[m + 1] \in Nat
    <3>1. i \in 1..(m + 1) /\ m + 1 \in 1..(m + 1)
      BY <1>1
    <3> QED BY <1>3, <1>7, <3>1 DEF Offsets
  <2>4. j \in 1..Len(rs[i]) /\ Len(rs[i]) \in Nat
    BY <1>2, <1>6
  <2>5. off[i] + j \in 1..off[m + 1]
    BY <2>2, <2>3, <2>4
  <2> QED BY <1>7, <1>11, <2>5
<1>16. ASSUME NEW n \in DOMAIN LocalIds
       PROVE  \E i \in DOMAIN batches : \E j \in DOMAIN batches[i].rows :
                LocalIds[n] = batches[i].rows[j] /\ ResultOf(n) = batches[i].results[j]
  BY <1>1, <1>13, <1>14
<1>17. ASSUME NEW i \in DOMAIN batches, NEW j \in DOMAIN batches[i].rows
       PROVE  \E n \in DOMAIN LocalIds :
                LocalIds[n] = batches[i].rows[j] /\ ResultOf(n) = batches[i].results[j]
  BY <1>1, <1>13, <1>15
<1> QED BY <1>16, <1>17

-----------------------------------------------------------------------------
(* The invariant is inductive.                                             *)

\* The invariant, of a batch,
LEMMA BatchIs ==
  ASSUME LoadInv, NEW i \in DOMAIN batches
  PROVE  /\ batches[i].rows \in Seq(Row) /\ Len(batches[i].rows) <= BatchRows
         /\ batches[i].state \in {"Queued", "Completed", "Failed", "Not Processed"}
         /\ batches[i].results \in Seq(0..Len(org))
<1>1. batches[i] \in BatchSet
  BY DEF LoadInv, Typed, Filed
<1> QED BY <1>1 DEF BatchSet, LoadInv, Typed, Filed

\* of the records,
LEMMA OrgIs ==
  ASSUME LoadInv
  PROVE  /\ Len(org) \in Nat /\ DOMAIN org = 1..Len(org)
         /\ \A k \in DOMAIN org : org[k] \in Record /\ org[k].row \in Row
         /\ \A k \in DOMAIN org : org[k].ref # 0 => org[k].ref \in DOMAIN org
         /\ \A r \in Row : idTable[r] # 0 => idTable[r] \in DOMAIN org
<1>1. Len(org) \in Nat /\ DOMAIN org = 1..Len(org) /\ \A k \in DOMAIN org : org[k] \in Record
  BY DEF LoadInv, Typed, Recorded
<1>2. \A k \in DOMAIN org : org[k].row \in Row
  BY <1>1 DEF Record
<1>3. \A k \in DOMAIN org : org[k].ref \in 0..Len(org)
  BY DEF LoadInv, Typed, Recorded
<1>4. \A r \in Row : idTable[r] \in 0..Len(org)
  BY DEF LoadInv, Typed, Recorded
<1> QED BY <1>1, <1>2, <1>3, <1>4

\* and of a result.
LEMMA ResultIs ==
  ASSUME LoadInv, NEW i \in DOMAIN batches, batches[i].state = "Completed", NEW j \in DOMAIN batches[i].rows
  PROVE  /\ j \in DOMAIN batches[i].results /\ batches[i].rows[j] \in Row
         /\ batches[i].results[j] \in 0..Len(org)
         /\ batches[i].results[j] # 0 =>
              batches[i].results[j] \in DOMAIN org /\ org[batches[i].results[j]].row = batches[i].rows[j]
<1>1. batches[i].rows \in Seq(Row) /\ batches[i].results \in Seq(0..Len(org))
  BY BatchIs
<1>2. Len(batches[i].results) = Len(batches[i].rows)
  BY DEF LoadInv, Aligned
<1>3. j \in DOMAIN batches[i].results /\ batches[i].rows[j] \in Row
  BY <1>1, <1>2
<1>4. batches[i].results[j] \in 0..Len(org)
  BY <1>1, <1>3
<1>5. batches[i].results[j] # 0 => org[batches[i].results[j]].row = batches[i].rows[j]
  BY DEF LoadInv, Aligned
<1> QED BY <1>3, <1>4, <1>5, OrgIs

\* It holds at the start.
LEMMA LoadInvInit == BulkInit => LoadInv
<1> SUFFICES ASSUME BulkInit PROVE LoadInv
  OBVIOUS
<1> USE DEF BulkInit
<1>1. Chosen
  <2>1. 1 \in 1..(Len(Steps) + 1)
    BY StepsAre
  <2> QED BY <2>1 DEF Chosen
<1>2. Filed
  <2>1. batches \in Seq(BatchSet) /\ DOMAIN batches = {} /\ unsent \in Seq(Row)
    OBVIOUS
  <2> QED BY <2>1 DEF Filed
<1>3. Recorded
  <2>1. idTable \in [Row -> 0..0] /\ Len(org) = 0 /\ org \in Seq(Record) /\ DOMAIN org = {}
    OBVIOUS
  <2> QED BY <2>1 DEF Recorded
<1>4. Placing
  BY DEF Placing, Busy
<1>5. Aligned /\ Right /\ Known /\ Noted /\ Once /\ Sending /\ Complete
  BY DEF Aligned, Right, LookupsAreRight, Known, NothingStillRuns, States, Noted, RowErrorsLeaveNothing,
    Once, Sending, Complete, Busy
<1> QED BY <1>1, <1>2, <1>3, <1>4, <1>5 DEF LoadInv, Typed

\* Then each action keeps it.  The options are chosen once, before anything is loaded.
LEMMA StartLoadKeeps == LoadInv /\ StartLoad => LoadInv'
<1> SUFFICES ASSUME LoadInv, StartLoad PROVE LoadInv'
  OBVIOUS
<1> USE DEF StartLoad, LoadInv, Typed
<1>1. Chosen' /\ Filed' /\ Recorded' /\ Placing'
  BY DEF Chosen, Filed, Recorded, Placing, Busy
<1>2. Aligned'
  BY DEF Aligned
<1>3. Right'
  BY DEF Right, LookupsAreRight
<1>4. org = <<>> /\ batches = <<>> /\ stepAt = 1 /\ ~rolledBack
  BY DEF Placing, Noted
<1>5. Known'
  BY <1>4 DEF Known, NothingStillRuns, States
<1>6. Noted'
  BY <1>4 DEF Noted, RowErrorsLeaveNothing, Busy
<1>7. Once'
  BY <1>4 DEF Once, Busy
<1>8. Sending'
  BY DEF Sending, Busy
<1>9. Complete'
  BY <1>4, StepsAre DEF Complete, Busy
<1> QED BY <1>1, <1>2, <1>3, <1>5, <1>6, <1>7, <1>8, <1>9

\* A step begins with the rows of its query, and with no batch of the step before.
LEMMA BeginStepKeeps == LoadInv /\ BeginStep => LoadInv'
<1> SUFFICES ASSUME LoadInv, BeginStep PROVE LoadInv'
  OBVIOUS
<1> USE DEF LoadInv, Typed
<1>0. /\ bulkPc = "step" /\ stepAt \in DOMAIN Steps /\ batches' = <<>> /\ unsent' = QueriedRows
      /\ jobStatus' = "none" /\ bulkPc' = "sending" /\ dataApi' \in {"bulk", "rest"}
      /\ UNCHANGED <<dataOption, stepAt, org, idTable, insertTable, rolledBack>>
      /\ upsertTable' = upsertTable \/ upsertTable' = upsertTable \cup OldValues
  BY DEF BeginStep
<1>1. QueriedRows \in Seq(Row) /\ ToSet(QueriedRows) = Asked /\ (IsInsert => IsInjective(QueriedRows))
  BY <1>0, QueriedIs
<1>2. \A u \in OldValues : /\ u.id \in DOMAIN org /\ u.ref \in 0..Len(org)
                           /\ u.ref # 0 => org[u.ref].row = Ref[org[u.id].row]
  <2> SUFFICES ASSUME NEW r \in ToSet(QueriedRows), idTable[r] # 0
               PROVE  /\ idTable[r] \in DOMAIN org /\ org[idTable[r]].ref \in 0..Len(org)
                      /\ org[idTable[r]].ref # 0 => org[org[idTable[r]].ref].row = Ref[org[idTable[r]].row]
    BY DEF OldValues
  <2>1. r \in Row
    BY <1>1 DEF ToSet
  <2>2. DOMAIN org = 1..Len(org) /\ Len(org) \in Nat
    BY DEF Recorded
  <2>3. idTable[r] \in DOMAIN org
    BY <2>1, <2>2 DEF Recorded
  <2> QED BY <2>3 DEF Recorded, Right, LookupsAreRight
<1>3. Typed'
  <2>1. \A u \in upsertTable : u.id \in DOMAIN org /\ u.ref \in 0..Len(org)
    BY DEF Recorded
  <2>2. Recorded'
    BY <1>0, <1>2, <2>1 DEF Recorded
  <2>3. batches' \in Seq(BatchSet) /\ DOMAIN batches' = {}
    BY <1>0
  <2>4. Filed'
    BY <1>0, <1>1, <2>3 DEF Filed
  <2>5. Chosen'
    BY <1>0 DEF Chosen
  <2>6. Placing'
    BY <1>0 DEF Placing, Busy
  <2> QED BY <2>2, <2>4, <2>5, <2>6
<1>4. Aligned'
  BY <1>0 DEF Aligned
<1>5. Right'
  BY <1>0, <1>2 DEF Right, LookupsAreRight
<1>6. Known'
  BY <1>0 DEF Known, NothingStillRuns
<1>7. Noted'
  BY <1>0 DEF Noted, RowErrorsLeaveNothing, Busy
<1>8. Once'
  <2>1. IsInsert' = IsInsert
    BY <1>0 DEF IsInsert, Step
  <2>2. ASSUME IsInsert, NEW k \in DOMAIN org PROVE org[k].row \notin ToSet(QueriedRows)
    <3>1. PICK p \in 1..stepAt : InsertedBy(org[k].row, p) /\ p # stepAt
      BY <1>0 DEF Once
    <3>2. ASSUME org[k].row \in Asked PROVE FALSE
      <4>1. org[k].row \in Rows(Step.table) /\ org[k].row \in Rows(Steps[p].table)
        BY <3>1, <3>2 DEF Asked, InsertedBy
      <4>2. p \in DOMAIN Steps /\ Steps[p].table \in Table /\ Step.table \in Table
        BY <1>0, <3>1, StepsAre, StepIs DEF InsertedBy
      <4>3. Steps[p].table = Step.table
        BY <4>1, <4>2, RowsAre
      <4>4. Inserts(p, Step.table) /\ Inserts(stepAt, Step.table)
        BY <2>2, <3>1, <4>3 DEF Inserts, InsertedBy, IsInsert, Step
      <4> QED BY <1>0, <3>1, <4>2, <4>4, InsertedOnce
    <3> QED BY <1>1, <3>2
  <2>3. \A k \in DOMAIN org' : \E p \in 1..stepAt' :
          InsertedBy(org'[k].row, p) /\ (bulkPc' = "step" => p # stepAt')
    BY <1>0 DEF Once
  <2> QED BY <1>0, <1>1, <2>1, <2>2, <2>3 DEF Once, Busy, InsertedBy
<1>9. Sending'
  <2>1. Asked' = Asked
    BY <1>0 DEF Asked, IsInsert, Step, LookupId
  <2> QED BY <1>0, <1>1, <2>1 DEF Sending
<1>10. Complete'
  <2>1. \A p : StepIsFilled(p)' = StepIsFilled(p)
    BY <1>0 DEF StepIsFilled, Linked
  <2>2. DOMAIN batches' = {}
    BY <1>0
  <2>3. ResultsAreFilled'
    BY <2>2 DEF ResultsAreFilled
  <2> QED BY <1>0, <2>1, <2>3 DEF Complete, Busy
<1> QED BY <1>3, <1>4, <1>5, <1>6, <1>7, <1>8, <1>9, <1>10

\* A step that moves the control alone.
Rests == UNCHANGED <<dataOption, stepAt, dataApi, batches, unsent, org, idTable, insertTable, upsertTable>>

\* What such a step leaves as it is.
LEMMA RestsKeeps ==
  ASSUME LoadInv, Rests, rolledBack' = rolledBack
  PROVE  /\ Filed' /\ Recorded' /\ Aligned' /\ Right'
         /\ IsInsert' = IsInsert /\ Asked' = Asked /\ States' = States
<1> USE DEF LoadInv, Typed, Rests
<1>1. Filed' /\ Recorded'
  BY DEF Filed, Recorded
<1>2. Aligned' /\ Right'
  BY DEF Aligned, Right, LookupsAreRight
<1>3. IsInsert' = IsInsert /\ Asked' = Asked /\ States' = States
  BY DEF IsInsert, Step, Asked, LookupId, States
<1> QED BY <1>1, <1>2, <1>3

\* Nothing is less complete for it,
LEMMA RestsFills ==
  ASSUME LoadInv, Rests, Busy' => Busy, bulkPc' \in {"step", "done"} => bulkPc \in {"step", "done"}
  PROVE  Complete' /\ Sending'
<1> USE DEF LoadInv, Rests
<1>1. \A p : StepIsFilled(p)' = StepIsFilled(p)
  BY DEF StepIsFilled, Linked
<1>2. ResultsAreFilled' = ResultsAreFilled
  BY DEF ResultsAreFilled, IsInsert, Step
<1>3. Complete'
  BY <1>1, <1>2 DEF Complete
<1>4. Asked' = Asked
  BY DEF IsInsert, Step, Asked, LookupId
<1>5. Sending'
  BY <1>4 DEF Sending
<1> QED BY <1>3, <1>5

\* nor inserted twice.
LEMMA RestsOnce ==
  ASSUME LoadInv, Rests, Busy' => Busy, bulkPc' = "step" => bulkPc = "step"
  PROVE  Once'
<1> USE DEF LoadInv, Rests
<1>1. IsInsert' = IsInsert
  BY DEF IsInsert, Step
<1>2. \A r, p : InsertedBy(r, p)' = InsertedBy(r, p)
  BY DEF InsertedBy
<1> QED BY <1>1, <1>2 DEF Once

\* All is sent: the job is waited for.
LEMMA SentKeeps == LoadInv /\ Sent => LoadInv'
<1> SUFFICES ASSUME LoadInv, Sent PROVE LoadInv'
  OBVIOUS
<1> USE DEF Sent
<1>1. Rests /\ rolledBack' = rolledBack /\ Busy /\ Busy' /\ bulkPc' = "wait" /\ unsent = <<>> /\ jobStatus' = jobStatus
  BY DEF Rests, Busy
<1>2. /\ Filed' /\ Recorded' /\ Aligned' /\ Right'
      /\ IsInsert' = IsInsert /\ Asked' = Asked /\ States' = States
  BY <1>1, RestsKeeps
<1>3. Complete' /\ Sending' /\ Once'
  BY <1>1, RestsFills, RestsOnce
<1>4. Chosen' /\ Placing'
  BY <1>1 DEF LoadInv, Typed, Chosen, Placing, Busy
<1>5. Known'
  BY <1>1 DEF Known, NothingStillRuns
<1>6. Noted'
  <2>1. \A k : IsResult(k)' = IsResult(k)
    BY <1>1 DEF IsResult, IsInsert, Step, Rests
  <2>2. ~rolledBack
    BY <1>1 DEF LoadInv, Noted, Busy
  <2>3. dataOption.rollback => \A k \in DOMAIN org : k \in insertTable \/ IsResult(k)
    BY <1>1 DEF LoadInv, Noted
  <2>4. dataOption'.rollback => \A k \in DOMAIN org' : k \in insertTable' \/ IsResult(k)'
    BY <1>1, <2>1, <2>3 DEF Rests
  <2>5. bulkPc' = "wait" /\ ~rolledBack'
    BY <1>1, <2>2
  <2> HIDE DEF Sent
  <2>6. RowErrorsLeaveNothing'
    BY <2>5 DEF RowErrorsLeaveNothing
  <2> QED BY <2>4, <2>5, <2>6 DEF Noted
<1> QED BY <1>2, <1>3, <1>4, <1>5, <1>6 DEF LoadInv, Typed

\* The load ends where its job failed.
LEMMA EndsKeeps ==
  ASSUME LoadInv, Rests, rolledBack' = rolledBack, jobStatus' = jobStatus, bulkPc' = "failed",
         bulkPc \in {"sending", "wait", "results"}
  PROVE  LoadInv'
<1>1. ~Busy'
  BY DEF Busy
<1>2. /\ Filed' /\ Recorded' /\ Aligned' /\ Right'
      /\ IsInsert' = IsInsert /\ Asked' = Asked /\ States' = States
  BY RestsKeeps
<1>3. Complete' /\ Sending' /\ Once'
  BY <1>1, RestsFills, RestsOnce
<1>4. Chosen' /\ Placing'
  BY <1>1 DEF LoadInv, Typed, Chosen, Placing, Rests
<1>5. Known'
  BY DEF Known, NothingStillRuns
<1>6. Noted'
  BY <1>1 DEF LoadInv, Noted, RowErrorsLeaveNothing, Rests
<1> QED BY <1>2, <1>3, <1>4, <1>5, <1>6 DEF LoadInv, Typed

\* A call to the org that fails ends the load.
LEMMA CallFailsKeeps == LoadInv /\ CallFails => LoadInv'
<1> SUFFICES ASSUME LoadInv, CallFails PROVE LoadInv'
  OBVIOUS
<1>1. Rests /\ rolledBack' = rolledBack /\ jobStatus' = jobStatus /\ bulkPc' = "failed"
      /\ bulkPc \in {"sending", "wait", "results"}
  BY DEF CallFails, Rests
<1> QED BY <1>1, EndsKeeps

\* So does a result that cannot be downloaded.
LEMMA NoDownloadKeeps == LoadInv /\ NoDownload => LoadInv'
<1> SUFFICES ASSUME LoadInv, NoDownload PROVE LoadInv'
  OBVIOUS
<1>1. Rests /\ rolledBack' = rolledBack /\ jobStatus' = jobStatus /\ bulkPc' = "failed"
      /\ bulkPc \in {"sending", "wait", "results"}
  BY DEF NoDownload, Rests
<1> QED BY <1>1, EndsKeeps

\* After the last step the load is done.
LEMMA EndLoadKeeps == LoadInv /\ EndLoad => LoadInv'
<1> SUFFICES ASSUME LoadInv, EndLoad PROVE LoadInv'
  OBVIOUS
<1>1. Rests /\ rolledBack' = rolledBack /\ ~Busy' /\ bulkPc' = "done" /\ bulkPc = "step"
      /\ jobStatus' = jobStatus /\ stepAt \notin DOMAIN Steps
  BY DEF Rests, Busy, EndLoad
<1>2. /\ Filed' /\ Recorded' /\ Aligned' /\ Right'
      /\ IsInsert' = IsInsert /\ Asked' = Asked /\ States' = States
  BY <1>1, RestsKeeps
<1>3. Complete' /\ Sending' /\ Once'
  BY <1>1, RestsFills, RestsOnce
<1>4. Chosen'
  BY <1>1 DEF LoadInv, Typed, Chosen, Rests
<1>5. stepAt = Len(Steps) + 1
  <2>1. stepAt \in 1..(Len(Steps) + 1)
    BY DEF LoadInv, Typed, Chosen
  <2>2. Len(Steps) \in Nat /\ DOMAIN Steps = 1..Len(Steps)
    BY StepsAre
  <2> QED BY <1>1, <2>1, <2>2
<1>6. Placing'
  BY <1>1, <1>5 DEF Placing, Rests
<1>7. Known'
  BY <1>1, <1>2 DEF LoadInv, Known, NothingStillRuns
<1>8. Noted'
  BY <1>1 DEF LoadInv, Noted, RowErrorsLeaveNothing, Rests
<1> QED BY <1>2, <1>3, <1>4, <1>6, <1>7, <1>8 DEF LoadInv, Typed

\* The job has ended: its status is the one its batches add up to.
LEMMA JobEndedKeeps == LoadInv /\ JobEnded => LoadInv'
<1> SUFFICES ASSUME LoadInv, JobEnded PROVE LoadInv'
  OBVIOUS
<1>1. Rests /\ rolledBack' = rolledBack /\ Busy /\ bulkPc = "wait"
      /\ jobStatus' = _parse_job_state /\ _parse_job_state # "In progress"
  BY DEF Rests, Busy, JobEnded
<1>2. bulkPc' \in {"results", "rollback", "failed"}
      /\ (bulkPc' = "results" <=> jobStatus' # "Job failure") /\ (bulkPc' = "rollback" => dataOption.rollback)
  BY DEF JobEnded
<1>3. /\ Filed' /\ Recorded' /\ Aligned' /\ Right'
      /\ IsInsert' = IsInsert /\ Asked' = Asked /\ States' = States
  BY <1>1, RestsKeeps
<1>4. Complete' /\ Sending' /\ Once'
  BY <1>1, <1>2, RestsFills, RestsOnce
<1>5. jobStatus' \in {"Success", "Row failure", "Job failure", "Aborted"}
  BY <1>1 DEF _parse_job_state
<1>6. Chosen' /\ Placing'
  BY <1>1, <1>2, <1>5 DEF LoadInv, Typed, Chosen, Placing, Rests, Busy
<1>7. \A i \in DOMAIN batches : batches[i].state \in {"Queued", "Completed", "Failed", "Not Processed"}
  <2>1. \A i \in DOMAIN batches : batches[i] \in BatchSet
    BY DEF LoadInv, Typed, Filed
  <2> QED BY <2>1 DEF BatchSet
<1>8. Known'
  <2>1. jobStatus' \in {"Success", "Row failure"} => States \cap {"Queued", "Failed", "Not Processed"} = {}
    BY <1>1 DEF _parse_job_state
  <2>2. "Queued" \in States => "Not Processed" \in States
    BY <1>1 DEF _parse_job_state
  <2>3. jobStatus' = "Job failure" => "Not Processed" \notin States
    BY <1>1 DEF _parse_job_state
  <2>4. jobStatus' \in {"Success", "Row failure"} => \A i \in DOMAIN batches : batches[i].state = "Completed"
    BY <1>7, <2>1 DEF States
  <2>5. NothingStillRuns'
    BY <1>2, <1>3, <1>5, <2>2, <2>3 DEF NothingStillRuns
  <2> QED BY <1>2, <1>5, <2>4, <2>5, <1>1 DEF Known, Rests
<1>9. Noted'
  <2>1. \A k : IsResult(k)' = IsResult(k)
    BY <1>1 DEF IsResult, IsInsert, Step, Rests
  <2>2. ~rolledBack
    BY <1>1 DEF LoadInv, Noted
  <2> QED BY <1>1, <1>2, <2>1, <2>2 DEF LoadInv, Noted, RowErrorsLeaveNothing, Rests, Busy
<1> QED BY <1>3, <1>4, <1>6, <1>8, <1>9 DEF LoadInv, Typed

\* A rollback deletes what is noted and puts the updated lookups back.
LEMMA PerformRollbackKeeps == LoadInv /\ PerformRollback => LoadInv'
<1> SUFFICES ASSUME LoadInv, PerformRollback PROVE LoadInv'
  OBVIOUS
<1> DEFINE old(k) == IF \E u \in upsertTable : u.id = k
                     THEN (CHOOSE u \in upsertTable : u.id = k).ref ELSE org[k].ref
<1>1. /\ bulkPc = "rollback" /\ bulkPc' = "failed" /\ rolledBack' = TRUE /\ jobStatus' = jobStatus
      /\ UNCHANGED <<dataOption, stepAt, dataApi, batches, unsent, idTable, insertTable, upsertTable>>
      /\ org' = [k \in DOMAIN org |-> [org[k] EXCEPT !.alive = k \notin insertTable, !.ref = old(k)]]
  BY DEF PerformRollback
<1>2. Len(org) \in Nat /\ DOMAIN org = 1..Len(org) /\ \A k \in DOMAIN org : org[k] \in Record
  BY DEF LoadInv, Typed, Recorded
<1>3. \A k \in DOMAIN org : old(k) \in 0..Len(org) /\ (old(k) # 0 => org[old(k)].row = Ref[org[k].row])
  <2> SUFFICES ASSUME NEW k \in DOMAIN org
               PROVE  old(k) \in 0..Len(org) /\ (old(k) # 0 => org[old(k)].row = Ref[org[k].row])
    OBVIOUS
  <2>1. CASE \E u \in upsertTable : u.id = k
    <3>1. PICK u \in upsertTable : u.id = k /\ old(k) = u.ref
      BY <2>1
    <3> HIDE DEF old
    <3> QED BY <3>1 DEF LoadInv, Typed, Recorded, Right
  <2>2. CASE ~\E u \in upsertTable : u.id = k
    <3>1. old(k) = org[k].ref
      BY <2>2
    <3> HIDE DEF old
    <3> QED BY <3>1 DEF LoadInv, Typed, Recorded, Right, LookupsAreRight
  <2> QED BY <2>1, <2>2
<1> HIDE DEF old
<1>4. \A k \in DOMAIN org : /\ org'[k] \in Record /\ org'[k].row = org[k].row
                            /\ org'[k].ref = old(k) /\ org'[k].alive = (k \notin insertTable)
  <2> SUFFICES ASSUME NEW k \in DOMAIN org
               PROVE  /\ org'[k] \in Record /\ org'[k].row = org[k].row
                      /\ org'[k].ref = old(k) /\ org'[k].alive = (k \notin insertTable)
    OBVIOUS
  <2>1. org'[k] = [org[k] EXCEPT !.alive = k \notin insertTable, !.ref = old(k)]
    BY <1>1
  <2>2. old(k) \in Nat /\ (k \notin insertTable) \in BOOLEAN
    BY <1>2, <1>3
  <2> QED BY <1>2, <2>1, <2>2 DEF Record
<1>5. org' \in Seq(Record) /\ Len(org') = Len(org) /\ DOMAIN org' = DOMAIN org
  <2>1. org' \in [1..Len(org) -> Record]
    BY <1>1, <1>2, <1>4
  <2> QED BY <1>2, <2>1
<1>6. Recorded'
  BY <1>1, <1>3, <1>4, <1>5 DEF LoadInv, Typed, Recorded
<1>7. Filed'
  BY <1>1, <1>5 DEF LoadInv, Typed, Filed
<1>8. Chosen' /\ Placing'
  BY <1>1 DEF LoadInv, Typed, Chosen, Placing, Busy
<1>9. Aligned'
  <2> SUFFICES ASSUME NEW i \in DOMAIN batches
               PROVE  IF batches[i].state = "Completed"
                      THEN /\ Len(batches[i].results) = Len(batches[i].rows)
                           /\ \A j \in DOMAIN batches[i].rows : batches[i].results[j] # 0 =>
                                org'[batches[i].results[j]].row = batches[i].rows[j]
                      ELSE batches[i].results = <<>>
    BY <1>1 DEF Aligned
  <2>1. CASE batches[i].state = "Completed"
    <3>1. ASSUME NEW j \in DOMAIN batches[i].rows, batches[i].results[j] # 0
          PROVE  org'[batches[i].results[j]].row = batches[i].rows[j]
      <4>1. batches[i].results[j] \in DOMAIN org /\ org[batches[i].results[j]].row = batches[i].rows[j]
        BY <2>1, <3>1, ResultIs
      <4> QED BY <1>4, <4>1
    <3> QED BY <2>1, <3>1 DEF LoadInv, Aligned
  <2>2. CASE batches[i].state # "Completed"
    BY <2>2 DEF LoadInv, Aligned
  <2> QED BY <2>1, <2>2
<1>10. Right'
  <2>1. \A r \in Row : idTable[r] # 0 => idTable[r] \in DOMAIN org /\ org[idTable[r]].row = r
    BY OrgIs DEF LoadInv, Right, LookupsAreRight
  <2>2. \A k \in DOMAIN org : old(k) # 0 => old(k) \in DOMAIN org
    BY <1>2, <1>3
  <2>3. \A r \in Row : idTable'[r] # 0 => org'[idTable'[r]].row = r
    BY <1>1, <1>4, <2>1
  <2>4. ASSUME NEW k \in DOMAIN org', org'[k].ref # 0 PROVE org'[org'[k].ref].row = Ref[org'[k].row]
    <3>1. k \in DOMAIN org /\ org'[k].ref = old(k) /\ org'[k].row = org[k].row
      BY <1>4, <1>5
    <3>2. old(k) \in DOMAIN org /\ org[old(k)].row = Ref[org[k].row]
      BY <1>3, <2>2, <2>4, <3>1
    <3> QED BY <1>4, <3>1, <3>2
  <2>5. \A u \in upsertTable : /\ u.id \in DOMAIN org /\ (u.ref # 0 => u.ref \in DOMAIN org)
                               /\ u.ref # 0 => org[u.ref].row = Ref[org[u.id].row]
    BY <1>2 DEF LoadInv, Typed, Recorded, Right
  <2> QED BY <1>1, <1>4, <2>3, <2>4, <2>5 DEF Right, LookupsAreRight
<1>11. Known' /\ Sending' /\ Complete'
  BY <1>1 DEF Known, NothingStillRuns, Sending, Complete, Busy
<1>12. Noted'
  BY <1>1, <1>4, <1>5 DEF LoadInv, Noted, RowErrorsLeaveNothing, Busy
<1>13. Once'
  <2>1. \A k \in DOMAIN org : \E p \in 1..stepAt : InsertedBy(org[k].row, p)
    BY DEF LoadInv, Once
  <2>2. \A r, p : InsertedBy(r, p)' = InsertedBy(r, p)
    BY DEF InsertedBy
  <2>3. \A k \in DOMAIN org' : \E p \in 1..stepAt' : InsertedBy(org'[k].row, p)
    BY <1>1, <1>4, <1>5, <2>1
  <2>4. \A k, l \in DOMAIN org' : org'[k].row = org'[l].row => k = l
    BY <1>4, <1>5 DEF LoadInv, Once
  <2> QED BY <1>1, <2>3, <2>4 DEF Once, Busy, InsertedBy
<1> QED BY <1>6, <1>7, <1>8, <1>9, <1>10, <1>11, <1>12, <1>13 DEF LoadInv, Typed

\* The results of a job, noted.
JobIsAsked ==
  /\ \A r \in Asked : \E n \in DOMAIN LocalIds : LocalIds[n] = r
  /\ \A n \in DOMAIN LocalIds : LocalIds[n] \in Asked

\* A job that was not aborted has a result for each row of the step, and each is of its row.
LEMMA CompletedIs ==
  ASSUME LoadInv, bulkPc = "results", jobStatus # "Aborted"
  PROVE  /\ stepAt \in DOMAIN Steps /\ Busy /\ ~rolledBack /\ unsent = <<>>
         /\ \A i \in DOMAIN batches : batches[i].state = "Completed"
         /\ \A n \in DOMAIN LocalIds : \E i \in DOMAIN batches : \E j \in DOMAIN batches[i].rows :
              LocalIds[n] = batches[i].rows[j] /\ ResultOf(n) = batches[i].results[j]
         /\ \A i \in DOMAIN batches : \A j \in DOMAIN batches[i].rows : \E n \in DOMAIN LocalIds :
              LocalIds[n] = batches[i].rows[j] /\ ResultOf(n) = batches[i].results[j]
         /\ JobIsAsked
<1>1. stepAt \in DOMAIN Steps /\ Busy /\ ~rolledBack /\ unsent = <<>>
  BY DEF LoadInv, Typed, Placing, Busy, Noted
<1>2. \A i \in DOMAIN batches : batches[i].state = "Completed"
  BY DEF LoadInv, Known
<1>3. batches \in Seq(BatchSet) /\ \A i \in DOMAIN batches : Len(batches[i].results) = Len(batches[i].rows)
  BY <1>2 DEF LoadInv, Typed, Filed, Aligned
<1>4. \A n \in DOMAIN LocalIds : \E i \in DOMAIN batches : \E j \in DOMAIN batches[i].rows :
        LocalIds[n] = batches[i].rows[j] /\ ResultOf(n) = batches[i].results[j]
  BY <1>3, JobIs
<1>5. \A i \in DOMAIN batches : \A j \in DOMAIN batches[i].rows : \E n \in DOMAIN LocalIds :
        LocalIds[n] = batches[i].rows[j] /\ ResultOf(n) = batches[i].results[j]
  BY <1>3, JobIs
<1>6. UNION {ToSet(batches[i].rows) : i \in DOMAIN batches} = Asked
  <2>1. ToSet(unsent) = {}
    BY <1>1 DEF ToSet
  <2> QED BY <1>1, <2>1 DEF LoadInv, Sending
<1>7. ASSUME NEW r \in Asked PROVE \E n \in DOMAIN LocalIds : LocalIds[n] = r
  <2>1. PICK i \in DOMAIN batches : r \in ToSet(batches[i].rows)
    BY <1>6
  <2>2. PICK j \in DOMAIN batches[i].rows : batches[i].rows[j] = r
    BY <2>1 DEF ToSet
  <2> QED BY <1>5, <2>2
<1>8. ASSUME NEW n \in DOMAIN LocalIds PROVE LocalIds[n] \in Asked
  <2>1. PICK i \in DOMAIN batches : \E j \in DOMAIN batches[i].rows : LocalIds[n] = batches[i].rows[j]
    BY <1>4
  <2>2. LocalIds[n] \in ToSet(batches[i].rows)
    BY <2>1 DEF ToSet
  <2> QED BY <1>6, <2>2
<1> QED BY <1>1, <1>2, <1>4, <1>5, <1>7, <1>8 DEF JobIsAsked

\* In order, what a lookup of the step refers to is in the table of ids.
LEMMA LookupIsThere ==
  ASSUME LoadInv, LookupsInOrder, ~dataOption.ignore, Busy, NEW r \in Rows(Step.table), Ref[r] # NoRow,
         ~IsInsert \/ After[Step.table] = ""
  PROVE  LookupId(r) # 0
<1>1. stepAt \in DOMAIN Steps /\ \A p \in DOMAIN Steps : p < stepAt => StepIsFilled(p)
  BY DEF LoadInv, Typed, Placing, Complete
<1>2. Step.table \in Table /\ r \in Row /\ Step.action \in {"insert", "update"}
  BY <1>1, StepIs
<1>3. Ref[r] \in Row /\ LookupId(r) = idTable[Ref[r]]
  BY <1>2, RowsAre DEF LookupId
<1>4. PICK u \in Table : Ref[r] \in Rows(u)
  BY <1>3, RowsAre
<1>5. PICK q \in DOMAIN Steps : Inserts(q, u)
  BY StepsOfTable
<1>6. q < stepAt
  <2>1. CASE IsInsert
    <3>1. Inserts(stepAt, Step.table) /\ After[Step.table] = ""
      BY <2>1 DEF Inserts, IsInsert, Step
    <3> QED BY <1>1, <1>2, <1>4, <1>5, <3>1, InsertsInOrder
  <2>2. CASE ~IsInsert
    <3>1. Updates(stepAt, Step.table)
      BY <1>2, <2>2 DEF Updates, IsInsert, Step
    <3> QED BY <1>1, <1>2, <1>4, <1>5, <3>1, UpdatesInOrder
  <2> QED BY <2>1, <2>2
<1>7. StepIsFilled(q)
  BY <1>1, <1>5, <1>6
<1> QED BY <1>3, <1>4, <1>5, <1>7 DEF StepIsFilled, Inserts

\* The results of a job go to the table of ids, row by row.
LEMMA ProcessResultsKeeps == LoadInv /\ ProcessResults => LoadInv'
<1> SUFFICES ASSUME LoadInv, ProcessResults PROVE LoadInv'
  OBVIOUS
<1>0. bulkPc = "results" /\ jobStatus # "Aborted" /\ jobStatus' = jobStatus
      /\ UNCHANGED <<dataOption, dataApi, batches, unsent, org, upsertTable, jobStatus, rolledBack>>
  BY DEF ProcessResults
<1>1. /\ stepAt \in DOMAIN Steps /\ Busy /\ ~rolledBack /\ unsent = <<>>
      /\ \A i \in DOMAIN batches : batches[i].state = "Completed"
  BY <1>0, CompletedIs
<1>2. \A n \in DOMAIN LocalIds : \E i \in DOMAIN batches : \E j \in DOMAIN batches[i].rows :
        LocalIds[n] = batches[i].rows[j] /\ ResultOf(n) = batches[i].results[j]
  BY <1>0, CompletedIs
<1>3. \A i \in DOMAIN batches : \A j \in DOMAIN batches[i].rows : \E n \in DOMAIN LocalIds :
        LocalIds[n] = batches[i].rows[j] /\ ResultOf(n) = batches[i].results[j]
  BY <1>0, CompletedIs
<1>4. JobIsAsked
  BY <1>0, CompletedIs
<1>5. \A n \in DOMAIN LocalIds : /\ LocalIds[n] \in Row /\ ResultOf(n) \in 0..Len(org)
                                 /\ ResultOf(n) # 0 => ResultOf(n) \in DOMAIN org /\ org[ResultOf(n)].row = LocalIds[n]
  <2> SUFFICES ASSUME NEW n \in DOMAIN LocalIds
               PROVE  /\ LocalIds[n] \in Row /\ ResultOf(n) \in 0..Len(org)
                      /\ ResultOf(n) # 0 => ResultOf(n) \in DOMAIN org /\ org[ResultOf(n)].row = LocalIds[n]
    OBVIOUS
  <2>1. PICK i \in DOMAIN batches : \E j \in DOMAIN batches[i].rows :
          LocalIds[n] = batches[i].rows[j] /\ ResultOf(n) = batches[i].results[j]
    BY <1>2
  <2>2. PICK j \in DOMAIN batches[i].rows :
          LocalIds[n] = batches[i].rows[j] /\ ResultOf(n) = batches[i].results[j]
    BY <2>1
  <2> QED BY <1>1, <2>2, ResultIs
<1> DEFINE good == {ResultOf(n) : n \in DOMAIN LocalIds \ Failures}
           noted == [r \in Row |-> IF \E n \in DOMAIN LocalIds : LocalIds[n] = r
                                   THEN ResultOf(CHOOSE n \in DOMAIN LocalIds : LocalIds[n] = r)
                                   ELSE idTable[r]]
<1>6. insertTable' = IF dataOption.rollback /\ IsInsert THEN insertTable \cup good ELSE insertTable
  BY DEF ProcessResults, IsInsert
<1>7. \/ /\ bulkPc' \in {"rollback", "failed"} /\ (bulkPc' = "rollback" => dataOption.rollback)
         /\ UNCHANGED <<idTable, stepAt>>
      \/ /\ Failures = {} \/ dataOption.ignore
         /\ idTable' = IF IsInsert THEN noted ELSE idTable
         /\ stepAt' = stepAt + 1 /\ bulkPc' = "step"
  BY DEF ProcessResults, IsInsert
<1>8. \A n \in DOMAIN LocalIds : n \in Failures <=> ResultOf(n) = 0
  BY DEF Failures
<1>9. \A r \in Row : \/ \E n \in DOMAIN LocalIds : LocalIds[n] = r /\ noted[r] = ResultOf(n)
                     \/ r \notin Asked /\ noted[r] = idTable[r]
  <2> SUFFICES ASSUME NEW r \in Row
               PROVE  \/ \E n \in DOMAIN LocalIds : LocalIds[n] = r /\ noted[r] = ResultOf(n)
                      \/ r \notin Asked /\ noted[r] = idTable[r]
    OBVIOUS
  <2>1. CASE \E n \in DOMAIN LocalIds : LocalIds[n] = r
    <3> DEFINE m == CHOOSE n \in DOMAIN LocalIds : LocalIds[n] = r
    <3>1. m \in DOMAIN LocalIds /\ LocalIds[m] = r
      BY <2>1
    <3>2. noted[r] = ResultOf(m)
      BY <2>1
    <3> QED BY <3>1, <3>2
  <2>2. CASE ~\E n \in DOMAIN LocalIds : LocalIds[n] = r
    <3>1. r \notin Asked
      BY <1>4, <2>2 DEF JobIsAsked
    <3>2. noted[r] = idTable[r]
      BY <2>2
    <3> QED BY <3>1, <3>2
  <2> QED BY <2>1, <2>2
<1>10. \A n \in DOMAIN LocalIds : ResultOf(n) # 0 => ResultOf(n) \in good
  BY <1>8
<1>11. \A k \in good : \E n \in DOMAIN LocalIds : k = ResultOf(n) /\ ResultOf(n) # 0
  BY <1>8
<1>12. \A r \in Row : /\ noted[r] \in 0..Len(org)
                      /\ noted[r] # 0 => noted[r] \in DOMAIN org /\ org[noted[r]].row = r
  <2>1. \A r \in Row : /\ idTable[r] \in 0..Len(org)
                       /\ idTable[r] # 0 => idTable[r] \in DOMAIN org /\ org[idTable[r]].row = r
    BY OrgIs DEF LoadInv, Typed, Recorded, Right, LookupsAreRight
  <2> HIDE DEF noted
  <2> QED BY <1>5, <1>9, <2>1
<1>13. DOMAIN noted = Row /\ noted = [r \in Row |-> noted[r]]
  OBVIOUS
<1> HIDE DEF good, noted
<1>14. idTable' \in [Row -> 0..Len(org)] /\ \A r \in Row : idTable'[r] # 0 => org[idTable'[r]].row = r
  <2>1. noted \in [Row -> 0..Len(org)]
    BY <1>12, <1>13
  <2>2. idTable \in [Row -> 0..Len(org)] /\ \A r \in Row : idTable[r] # 0 => org[idTable[r]].row = r
    BY DEF LoadInv, Typed, Recorded, Right, LookupsAreRight
  <2> QED BY <1>7, <1>12, <2>1, <2>2
<1>15. Recorded'
  <2>1. good \subseteq DOMAIN org
    BY <1>5, <1>11
  <2>2. insertTable' \subseteq DOMAIN org
    BY <1>6, <2>1 DEF LoadInv, Typed, Recorded
  <2> QED BY <1>0, <1>14, <2>2 DEF LoadInv, Typed, Recorded
<1>16. Filed'
  BY <1>0 DEF LoadInv, Typed, Filed
<1>17. stepAt' \in 1..(Len(Steps) + 1) /\ (stepAt' = stepAt \/ (stepAt' = stepAt + 1 /\ bulkPc' = "step"))
  <2>1. Len(Steps) \in Nat /\ DOMAIN Steps = 1..Len(Steps)
    BY StepsAre
  <2> QED BY <1>1, <1>7, <2>1
<1>18. Chosen'
  BY <1>0, <1>7, <1>17 DEF LoadInv, Typed, Chosen
<1>19. Placing'
  BY <1>0, <1>1, <1>7 DEF Placing, Busy
<1>20. Aligned'
  BY <1>0 DEF LoadInv, Aligned
<1>21. Right'
  BY <1>0, <1>14 DEF LoadInv, Right, LookupsAreRight
<1>22. Known'
  <2>1. "Queued" \notin States'
    BY <1>0, <1>1 DEF States
  <2> QED BY <1>7, <2>1 DEF Known, NothingStillRuns
<1>23. Noted'
  <2>1. \A k \in DOMAIN org : dataOption.rollback => k \in insertTable \/ IsResult(k)
    BY <1>1 DEF LoadInv, Noted
  <2>2. ASSUME NEW k \in DOMAIN org, IsResult(k) PROVE k \in good
    <3>1. PICK i \in DOMAIN batches : \E j \in DOMAIN batches[i].rows : batches[i].results[j] = k
      BY <2>2 DEF IsResult
    <3>2. PICK j \in DOMAIN batches[i].rows : batches[i].results[j] = k
      BY <3>1
    <3>3. k # 0
      BY OrgIs
    <3> QED BY <1>3, <1>10, <3>2, <3>3
  <2>3. dataOption.rollback => DOMAIN org \subseteq insertTable'
    <3>1. \A k : IsResult(k) => IsInsert
      BY DEF IsResult
    <3> QED BY <1>6, <2>1, <2>2, <3>1
  <2>4. ~rolledBack' /\ ~Busy'
    BY <1>0, <1>1, <1>7 DEF Busy
  <2> QED BY <1>0, <1>7, <2>3, <2>4 DEF Noted, RowErrorsLeaveNothing
<1>24. Once'
  <2>1. \A k \in DOMAIN org : \E p \in 1..stepAt : InsertedBy(org[k].row, p)
    BY DEF LoadInv, Once
  <2>2. stepAt \in Nat
    BY <1>1, StepsAre
  <2>3. \A k \in DOMAIN org : \E p \in 1..stepAt' : InsertedBy(org[k].row, p) /\ (bulkPc' = "step" => p # stepAt')
    BY <1>7, <1>17, <2>1, <2>2
  <2>4. ~Busy'
    BY <1>7 DEF Busy
  <2>5. \A r, p : InsertedBy(r, p)' = InsertedBy(r, p)
    BY DEF InsertedBy
  <2>6. \A k, l \in DOMAIN org : org[k].row = org[l].row => k = l
    BY DEF LoadInv, Once
  <2> QED BY <1>0, <2>3, <2>4, <2>6 DEF Once, InsertedBy
<1>25. Sending'
  BY <1>7 DEF Sending, Busy
<1>26. Complete'
  <2> SUFFICES ASSUME LookupsInOrder, ~dataOption.ignore, bulkPc' = "step"
               PROVE  \A p \in DOMAIN Steps : p < stepAt' => StepIsFilled(p)'
    BY <1>0, <1>7 DEF Complete, Busy
  <2>1. Failures = {} /\ stepAt' = stepAt + 1 /\ idTable' = IF IsInsert THEN noted ELSE idTable
    BY <1>7
  <2>2. \A n \in DOMAIN LocalIds : ResultOf(n) # 0
    BY <1>8, <2>1
  <2>3. ResultsAreFilled /\ \A p \in DOMAIN Steps : p < stepAt => StepIsFilled(p)
    BY <1>1 DEF LoadInv, Complete
  <2>4. \A r \in Row : idTable'[r] = idTable[r] \/ (IsInsert /\ r \in Asked /\ idTable'[r] # 0)
    BY <1>4, <1>9, <2>1, <2>2 DEF JobIsAsked
  <2>5. Asked \subseteq Rows(Step.table) /\ (IsInsert => Asked = Rows(Step.table))
    BY DEF Asked
  <2>6. Step.table \in Table /\ Step.action \in {"insert", "update"} /\ Rows(Step.table) \subseteq Row
    BY <1>1, StepIs
  <2>8. ASSUME NEW p \in DOMAIN Steps, p < stepAt, NEW r \in Rows(Steps[p].table)
        PROVE  /\ Steps[p].action = "insert" => idTable'[r] # 0
               /\ Steps[p].action = "update" \/ After[Steps[p].table] = "" => Linked(r)'
    <3>1. Steps[p].table \in Table /\ Steps[p].action \in {"insert", "update"} /\ r \in Row
      BY StepsAre, RowsAre
    <3>2. StepIsFilled(p)
      BY <2>3, <2>8
    <3>3. CASE idTable'[r] = idTable[r]
      BY <1>0, <3>2, <3>3 DEF StepIsFilled, Linked
    <3>4. CASE IsInsert /\ r \in Asked /\ idTable'[r] # 0
      <4>1. Steps[p].table = Step.table
        BY <2>5, <2>6, <3>1, <3>4, RowsAre
      <4>2. Inserts(stepAt, Step.table) /\ p # stepAt
        <5>1. stepAt \in Nat /\ p \in Nat
          BY <1>1, StepsAre
        <5> QED BY <2>8, <3>4, <5>1 DEF Inserts, IsInsert, Step
      <4>3. Steps[p].action = "update"
        <5>1. ASSUME Inserts(p, Step.table) PROVE FALSE
          BY <1>1, <2>6, <4>2, <5>1, InsertedOnce
        <5> QED BY <3>1, <4>1, <5>1 DEF Inserts
      <4>4. ASSUME Ref[r] # NoRow PROVE FALSE
        <5>1. PICK u \in Table : Ref[r] \in Rows(u)
          BY <3>1, <4>4, RowsAre
        <5>2. Updates(p, Step.table)
          BY <4>1, <4>3 DEF Updates
        <5>3. stepAt < p
          BY <1>1, <2>5, <2>6, <3>4, <4>2, <5>1, <5>2, UpdatesInOrder
        <5>4. stepAt \in Nat /\ p \in Nat
          BY <1>1, StepsAre
        <5> QED BY <2>8, <5>3, <5>4
      <4> QED BY <3>4, <4>4 DEF Linked
    <3> QED BY <2>4, <3>1, <3>3, <3>4
  <2>9. ASSUME NEW r \in Rows(Step.table)
        PROVE  /\ IsInsert => idTable'[r] # 0
               /\ ~IsInsert \/ After[Step.table] = "" => Linked(r)'
    <3>1. ASSUME r \in Asked
          PROVE  \E i \in DOMAIN batches : \E j \in DOMAIN batches[i].rows :
                   /\ batches[i].rows[j] = r /\ batches[i].results[j] # 0
                   /\ IsInsert => batches[i].results[j] = idTable'[r]
      <4>1. PICK n \in DOMAIN LocalIds : LocalIds[n] = r /\ (IsInsert => idTable'[r] = ResultOf(n))
        BY <1>4, <1>9, <2>1, <2>6, <3>1 DEF JobIsAsked
      <4>2. PICK i \in DOMAIN batches : \E j \in DOMAIN batches[i].rows :
              LocalIds[n] = batches[i].rows[j] /\ ResultOf(n) = batches[i].results[j]
        BY <1>2
      <4>3. PICK j \in DOMAIN batches[i].rows :
              LocalIds[n] = batches[i].rows[j] /\ ResultOf(n) = batches[i].results[j]
        BY <4>2
      <4> QED BY <2>2, <4>1, <4>3
    <3>2. IsInsert => idTable'[r] # 0
      BY <2>5, <3>1
    <3>3. ASSUME ~IsInsert \/ After[Step.table] = "", Ref[r] # NoRow
          PROVE  idTable'[r] # 0 /\ org[idTable'[r]].ref # 0
      <4>1. r \in Asked
        <5>1. LookupId(r) # 0
          BY <1>1, <3>3, LookupIsThere
        <5> QED BY <5>1 DEF Asked
      <4>2. PICK i \in DOMAIN batches : \E j \in DOMAIN batches[i].rows :
              /\ batches[i].rows[j] = r /\ batches[i].results[j] # 0
              /\ IsInsert => batches[i].results[j] = idTable'[r]
        BY <3>1, <4>1
      <4>3. PICK j \in DOMAIN batches[i].rows :
              /\ batches[i].rows[j] = r /\ batches[i].results[j] # 0
              /\ IsInsert => batches[i].results[j] = idTable'[r]
        BY <4>2
      <4>4. batches[i].state = "Completed"
        BY <1>1
      <4>5. ~IsInsert => batches[i].results[j] = idTable[r]
        BY <2>3, <4>3, <4>4 DEF ResultsAreFilled
      <4>6. batches[i].results[j] = idTable'[r]
        BY <2>1, <4>3, <4>5
      <4>7. org[batches[i].results[j]].ref # 0
        BY <2>3, <3>3, <4>3, <4>4 DEF ResultsAreFilled
      <4> QED BY <4>3, <4>6, <4>7
    <3> QED BY <1>0, <3>2, <3>3 DEF Linked
  <2>10. ASSUME NEW p \in DOMAIN Steps, p < stepAt + 1 PROVE StepIsFilled(p)'
    <3>1. p \in Nat /\ stepAt \in Nat
      BY <1>1, StepsAre
    <3>2. CASE p < stepAt
      BY <2>8, <3>2 DEF StepIsFilled
    <3>3. CASE p = stepAt
      BY <2>6, <2>9, <3>3 DEF StepIsFilled, Step, IsInsert
    <3> QED BY <2>10, <3>1, <3>2, <3>3
  <2> QED BY <2>1, <2>10
<1> QED BY <1>15, <1>16, <1>18, <1>19, <1>20, <1>21, <1>22, <1>23, <1>24, <1>25, <1>26 DEF LoadInv, Typed

\* A batch is posted, a chunk sent, or a batch handled by the server: b is what it becomes.
Apart(rows, i) ==
  /\ IsInjective(unsent') /\ IsInjective(rows) /\ ToSet(rows) \cap ToSet(unsent') = {}
  /\ \A k \in DOMAIN batches \ {i} : ToSet(rows) \cap ToSet(batches[k].rows) = {}
  /\ \A k \in DOMAIN org : org[k].row \notin ToSet(rows)

\* The rows of b are the batch already there or the next of what is unsent.
Books(i, b) ==
  /\ batches' \in Seq(BatchSet) /\ DOMAIN batches' = DOMAIN batches \cup {i} /\ batches'[i] = b
  /\ \A k \in DOMAIN batches \ {i} : batches'[k] = batches[k]
  /\ b \in BatchSet /\ Len(b.rows) <= BatchRows
  /\ i \in DOMAIN batches => batches[i].state = "Queued"
  /\ unsent' \in Seq(Row) /\ ToSet(unsent') \subseteq ToSet(unsent) /\ (unsent = <<>> => unsent' = <<>>)
  /\ ToSet(b.rows) \subseteq Asked
  /\ ToSet(unsent') \cup UNION {ToSet(batches'[k].rows) : k \in DOMAIN batches'} = Asked
  /\ IsInsert => Apart(b.rows, i)

\* Either b is not completed and the org is as it was, or its results are what was done.
Served(b) ==
  \/ b.state # "Completed" /\ b.results = <<>> /\ org' = org
  \/ b.state = "Completed" /\ Effect(b.rows, org', b.results) /\ Loads(b.rows, org', b.results)

\* One description of the three actions that handle a batch.
Handles(i, b) ==
  /\ bulkPc \in {"sending", "wait"} /\ Books(i, b) /\ Served(b)
  /\ UNCHANGED <<bulkPc, dataOption, stepAt, dataApi, idTable, insertTable, upsertTable, jobStatus, rolledBack>>

\* What such an action makes of the org.
GrownBy(b) ==
  /\ org' \in Seq(Record) /\ DOMAIN org \subseteq DOMAIN org' /\ Len(org) <= Len(org')
  /\ \A k \in DOMAIN org : org'[k].row = org[k].row /\ (org[k].ref # 0 => org'[k].ref # 0)
  /\ \A k \in DOMAIN org' : /\ org'[k].ref \in 0..Len(org')
                            /\ org'[k].ref # 0 => org'[org'[k].ref].row = Ref[org'[k].row]
  /\ \A k \in DOMAIN org' :
       k \in DOMAIN org \/ (IsInsert /\ b.state = "Completed" /\ \E j \in DOMAIN b.rows : b.results[j] = k)
  /\ b.results \in Seq(0..Len(org'))
  /\ IF b.state = "Completed"
     THEN /\ Len(b.results) = Len(b.rows)
          /\ \A j \in DOMAIN b.rows : b.results[j] # 0 => org'[b.results[j]].row = b.rows[j]
     ELSE b.results = <<>>

\* While a job is under way its step is one of the load.
LEMMA BusyIs ==
  ASSUME LoadInv, Busy
  PROVE  stepAt \in DOMAIN Steps /\ Sound /\ ~rolledBack /\ Rows(Step.table) \subseteq Row /\ Step.table \in Table
<1>1. stepAt \in DOMAIN Steps
  BY DEF LoadInv, Typed, Placing
<1>2. ~rolledBack
  BY DEF LoadInv, Noted, Busy
<1>3. Sound
  BY <1>1 DEF LoadInv, Typed, Recorded, Right, Sound
<1> QED BY <1>1, <1>2, <1>3, StepIs

\* The org grows by what the batch did.
LEMMA HandlesGrows ==
  ASSUME LoadInv, NEW i, NEW b, Handles(i, b)
  PROVE  GrownBy(b)
<1>1. Busy
  BY DEF Handles, Busy
<1>2. Len(org) \in Nat /\ DOMAIN org = 1..Len(org) /\ org \in Seq(Record)
  BY OrgIs DEF LoadInv, Typed, Recorded
<1>3. \A k \in DOMAIN org : /\ org[k].ref \in 0..Len(org)
                            /\ org[k].ref # 0 => org[k].ref \in DOMAIN org /\ org[org[k].ref].row = Ref[org[k].row]
  BY OrgIs DEF LoadInv, Typed, Recorded, Right, LookupsAreRight
<1>4. b \in BatchSet /\ ToSet(b.rows) \subseteq Asked
  BY DEF Handles, Books
<1>5. CASE b.state # "Completed" /\ b.results = <<>> /\ org' = org
  <2>1. b.results \in Seq(0..Len(org'))
    BY <1>5
  <2> QED BY <1>2, <1>3, <1>5, <2>1 DEF GrownBy
<1>6. CASE b.state = "Completed" /\ Effect(b.rows, org', b.results) /\ Loads(b.rows, org', b.results)
  <2>1. /\ org' \in Seq(Record) /\ Len(org) <= Len(org') /\ \A k \in DOMAIN org' : org'[k].ref \in 0..Len(org)
        /\ b.results \in Seq(0..Len(org')) /\ Len(b.results) = Len(b.rows)
    BY <1>6 DEF Effect
  <2>2. \A k \in DOMAIN org : org'[k].row = org[k].row
    BY <1>6 DEF Effect
  <2>3. \A k \in DOMAIN org' : org'[k].ref # 0 => org[org'[k].ref].row = Ref[org'[k].row]
    BY <1>6 DEF Effect
  <2>4. \A j \in DOMAIN b.rows : b.results[j] # 0 => org'[b.results[j]].row = b.rows[j]
    BY <1>6 DEF Effect
  <2>5. \A k \in DOMAIN org' : k \in DOMAIN org \/ (IsInsert /\ \E j \in DOMAIN b.rows : b.results[j] = k)
    BY <1>6 DEF Effect
  <2>6. DOMAIN org' = 1..Len(org') /\ Len(org') \in Nat
    BY <2>1
  <2>7. DOMAIN org \subseteq DOMAIN org'
    BY <1>2, <2>1, <2>6
  <2>8. \A k \in DOMAIN org' : /\ org'[k].ref \in 0..Len(org')
                               /\ org'[k].ref # 0 => org'[k].ref \in DOMAIN org
    BY <1>2, <2>1, <2>6
  <2>9. \A k \in DOMAIN org' : org'[k].ref # 0 => org'[org'[k].ref].row = Ref[org'[k].row]
    BY <2>2, <2>3, <2>8
  <2>10. \A j \in DOMAIN b.rows : b.rows[j] \in Asked
    BY <1>4 DEF ToSet
  <2>11. ~IsInsert => \A j \in DOMAIN b.rows : LookupId(b.rows[j]) # 0
    BY <2>10 DEF Asked
  <2>12. \A k \in DOMAIN org : org[k].ref # 0 => org'[k].ref # 0
    BY <1>6, <2>11 DEF Loads
  <2> QED BY <1>6, <2>1, <2>2, <2>4, <2>5, <2>7, <2>8, <2>9, <2>12 DEF GrownBy
<1> QED BY <1>5, <1>6 DEF Handles, Served

\* The parts of the invariant, one by one, after a batch is handled.
LEMMA HandlesTyped ==
  ASSUME LoadInv, NEW i, NEW b, Handles(i, b), GrownBy(b)
  PROVE  Typed' /\ Aligned' /\ Right' /\ Known'
<1>1. Busy
  BY DEF Handles, Busy
<1>2. /\ bulkPc \in {"sending", "wait"} /\ Books(i, b)
      /\ UNCHANGED <<bulkPc, dataOption, stepAt, dataApi, idTable, insertTable, upsertTable, jobStatus, rolledBack>>
  BY DEF Handles
<1>3. /\ batches' \in Seq(BatchSet) /\ DOMAIN batches' = DOMAIN batches \cup {i} /\ batches'[i] = b
      /\ \A k \in DOMAIN batches \ {i} : batches'[k] = batches[k]
      /\ b \in BatchSet /\ Len(b.rows) <= BatchRows
      /\ i \in DOMAIN batches => batches[i].state = "Queued"
      /\ unsent' \in Seq(Row) /\ (unsent = <<>> => unsent' = <<>>)
  BY <1>2 DEF Books
<1>4. /\ org' \in Seq(Record) /\ DOMAIN org \subseteq DOMAIN org' /\ Len(org) <= Len(org')
      /\ \A k \in DOMAIN org : org'[k].row = org[k].row
      /\ Len(org) \in Nat /\ Len(org') \in Nat /\ DOMAIN org = 1..Len(org)
  BY OrgIs DEF GrownBy
<1>5. \A k \in DOMAIN org' : /\ org'[k].ref \in 0..Len(org')
                             /\ org'[k].ref # 0 => org'[org'[k].ref].row = Ref[org'[k].row]
  BY DEF GrownBy
<1>6. b.results \in Seq(0..Len(org'))
  BY DEF GrownBy
<1>7. 0..Len(org) \subseteq 0..Len(org')
  BY <1>4
<1>8. Recorded'
  <2>1. idTable \in [Row -> 0..Len(org')]
    BY <1>7 DEF LoadInv, Typed, Recorded
  <2>2. insertTable \subseteq DOMAIN org' /\ \A u \in upsertTable : u.id \in DOMAIN org' /\ u.ref \in 0..Len(org')
    BY <1>4, <1>7 DEF LoadInv, Typed, Recorded
  <2> QED BY <1>2, <1>4, <1>5, <2>1, <2>2 DEF Recorded
<1>9. Filed'
  <2>1. ASSUME NEW k \in DOMAIN batches' PROVE Len(batches'[k].rows) <= BatchRows /\ batches'[k].results \in Seq(0..Len(org'))
    <3>1. CASE k = i
      BY <1>3, <1>6, <3>1
    <3>2. CASE k # i
      <4>1. k \in DOMAIN batches /\ batches'[k] = batches[k]
        BY <1>3, <3>2
      <4>2. Len(batches[k].rows) <= BatchRows /\ batches[k].results \in Seq(0..Len(org))
        BY <4>1, BatchIs
      <4>3. batches[k].results \in Seq(0..Len(org'))
        <5>1. PICK s \in Seq(0..Len(org)) : s = batches[k].results
          BY <4>2
        <5>2. s \in [1..Len(s) -> 0..Len(org')] /\ Len(s) \in Nat
          BY <1>7
        <5>3. s \in Seq(0..Len(org'))
          BY <5>2, SeqIs
        <5> QED BY <5>1, <5>3
      <4> QED BY <4>1, <4>2, <4>3
    <3> QED BY <3>1, <3>2
  <2> QED BY <1>3, <2>1 DEF Filed
<1>10. Chosen'
  BY <1>2 DEF LoadInv, Typed, Chosen
<1>11. Placing'
  BY <1>1, <1>2, <1>3 DEF LoadInv, Typed, Placing, Busy
<1>12. Aligned'
  <2> SUFFICES ASSUME NEW k \in DOMAIN batches'
               PROVE  IF batches'[k].state = "Completed"
                      THEN /\ Len(batches'[k].results) = Len(batches'[k].rows)
                           /\ \A j \in DOMAIN batches'[k].rows : batches'[k].results[j] # 0 =>
                                org'[batches'[k].results[j]].row = batches'[k].rows[j]
                      ELSE batches'[k].results = <<>>
    BY DEF Aligned
  <2>1. CASE k = i
    BY <1>3, <2>1 DEF GrownBy
  <2>2. CASE k # i
    <3>1. k \in DOMAIN batches /\ batches'[k] = batches[k]
      BY <1>3, <2>2
    <3>2. CASE batches[k].state = "Completed"
      <4>1. ASSUME NEW j \in DOMAIN batches[k].rows, batches[k].results[j] # 0
            PROVE  org'[batches[k].results[j]].row = batches[k].rows[j]
        <5>1. batches[k].results[j] \in DOMAIN org /\ org[batches[k].results[j]].row = batches[k].rows[j]
          BY <3>1, <3>2, <4>1, ResultIs
        <5> QED BY <1>4, <5>1
      <4> QED BY <3>1, <3>2, <4>1 DEF LoadInv, Aligned
    <3>3. CASE batches[k].state # "Completed"
      BY <3>1, <3>3 DEF LoadInv, Aligned
    <3> QED BY <3>2, <3>3
  <2> QED BY <2>1, <2>2
<1>13. Right'
  <2>1. \A r \in Row : idTable[r] # 0 => idTable[r] \in DOMAIN org /\ org[idTable[r]].row = r
    BY OrgIs DEF LoadInv, Right, LookupsAreRight
  <2>2. LookupsAreRight'
    BY <1>2, <1>4, <1>5, <2>1 DEF LookupsAreRight
  <2>3. \A u \in upsertTable : /\ u.id \in DOMAIN org /\ (u.ref # 0 => u.ref \in DOMAIN org)
                               /\ u.ref # 0 => org[u.ref].row = Ref[org[u.id].row]
    BY <1>4 DEF LoadInv, Typed, Recorded, Right
  <2>4. \A u \in upsertTable : u.ref # 0 => org'[u.ref].row = Ref[org'[u.id].row]
    BY <1>4, <2>3
  <2> QED BY <1>2, <2>2, <2>4 DEF Right
<1>14. Known'
  BY <1>2 DEF Known, NothingStillRuns
<1> QED BY <1>8, <1>9, <1>10, <1>11, <1>12, <1>13, <1>14 DEF Typed

\* Its records are noted by its results;
LEMMA HandlesNoted ==
  ASSUME LoadInv, NEW i, NEW b, Handles(i, b), GrownBy(b)
  PROVE  Noted'
<1>1. /\ bulkPc \in {"sending", "wait"} /\ Books(i, b)
      /\ UNCHANGED <<bulkPc, dataOption, stepAt, dataApi, idTable, insertTable, upsertTable, jobStatus, rolledBack>>
  BY DEF Handles
<1>2. Busy /\ ~rolledBack
  BY <1>1, BusyIs DEF Busy
<1>3. /\ DOMAIN batches' = DOMAIN batches \cup {i} /\ batches'[i] = b
      /\ \A k \in DOMAIN batches \ {i} : batches'[k] = batches[k]
      /\ i \in DOMAIN batches => batches[i].state = "Queued"
  BY <1>1 DEF Books
<1>4. IsInsert' = IsInsert
  BY <1>1 DEF IsInsert, Step
<1>5. ASSUME NEW k, IsResult(k) PROVE IsResult(k)'
  <2>1. PICK l \in DOMAIN batches : \E j \in DOMAIN batches[l].rows :
          batches[l].state = "Completed" /\ batches[l].results[j] = k
    BY <1>5 DEF IsResult
  <2>2. l # i /\ l \in DOMAIN batches' /\ batches'[l] = batches[l]
    BY <1>3, <2>1
  <2> QED BY <1>4, <1>5, <2>1, <2>2 DEF IsResult
<1>6. ASSUME NEW k \in DOMAIN org', dataOption.rollback PROVE k \in insertTable \/ IsResult(k)'
  <2>1. CASE k \in DOMAIN org
    <3>1. k \in insertTable \/ IsResult(k)
      BY <1>2, <1>6, <2>1 DEF LoadInv, Noted
    <3> QED BY <1>5, <3>1
  <2>2. CASE k \notin DOMAIN org
    <3>1. IsInsert /\ b.state = "Completed" /\ \E j \in DOMAIN b.rows : b.results[j] = k
      BY <2>2 DEF GrownBy
    <3> QED BY <1>3, <1>4, <3>1 DEF IsResult
  <2> QED BY <2>1, <2>2
<1>7. bulkPc' \in {"sending", "wait"} /\ ~rolledBack' /\ dataOption' = dataOption /\ insertTable' = insertTable
  BY <1>1, <1>2
<1>8. RowErrorsLeaveNothing'
  BY <1>7 DEF RowErrorsLeaveNothing
<1> QED BY <1>6, <1>7, <1>8 DEF Noted

\* its rows are those of the step;
LEMMA HandlesSends ==
  ASSUME LoadInv, NEW i, NEW b, Handles(i, b)
  PROVE  Sending'
<1>1. UNCHANGED <<bulkPc, stepAt, idTable>> /\ Books(i, b)
  BY DEF Handles
<1>2. Asked' = Asked
  BY <1>1 DEF Asked, IsInsert, Step, LookupId
<1> QED BY <1>2, <1>1 DEF Sending, Books

\* none of them was inserted before;
LEMMA HandlesOnce ==
  ASSUME LoadInv, NEW i, NEW b, Handles(i, b), GrownBy(b)
  PROVE  Once'
<1>1. /\ bulkPc \in {"sending", "wait"} /\ Books(i, b)
      /\ UNCHANGED <<bulkPc, dataOption, stepAt, dataApi, idTable, insertTable, upsertTable, jobStatus, rolledBack>>
  BY DEF Handles
<1>2. Busy /\ stepAt \in DOMAIN Steps
  BY <1>1, BusyIs DEF Busy
<1>3. /\ DOMAIN batches' = DOMAIN batches \cup {i} /\ batches'[i] = b
      /\ \A k \in DOMAIN batches \ {i} : batches'[k] = batches[k]
      /\ ToSet(unsent') \subseteq ToSet(unsent) /\ ToSet(b.rows) \subseteq Asked
      /\ IsInsert => Apart(b.rows, i)
  BY <1>1 DEF Books
<1>4. IsInsert' = IsInsert /\ \A r, p : InsertedBy(r, p)' = InsertedBy(r, p)
  BY <1>1 DEF IsInsert, Step, InsertedBy
<1>5. /\ DOMAIN org \subseteq DOMAIN org' /\ \A k \in DOMAIN org : org'[k].row = org[k].row
      /\ 0 \notin DOMAIN org' /\ DOMAIN org' \subseteq Nat
  <2>1. org' \in Seq(Record)
    BY DEF GrownBy
  <2>2. 0 \notin DOMAIN org' /\ DOMAIN org' \subseteq Nat
    BY <2>1
  <2> QED BY <2>2 DEF GrownBy
<1>6. \A k \in DOMAIN org' \ DOMAIN org :
        IsInsert /\ \E j \in DOMAIN b.rows : b.results[j] = k /\ org'[k].row = b.rows[j]
  <2> SUFFICES ASSUME NEW k \in DOMAIN org' \ DOMAIN org
               PROVE  IsInsert /\ \E j \in DOMAIN b.rows : b.results[j] = k /\ org'[k].row = b.rows[j]
    OBVIOUS
  <2>1. IsInsert /\ b.state = "Completed" /\ \E j \in DOMAIN b.rows : b.results[j] = k
    BY DEF GrownBy
  <2>2. PICK j \in DOMAIN b.rows : b.results[j] = k
    BY <2>1
  <2>3. org'[k].row = b.rows[j]
    BY <1>5, <2>1, <2>2 DEF GrownBy
  <2> QED BY <2>1, <2>2, <2>3
<1>7. \A k \in DOMAIN org' \ DOMAIN org : IsInsert /\ org'[k].row \in ToSet(b.rows)
  BY <1>6 DEF ToSet
<1>8. ASSUME NEW k \in DOMAIN org', NEW l \in DOMAIN org', org'[k].row = org'[l].row PROVE k = l
  <2>1. CASE k \in DOMAIN org /\ l \in DOMAIN org
    <3>1. org[k].row = org[l].row
      BY <1>5, <1>8, <2>1
    <3> QED BY <2>1, <3>1 DEF LoadInv, Once
  <2>2. CASE k \in DOMAIN org /\ l \notin DOMAIN org
    <3>1. org[k].row \in ToSet(b.rows) /\ IsInsert
      BY <1>5, <1>7, <1>8, <2>2
    <3> QED BY <1>3, <2>2, <3>1 DEF Apart
  <2>3. CASE k \notin DOMAIN org /\ l \in DOMAIN org
    <3>1. org[l].row \in ToSet(b.rows) /\ IsInsert
      BY <1>5, <1>7, <1>8, <2>3
    <3> QED BY <1>3, <2>3, <3>1 DEF Apart
  <2>4. CASE k \notin DOMAIN org /\ l \notin DOMAIN org
    <3>1. IsInsert
      BY <1>7, <2>4
    <3>2. PICK j \in DOMAIN b.rows : b.results[j] = k /\ org'[k].row = b.rows[j]
      BY <1>6, <2>4
    <3>3. PICK m \in DOMAIN b.rows : b.results[m] = l /\ org'[l].row = b.rows[m]
      BY <1>6, <2>4
    <3>4. j = m
      BY <1>3, <1>8, <3>1, <3>2, <3>3 DEF Apart, IsInjective
    <3> QED BY <3>2, <3>3, <3>4
  <2> QED BY <2>1, <2>2, <2>3, <2>4
<1>9. ASSUME NEW k \in DOMAIN org' PROVE \E p \in 1..stepAt : InsertedBy(org'[k].row, p)
  <2>1. CASE k \in DOMAIN org
    BY <1>5, <2>1 DEF LoadInv, Once
  <2>2. CASE k \notin DOMAIN org
    <3>1. IsInsert /\ org'[k].row \in Asked
      BY <1>3, <1>7, <2>2
    <3>2. InsertedBy(org'[k].row, stepAt)
      BY <1>2, <3>1 DEF Asked, InsertedBy, IsInsert, Step
    <3>3. stepAt \in 1..stepAt
      BY <1>2, StepsAre
    <3> QED BY <3>2, <3>3
  <2> QED BY <2>1, <2>2
<1>10. ASSUME IsInsert
       PROVE  /\ IsInjective(unsent')
              /\ \A k \in DOMAIN batches' : IsInjective(batches'[k].rows)
              /\ \A k \in DOMAIN batches' : ToSet(batches'[k].rows) \cap ToSet(unsent') = {}
              /\ \A k, l \in DOMAIN batches' : k # l => ToSet(batches'[k].rows) \cap ToSet(batches'[l].rows) = {}
  <2>1. /\ \A k \in DOMAIN batches : IsInjective(batches[k].rows)
        /\ \A k \in DOMAIN batches : ToSet(batches[k].rows) \cap ToSet(unsent) = {}
        /\ \A k, l \in DOMAIN batches : k # l => ToSet(batches[k].rows) \cap ToSet(batches[l].rows) = {}
    BY <1>2, <1>10 DEF LoadInv, Once
  <2>2. IsInjective(unsent') /\ IsInjective(b.rows) /\ ToSet(b.rows) \cap ToSet(unsent') = {}
        /\ \A k \in DOMAIN batches \ {i} : ToSet(b.rows) \cap ToSet(batches[k].rows) = {}
    BY <1>3, <1>10 DEF Apart
  <2>3. \A k \in DOMAIN batches' : k = i \/ (k \in DOMAIN batches \ {i} /\ batches'[k] = batches[k])
    BY <1>3
  <2>4. \A k \in DOMAIN batches' : IsInjective(batches'[k].rows)
    BY <1>3, <2>1, <2>2, <2>3
  <2>5. \A k \in DOMAIN batches' : ToSet(batches'[k].rows) \cap ToSet(unsent') = {}
    BY <1>3, <2>1, <2>2, <2>3
  <2>6. ASSUME NEW k \in DOMAIN batches', NEW l \in DOMAIN batches', k # l
        PROVE  ToSet(batches'[k].rows) \cap ToSet(batches'[l].rows) = {}
    <3>1. CASE k = i
      <4>1. l \in DOMAIN batches \ {i} /\ batches'[l] = batches[l]
        BY <2>3, <2>6, <3>1
      <4> QED BY <1>3, <2>2, <3>1, <4>1
    <3>2. CASE k # i /\ l = i
      <4>1. k \in DOMAIN batches \ {i} /\ batches'[k] = batches[k]
        BY <2>3, <3>2
      <4>2. ToSet(b.rows) \cap ToSet(batches[k].rows) = {}
        BY <2>2, <4>1
      <4> QED BY <1>3, <3>2, <4>1, <4>2
    <3>3. CASE k # i /\ l # i
      BY <2>1, <2>3, <2>6, <3>3
    <3> QED BY <3>1, <3>2, <3>3
  <2> QED BY <2>2, <2>4, <2>5, <2>6
<1>11. ASSUME IsInsert, NEW k \in DOMAIN org' PROVE org'[k].row \notin ToSet(unsent')
  <2>1. CASE k \in DOMAIN org
    <3>1. org[k].row \notin ToSet(unsent)
      BY <1>2, <1>11, <2>1 DEF LoadInv, Once
    <3> QED BY <1>3, <1>5, <2>1, <3>1
  <2>2. CASE k \notin DOMAIN org
    BY <1>3, <1>7, <1>11, <2>2 DEF Apart
  <2> QED BY <2>1, <2>2
<1>12. ASSUME IsInsert, NEW k \in DOMAIN org', NEW l \in DOMAIN batches', batches'[l].state = "Queued"
       PROVE  org'[k].row \notin ToSet(batches'[l].rows)
  <2>1. CASE l = i
    <3>1. b.state = "Queued"
      BY <1>3, <1>12, <2>1
    <3>2. k \in DOMAIN org
      BY <3>1 DEF GrownBy
    <3> QED BY <1>3, <1>5, <1>12, <2>1, <3>2 DEF Apart
  <2>2. CASE l # i
    <3>1. l \in DOMAIN batches \ {i} /\ batches'[l] = batches[l]
      BY <1>3, <2>2
    <3>2. CASE k \in DOMAIN org
      <4>1. org[k].row \notin ToSet(batches[l].rows)
        BY <1>2, <1>12, <3>1, <3>2 DEF LoadInv, Once
      <4> QED BY <1>5, <3>1, <3>2, <4>1
    <3>3. CASE k \notin DOMAIN org
      <4>1. org'[k].row \in ToSet(b.rows)
        BY <1>7, <3>3
      <4>2. ToSet(b.rows) \cap ToSet(batches[l].rows) = {}
        BY <1>3, <1>12, <3>1 DEF Apart
      <4> QED BY <3>1, <4>1, <4>2
    <3> QED BY <3>2, <3>3
  <2> QED BY <2>1, <2>2
<1>13. \A k \in DOMAIN org' : \E p \in 1..stepAt' : InsertedBy(org'[k].row, p) /\ (bulkPc' = "step" => p # stepAt')
  BY <1>1, <1>9
<1> HIDE DEF Apart, Books
<1> QED BY <1>4, <1>8, <1>10, <1>11, <1>12, <1>13 DEF Once, InsertedBy

\* and each result has its lookups loaded.
LEMMA HandlesFills ==
  ASSUME LoadInv, NEW i, NEW b, Handles(i, b), GrownBy(b)
  PROVE  Complete'
<1>1. /\ bulkPc \in {"sending", "wait"} /\ Books(i, b) /\ Served(b)
      /\ UNCHANGED <<bulkPc, dataOption, stepAt, dataApi, idTable, insertTable, upsertTable, jobStatus, rolledBack>>
  BY DEF Handles
<1>2. Busy /\ stepAt \in DOMAIN Steps /\ Rows(Step.table) \subseteq Row
  BY <1>1, BusyIs DEF Busy
<1>3. /\ DOMAIN batches' = DOMAIN batches \cup {i} /\ batches'[i] = b
      /\ \A k \in DOMAIN batches \ {i} : batches'[k] = batches[k]
      /\ ToSet(b.rows) \subseteq Asked
  BY <1>1 DEF Books
<1>4. IsInsert' = IsInsert /\ Step' = Step
  BY <1>1 DEF IsInsert, Step
<1>5. \A k \in DOMAIN org : org[k].ref # 0 => org'[k].ref # 0
  BY DEF GrownBy
<1> SUFFICES ASSUME LookupsInOrder, ~dataOption.ignore
             PROVE  ResultsAreFilled' /\ \A p \in DOMAIN Steps : p < stepAt => StepIsFilled(p)'
  BY <1>1 DEF Complete
<1>6. ResultsAreFilled /\ \A p \in DOMAIN Steps : p < stepAt => StepIsFilled(p)
  BY <1>2 DEF LoadInv, Complete
<1>7. ASSUME NEW p \in DOMAIN Steps, p < stepAt PROVE StepIsFilled(p)'
  <2>1. \A r \in Rows(Steps[p].table) : Linked(r) => Linked(r)'
    <3> SUFFICES ASSUME NEW r \in Rows(Steps[p].table), Linked(r), Ref[r] # NoRow
                 PROVE  idTable'[r] # 0 /\ org'[idTable'[r]].ref # 0
      BY DEF Linked
    <3>1. idTable[r] # 0 /\ org[idTable[r]].ref # 0 /\ idTable' = idTable
      BY <1>1 DEF Linked
    <3>2. r \in Row
      BY StepsAre, RowsAre
    <3> QED BY <1>5, <3>1, <3>2, OrgIs
  <2> QED BY <1>1, <1>6, <1>7, <2>1 DEF StepIsFilled
<1>8. ASSUME NEW k \in DOMAIN batches', batches'[k].state = "Completed",
             NEW j \in DOMAIN batches'[k].rows, batches'[k].results[j] # 0
      PROVE  /\ ~IsInsert => batches'[k].results[j] = idTable[batches'[k].rows[j]]
             /\ ~IsInsert \/ After[Step.table] = "" =>
                  (Ref[batches'[k].rows[j]] # NoRow => org'[batches'[k].results[j]].ref # 0)
  <2>1. CASE k = i
    <3>1. Loads(b.rows, org', b.results)
      BY <1>1, <1>3, <1>8, <2>1 DEF Served
    <3>2. j \in DOMAIN b.rows /\ b.results[j] # 0
      BY <1>3, <1>8, <2>1
    <3>3. b.rows[j] \in Asked
      BY <1>3, <3>2 DEF ToSet
    <3>4. ~IsInsert => b.results[j] = idTable[b.rows[j]]
      BY <3>1, <3>2 DEF Loads
    <3>5. ASSUME ~IsInsert \/ After[Step.table] = "", Ref[b.rows[j]] # NoRow PROVE org'[b.results[j]].ref # 0
      <4>1. org'[b.results[j]].ref = LookupId(b.rows[j])
        BY <3>1, <3>2, <3>5 DEF Loads
      <4>2. b.rows[j] \in Rows(Step.table)
        BY <3>3 DEF Asked
      <4>3. LookupId(b.rows[j]) # 0
        BY <1>2, <3>5, <4>2, LookupIsThere
      <4> QED BY <4>1, <4>3
    <3> QED BY <1>3, <2>1, <3>4, <3>5
  <2>2. CASE k # i
    <3>1. k \in DOMAIN batches /\ batches'[k] = batches[k]
      BY <1>3, <2>2
    <3>2. batches[k].results[j] \in DOMAIN org
      BY <1>8, <3>1, ResultIs
    <3>3. /\ ~IsInsert => batches[k].results[j] = idTable[batches[k].rows[j]]
          /\ ~IsInsert \/ After[Step.table] = "" =>
               (Ref[batches[k].rows[j]] # NoRow => org[batches[k].results[j]].ref # 0)
      BY <1>6, <1>8, <3>1 DEF ResultsAreFilled
    <3> QED BY <1>5, <3>1, <3>2, <3>3
  <2> QED BY <2>1, <2>2
<1>9. ResultsAreFilled'
  BY <1>1, <1>4, <1>8 DEF ResultsAreFilled
<1> QED BY <1>7, <1>9

\* Together: handling a batch keeps the invariant.
LEMMA HandlesKeeps ==
  ASSUME LoadInv, NEW i, NEW b, Handles(i, b)
  PROVE  LoadInv'
<1>1. GrownBy(b)
  BY HandlesGrows
<1>2. Typed' /\ Aligned' /\ Right' /\ Known'
  BY <1>1, HandlesTyped
<1>3. Noted' /\ Once' /\ Complete'
  BY <1>1, HandlesNoted, HandlesOnce, HandlesFills
<1> QED BY <1>2, <1>3, HandlesSends DEF LoadInv

\* What a sequence is after an Append.
LEMMA AppendIs ==
  ASSUME NEW S, NEW s \in Seq(S), NEW x \in S
  PROVE  /\ Append(s, x) \in Seq(S) /\ DOMAIN Append(s, x) = DOMAIN s \cup {Len(s) + 1}
         /\ Len(s) + 1 \notin DOMAIN s /\ Append(s, x)[Len(s) + 1] = x
         /\ \A k \in DOMAIN s : Append(s, x)[k] = s[k]
<1>1. Len(s) \in Nat /\ DOMAIN s = 1..Len(s)
  OBVIOUS
<1>2. Append(s, x) \in Seq(S) /\ Len(Append(s, x)) = Len(s) + 1
  OBVIOUS
<1>3. DOMAIN Append(s, x) = 1..(Len(s) + 1)
  BY <1>2
<1>4. 1..(Len(s) + 1) = DOMAIN s \cup {Len(s) + 1}
  BY <1>1
<1> QED BY <1>1, <1>2, <1>3, <1>4

\* The next batch has rows that were still unsent.
LEMMA NextBooks ==
  ASSUME LoadInv, bulkPc = "sending", unsent # <<>>, NEW b \in BatchSet, b.rows = NextRows,
         batches' = Append(batches, b), unsent' = Rest
  PROVE  Books(Len(batches) + 1, b)
<1> DEFINE n == Len(batches) + 1
<1>1. Busy /\ stepAt \in DOMAIN Steps
  BY BusyIs DEF Busy
<1>2. unsent \in Seq(Row) /\ batches \in Seq(BatchSet)
  BY DEF LoadInv, Typed, Filed
<1>3. /\ NextRows \in Seq(Row) /\ Len(NextRows) <= BatchRows /\ Rest \in Seq(Row)
      /\ ToSet(unsent) = ToSet(NextRows) \cup ToSet(Rest)
      /\ IsInjective(unsent) =>
           IsInjective(NextRows) /\ IsInjective(Rest) /\ ToSet(NextRows) \cap ToSet(Rest) = {}
  BY <1>2, NextIs
<1>4. /\ batches' \in Seq(BatchSet) /\ DOMAIN batches' = DOMAIN batches \cup {n} /\ batches'[n] = b
      /\ n \notin DOMAIN batches /\ \A k \in DOMAIN batches : batches'[k] = batches[k]
  BY <1>2, AppendIs
<1> HIDE DEF n
<1>5. ToSet(unsent) \cup UNION {ToSet(batches[k].rows) : k \in DOMAIN batches} = Asked
  BY <1>1 DEF LoadInv, Sending
<1>6. ToSet(unsent') \cup UNION {ToSet(batches'[k].rows) : k \in DOMAIN batches'} = Asked
  <2>1. UNION {ToSet(batches'[k].rows) : k \in DOMAIN batches'} =
          ToSet(b.rows) \cup UNION {ToSet(batches[k].rows) : k \in DOMAIN batches}
    BY <1>4
  <2> QED BY <1>3, <1>5, <2>1
<1>7. ToSet(b.rows) \subseteq Asked
  BY <1>3, <1>5
<1>8. ASSUME IsInsert PROVE Apart(b.rows, n)
  <2>1. /\ IsInjective(unsent)
        /\ \A k \in DOMAIN batches : ToSet(batches[k].rows) \cap ToSet(unsent) = {}
        /\ \A k \in DOMAIN org : org[k].row \notin ToSet(unsent)
    BY <1>1, <1>8 DEF LoadInv, Once
  <2>2. ToSet(b.rows) \subseteq ToSet(unsent)
    BY <1>3
  <2>3. \A k \in DOMAIN batches \ {n} : ToSet(b.rows) \cap ToSet(batches[k].rows) = {}
    BY <2>1, <2>2
  <2> QED BY <1>3, <2>1, <2>2, <2>3 DEF Apart
<1>9. ToSet(unsent') \subseteq ToSet(unsent)
  BY <1>3
<1>10. Books(n, b)
  BY <1>3, <1>4, <1>6, <1>7, <1>8, <1>9 DEF Books
<1> QED BY <1>10 DEF n

\* A batch is posted (Bulk API),
LEMMA PostBatchKeeps == LoadInv /\ PostBatch => LoadInv'
<1> SUFFICES ASSUME LoadInv, PostBatch PROVE LoadInv'
  OBVIOUS
<1> DEFINE b == [rows |-> NextRows, state |-> "Queued", results |-> <<>>]
<1>1. /\ bulkPc = "sending" /\ unsent # <<>> /\ batches' = Append(batches, b) /\ unsent' = Rest
      /\ UNCHANGED <<bulkPc, dataOption, stepAt, dataApi, org, idTable, insertTable, upsertTable, jobStatus, rolledBack>>
  BY DEF PostBatch
<1>2. NextRows \in Seq(Row)
  <2>1. unsent \in Seq(Row)
    BY DEF LoadInv, Typed, Filed
  <2> QED BY <1>1, <2>1, NextIs
<1>3. b \in BatchSet
  <2>1. <<>> \in Seq(Nat)
    OBVIOUS
  <2> QED BY <1>2, <2>1 DEF BatchSet
<1>4. b.rows = NextRows /\ b.state # "Completed" /\ b.results = <<>>
  OBVIOUS
<1> HIDE DEF b
<1>5. Books(Len(batches) + 1, b)
  BY <1>1, <1>3, <1>4, NextBooks
<1>6. Handles(Len(batches) + 1, b)
  BY <1>1, <1>4, <1>5 DEF Handles, Served
<1> QED BY <1>6, HandlesKeeps

\* a chunk is sent (REST),
LEMMA SendChunkKeeps == LoadInv /\ SendChunk => LoadInv'
<1> SUFFICES ASSUME LoadInv, SendChunk PROVE LoadInv'
  OBVIOUS
<1>1. PICK s \in Success(NextRows) :
        /\ org' = Applied(NextRows, s)
        /\ batches' = Append(batches, [rows |-> NextRows, state |-> "Completed", results |-> Results(NextRows, s)])
  BY DEF SendChunk
<1> DEFINE b == [rows |-> NextRows, state |-> "Completed", results |-> Results(NextRows, s)]
<1>2. /\ bulkPc = "sending" /\ unsent # <<>> /\ batches' = Append(batches, b) /\ unsent' = Rest
      /\ UNCHANGED <<bulkPc, dataOption, stepAt, dataApi, idTable, insertTable, upsertTable, jobStatus, rolledBack>>
  BY <1>1 DEF SendChunk
<1>3. NextRows \in Seq(Row)
  <2>1. unsent \in Seq(Row)
    BY DEF LoadInv, Typed, Filed
  <2> QED BY <1>2, <2>1, NextIs
<1>4. Effect(NextRows, org', Results(NextRows, s)) /\ Loads(NextRows, org', Results(NextRows, s))
  <2>1. Sound
    BY <1>2, BusyIs DEF Busy
  <2> QED BY <1>1, <1>3, <2>1, AppliedIs
<1>5. Results(NextRows, s) \in Seq(Nat)
  <2>1. PICK r \in Seq(0..Len(org')) : r = Results(NextRows, s)
    BY <1>4 DEF Effect
  <2>2. Len(org') \in Nat
    BY <1>4 DEF Effect
  <2>3. r \in [1..Len(r) -> Nat] /\ Len(r) \in Nat
    BY <2>2
  <2> QED BY <2>1, <2>3, SeqIs
<1>6. b \in BatchSet
  BY <1>3, <1>5 DEF BatchSet
<1>7. b.rows = NextRows /\ b.state = "Completed" /\ b.results = Results(NextRows, s)
  OBVIOUS
<1> HIDE DEF b
<1>8. Books(Len(batches) + 1, b)
  BY <1>2, <1>6, <1>7, NextBooks
<1>9. Handles(Len(batches) + 1, b)
  BY <1>2, <1>4, <1>7, <1>8 DEF Handles, Served
<1> QED BY <1>9, HandlesKeeps

\* or the server handles a batch that was queued: its rows are the same,
LEMMA ServerBooks ==
  ASSUME LoadInv, bulkPc \in {"sending", "wait"}, NEW i \in DOMAIN batches, batches[i].state = "Queued",
         NEW b \in BatchSet, b.rows = batches[i].rows, batches' = [batches EXCEPT ![i] = b], unsent' = unsent
  PROVE  Books(i, b)
<1>1. Busy /\ stepAt \in DOMAIN Steps
  BY BusyIs DEF Busy
<1>2. unsent \in Seq(Row) /\ batches \in Seq(BatchSet)
  BY DEF LoadInv, Typed, Filed
<1>3. /\ batches' \in Seq(BatchSet) /\ DOMAIN batches' = DOMAIN batches /\ batches'[i] = b
      /\ \A k \in DOMAIN batches \ {i} : batches'[k] = batches[k]
  BY <1>2
<1>4. ToSet(unsent) \cup UNION {ToSet(batches[k].rows) : k \in DOMAIN batches} = Asked
  BY <1>1 DEF LoadInv, Sending
<1>5. \A k \in DOMAIN batches : batches'[k].rows = batches[k].rows
  BY <1>3
<1>6. UNION {ToSet(batches'[k].rows) : k \in DOMAIN batches'} = UNION {ToSet(batches[k].rows) : k \in DOMAIN batches}
  BY <1>3, <1>5
<1>7. ToSet(b.rows) \subseteq Asked
  BY <1>4
<1>8. ASSUME IsInsert PROVE Apart(b.rows, i)
  <2>1. /\ IsInjective(unsent) /\ \A k \in DOMAIN batches : IsInjective(batches[k].rows)
        /\ \A k \in DOMAIN batches : ToSet(batches[k].rows) \cap ToSet(unsent) = {}
        /\ \A k, l \in DOMAIN batches : k # l => ToSet(batches[k].rows) \cap ToSet(batches[l].rows) = {}
    BY <1>1, <1>8 DEF LoadInv, Once
  <2>2. \A k \in DOMAIN org : org[k].row \notin ToSet(batches[i].rows)
    BY <1>1, <1>8 DEF LoadInv, Once
  <2> QED BY <2>1, <2>2 DEF Apart
<1>9. Len(b.rows) <= BatchRows
  BY BatchIs
<1> QED BY <1>2, <1>3, <1>4, <1>6, <1>7, <1>8, <1>9 DEF Books

\* whatever comes of it.
LEMMA ServerBatchKeeps ==
  ASSUME LoadInv, NEW i \in DOMAIN batches, ServerBatch(i)
  PROVE  LoadInv'
<1>1. /\ bulkPc \in {"sending", "wait"} /\ batches[i].state = "Queued" /\ unsent' = unsent
      /\ UNCHANGED <<bulkPc, dataOption, stepAt, dataApi, idTable, insertTable, upsertTable, jobStatus, rolledBack>>
  BY DEF ServerBatch
<1>2. batches \in Seq(BatchSet) /\ batches[i] \in BatchSet
  BY DEF LoadInv, Typed, Filed
<1>3. batches[i].rows \in Seq(Row) /\ batches[i].results = <<>>
  BY <1>1, BatchIs DEF LoadInv, Aligned
<1>4. ASSUME NEW s \in Success(batches[i].rows), org' = Applied(batches[i].rows, s),
             batches' = [batches EXCEPT ![i].state = "Completed", ![i].results = Results(batches[i].rows, s)]
      PROVE  LoadInv'
  <2> DEFINE res == Results(batches[i].rows, s)
             b == [batches[i] EXCEPT !.state = "Completed", !.results = res]
  <2>1. Effect(batches[i].rows, org', res) /\ Loads(batches[i].rows, org', res)
    <3>1. Sound
      BY <1>1, BusyIs DEF Busy
    <3> QED BY <1>3, <1>4, <3>1, AppliedIs
  <2> HIDE DEF res
  <2>2. res \in Seq(Nat)
    <3>1. PICK r \in Seq(0..Len(org')) : r = res
      BY <2>1 DEF Effect
    <3>2. Len(org') \in Nat
      BY <2>1 DEF Effect
    <3>3. r \in [1..Len(r) -> Nat] /\ Len(r) \in Nat
      BY <3>2
    <3> QED BY <3>1, <3>3, SeqIs
  <2>3. b \in BatchSet /\ b.rows = batches[i].rows /\ b.state = "Completed" /\ b.results = res
    BY <1>2, <2>2 DEF BatchSet
  <2>4. batches' = [batches EXCEPT ![i] = b]
    BY <1>2, <1>4 DEF res
  <2> HIDE DEF b
  <2>5. Books(i, b)
    BY <1>1, <2>3, <2>4, ServerBooks
  <2>6. Handles(i, b)
    BY <1>1, <2>1, <2>3, <2>5 DEF Handles, Served
  <2> QED BY <2>6, HandlesKeeps
<1>5. ASSUME NEW state \in {"Failed", "Not Processed"}, org' = org, batches' = [batches EXCEPT ![i].state = state]
      PROVE  LoadInv'
  <2> DEFINE b == [batches[i] EXCEPT !.state = state]
  <2>1. b \in BatchSet /\ b.rows = batches[i].rows /\ b.state # "Completed" /\ b.results = <<>>
    BY <1>2, <1>3 DEF BatchSet
  <2>2. batches' = [batches EXCEPT ![i] = b]
    BY <1>2, <1>5
  <2> HIDE DEF b
  <2>3. Books(i, b)
    BY <1>1, <2>1, <2>2, ServerBooks
  <2>4. Handles(i, b)
    BY <1>1, <1>5, <2>1, <2>3 DEF Handles, Served
  <2> QED BY <2>4, HandlesKeeps
<1> QED BY <1>4, <1>5 DEF ServerBatch

\* Every step of the specification keeps the invariant.
LEMMA LoadInvNext == LoadInv /\ [BulkNext]_bulkVars => LoadInv'
<1> SUFFICES ASSUME LoadInv, [BulkNext]_bulkVars PROVE LoadInv'
  OBVIOUS
<1>1. CASE StartLoad
  BY <1>1, StartLoadKeeps
<1>2. CASE BeginStep
  BY <1>2, BeginStepKeeps
<1>3. CASE PostBatch
  BY <1>3, PostBatchKeeps
<1>4. CASE SendChunk
  BY <1>4, SendChunkKeeps
<1>5. CASE Sent
  BY <1>5, SentKeeps
<1>6. CASE JobEnded
  BY <1>6, JobEndedKeeps
<1>7. CASE NoDownload
  BY <1>7, NoDownloadKeeps
<1>8. CASE ProcessResults
  BY <1>8, ProcessResultsKeeps
<1>9. CASE EndLoad
  BY <1>9, EndLoadKeeps
<1>10. CASE PerformRollback
  BY <1>10, PerformRollbackKeeps
<1>11. CASE ServerBatches
  <2>1. PICK i \in DOMAIN batches : ServerBatch(i)
    BY <1>11 DEF ServerBatches
  <2> QED BY <2>1, ServerBatchKeeps
<1>12. CASE CallFails
  BY <1>12, CallFailsKeeps
<1>13. CASE UNCHANGED bulkVars
  <2>1. /\ UNCHANGED <<bulkPc, dataOption, stepAt, dataApi, batches, unsent>>
        /\ UNCHANGED <<org, idTable, insertTable, upsertTable, jobStatus, rolledBack>>
    BY <1>13 DEF bulkVars
  <2>2. Rests /\ rolledBack' = rolledBack /\ jobStatus' = jobStatus /\ bulkPc' = bulkPc
    BY <2>1 DEF Rests
  <2>3. /\ Filed' /\ Recorded' /\ Aligned' /\ Right'
        /\ IsInsert' = IsInsert /\ Asked' = Asked /\ States' = States
    BY <2>2, RestsKeeps
  <2>4. Busy' = Busy
    BY <2>1 DEF Busy
  <2>5. Chosen' /\ Placing'
    BY <2>1, <2>4 DEF LoadInv, Typed, Chosen, Placing
  <2>6. Known'
    BY <2>1, <2>3 DEF LoadInv, Known, NothingStillRuns
  <2>7. Noted'
    BY <2>1 DEF LoadInv, Noted, RowErrorsLeaveNothing, Busy, IsResult, IsInsert, Step
  <2>8. Once' /\ Sending' /\ Complete'
    BY <2>2, <2>4, RestsOnce, RestsFills
  <2> QED BY <2>3, <2>5, <2>6, <2>7, <2>8 DEF LoadInv, Typed
<1> QED BY <1>1, <1>2, <1>3, <1>4, <1>5, <1>6, <1>7, <1>8, <1>9, <1>10, <1>11, <1>12, <1>13
     DEF BulkNext, TaskStepOfLoad

\* Where a load ends well every row is there once and, no row allowed to fail, with its lookup.
LEMMA DoneHolds == LoadInv /\ LookupsInOrder => DoneIsComplete
<1> SUFFICES ASSUME LoadInv, LookupsInOrder, bulkPc = "done"
             PROVE  /\ \A r \in Row : Cardinality({k \in DOMAIN org : org[k].row = r}) <= 1
                    /\ ~dataOption.ignore => \A r \in Row :
                         \E k \in DOMAIN org : org[k].row = r /\ (Ref[r] # NoRow => org[k].ref # 0)
  BY DEF DoneIsComplete
<1>1. ASSUME NEW r \in Row PROVE Cardinality({k \in DOMAIN org : org[k].row = r}) <= 1
  <2> DEFINE K == {k \in DOMAIN org : org[k].row = r}
  <2>1. \A k, l \in K : k = l
    BY DEF LoadInv, Once
  <2>3. ASSUME K # {} PROVE Cardinality(K) <= 1
    <3>1. PICK k \in K : TRUE
      BY <2>3
    <3>2. K = {k}
      BY <2>1, <3>1
    <3> HIDE DEF K
    <3>3. Cardinality(K) = 1
      BY <3>2, FS_Singleton
    <3> QED BY <3>3
  <2>4. Cardinality(K) <= 1
    <3> HIDE DEF K
    <3>1. CASE K = {}
      BY <3>1, FS_EmptySet
    <3> QED BY <2>3, <3>1
  <2> QED BY <2>4
<1>2. ASSUME ~dataOption.ignore, NEW r \in Row
      PROVE  \E k \in DOMAIN org : org[k].row = r /\ (Ref[r] # NoRow => org[k].ref # 0)
  <2>1. \A p \in DOMAIN Steps : StepIsFilled(p)
    <3>1. stepAt = Len(Steps) + 1 /\ \A p \in DOMAIN Steps : p < stepAt => StepIsFilled(p)
      BY <1>2 DEF LoadInv, Typed, Placing, Complete
    <3>2. Len(Steps) \in Nat /\ DOMAIN Steps = 1..Len(Steps)
      BY StepsAre
    <3>3. \A p \in DOMAIN Steps : p < stepAt
      BY <3>1, <3>2
    <3> QED BY <3>1, <3>3
  <2>2. PICK t \in Table : r \in Rows(t)
    BY RowsAre
  <2>3. PICK p \in DOMAIN Steps : Inserts(p, t)
    BY StepsOfTable
  <2>4. idTable[r] # 0
    BY <2>1, <2>2, <2>3 DEF StepIsFilled, Inserts
  <2>5. Linked(r)
    <3>1. CASE After[t] = ""
      BY <2>1, <2>2, <2>3, <3>1 DEF StepIsFilled, Inserts
    <3>2. CASE After[t] # ""
      <4>1. PICK q \in DOMAIN Steps : Updates(q, t)
        BY <3>2, StepsOfTable
      <4> QED BY <2>1, <2>2, <4>1 DEF StepIsFilled, Updates
    <3> QED BY <3>1, <3>2
  <2>6. idTable[r] \in DOMAIN org /\ org[idTable[r]].row = r
    BY <2>4, OrgIs DEF LoadInv, Right, LookupsAreRight
  <2> QED BY <2>5, <2>6 DEF Linked
<1> QED BY <1>1, <1>2

\* And the types hold.
LEMMA BulkTypeHolds == LoadInv => BulkTypeOK
<1> SUFFICES ASSUME LoadInv PROVE BulkTypeOK
  OBVIOUS
<1>1. \A i \in DOMAIN batches :
        /\ batches[i].rows \in Seq(Row) /\ Len(batches[i].rows) <= BatchRows
        /\ batches[i].state \in {"Queued", "Completed", "Failed", "Not Processed"}
        /\ batches[i].results \in Seq(0..Len(org))
  BY BatchIs
<1>2. \A i \in DOMAIN org : org[i].row \in Row /\ org[i].ref \in 0..Len(org) /\ org[i].alive \in BOOLEAN
  <2>1. \A i \in DOMAIN org : org[i] \in Record /\ org[i].ref \in 0..Len(org)
    BY DEF LoadInv, Typed, Recorded
  <2> QED BY <2>1 DEF Record
<1>3. /\ unsent \in Seq(Row) /\ idTable \in [Row -> 0..Len(org)] /\ insertTable \subseteq DOMAIN org
      /\ \A u \in upsertTable : u.id \in DOMAIN org /\ u.ref \in 0..Len(org)
  BY DEF LoadInv, Typed, Filed, Recorded
<1> QED BY <1>1, <1>2, <1>3 DEF LoadInv, Typed, Chosen, BulkTypeOK

-----------------------------------------------------------------------------
(* What a load promises.                                                   *)

\* Whatever the mapping holds and however calls, batches and rows fail: ids go to the rows
\* they are of, no row is inserted twice, a load rolled back for the errors of its rows leaves
\* none of its records, and no batch is queued still when the task goes on from its step.
\* Nothing is assumed of the order of lookups.
THEOREM LoadsMisplaceNothing ==
  BulkSpec => [](/\ BulkTypeOK /\ LookupsAreRight /\ RowErrorsLeaveNothing /\ NothingStillRuns
                 /\ \A k, l \in DOMAIN org : org[k].row = org[l].row => k = l)
<1>1. LoadInv => /\ BulkTypeOK /\ LookupsAreRight /\ RowErrorsLeaveNothing /\ NothingStillRuns
                 /\ \A k, l \in DOMAIN org : org[k].row = org[l].row => k = l
  BY BulkTypeHolds DEF LoadInv, Right, Noted, Known, Once
<1> QED BY <1>1, LoadInvInit, LoadInvNext, PTL DEF BulkSpec

\* If the mapping has its lookups in order (LookupsInOrder), a load that is
\* done and allowed no row to fail is complete as well: each row once, with its lookup.
THEOREM LoadsHold == LookupsInOrder => (BulkSpec => []LoadsAreSound)
<1> SUFFICES ASSUME LookupsInOrder PROVE BulkSpec => []LoadsAreSound
  OBVIOUS
<1>1. LoadInv => LoadsAreSound
  BY BulkTypeHolds, DoneHolds DEF LoadsAreSound, LoadInv, Right, Noted, Known
<1> QED BY <1>1, LoadInvInit, LoadInvNext, PTL DEF BulkSpec

-----------------------------------------------------------------------------
(* The portions of a Snowfakery load, for every target, batch sizes and overshoot. *)

\* A request grows the next portion, and never to nothing: int(n * 1.1) >= n.
LEMMA GrownGrows ==
  ASSUME NEW n \in Nat \ {0}
  PROVE  Grown(n) \in Nat \ {0} /\ Grown(n) >= n
BY DEF Grown

\* A portion is never more than what is missing, and never negative.
LEMMA BatchFits ==
  ASSUME NEW c \in Nat, NEW n \in Nat \ {0}
  PROVE  /\ next_batch(c, n) \in Nat
         /\ next_batch(c, n) > 0 => c + next_batch(c, n) <= Target
         /\ ~done(c) => next_batch(c, n) > 0
BY PortionAssumption DEF next_batch, done, gap, Least, Greatest

\* The counters of the caller and the next batch size stay natural numbers, the
\* batch size positive, through every request, correction and failure.
THEOREM PortionTypeCorrect == PortionSpec => []PortionTypeOK
<1>1. PortionInit => PortionTypeOK
  BY PortionAssumption DEF PortionInit, PortionTypeOK
<1>2. PortionTypeOK /\ [PortionNext]_portionVars => PortionTypeOK'
  <2> SUFFICES ASSUME PortionTypeOK, [PortionNext]_portionVars
               PROVE  PortionTypeOK'
    OBVIOUS
  <2>1. CASE NextBatch
    BY <2>1, GrownGrows, BatchFits DEF NextBatch, PortionTypeOK
  <2>2. ASSUME NEW n \in 1..Overshoot, Overshot(n) PROVE PortionTypeOK'
    BY <2>2, PortionAssumption DEF Overshot, PortionTypeOK
  <2>3. ASSUME NEW n \in 1..Target, Failed(n) PROVE PortionTypeOK'
    BY <2>3, PortionAssumption DEF Failed, PortionTypeOK
  <2>4. CASE UNCHANGED portionVars
    BY <2>4 DEF portionVars, PortionTypeOK
  <2> QED BY <2>1, <2>2, <2>3, <2>4 DEF PortionNext
<1> QED BY <1>1, <1>2, PTL DEF PortionSpec

\* The sets counted exceed the target by at most what the portions overshot, and
\* that is at most Overshoot for each portion requested: next_batch never asks for
\* more than is missing, whatever has failed in between.
THEOREM OvershootIsBounded == PortionSpec => []OvershootBound
<1>1. PortionInit => OvershootBound
  BY PortionAssumption DEF PortionInit, OvershootBound
<1>2. PortionTypeOK /\ OvershootBound /\ [PortionNext]_portionVars => OvershootBound'
  <2> SUFFICES ASSUME PortionTypeOK, OvershootBound, [PortionNext]_portionVars
               PROVE  OvershootBound'
    OBVIOUS
  <2> USE PortionAssumption DEF PortionTypeOK, OvershootBound
  <2>1. CASE NextBatch
    <3> DEFINE b == next_batch(created, next_batch_size)
    <3>1. b \in Nat /\ (b > 0 => created + b <= Target)
      BY BatchFits
    <3>2. created' = created + b /\ UNCHANGED <<corrected, extra>>
      BY <2>1 DEF NextBatch
    <3>3. requests' = requests + 1
      BY <2>1 DEF NextBatch
    <3> HIDE DEF b
    <3>4. created' <= Target + extra'
      BY <3>1, <3>2
    <3> QED BY <3>2, <3>3, <3>4
  <2>2. ASSUME NEW n \in 1..Overshoot, Overshot(n) PROVE OvershootBound'
    <3>1. Overshoot * (corrected + 1) = Overshoot * corrected + Overshoot
      OBVIOUS
    <3> QED BY <2>2, <3>1 DEF Overshot
  <2>3. ASSUME NEW n \in 1..Target, Failed(n) PROVE OvershootBound'
    BY <2>3 DEF Failed
  <2>4. CASE UNCHANGED portionVars
    BY <2>4 DEF portionVars
  <2> QED BY <2>1, <2>2, <2>3, <2>4 DEF PortionNext
<1> QED BY <1>1, <1>2, PortionTypeCorrect, PTL DEF PortionSpec

\* While sets are missing the next portion is not empty, whatever the growth of
\* the batch size and the failures so far.
THEOREM PortionsNeverStall == PortionSpec => []NeverStalls
<1>1. PortionTypeOK => NeverStalls
  BY BatchFits DEF PortionTypeOK, NeverStalls
<1> QED BY <1>1, PortionTypeCorrect, PTL

\* The three together, as the runs check them.
THEOREM PortionsSound == PortionSpec => []PortionsAreSound
<1>1. PortionTypeOK /\ OvershootBound /\ NeverStalls => PortionsAreSound
  BY DEF PortionsAreSound
<1> QED BY <1>1, PortionTypeCorrect, OvershootIsBounded, PortionsNeverStall, PTL
=============================================================================
