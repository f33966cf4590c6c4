--------------------------- MODULE JSONSplitProof ---------------------------
(* Proofs about JSONSplit: what its folds over texts compute, that a pointer *)
(* leads back to its path and pieces join to their text, and that documents  *)
(* arrive as they were sent.                                                 *)
EXTENDS JSONSplit, SequenceTheorems, FiniteSetTheorems, WellFoundedInduction, TLAPS

-----------------------------------------------------------------------------
(* Induction, with sets in the place of predicates. *)

LEMMA NatMin ==
    ASSUME NEW T \in SUBSET Nat, T # {}
    PROVE  \E n \in T : \A m \in T : n <= m
<1>1. PICK n \in T : \A m \in T : ~(<<m, n>> \in OpToRel(<, Nat))
  BY WFMin, NatLessThanWellFounded
<1>2. \A m \in T : ~(m < n)
  BY <1>1 DEF OpToRel
<1> QED BY <1>2

LEMMA NatInductSet ==
    ASSUME NEW T \in SUBSET Nat, 0 \in T, \A n \in T : n + 1 \in T
    PROVE  T = Nat
<1> DEFINE R == Nat \ T
<1> SUFFICES ASSUME R # {} PROVE FALSE
  OBVIOUS
<1>1. PICK n \in R : \A m \in R : n <= m
  BY NatMin
<1>2. n \in Nat /\ n # 0 /\ n - 1 \in Nat /\ ~(n <= n - 1)
  BY <1>1
<1>3. n - 1 \in T
  BY <1>1, <1>2
<1>4. n = (n - 1) + 1
  BY <1>2
<1> QED BY <1>1, <1>3, <1>4

LEMMA SeqInductSet ==
    ASSUME NEW X, NEW T \in SUBSET Seq(X), <<>> \in T,
           \A s \in T, x \in X : Append(s, x) \in T
    PROVE  T = Seq(X)
<1> DEFINE L == {n \in Nat : \A s \in Seq(X) : Len(s) = n => s \in T}
<1>1. 0 \in L
  BY EmptySeq
<1>2. ASSUME NEW n \in L PROVE n + 1 \in L
  <2> SUFFICES ASSUME NEW s \in Seq(X), Len(s) = n + 1 PROVE s \in T
    OBVIOUS
  <2>1. s # <<>>
    BY EmptySeq
  <2>2. PICK t \in Seq(X), x \in X : s = Append(t, x)
    BY <2>1, SequenceEmptyOrAppend
  <2>3. Len(s) = Len(t) + 1 /\ Len(t) \in Nat
    BY <2>2, AppendProperties
  <2>4. Len(t) = n
    BY <2>3
  <2> QED BY <2>2, <2>4
<1>3. L \in SUBSET Nat
  OBVIOUS
<1> HIDE DEF L
<1>4. L = Nat
  BY <1>1, <1>2, <1>3, NatInductSet
<1>5. \A s \in Seq(X) : Len(s) \in L
  BY <1>4, LenProperties
<1> QED BY <1>5 DEF L

-----------------------------------------------------------------------------
(* A fold over a sequence, in small steps: F takes the result so far and an  *)
(* element, a run is the results so far.                                     *)

IsRun(f, F, base, s) ==
    /\ f[0] = base
    /\ \A k \in 1..Len(s) : f[k] = F[<<f[k - 1], s[k]>>]
Value(F, base, s) == (CHOOSE f : IsRun(f, F, base, s))[Len(s)]

LEMMA RunUnique ==
    ASSUME NEW F, NEW base, NEW X, NEW s \in Seq(X), NEW f, NEW g,
           IsRun(f, F, base, s), IsRun(g, F, base, s)
    PROVE  \A k \in 0..Len(s) : f[k] = g[k]
<1> DEFINE T == {k \in Nat : k <= Len(s) => f[k] = g[k]}
<1>1. Len(s) \in Nat
  OBVIOUS
<1>2. ASSUME NEW k \in T PROVE k + 1 \in T
  <2> SUFFICES ASSUME k + 1 <= Len(s) PROVE f[k + 1] = g[k + 1]
    OBVIOUS
  <2>1. k \in Nat /\ k <= Len(s) /\ k + 1 \in 1..Len(s) /\ (k + 1) - 1 = k
    BY <1>1
  <2>2. f[k] = g[k]
    BY <2>1
  <2> QED BY <2>1, <2>2 DEF IsRun
<1>3. 0 \in T /\ T \in SUBSET Nat
  BY DEF IsRun
<1> HIDE DEF T
<1>4. T = Nat
  BY <1>2, <1>3, NatInductSet
<1> QED BY <1>1, <1>4 DEF T

LEMMA ValueOf ==
    ASSUME NEW F, NEW base, NEW X, NEW s \in Seq(X), NEW f, IsRun(f, F, base, s)
    PROVE  Value(F, base, s) = f[Len(s)]
<1> DEFINE g == CHOOSE h : IsRun(h, F, base, s)
<1>1. IsRun(g, F, base, s)
  OBVIOUS
<1> HIDE DEF g
<1>2. \A k \in 0..Len(s) : g[k] = f[k]
  BY <1>1, RunUnique
<1>3. Len(s) \in 0..Len(s)
  BY LenProperties
<1> QED BY <1>2, <1>3 DEF Value, g

\* The largest index of a set of indices is the last.
LEMMA LastIndex ==
    ASSUME NEW n \in Nat
    PROVE  /\ \A u \in SUBSET (1..n) : u # {} => Max(u) \in u
           /\ \A u \in SUBSET (1..(n + 1)) : n + 1 \in u => Max(u) = n + 1
           /\ n # 0 => Max(1..n) = n /\ (1..n) \ {n} = 1..(n - 1)
<1>1. ASSUME NEW u \in SUBSET (1..n), u # {} PROVE Max(u) \in u
  <2> DEFINE down == {n - i : i \in u}
  <2> \A i \in u : i \in Nat /\ n - i \in Nat
    OBVIOUS
  <2>1. down \in SUBSET Nat /\ down # {}
    BY <1>1
  <2>2. PICK d \in down : \A e \in down : d <= e
    BY <2>1, NatMin
  <2>3. PICK i \in u : d = n - i
    OBVIOUS
  <2>4. ASSUME NEW j \in u PROVE i >= j
    <3>1. n - j \in down
      OBVIOUS
    <3> HIDE DEF down
    <3>2. n - i <= n - j
      BY <2>2, <2>3, <3>1
    <3> QED BY <3>2
  <2> QED BY <2>4 DEF Max
<1>2. ASSUME NEW u \in SUBSET (1..(n + 1)), n + 1 \in u PROVE Max(u) = n + 1
  <2>1. \A j \in u : n + 1 >= j /\ (j >= n + 1 => j = n + 1)
    OBVIOUS
  <2> QED BY <1>2, <2>1 DEF Max
<1>3. ASSUME n # 0 PROVE Max(1..n) = n /\ (1..n) \ {n} = 1..(n - 1)
  <2>1. n \in 1..n /\ \A j \in 1..n : n >= j /\ (j >= n => j = n)
    BY <1>3
  <2> QED BY <2>1 DEF Max
<1> QED BY <1>1, <1>2, <1>3

\* The recursion of a fold, over sets of indices, has a solution.
IsIter(g, F, base, s, n) ==
    \A u \in SUBSET (1..n) :
        g[u] = IF u = {} THEN base ELSE F[<<g[u \ {Max(u)}], s[Max(u)]>>]

LEMMA IterExists ==
    ASSUME NEW A, NEW X, NEW F \in [A \X X -> A], NEW base \in A, NEW s \in Seq(X)
    PROVE  \E g \in [SUBSET (1..Len(s)) -> A] : IsIter(g, F, base, s, Len(s))
<1> DEFINE T == {n \in Nat : n <= Len(s) =>
                    \E g \in [SUBSET (1..n) -> A] : IsIter(g, F, base, s, n)}
<1>1. 0 \in T
  <2> DEFINE g == [u \in SUBSET (1..0) |-> base]
  <2>1. SUBSET (1..0) = {{}}
    OBVIOUS
  <2>2. g \in [SUBSET (1..0) -> A] /\ IsIter(g, F, base, s, 0)
    BY <2>1 DEF IsIter
  <2> QED BY <2>2
<1>2. ASSUME NEW n \in T PROVE n + 1 \in T
  <2>0. n \in Nat /\ n + 1 \in Nat
    OBVIOUS
  <2> SUFFICES ASSUME n + 1 <= Len(s)
               PROVE  \E g \in [SUBSET (1..(n + 1)) -> A] : IsIter(g, F, base, s, n + 1)
    BY <2>0
  <2>1. n \in Nat /\ Len(s) \in Nat /\ n <= Len(s) /\ n + 1 \in 1..Len(s)
    BY <2>0
  <2>2. PICK h \in [SUBSET (1..n) -> A] : IsIter(h, F, base, s, n)
    BY <2>1
  <2> DEFINE g == [u \in SUBSET (1..(n + 1)) |->
                      IF n + 1 \in u THEN F[<<h[u \ {n + 1}], s[n + 1]>>] ELSE h[u]]
  <2>3. \A u \in SUBSET (1..(n + 1)) : u \ {n + 1} \in SUBSET (1..n) /\ (n + 1 \notin u => u \in SUBSET (1..n))
    BY <2>1
  <2>4. s[n + 1] \in X
    BY <2>1, ElementOfSeq
  <2>5. g \in [SUBSET (1..(n + 1)) -> A]
    <3> SUFFICES ASSUME NEW u \in SUBSET (1..(n + 1)) PROVE g[u] \in A
      OBVIOUS
    <3>1. CASE n + 1 \in u
      <4>1. <<h[u \ {n + 1}], s[n + 1]>> \in A \X X
        BY <2>2, <2>3, <2>4
      <4> QED BY <3>1, <4>1
    <3>2. CASE n + 1 \notin u
      BY <2>2, <2>3, <3>2
    <3> QED BY <3>1, <3>2
  <2>6. ASSUME NEW u \in SUBSET (1..(n + 1))
        PROVE  g[u] = IF u = {} THEN base ELSE F[<<g[u \ {Max(u)}], s[Max(u)]>>]
    <3>1. CASE n + 1 \in u
      <4>1. Max(u) = n + 1
        BY <2>1, <3>1, LastIndex
      <4>2. u \ {n + 1} \in SUBSET (1..(n + 1)) /\ g[u \ {n + 1}] = h[u \ {n + 1}]
        BY <2>1
      <4> QED BY <3>1, <4>1, <4>2
    <3>2. CASE n + 1 \notin u
      <4>1. u \in SUBSET (1..n) /\ g[u] = h[u]
        BY <2>3, <3>2
      <4>2. u # {} => Max(u) \in u
        BY <2>1, <4>1, LastIndex
      <4>3. u \ {Max(u)} \in SUBSET (1..(n + 1)) /\ n + 1 \notin u \ {Max(u)}
        BY <3>2
      <4>4. g[u \ {Max(u)}] = h[u \ {Max(u)}]
        BY <4>3
      <4> QED BY <2>2, <4>1, <4>4 DEF IsIter
    <3> QED BY <3>1, <3>2
  <2> HIDE DEF g
  <2>7. IsIter(g, F, base, s, n + 1)
    BY <2>6 DEF IsIter
  <2> QED BY <2>5, <2>7
<1>3. T \in SUBSET Nat
  OBVIOUS
<1> HIDE DEF T
<1>4. T = Nat
  BY <1>1, <1>2, <1>3, NatInductSet
<1>5. Len(s) \in T /\ Len(s) \in Nat /\ Len(s) <= Len(s)
  BY <1>4, LenProperties
<1> QED BY <1>5 DEF T

\* So the result of a fold is the value of F's run, whichever solution is chosen.
IsStep(F, A, X, base) == F \in [A \X X -> A] /\ base \in A

Climbs(c, F, A, base, s) ==
    /\ c[{}] = base
    /\ \A k \in 1..Len(s) : c[1..(k - 1)] \in A => c[1..k] = F[<<c[1..(k - 1)], s[k]>>]

LEMMA FoldIsValue ==
    ASSUME NEW A, NEW X, NEW F, NEW base, NEW s \in Seq(X), NEW c,
           IsStep(F, A, X, base), Climbs(c, F, A, base, s)
    PROVE  c[1..Len(s)] = Value(F, base, s) /\ c[1..Len(s)] \in A
<1>0. F \in [A \X X -> A] /\ base \in A
  BY DEF IsStep
<1> DEFINE f == [k \in 0..Len(s) |-> c[1..k]]
           T == {k \in Nat : k <= Len(s) => f[k] \in A}
<1>1. Len(s) \in Nat /\ 1..0 = {}
  BY LenProperties
<1>2. f[0] = base /\ \A k \in 1..Len(s) : f[k] = c[1..k] /\ f[k - 1] = c[1..(k - 1)] /\ s[k] \in X
  BY <1>1, ElementOfSeq DEF Climbs
<1>3. f[Len(s)] = c[1..Len(s)]
  BY <1>1
<1> HIDE DEF f
<1>4. ASSUME NEW k \in T PROVE k + 1 \in T
  <2>0. k \in Nat /\ k + 1 \in Nat
    OBVIOUS
  <2> SUFFICES ASSUME k + 1 <= Len(s) PROVE f[k + 1] \in A
    BY <2>0
  <2>1. k + 1 \in 1..Len(s) /\ (k + 1) - 1 = k /\ f[k] \in A
    BY <1>1, <2>0
  <2>2. f[k + 1] = F[<<f[k], s[k + 1]>>] /\ s[k + 1] \in X
    BY <1>2, <2>1 DEF Climbs
  <2> QED BY <1>0, <2>1, <2>2
<1>5. 0 \in T /\ T \in SUBSET Nat
  BY <1>0, <1>2
<1> HIDE DEF T
<1>6. T = Nat
  BY <1>4, <1>5, NatInductSet
<1>7. \A k \in 0..Len(s) : f[k] \in A
  BY <1>1, <1>6 DEF T
<1>8. IsRun(f, F, base, s)
  <2>1. \A k \in 1..Len(s) : f[k - 1] \in A
    BY <1>1, <1>7
  <2> QED BY <1>2, <2>1 DEF IsRun, Climbs
<1>9. Len(s) \in 0..Len(s)
  BY <1>1
<1> QED BY <1>3, <1>7, <1>8, <1>9, ValueOf

\* One step down from the first k indices.
LEMMA ChosenSteps ==
    ASSUME NEW X, NEW s \in Seq(X), NEW k \in 1..Len(s)
    PROVE  /\ 1..k \in SUBSET (1..Len(s)) /\ 1..k # {}
           /\ Max(1..k) = k /\ (1..k) \ {Max(1..k)} = 1..(k - 1)
<1>1. k \in Nat /\ k # 0 /\ Len(s) \in Nat
  OBVIOUS
<1> QED BY <1>1, LastIndex

LEMMA RunExists ==
    ASSUME NEW F, NEW A, NEW X, NEW base, IsStep(F, A, X, base), NEW s \in Seq(X)
    PROVE  \E f \in [0..Len(s) -> A] : IsRun(f, F, base, s) /\ Value(F, base, s) = f[Len(s)]
<1>0. F \in [A \X X -> A] /\ base \in A
  BY DEF IsStep
<1>1. PICK g \in [SUBSET (1..Len(s)) -> A] : IsIter(g, F, base, s, Len(s))
  BY <1>0, IterExists
<1> DEFINE f == [k \in 0..Len(s) |-> g[1..k]]
<1>2. Len(s) \in Nat /\ 1..0 = {}
  BY LenProperties
<1>3. f \in [0..Len(s) -> A]
  <2>1. \A k \in 0..Len(s) : 1..k \in SUBSET (1..Len(s))
    BY <1>2
  <2> QED BY <2>1
<1>4. f[0] = base
  <2>1. f[0] = g[{}]
    BY <1>2
  <2>2. g[{}] = base
    BY <1>1 DEF IsIter
  <2> QED BY <2>1, <2>2
<1>5. ASSUME NEW k \in 1..Len(s) PROVE f[k] = F[<<f[k - 1], s[k]>>]
  <2>1. f[k] = g[1..k] /\ f[k - 1] = g[1..(k - 1)]
    BY <1>2
  <2>2. /\ 1..k \in SUBSET (1..Len(s)) /\ 1..k # {}
        /\ Max(1..k) = k /\ (1..k) \ {Max(1..k)} = 1..(k - 1)
    BY ChosenSteps
  <2> QED BY <1>1, <2>1, <2>2 DEF IsIter
<1> HIDE DEF f
<1>6. IsRun(f, F, base, s)
  BY <1>3, <1>4, <1>5 DEF IsRun
<1> QED BY <1>3, <1>6, ValueOf

\* A value starts with the base, and grows by F with each element.
LEMMA ValueGrows ==
    ASSUME NEW F, NEW A, NEW X, NEW base, IsStep(F, A, X, base)
    PROVE  /\ Value(F, base, <<>>) = base
           /\ \A s \in Seq(X) : Value(F, base, s) \in A
           /\ \A s \in Seq(X), x \in X : Value(F, base, Append(s, x)) = F[<<Value(F, base, s), x>>]
<1>0. F \in [A \X X -> A] /\ base \in A
  BY DEF IsStep
<1>1. ASSUME NEW s \in Seq(X)
      PROVE  \E f \in [0..Len(s) -> A] : IsRun(f, F, base, s) /\ Value(F, base, s) = f[Len(s)]
  BY RunExists
<1>2. Value(F, base, <<>>) = base
  <2>1. <<>> \in Seq(X) /\ Len(<<>>) = 0
    BY EmptySeq
  <2> QED BY <1>1, <2>1 DEF IsRun
<1>3. ASSUME NEW s \in Seq(X) PROVE Value(F, base, s) \in A
  BY <1>1, LenProperties
<1>4. ASSUME NEW s \in Seq(X), NEW x \in X
      PROVE  Value(F, base, Append(s, x)) = F[<<Value(F, base, s), x>>]
  <2> DEFINE t == Append(s, x)
  <2>1. /\ t \in Seq(X) /\ Len(t) = Len(s) + 1 /\ Len(s) \in Nat
        /\ \A i \in 1..Len(s) : t[i] = s[i]
        /\ t[Len(s) + 1] = x
    BY AppendProperties, LenProperties
  <2> HIDE DEF t
  <2>2. PICK f : IsRun(f, F, base, s) /\ Value(F, base, s) = f[Len(s)]
    BY <1>1
  <2>3. PICK g : IsRun(g, F, base, t) /\ Value(F, base, t) = g[Len(t)]
    BY <1>1, <2>1
  <2>4. IsRun(g, F, base, s)
    BY <2>1, <2>3 DEF IsRun
  <2>5. \A k \in 0..Len(s) : f[k] = g[k]
    BY <2>2, <2>4, RunUnique
  <2>6. g[Len(s) + 1] = F[<<g[Len(s)], x>>]
    BY <2>1, <2>3 DEF IsRun
  <2> QED BY <2>1, <2>2, <2>3, <2>5, <2>6 DEF t
<1> QED BY <1>2, <1>3, <1>4
LEMMA ValueAppend ==
    ASSUME NEW F, NEW A, NEW X, NEW base, IsStep(F, A, X, base), NEW s \in Seq(X), NEW x \in X
    PROVE  Value(F, base, Append(s, x)) = F[<<Value(F, base, s), x>>]
BY ValueGrows

LEMMA Pair ==
    ASSUME NEW X, NEW x \in X, NEW y \in X
    PROVE  <<x>> \o <<y>> = <<x, y>>
<1>1. <<x>> \in Seq(X) /\ <<y>> \in Seq(X) /\ <<x, y>> \in Seq(X)
      /\ Len(<<x>>) = 1 /\ Len(<<y>>) = 1 /\ Len(<<x, y>>) = 2
  OBVIOUS
<1>2. /\ <<x>> \o <<y>> \in Seq(X) /\ Len(<<x>> \o <<y>>) = 2
      /\ \A i \in 1..2 : (<<x>> \o <<y>>)[i] = IF i <= 1 THEN <<x>>[i] ELSE <<y>>[i - 1]
  BY <1>1, ConcatProperties
<1>3. \A i \in 1..2 : (<<x>> \o <<y>>)[i] = <<x, y>>[i]
  BY <1>2
<1> QED BY <1>1, <1>2, <1>3, SeqEqual

LEMMA ShortSeqs ==
    ASSUME NEW X
    PROVE  /\ <<>> \in Seq(X) /\ \A x \in X : <<x>> \in Seq(X)
           /\ \A x, y \in X : <<x, y>> \in Seq(X)
           /\ \A s \in Seq(X), x \in X : Append(s, x) \in Seq(X)
OBVIOUS

-----------------------------------------------------------------------------
(* The folds of JSONSplit are values, of these steps. *)

Alphabet == STRING \cup {"~", "/", "0", "1"}

Added == [p \in Nat \X DOMAIN Width |-> p[1] + Width[p[2]]]

LEMMA ByteLengthIsValue ==
    ASSUME NEW s \in Seq(DOMAIN Width), IsStep(Added, Nat, DOMAIN Width, 0)
    PROVE  ByteLength(s) = Value(Added, 0, s)
<1> DEFINE Own(g) == g = [u \in SUBSET (DOMAIN s) |->
                             IF u = {} THEN 0
                             ELSE g[u \ {Max(u)}] + Width[s[Max(u)]]]
<1>1. DOMAIN s = 1..Len(s) /\ Len(s) \in Nat
  BY LenProperties
<1>2. ByteLength(s) = (CHOOSE g : Own(g))[DOMAIN s]
  BY DEF ByteLength, FoldLeft, MapThenFoldSet
<1>3. \E g : Own(g)
  <2>1. PICK g \in [SUBSET (1..Len(s)) -> Nat] : IsIter(g, Added, 0, s, Len(s))
    BY IterExists DEF IsStep
  <2>2. ASSUME NEW u \in SUBSET (1..Len(s)), u # {}
        PROVE  g[u] = g[u \ {Max(u)}] + Width[s[Max(u)]]
    <3>1. Max(u) \in 1..Len(s)
      BY <1>1, <2>2, LastIndex
    <3>2. <<g[u \ {Max(u)}], s[Max(u)]>> \in (Nat) \X (DOMAIN Width)
      BY <3>1, ElementOfSeq
    <3>3. g[u] = Added[<<g[u \ {Max(u)}], s[Max(u)]>>]
      BY <2>1, <2>2 DEF IsIter
    <3> QED BY <3>2, <3>3 DEF Added
  <2>3. g[{}] = 0
    BY <2>1 DEF IsIter
  <2>4. Own(g)
    BY <1>1, <2>2, <2>3
  <2> QED BY <2>4
<1>4. PICK g : Own(g) /\ ByteLength(s) = g[DOMAIN s]
  BY <1>2, <1>3
<1>5. g[{}] = 0
  BY <1>4
<1>6. ASSUME NEW k \in 1..Len(s), g[1..(k - 1)] \in Nat
      PROVE  g[1..k] = Added[<<g[1..(k - 1)], s[k]>>]
  <2>1. g[1..k] = g[1..(k - 1)] + Width[s[k]]
    BY <1>1, <1>4, ChosenSteps
  <2>2. <<g[1..(k - 1)], s[k]>> \in (Nat) \X (DOMAIN Width)
    BY <1>6, ElementOfSeq
  <2> QED BY <2>1, <2>2 DEF Added
<1>7. Climbs(g, Added, Nat, 0, s)
  BY <1>5, <1>6 DEF Climbs
<1> HIDE DEF Own
<1>8. g[1..Len(s)] = Value(Added, 0, s)
  BY <1>7, FoldIsValue
<1> QED BY <1>1, <1>4, <1>8

Replaced(ch, by) ==
    [p \in Seq(Alphabet) \X Alphabet |-> p[1] \o IF p[2] = ch THEN by ELSE <<p[2]>>]

LEMMA ReplaceCharIsValue ==
    ASSUME NEW ch, NEW by, NEW s \in Seq(Alphabet), IsStep(Replaced(ch, by), Seq(Alphabet), Alphabet, <<>>)
    PROVE  ReplaceChar(s, ch, by) = Value(Replaced(ch, by), <<>>, s)
<1> DEFINE Own(g) == g = [u \in SUBSET (DOMAIN s) |->
                             IF u = {} THEN <<>>
                             ELSE g[u \ {Max(u)}] \o IF s[Max(u)] = ch THEN by ELSE <<s[Max(u)]>>]
<1>1. DOMAIN s = 1..Len(s) /\ Len(s) \in Nat
  BY LenProperties
<1>2. ReplaceChar(s, ch, by) = (CHOOSE g : Own(g))[DOMAIN s]
  BY DEF ReplaceChar, FoldLeft, MapThenFoldSet
<1>3. \E g : Own(g)
  <2>1. PICK g \in [SUBSET (1..Len(s)) -> Seq(Alphabet)] : IsIter(g, Replaced(ch, by), <<>>, s, Len(s))
    BY IterExists DEF IsStep
  <2>2. ASSUME NEW u \in SUBSET (1..Len(s)), u # {}
        PROVE  g[u] = g[u \ {Max(u)}] \o IF s[Max(u)] = ch THEN by ELSE <<s[Max(u)]>>
    <3>1. Max(u) \in 1..Len(s)
      BY <1>1, <2>2, LastIndex
    <3>2. <<g[u \ {Max(u)}], s[Max(u)]>> \in (Seq(Alphabet)) \X (Alphabet)
      BY <3>1, ElementOfSeq
    <3>3. g[u] = Replaced(ch, by)[<<g[u \ {Max(u)}], s[Max(u)]>>]
      BY <2>1, <2>2 DEF IsIter
    <3> QED BY <3>2, <3>3 DEF Replaced
  <2>3. g[{}] = <<>>
    BY <2>1 DEF IsIter
  <2>4. Own(g)
    BY <1>1, <2>2, <2>3
  <2> QED BY <2>4
<1>4. PICK g : Own(g) /\ ReplaceChar(s, ch, by) = g[DOMAIN s]
  BY <1>2, <1>3
<1>5. g[{}] = <<>>
  BY <1>4
<1>6. ASSUME NEW k \in 1..Len(s), g[1..(k - 1)] \in Seq(Alphabet)
      PROVE  g[1..k] = Replaced(ch, by)[<<g[1..(k - 1)], s[k]>>]
  <2>1. g[1..k] = g[1..(k - 1)] \o IF s[k] = ch THEN by ELSE <<s[k]>>
    BY <1>1, <1>4, ChosenSteps
  <2>2. <<g[1..(k - 1)], s[k]>> \in (Seq(Alphabet)) \X (Alphabet)
    BY <1>6, ElementOfSeq
  <2> QED BY <2>1, <2>2 DEF Replaced
<1>7. Climbs(g, Replaced(ch, by), Seq(Alphabet), <<>>, s)
  BY <1>5, <1>6 DEF Climbs
<1> HIDE DEF Own
<1>8. g[1..Len(s)] = Value(Replaced(ch, by), <<>>, s)
  BY <1>7, FoldIsValue
<1> QED BY <1>1, <1>4, <1>8

Led == [p \in Seq(Alphabet) \X Seq(Alphabet) |-> p[1] \o <<"/">> \o EscapeJSONPointer(p[2])]

LEMMA PointerIsValue ==
    ASSUME NEW s \in Seq(Seq(Alphabet)), IsStep(Led, Seq(Alphabet), Seq(Alphabet), <<>>)
    PROVE  Pointer(s) = Value(Led, <<>>, s)
<1> DEFINE Own(g) == g = [u \in SUBSET (DOMAIN s) |->
                             IF u = {} THEN <<>>
                             ELSE g[u \ {Max(u)}] \o <<"/">> \o EscapeJSONPointer(s[Max(u)])]
<1>1. DOMAIN s = 1..Len(s) /\ Len(s) \in Nat
  BY LenProperties
<1>2. Pointer(s) = (CHOOSE g : Own(g))[DOMAIN s]
  BY DEF Pointer, FoldLeft, MapThenFoldSet
<1>3. \E g : Own(g)
  <2>1. PICK g \in [SUBSET (1..Len(s)) -> Seq(Alphabet)] : IsIter(g, Led, <<>>, s, Len(s))
    BY IterExists DEF IsStep
  <2>2. ASSUME NEW u \in SUBSET (1..Len(s)), u # {}
        PROVE  g[u] = g[u \ {Max(u)}] \o <<"/">> \o EscapeJSONPointer(s[Max(u)])
    <3>1. Max(u) \in 1..Len(s)
      BY <1>1, <2>2, LastIndex
    <3>2. <<g[u \ {Max(u)}], s[Max(u)]>> \in (Seq(Alphabet)) \X (Seq(Alphabet))
      BY <3>1, ElementOfSeq
    <3>3. g[u] = Led[<<g[u \ {Max(u)}], s[Max(u)]>>]
      BY <2>1, <2>2 DEF IsIter
    <3> QED BY <3>2, <3>3 DEF Led
  <2>3. g[{}] = <<>>
    BY <2>1 DEF IsIter
  <2>4. Own(g)
    BY <1>1, <2>2, <2>3
  <2> QED BY <2>4
<1>4. PICK g : Own(g) /\ Pointer(s) = g[DOMAIN s]
  BY <1>2, <1>3
<1>5. g[{}] = <<>>
  BY <1>4
<1>6. ASSUME NEW k \in 1..Len(s), g[1..(k - 1)] \in Seq(Alphabet)
      PROVE  g[1..k] = Led[<<g[1..(k - 1)], s[k]>>]
  <2>1. g[1..k] = g[1..(k - 1)] \o <<"/">> \o EscapeJSONPointer(s[k])
    BY <1>1, <1>4, ChosenSteps
  <2>2. <<g[1..(k - 1)], s[k]>> \in (Seq(Alphabet)) \X (Seq(Alphabet))
    BY <1>6, ElementOfSeq
  <2> QED BY <2>1, <2>2 DEF Led
<1>7. Climbs(g, Led, Seq(Alphabet), <<>>, s)
  BY <1>5, <1>6 DEF Climbs
<1> HIDE DEF Own
<1>8. g[1..Len(s)] = Value(Led, <<>>, s)
  BY <1>7, FoldIsValue
<1> QED BY <1>1, <1>4, <1>8

Cut == [p \in Seq(Seq(Alphabet)) \X Alphabet |->
           IF p[2] = "/" THEN Append(p[1], <<>>)
           ELSE [p[1] EXCEPT ![Len(p[1])] = Append(@, p[2])]]

LEMMA SegmentsIsValue ==
    ASSUME NEW s \in Seq(Alphabet), IsStep(Cut, Seq(Seq(Alphabet)), Alphabet, <<>>)
    PROVE  Segments(s) = Value(Cut, <<>>, s)
<1> DEFINE Own(g) == g = [u \in SUBSET (DOMAIN s) |->
                             IF u = {} THEN <<>>
                             ELSE IF s[Max(u)] = "/" THEN Append(g[u \ {Max(u)}], <<>>)
                             ELSE [g[u \ {Max(u)}] EXCEPT ![Len(g[u \ {Max(u)}])] = Append(@, s[Max(u)])]]
<1>1. DOMAIN s = 1..Len(s) /\ Len(s) \in Nat
  BY LenProperties
<1>2. Segments(s) = (CHOOSE g : Own(g))[DOMAIN s]
  BY DEF Segments, FoldLeft, MapThenFoldSet
<1>3. \E g : Own(g)
  <2>1. PICK g \in [SUBSET (1..Len(s)) -> Seq(Seq(Alphabet))] : IsIter(g, Cut, <<>>, s, Len(s))
    BY IterExists DEF IsStep
  <2>2. ASSUME NEW u \in SUBSET (1..Len(s)), u # {}
        PROVE  g[u] = IF s[Max(u)] = "/" THEN Append(g[u \ {Max(u)}], <<>>)
                             ELSE [g[u \ {Max(u)}] EXCEPT ![Len(g[u \ {Max(u)}])] = Append(@, s[Max(u)])]
    <3>1. Max(u) \in 1..Len(s)
      BY <1>1, <2>2, LastIndex
    <3>2. <<g[u \ {Max(u)}], s[Max(u)]>> \in (Seq(Seq(Alphabet))) \X (Alphabet)
      BY <3>1, ElementOfSeq
    <3>3. g[u] = Cut[<<g[u \ {Max(u)}], s[Max(u)]>>]
      BY <2>1, <2>2 DEF IsIter
    <3> QED BY <3>2, <3>3 DEF Cut
  <2>3. g[{}] = <<>>
    BY <2>1 DEF IsIter
  <2>4. Own(g)
    BY <1>1, <2>2, <2>3
  <2> QED BY <2>4
<1>4. PICK g : Own(g) /\ Segments(s) = g[DOMAIN s]
  BY <1>2, <1>3
<1>5. g[{}] = <<>>
  BY <1>4
<1>6. ASSUME NEW k \in 1..Len(s), g[1..(k - 1)] \in Seq(Seq(Alphabet))
      PROVE  g[1..k] = Cut[<<g[1..(k - 1)], s[k]>>]
  <2>1. g[1..k] = IF s[k] = "/" THEN Append(g[1..(k - 1)], <<>>)
                             ELSE [g[1..(k - 1)] EXCEPT ![Len(g[1..(k - 1)])] = Append(@, s[k])]
    BY <1>1, <1>4, ChosenSteps
  <2>2. <<g[1..(k - 1)], s[k]>> \in (Seq(Seq(Alphabet))) \X (Alphabet)
    BY <1>6, ElementOfSeq
  <2> QED BY <2>1, <2>2 DEF Cut
<1>7. Climbs(g, Cut, Seq(Seq(Alphabet)), <<>>, s)
  BY <1>5, <1>6 DEF Climbs
<1> HIDE DEF Own
<1>8. g[1..Len(s)] = Value(Cut, <<>>, s)
  BY <1>7, FoldIsValue
<1> QED BY <1>1, <1>4, <1>8

Untilded(ch, by) ==
    [p \in [out : Seq(Alphabet), tilde : BOOLEAN] \X Alphabet |->
        IF p[1].tilde /\ p[2] = ch
        THEN [out |-> Append(Front(p[1].out), by), tilde |-> FALSE]
        ELSE [out |-> Append(p[1].out, p[2]), tilde |-> p[2] = "~"]]

LEMMA ReplaceTildeIsValue ==
    ASSUME NEW ch, NEW by, NEW s \in Seq(Alphabet), IsStep(Untilded(ch, by), [out : Seq(Alphabet), tilde : BOOLEAN], Alphabet, [out |-> <<>>, tilde |-> FALSE])
    PROVE  ReplaceTilde(s, ch, by) = Value(Untilded(ch, by), [out |-> <<>>, tilde |-> FALSE], s).out
<1> DEFINE Own(g) == g = [u \in SUBSET (DOMAIN s) |->
                             IF u = {} THEN [out |-> <<>>, tilde |-> FALSE]
                             ELSE IF g[u \ {Max(u)}].tilde /\ s[Max(u)] = ch
                             THEN [out |-> Append(Front(g[u \ {Max(u)}].out), by), tilde |-> FALSE]
                             ELSE [out |-> Append(g[u \ {Max(u)}].out, s[Max(u)]), tilde |-> s[Max(u)] = "~"]]
<1>1. DOMAIN s = 1..Len(s) /\ Len(s) \in Nat
  BY LenProperties
<1>2. ReplaceTilde(s, ch, by) = (CHOOSE g : Own(g))[DOMAIN s].out
  BY DEF ReplaceTilde, FoldLeft, MapThenFoldSet
<1>3. \E g : Own(g)
  <2>1. PICK g \in [SUBSET (1..Len(s)) -> [out : Seq(Alphabet), tilde : BOOLEAN]] : IsIter(g, Untilded(ch, by), [out |-> <<>>, tilde |-> FALSE], s, Len(s))
    BY IterExists DEF IsStep
  <2>2. ASSUME NEW u \in SUBSET (1..Len(s)), u # {}
        PROVE  g[u] = IF g[u \ {Max(u)}].tilde /\ s[Max(u)] = ch
                             THEN [out |-> Append(Front(g[u \ {Max(u)}].out), by), tilde |-> FALSE]
                             ELSE [out |-> Append(g[u \ {Max(u)}].out, s[Max(u)]), tilde |-> s[Max(u)] = "~"]
    <3>1. Max(u) \in 1..Len(s)
      BY <1>1, <2>2, LastIndex
    <3>2. <<g[u \ {Max(u)}], s[Max(u)]>> \in ([out : Seq(Alphabet), tilde : BOOLEAN]) \X (Alphabet)
      BY <3>1, ElementOfSeq
    <3>3. g[u] = Untilded(ch, by)[<<g[u \ {Max(u)}], s[Max(u)]>>]
      BY <2>1, <2>2 DEF IsIter
    <3> QED BY <3>2, <3>3 DEF Untilded
  <2>3. g[{}] = [out |-> <<>>, tilde |-> FALSE]
    BY <2>1 DEF IsIter
  <2>4. Own(g)
    BY <1>1, <2>2, <2>3
  <2> QED BY <2>4
<1>4. PICK g : Own(g) /\ ReplaceTilde(s, ch, by) = g[DOMAIN s].out
  BY <1>2, <1>3
<1>5. g[{}] = [out |-> <<>>, tilde |-> FALSE]
  BY <1>4
<1>6. ASSUME NEW k \in 1..Len(s), g[1..(k - 1)] \in [out : Seq(Alphabet), tilde : BOOLEAN]
      PROVE  g[1..k] = Untilded(ch, by)[<<g[1..(k - 1)], s[k]>>]
  <2>1. g[1..k] = IF g[1..(k - 1)].tilde /\ s[k] = ch
                             THEN [out |-> Append(Front(g[1..(k - 1)].out), by), tilde |-> FALSE]
                             ELSE [out |-> Append(g[1..(k - 1)].out, s[k]), tilde |-> s[k] = "~"]
    <3>1. ASSUME NEW u \in SUBSET (DOMAIN s), u # {}
          PROVE  g[u] = IF g[u \ {Max(u)}].tilde /\ s[Max(u)] = ch
                             THEN [out |-> Append(Front(g[u \ {Max(u)}].out), by), tilde |-> FALSE]
                             ELSE [out |-> Append(g[u \ {Max(u)}].out, s[Max(u)]), tilde |-> s[Max(u)] = "~"]
      BY <1>4, <3>1
    <3>2. 1..k \in SUBSET (DOMAIN s) /\ 1..k # {}
      BY <1>1, ChosenSteps
    <3>3. Max(1..k) = k /\ (1..k) \ {Max(1..k)} = 1..(k - 1)
      BY ChosenSteps
    <3> HIDE DEF Own
    <3> QED BY <3>1, <3>2, <3>3
  <2>2. <<g[1..(k - 1)], s[k]>> \in ([out : Seq(Alphabet), tilde : BOOLEAN]) \X (Alphabet)
    BY <1>6, ElementOfSeq
  <2> QED BY <2>1, <2>2 DEF Untilded
<1>7. Climbs(g, Untilded(ch, by), [out : Seq(Alphabet), tilde : BOOLEAN], [out |-> <<>>, tilde |-> FALSE], s)
  BY <1>5, <1>6 DEF Climbs
<1> HIDE DEF Own
<1>8. g[1..Len(s)] = Value(Untilded(ch, by), [out |-> <<>>, tilde |-> FALSE], s)
  BY <1>7, FoldIsValue
<1> QED BY <1>1, <1>4, <1>8

Filled ==
    [p \in Seq(Seq(DOMAIN Width)) \X DOMAIN Width |->
        IF p[1] # <<>> /\ ByteLength(Last(p[1])) + Width[p[2]] <= ChunkBytes
        THEN Front(p[1]) \o << Append(Last(p[1]), p[2]) >>
        ELSE Append(p[1], <<p[2]>>)]

LEMMA SplitIsValue ==
    ASSUME NEW s \in Seq(DOMAIN Width), IsStep(Filled, Seq(Seq(DOMAIN Width)), DOMAIN Width, <<>>)
    PROVE  SplitStringByBytes(s) = Value(Filled, <<>>, s)
<1> DEFINE Own(g) == g = [u \in SUBSET (DOMAIN s) |->
                             IF u = {} THEN <<>>
                             ELSE IF g[u \ {Max(u)}] # <<>> /\ ByteLength(Last(g[u \ {Max(u)}])) + Width[s[Max(u)]] <= ChunkBytes
                             THEN Front(g[u \ {Max(u)}]) \o << Append(Last(g[u \ {Max(u)}]), s[Max(u)]) >>
                             ELSE Append(g[u \ {Max(u)}], <<s[Max(u)]>>)]
<1>1. DOMAIN s = 1..Len(s) /\ Len(s) \in Nat
  BY LenProperties
<1>2. SplitStringByBytes(s) = (CHOOSE g : Own(g))[DOMAIN s]
  BY DEF SplitStringByBytes, FoldLeft, MapThenFoldSet
<1>3. \E g : Own(g)
  <2>1. PICK g \in [SUBSET (1..Len(s)) -> Seq(Seq(DOMAIN Width))] : IsIter(g, Filled, <<>>, s, Len(s))
    BY IterExists DEF IsStep
  <2>2. ASSUME NEW u \in SUBSET (1..Len(s)), u # {}
        PROVE  g[u] = IF g[u \ {Max(u)}] # <<>> /\ ByteLength(Last(g[u \ {Max(u)}])) + Width[s[Max(u)]] <= ChunkBytes
                             THEN Front(g[u \ {Max(u)}]) \o << Append(Last(g[u \ {Max(u)}]), s[Max(u)]) >>
                             ELSE Append(g[u \ {Max(u)}], <<s[Max(u)]>>)
    <3>1. Max(u) \in 1..Len(s)
      BY <1>1, <2>2, LastIndex
    <3>2. <<g[u \ {Max(u)}], s[Max(u)]>> \in (Seq(Seq(DOMAIN Width))) \X (DOMAIN Width)
      BY <3>1, ElementOfSeq
    <3>3. g[u] = Filled[<<g[u \ {Max(u)}], s[Max(u)]>>]
      BY <2>1, <2>2 DEF IsIter
    <3> QED BY <3>2, <3>3 DEF Filled
  <2>3. g[{}] = <<>>
    BY <2>1 DEF IsIter
  <2>4. Own(g)
    BY <1>1, <2>2, <2>3
  <2> QED BY <2>4
<1>4. PICK g : Own(g) /\ SplitStringByBytes(s) = g[DOMAIN s]
  BY <1>2, <1>3
<1>5. g[{}] = <<>>
  BY <1>4
<1>6. ASSUME NEW k \in 1..Len(s), g[1..(k - 1)] \in Seq(Seq(DOMAIN Width))
      PROVE  g[1..k] = Filled[<<g[1..(k - 1)], s[k]>>]
  <2>1. g[1..k] = IF g[1..(k - 1)] # <<>> /\ ByteLength(Last(g[1..(k - 1)])) + Width[s[k]] <= ChunkBytes
                             THEN Front(g[1..(k - 1)]) \o << Append(Last(g[1..(k - 1)]), s[k]) >>
                             ELSE Append(g[1..(k - 1)], <<s[k]>>)
    <3>1. ASSUME NEW u \in SUBSET (DOMAIN s), u # {}
          PROVE  g[u] = IF g[u \ {Max(u)}] # <<>> /\ ByteLength(Last(g[u \ {Max(u)}])) + Width[s[Max(u)]] <= ChunkBytes
                             THEN Front(g[u \ {Max(u)}]) \o << Append(Last(g[u \ {Max(u)}]), s[Max(u)]) >>
                             ELSE Append(g[u \ {Max(u)}], <<s[Max(u)]>>)
      BY <1>4, <3>1
    <3>2. 1..k \in SUBSET (DOMAIN s) /\ 1..k # {}
      BY <1>1, ChosenSteps
    <3>3. Max(1..k) = k /\ (1..k) \ {Max(1..k)} = 1..(k - 1)
      BY ChosenSteps
    <3> HIDE DEF Own
    <3> QED BY <3>1, <3>2, <3>3
  <2>2. <<g[1..(k - 1)], s[k]>> \in (Seq(Seq(DOMAIN Width))) \X (DOMAIN Width)
    BY <1>6, ElementOfSeq
  <2> QED BY <2>1, <2>2 DEF Filled
<1>7. Climbs(g, Filled, Seq(Seq(DOMAIN Width)), <<>>, s)
  BY <1>5, <1>6 DEF Climbs
<1> HIDE DEF Own
<1>8. g[1..Len(s)] = Value(Filled, <<>>, s)
  BY <1>7, FoldIsValue
<1> QED BY <1>1, <1>4, <1>8

\* The bytes of a text are those of its characters.
LEMMA ByteLengthGrows ==
    /\ ByteLength(<<>>) = 0
    /\ \A s \in Seq(DOMAIN Width) : ByteLength(s) \in Nat
    /\ \A s \in Seq(DOMAIN Width), x \in DOMAIN Width :
           ByteLength(Append(s, x)) = ByteLength(s) + Width[x]
<1>1. IsStep(Added, Nat, DOMAIN Width, 0)
  BY JSONAssumption DEF Added, IsStep
<1>2. \A s \in Seq(DOMAIN Width) : ByteLength(s) = Value(Added, 0, s) /\ ByteLength(s) \in Nat
  BY <1>1, ByteLengthIsValue, ValueGrows
<1>3. ByteLength(<<>>) = 0
  <2>1. <<>> \in Seq(DOMAIN Width)
    BY ShortSeqs
  <2>2. Value(Added, 0, <<>>) = 0
    BY <1>1, ValueGrows
  <2> QED BY <1>2, <2>1, <2>2
<1>4. ASSUME NEW s \in Seq(DOMAIN Width), NEW x \in DOMAIN Width
      PROVE  ByteLength(Append(s, x)) = ByteLength(s) + Width[x]
  <2>1. Append(s, x) \in Seq(DOMAIN Width)
    BY ShortSeqs
  <2>2. ByteLength(Append(s, x)) = Added[<<ByteLength(s), x>>]
    <3>1. Value(Added, 0, Append(s, x)) = Added[<<Value(Added, 0, s), x>>]
      BY <1>1, ValueAppend
    <3>2. ByteLength(s) = Value(Added, 0, s) /\ ByteLength(Append(s, x)) = Value(Added, 0, Append(s, x))
      BY <1>2, <2>1
    <3> QED BY <3>1, <3>2
  <2>3. <<ByteLength(s), x>> \in Nat \X DOMAIN Width
    BY <1>2
  <2> QED BY <2>2, <2>3 DEF Added
<1> QED BY <1>2, <1>3, <1>4

LEMMA ReplacedStep ==
    ASSUME NEW ch, NEW by \in Seq(Alphabet)
    PROVE  IsStep(Replaced(ch, by), Seq(Alphabet), Alphabet, <<>>)
<1>1. ASSUME NEW p \in Seq(Alphabet) \X Alphabet
      PROVE  p[1] \o (IF p[2] = ch THEN by ELSE <<p[2]>>) \in Seq(Alphabet)
  <2>1. p[1] \in Seq(Alphabet) /\ <<p[2]>> \in Seq(Alphabet)
    OBVIOUS
  <2> QED BY <2>1, ConcatProperties
<1> QED BY <1>1 DEF Replaced, IsStep

LEMMA ReplaceCharType ==
    ASSUME NEW ch, NEW by \in Seq(Alphabet), NEW s \in Seq(Alphabet)
    PROVE  /\ ReplaceChar(s, ch, by) = Value(Replaced(ch, by), <<>>, s)
           /\ ReplaceChar(s, ch, by) \in Seq(Alphabet)
BY ReplacedStep, ReplaceCharIsValue, ValueGrows

LEMMA ReplaceCharNone ==
    ASSUME NEW ch, NEW by \in Seq(Alphabet)
    PROVE  ReplaceChar(<<>>, ch, by) = <<>>
<1>1. <<>> \in Seq(Alphabet)
  BY ShortSeqs
<1>2. Value(Replaced(ch, by), <<>>, <<>>) = <<>>
  BY ReplacedStep, ValueGrows
<1> QED BY <1>1, <1>2, ReplaceCharType

\* Replacing a character goes through the text.
ReplaceGoesOn(s, x, ch, by) ==
    ReplaceChar(Append(s, x), ch, by) = ReplaceChar(s, ch, by) \o IF x = ch THEN by ELSE <<x>>

LEMMA ReplaceCharGrows ==
    ASSUME NEW ch, NEW by \in Seq(Alphabet), NEW s \in Seq(Alphabet), NEW x \in Alphabet
    PROVE  ReplaceGoesOn(s, x, ch, by)
<1>1. Append(s, x) \in Seq(Alphabet)
  BY ShortSeqs
<1>2. Value(Replaced(ch, by), <<>>, Append(s, x))
      = Replaced(ch, by)[<<Value(Replaced(ch, by), <<>>, s), x>>]
  BY ReplacedStep, ValueAppend
<1>3. ReplaceChar(Append(s, x), ch, by) = Replaced(ch, by)[<<ReplaceChar(s, ch, by), x>>]
  BY <1>1, <1>2, ReplaceCharType
<1>4. <<ReplaceChar(s, ch, by), x>> \in Seq(Alphabet) \X Alphabet
  BY ReplaceCharType
<1> QED BY <1>3, <1>4 DEF Replaced, ReplaceGoesOn

LEMMA EscapeType ==
    ASSUME NEW key \in Seq(Alphabet)
    PROVE  EscapeJSONPointer(key) \in Seq(Alphabet)
<1>1. <<"~", "0">> \in Seq(Alphabet) /\ <<"~", "1">> \in Seq(Alphabet)
  <2>1. "~" \in Alphabet /\ "0" \in Alphabet /\ "1" \in Alphabet
    BY DEF Alphabet
  <2> QED BY <2>1, ShortSeqs
<1> QED BY <1>1, ReplaceCharType DEF EscapeJSONPointer

\* A pointer grows by a "/" and an escaped key.
LEMMA PointerGrows ==
    /\ Pointer(<<>>) = <<>>
    /\ \A s \in Seq(Seq(Alphabet)) : Pointer(s) \in Seq(Alphabet)
    /\ \A s \in Seq(Seq(Alphabet)), x \in Seq(Alphabet) :
           Pointer(Append(s, x)) = Pointer(s) \o <<"/">> \o EscapeJSONPointer(x)
<1>1. IsStep(Led, Seq(Alphabet), Seq(Alphabet), <<>>)
  <2>1. ASSUME NEW p \in Seq(Alphabet) \X Seq(Alphabet)
        PROVE  p[1] \o <<"/">> \o EscapeJSONPointer(p[2]) \in Seq(Alphabet)
    <3>1. p[1] \in Seq(Alphabet) /\ p[2] \in Seq(Alphabet)
      OBVIOUS
    <3>2. <<"/">> \in Seq(Alphabet)
      <4>1. "/" \in Alphabet
        BY DEF Alphabet
      <4> QED BY <4>1, ShortSeqs
    <3> QED BY <3>1, <3>2, ConcatProperties, EscapeType
  <2> QED BY <2>1 DEF Led, IsStep
<1>2. \A s \in Seq(Seq(Alphabet)) : Pointer(s) = Value(Led, <<>>, s) /\ Pointer(s) \in Seq(Alphabet)
  BY <1>1, PointerIsValue, ValueGrows
<1>3. Pointer(<<>>) = <<>>
  <2>1. <<>> \in Seq(Seq(Alphabet))
    BY ShortSeqs
  <2>2. Value(Led, <<>>, <<>>) = <<>>
    BY <1>1, ValueGrows
  <2> QED BY <1>2, <2>1, <2>2
<1>4. ASSUME NEW s \in Seq(Seq(Alphabet)), NEW x \in Seq(Alphabet)
      PROVE  Pointer(Append(s, x)) = Pointer(s) \o <<"/">> \o EscapeJSONPointer(x)
  <2>1. Append(s, x) \in Seq(Seq(Alphabet))
    BY ShortSeqs
  <2>2. Pointer(Append(s, x)) = Led[<<Pointer(s), x>>]
    <3>1. Value(Led, <<>>, Append(s, x)) = Led[<<Value(Led, <<>>, s), x>>]
      BY <1>1, ValueAppend
    <3>2. Pointer(s) = Value(Led, <<>>, s) /\ Pointer(Append(s, x)) = Value(Led, <<>>, Append(s, x))
      BY <1>2, <2>1
    <3> QED BY <3>1, <3>2
  <2>3. <<Pointer(s), x>> \in Seq(Alphabet) \X Seq(Alphabet)
    BY <1>2
  <2> QED BY <2>2, <2>3 DEF Led
<1> QED BY <1>2, <1>3, <1>4

\* Splitting at "/" opens a segment, or adds to the last.
LEMMA SegmentsGrow ==
    /\ Segments(<<>>) = <<>>
    /\ \A s \in Seq(Alphabet) : Segments(s) \in Seq(Seq(Alphabet))
    /\ \A s \in Seq(Alphabet), x \in Alphabet :
           Segments(Append(s, x)) =
               IF x = "/" THEN Append(Segments(s), <<>>)
               ELSE [Segments(s) EXCEPT ![Len(Segments(s))] = Append(@, x)]
<1>1. IsStep(Cut, Seq(Seq(Alphabet)), Alphabet, <<>>)
  <2>1. ASSUME NEW segs \in Seq(Seq(Alphabet)), NEW x \in Alphabet
        PROVE  /\ Append(segs, <<>>) \in Seq(Seq(Alphabet))
               /\ [segs EXCEPT ![Len(segs)] = Append(@, x)] \in Seq(Seq(Alphabet))
    <3>1. Append(segs, <<>>) \in Seq(Seq(Alphabet))
      BY ShortSeqs
    <3>2. CASE segs = <<>>
      <4>1. [segs EXCEPT ![Len(segs)] = Append(@, x)] = segs
        BY <3>2
      <4> QED BY <3>1, <4>1
    <3>3. CASE segs # <<>>
      <4>1. Len(segs) \in 1..Len(segs)
        BY <3>3, EmptySeq
      <4>2. segs[Len(segs)] \in Seq(Alphabet)
        BY <4>1, ElementOfSeq
      <4>3. Append(segs[Len(segs)], x) \in Seq(Alphabet)
        BY <4>2, ShortSeqs
      <4> QED BY <3>1, <4>1, <4>3, ExceptSeq
    <3> QED BY <3>2, <3>3
  <2>2. ASSUME NEW p \in Seq(Seq(Alphabet)) \X Alphabet PROVE Cut[p] \in Seq(Seq(Alphabet))
    <3>1. p[1] \in Seq(Seq(Alphabet)) /\ p[2] \in Alphabet
      OBVIOUS
    <3>2. Cut[p] = IF p[2] = "/" THEN Append(p[1], <<>>)
                   ELSE [p[1] EXCEPT ![Len(p[1])] = Append(@, p[2])]
      BY DEF Cut
    <3>3. CASE p[2] = "/"
      BY <2>1, <3>1, <3>2, <3>3
    <3>4. CASE p[2] # "/"
      <4>1. Cut[p] = [p[1] EXCEPT ![Len(p[1])] = Append(@, p[2])]
        BY <3>2, <3>4
      <4> QED BY <2>1, <3>1, <4>1
    <3> QED BY <3>3, <3>4
  <2>3. Cut \in [Seq(Seq(Alphabet)) \X Alphabet -> Seq(Seq(Alphabet))]
    <3>1. DOMAIN Cut = Seq(Seq(Alphabet)) \X Alphabet
          /\ Cut = [p \in DOMAIN Cut |-> Cut[p]]
      BY Zenon DEF Cut
    <3> QED BY ONLY <2>2, <3>1
  <2>4. <<>> \in Seq(Seq(Alphabet))
    BY ShortSeqs
  <2> QED BY <2>3, <2>4 DEF IsStep
<1>2. \A s \in Seq(Alphabet) : Segments(s) = Value(Cut, <<>>, s) /\ Segments(s) \in Seq(Seq(Alphabet))
  BY <1>1, SegmentsIsValue, ValueGrows
<1>3. Segments(<<>>) = <<>>
  <2>1. <<>> \in Seq(Alphabet)
    BY ShortSeqs
  <2>2. Value(Cut, <<>>, <<>>) = <<>>
    BY <1>1, ValueGrows
  <2> QED BY <1>2, <2>1, <2>2
<1>4. ASSUME NEW s \in Seq(Alphabet), NEW x \in Alphabet
      PROVE  Segments(Append(s, x)) =
                 IF x = "/" THEN Append(Segments(s), <<>>)
                 ELSE [Segments(s) EXCEPT ![Len(Segments(s))] = Append(@, x)]
  <2>1. Append(s, x) \in Seq(Alphabet)
    BY ShortSeqs
  <2>2. Segments(Append(s, x)) = Cut[<<Segments(s), x>>]
    <3>1. Value(Cut, <<>>, Append(s, x)) = Cut[<<Value(Cut, <<>>, s), x>>]
      BY ONLY <1>1, ValueAppend, s \in Seq(Alphabet), x \in Alphabet
    <3>2. Segments(s) = Value(Cut, <<>>, s) /\ Segments(Append(s, x)) = Value(Cut, <<>>, Append(s, x))
      BY <1>2, <2>1
    <3> QED BY <3>1, <3>2
  <2>3. <<Segments(s), x>> \in Seq(Seq(Alphabet)) \X Alphabet
    BY <1>2
  <2> QED BY <2>2, <2>3 DEF Cut
<1> QED BY <1>2, <1>3, <1>4

\* Where ReplaceTilde stands after a text: what is out, and whether it ends in
\* a "~" that the next character may turn.
NoTilde == [out |-> <<>>, tilde |-> FALSE]
TildeStates == [out : Seq(Alphabet), tilde : BOOLEAN]
TildeState(s, ch, by) == Value(Untilded(ch, by), NoTilde, s)

LEMMA FrontType ==
    ASSUME NEW X, NEW s \in Seq(X)
    PROVE  Front(s) \in Seq(X)
<1>1. Len(s) \in Nat /\ \A i \in 1..(Len(s) - 1) : s[i] \in X
  OBVIOUS
<1> QED BY <1>1, SubSeqProperties DEF Front

LEMMA UntildedStep ==
    ASSUME NEW ch, NEW by \in Alphabet
    PROVE  IsStep(Untilded(ch, by), TildeStates, Alphabet, NoTilde)
<1> DEFINE U == Untilded(ch, by)
<1>1. ASSUME NEW p \in TildeStates \X Alphabet PROVE U[p] \in TildeStates
  <2>1. p[1] \in TildeStates /\ p[1].out \in Seq(Alphabet) /\ p[2] \in Alphabet
    BY DEF TildeStates
  <2>2. U[p] = IF p[1].tilde /\ p[2] = ch
               THEN [out |-> Append(Front(p[1].out), by), tilde |-> FALSE]
               ELSE [out |-> Append(p[1].out, p[2]), tilde |-> p[2] = "~"]
    BY DEF Untilded, TildeStates
  <2>3. [out |-> Append(Front(p[1].out), by), tilde |-> FALSE] \in TildeStates
    <3>1. Append(Front(p[1].out), by) \in Seq(Alphabet)
      BY <2>1, FrontType, ShortSeqs
    <3> QED BY <3>1 DEF TildeStates
  <2>4. [out |-> Append(p[1].out, p[2]), tilde |-> p[2] = "~"] \in TildeStates
    <3>1. Append(p[1].out, p[2]) \in Seq(Alphabet)
      BY <2>1, ShortSeqs
    <3>2. (p[2] = "~") \in BOOLEAN
      OBVIOUS
    <3> QED BY <3>1, <3>2 DEF TildeStates
  <2>5. CASE p[1].tilde /\ p[2] = ch
    BY <2>2, <2>3, <2>5
  <2>6. CASE ~(p[1].tilde /\ p[2] = ch)
    BY <2>2, <2>4, <2>6
  <2> QED BY <2>5, <2>6
<1>2. U \in [TildeStates \X Alphabet -> TildeStates]
  <2>1. DOMAIN U = TildeStates \X Alphabet /\ U = [p \in DOMAIN U |-> U[p]]
    BY Zenon DEF Untilded, TildeStates
  <2> HIDE DEF U
  <2> QED BY <1>1, <2>1
<1>3. NoTilde \in TildeStates
  <2>1. <<>> \in Seq(Alphabet)
    BY ShortSeqs
  <2> QED BY <2>1 DEF NoTilde, TildeStates
<1> QED BY <1>2, <1>3 DEF IsStep

LEMMA TildeStateType ==
    ASSUME NEW ch, NEW by \in Alphabet, NEW s \in Seq(Alphabet)
    PROVE  /\ ReplaceTilde(s, ch, by) = TildeState(s, ch, by).out
           /\ TildeState(s, ch, by) \in TildeStates
<1>1. IsStep(Untilded(ch, by), TildeStates, Alphabet, NoTilde)
  BY UntildedStep
<1>2. ReplaceTilde(s, ch, by) = TildeState(s, ch, by).out
  BY <1>1, ReplaceTildeIsValue DEF TildeState, NoTilde, TildeStates
<1> QED BY <1>1, <1>2, ValueGrows DEF TildeState

LEMMA TildeStateNone ==
    ASSUME NEW ch, NEW by \in Alphabet
    PROVE  TildeState(<<>>, ch, by) = NoTilde
BY UntildedStep, ValueGrows DEF TildeState

\* A "~" with ch behind it turns; any other character goes out as it is.
TildeGoesOn(done, next, x, ch, by) ==
    next = IF done.tilde /\ x = ch
           THEN [out |-> Append(Front(done.out), by), tilde |-> FALSE]
           ELSE [out |-> Append(done.out, x), tilde |-> x = "~"]

LEMMA TildeGrows ==
    ASSUME NEW ch, NEW by \in Alphabet, NEW s \in Seq(Alphabet), NEW x \in Alphabet
    PROVE  TildeGoesOn(TildeState(s, ch, by), TildeState(Append(s, x), ch, by), x, ch, by)
<1> DEFINE U == Untilded(ch, by)
           done == TildeState(s, ch, by)
<1>1. Value(U, NoTilde, Append(s, x)) = U[<<Value(U, NoTilde, s), x>>]
  BY UntildedStep, ValueAppend
<1>2. <<done, x>> \in TildeStates \X Alphabet
  BY TildeStateType
<1>3. TildeState(Append(s, x), ch, by) = U[<<done, x>>]
  BY <1>1 DEF TildeState
<1>4. U[<<done, x>>] = IF done.tilde /\ x = ch
                       THEN [out |-> Append(Front(done.out), by), tilde |-> FALSE]
                       ELSE [out |-> Append(done.out, x), tilde |-> x = "~"]
  BY <1>2 DEF Untilded, TildeStates
<1> HIDE DEF U, done
<1>5. TildeGoesOn(done, TildeState(Append(s, x), ch, by), x, ch, by)
  BY <1>3, <1>4 DEF TildeGoesOn
<1> QED BY <1>5 DEF done

\* The last piece takes a character while it fits; then a new piece begins.
LEMMA PiecesGrow ==
    /\ SplitStringByBytes(<<>>) = <<>>
    /\ \A s \in Seq(DOMAIN Width) : SplitStringByBytes(s) \in Seq(Seq(DOMAIN Width))
    /\ \A s \in Seq(DOMAIN Width), x \in DOMAIN Width :
           LET parts == SplitStringByBytes(s)
           IN  SplitStringByBytes(Append(s, x)) =
                   IF parts # <<>> /\ ByteLength(Last(parts)) + Width[x] <= ChunkBytes
                   THEN Front(parts) \o << Append(Last(parts), x) >>
                   ELSE Append(parts, <<x>>)
<1> DEFINE W == DOMAIN Width
<1>1. IsStep(Filled, Seq(Seq(W)), W, <<>>)
  <2>1. ASSUME NEW parts \in Seq(Seq(W)), NEW x \in W
        PROVE  /\ Append(parts, <<x>>) \in Seq(Seq(W))
               /\ parts # <<>> => Front(parts) \o << Append(Last(parts), x) >> \in Seq(Seq(W))
    <3>1. Append(parts, <<x>>) \in Seq(Seq(W))
      BY ShortSeqs
    <3>2. ASSUME parts # <<>>
          PROVE  Front(parts) \o << Append(Last(parts), x) >> \in Seq(Seq(W))
      <4>1. Last(parts) \in Seq(W)
        <5>1. Len(parts) \in 1..Len(parts)
          BY <3>2, EmptySeq
        <5> QED BY <5>1, ElementOfSeq DEF Last
      <4>2. << Append(Last(parts), x) >> \in Seq(Seq(W))
        BY <4>1, ShortSeqs
      <4> QED BY <4>2, FrontType, ConcatProperties
    <3> QED BY <3>1, <3>2
  <2>2. ASSUME NEW p \in Seq(Seq(W)) \X W PROVE Filled[p] \in Seq(Seq(W))
    <3>1. p[1] \in Seq(Seq(W)) /\ p[2] \in W
      OBVIOUS
    <3>2. Filled[p] = IF p[1] # <<>> /\ ByteLength(Last(p[1])) + Width[p[2]] <= ChunkBytes
                      THEN Front(p[1]) \o << Append(Last(p[1]), p[2]) >>
                      ELSE Append(p[1], <<p[2]>>)
      BY DEF Filled
    <3>3. CASE p[1] # <<>> /\ ByteLength(Last(p[1])) + Width[p[2]] <= ChunkBytes
      BY <2>1, <3>1, <3>2, <3>3
    <3>4. CASE ~(p[1] # <<>> /\ ByteLength(Last(p[1])) + Width[p[2]] <= ChunkBytes)
      <4>1. Filled[p] = Append(p[1], <<p[2]>>)
        BY <3>2, <3>4
      <4> QED BY <2>1, <3>1, <4>1
    <3> QED BY <3>3, <3>4
  <2>3. Filled \in [Seq(Seq(W)) \X W -> Seq(Seq(W))]
    <3>1. DOMAIN Filled = Seq(Seq(W)) \X W /\ Filled = [p \in DOMAIN Filled |-> Filled[p]]
      BY Zenon DEF Filled
    <3> QED BY ONLY <2>2, <3>1
  <2>4. <<>> \in Seq(Seq(W))
    BY ShortSeqs
  <2> QED BY <2>3, <2>4 DEF IsStep
<1>2. \A s \in Seq(W) : SplitStringByBytes(s) = Value(Filled, <<>>, s)
                        /\ SplitStringByBytes(s) \in Seq(Seq(W))
  BY <1>1, SplitIsValue, ValueGrows
<1>3. SplitStringByBytes(<<>>) = <<>>
  <2>1. <<>> \in Seq(W)
    BY ShortSeqs
  <2>2. Value(Filled, <<>>, <<>>) = <<>>
    BY <1>1, ValueGrows
  <2> QED BY <1>2, <2>1, <2>2
<1>4. ASSUME NEW s \in Seq(W), NEW x \in W
      PROVE  LET parts == SplitStringByBytes(s)
             IN  SplitStringByBytes(Append(s, x)) =
                     IF parts # <<>> /\ ByteLength(Last(parts)) + Width[x] <= ChunkBytes
                     THEN Front(parts) \o << Append(Last(parts), x) >>
                     ELSE Append(parts, <<x>>)
  <2>1. Value(Filled, <<>>, Append(s, x)) = Filled[<<Value(Filled, <<>>, s), x>>]
    <3> HIDE DEF W
    <3> QED BY ONLY <1>1, ValueAppend, s \in Seq(W), x \in W
  <2>2. Append(s, x) \in Seq(W)
    BY ShortSeqs
  <2> DEFINE parts == SplitStringByBytes(s)
  <2>3. <<parts, x>> \in Seq(Seq(W)) \X W
    BY <1>2
  <2>4. SplitStringByBytes(Append(s, x)) = Filled[<<parts, x>>]
    BY <1>2, <2>1, <2>2
  <2> HIDE DEF parts
  <2>5. Filled[<<parts, x>>] =
            IF parts # <<>> /\ ByteLength(Last(parts)) + Width[x] <= ChunkBytes
            THEN Front(parts) \o << Append(Last(parts), x) >>
            ELSE Append(parts, <<x>>)
    BY <2>3 DEF Filled
  <2> QED BY <2>4, <2>5 DEF parts
<1> QED BY <1>2, <1>3, <1>4

-----------------------------------------------------------------------------
(* Pieces join to their text, and fit. *)

Joining(X) == [p \in Seq(X) \X Seq(X) |-> p[1] \o p[2]]

LEMMA JoiningStep == ASSUME NEW X PROVE IsStep(Joining(X), Seq(X), Seq(X), <<>>)
<1>1. ASSUME NEW p \in Seq(X) \X Seq(X) PROVE p[1] \o p[2] \in Seq(X)
  <2>1. p[1] \in Seq(X) /\ p[2] \in Seq(X)
    OBVIOUS
  <2> QED BY <2>1, ConcatProperties
<1>2. <<>> \in Seq(X)
  BY ShortSeqs
<1> QED BY <1>1, <1>2 DEF Joining, IsStep

LEMMA FlattenIsValue ==
    ASSUME NEW X, NEW seqs \in Seq(Seq(X)), seqs # <<>>
    PROVE  FlattenSeq(seqs) = Value(Joining(X), <<>>, seqs)
<1> DEFINE n == Len(seqs)
           Own(g) == g = [i \in 1..n |-> IF i = 1 THEN seqs[i] ELSE g[i - 1] \o seqs[i]]
<1>1. n \in Nat /\ n # 0 /\ n \in 1..n
  BY EmptySeq, LenProperties
<1>2. FlattenSeq(seqs) = (CHOOSE g : Own(g))[n]
  BY <1>1 DEF FlattenSeq
<1>3. PICK f \in [0..n -> Seq(X)] :
          IsRun(f, Joining(X), <<>>, seqs) /\ Value(Joining(X), <<>>, seqs) = f[n]
  BY RunExists, JoiningStep
<1>4. ASSUME NEW k \in 1..n
      PROVE  f[k] = (IF k = 1 THEN seqs[k] ELSE f[k - 1] \o seqs[k])
  <2>1. f[k - 1] \in Seq(X) /\ seqs[k] \in Seq(X)
    <3>1. k - 1 \in 0..n
      BY <1>1
    <3>2. seqs[k] \in Seq(X)
      BY ElementOfSeq
    <3> HIDE DEF n
    <3> QED BY <3>1, <3>2
  <2>2. f[k] = Joining(X)[<<f[k - 1], seqs[k]>>]
    BY <1>3 DEF IsRun
  <2>3. f[k] = f[k - 1] \o seqs[k]
    BY <2>1, <2>2 DEF Joining
  <2>4. CASE k = 1
    <3>1. f[k - 1] = <<>>
      BY <1>3, <2>4 DEF IsRun
    <3>2. <<>> \o seqs[k] = seqs[k]
      BY <2>1, ConcatEmptySeq
    <3> QED BY <2>3, <2>4, <3>1, <3>2
  <2> QED BY <2>3, <2>4
<1>5. \E g : Own(g)
  <2> DEFINE g == [i \in 1..n |-> f[i]]
  <2>1. \A i \in 1..n : i # 1 => i - 1 \in 1..n
    BY <1>1
  <2>2. Own(g)
    BY <1>4, <2>1
  <2> QED BY <2>2
<1>6. PICK g : Own(g) /\ FlattenSeq(seqs) = g[n]
  BY <1>2, <1>5
<1> DEFINE T == {k \in Nat : k + 1 <= n => g[k + 1] = f[k + 1]}
<1>7. 0 \in T
  <2>1. 1 \in 1..n
    BY <1>1
  <2>2. g[1] = seqs[1] /\ f[1] = seqs[1]
    BY <1>4, <1>6, <2>1
  <2> QED BY <2>2
<1>8. ASSUME NEW k \in T PROVE k + 1 \in T
  <2>0. k \in Nat /\ k + 1 \in Nat
    OBVIOUS
  <2> SUFFICES ASSUME (k + 1) + 1 <= n PROVE g[(k + 1) + 1] = f[(k + 1) + 1]
    BY <2>0
  <2> DEFINE m == (k + 1) + 1
  <2>1. m \in 1..n /\ m # 1 /\ m - 1 = k + 1
    BY <1>1, <2>0
  <2>2. g[m - 1] = f[m - 1]
    BY <1>1, <2>0, <2>1
  <2>3. g[m] = g[m - 1] \o seqs[m]
    BY <1>6, <2>1
  <2> HIDE DEF m, Own, T
  <2>4. g[m] = f[m]
    BY <1>4, <2>1, <2>2, <2>3
  <2> QED BY <2>4 DEF m
<1>9. T \in SUBSET Nat
  OBVIOUS
<1> HIDE DEF T, Own
<1>10. T = Nat
  BY <1>7, <1>8, <1>9, NatInductSet
<1>11. n - 1 \in T /\ (n - 1) + 1 = n
  BY <1>1, <1>10
<1>12. g[n] = f[n]
  BY <1>1, <1>11 DEF T
<1> QED BY <1>3, <1>6, <1>12

LEMMA FlattenGrows ==
    ASSUME NEW X
    PROVE  /\ FlattenSeq(<<>>) = <<>>
           /\ \A s \in Seq(Seq(X)) : FlattenSeq(s) \in Seq(X)
           /\ \A s \in Seq(Seq(X)), x \in Seq(X) : FlattenSeq(Append(s, x)) = FlattenSeq(s) \o x
<1>1. FlattenSeq(<<>>) = <<>>
  BY DEF FlattenSeq
<1>2. IsStep(Joining(X), Seq(X), Seq(X), <<>>)
  BY JoiningStep
<1>3. Value(Joining(X), <<>>, <<>>) = <<>>
  BY <1>2, ValueGrows
<1>4. ASSUME NEW s \in Seq(Seq(X))
      PROVE  FlattenSeq(s) = Value(Joining(X), <<>>, s) /\ FlattenSeq(s) \in Seq(X)
  <2>1. FlattenSeq(s) = Value(Joining(X), <<>>, s)
    BY <1>1, <1>3, FlattenIsValue
  <2> QED BY <1>2, <2>1, ValueGrows
<1>5. ASSUME NEW s \in Seq(Seq(X)), NEW x \in Seq(X)
      PROVE  FlattenSeq(Append(s, x)) = FlattenSeq(s) \o x
  <2>1. Append(s, x) \in Seq(Seq(X))
    BY ShortSeqs
  <2>2. FlattenSeq(Append(s, x)) = Joining(X)[<<FlattenSeq(s), x>>]
    <3>1. Value(Joining(X), <<>>, Append(s, x)) = Joining(X)[<<Value(Joining(X), <<>>, s), x>>]
      BY ONLY <1>2, ValueAppend, s \in Seq(Seq(X)), x \in Seq(X)
    <3> QED BY <1>4, <2>1, <3>1
  <2>3. <<FlattenSeq(s), x>> \in Seq(X) \X Seq(X)
    BY <1>4
  <2> QED BY <2>2, <2>3 DEF Joining
<1> QED BY <1>1, <1>4, <1>5

LEMMA FrontLast ==
    ASSUME NEW X, NEW s \in Seq(X), s # <<>>
    PROVE  /\ Front(s) \in Seq(X) /\ Last(s) \in X /\ s = Append(Front(s), Last(s))
           /\ Len(s) = Len(Front(s)) + 1 /\ Len(Front(s)) \in Nat
<1>1. Len(s) \in Nat /\ Len(s) # 0 /\ Len(s) \in 1..Len(s)
  BY EmptySeq, LenProperties
<1>2. Front(s) \in Seq(X) /\ Last(s) \in X
  BY <1>1, FrontType, ElementOfSeq DEF Last
<1>3. Len(Front(s)) = Len(s) - 1 /\ \A i \in 1..(Len(s) - 1) : Front(s)[i] = s[i]
  <2>1. \A i \in 1..(Len(s) - 1) : s[i] \in X
    BY <1>1, ElementOfSeq
  <2>2. /\ Len(SubSeq(s, 1, Len(s) - 1)) = IF 1 <= Len(s) - 1 THEN (Len(s) - 1) - 1 + 1 ELSE 0
        /\ \A i \in 1..((Len(s) - 1) - 1 + 1) : SubSeq(s, 1, Len(s) - 1)[i] = s[1 + i - 1]
    BY <1>1, <2>1, SubSeqProperties
  <2>3. (Len(s) - 1) - 1 + 1 = Len(s) - 1 /\ \A i \in 1..(Len(s) - 1) : 1 + i - 1 = i
    BY <1>1
  <2> QED BY <1>1, <2>2, <2>3 DEF Front
<1> DEFINE t == Append(Front(s), Last(s))
<1>4. /\ t \in Seq(X) /\ Len(t) = Len(s)
      /\ \A i \in 1..(Len(s) - 1) : t[i] = s[i]
      /\ t[Len(s)] = s[Len(s)]
  BY <1>1, <1>2, <1>3, AppendProperties DEF Last
<1> HIDE DEF t
<1>5. s = t
  <2>1. \A i \in 1..Len(s) : s[i] = t[i]
    BY <1>1, <1>4
  <2> QED BY <1>4, <2>1, SeqEqual
<1> QED BY <1>1, <1>2, <1>3, <1>5 DEF t

\* SplitStringByBytes loses nothing: its pieces, one after the other, are the text.
PiecesRight(s) ==
    LET parts == SplitStringByBytes(s)
    IN  /\ FlattenSeq(parts) = s
        /\ s # <<>> => parts # <<>>
        /\ \A i \in 1..Len(parts) : parts[i] # <<>>

LEMMA PiecesJoin ==
    ASSUME NEW s \in Seq(DOMAIN Width)
    PROVE  PiecesRight(s)
<1> DEFINE W == DOMAIN Width
           T == {t \in Seq(W) : PiecesRight(t)}
<1>1. <<>> \in T
  <2>1. <<>> \in Seq(W) /\ Len(<<>>) = 0
    BY ShortSeqs
  <2> QED BY <2>1, PiecesGrow, FlattenGrows DEF PiecesRight
<1>2. ASSUME NEW t \in T, NEW x \in W PROVE Append(t, x) \in T
  <2> DEFINE parts == SplitStringByBytes(t)
             new == SplitStringByBytes(Append(t, x))
  <2>1. /\ t \in Seq(W) /\ Append(t, x) \in Seq(W) /\ <<x>> \in Seq(W) /\ parts \in Seq(Seq(W))
        /\ FlattenSeq(parts) = t
        /\ \A i \in 1..Len(parts) : parts[i] # <<>>
        /\ Append(t, x) = t \o <<x>>
    BY ShortSeqs, PiecesGrow, AppendIsConcat DEF PiecesRight
  <2>2. new = IF parts # <<>> /\ ByteLength(Last(parts)) + Width[x] <= ChunkBytes
              THEN Front(parts) \o << Append(Last(parts), x) >>
              ELSE Append(parts, <<x>>)
    BY <2>1, PiecesGrow
  <2> HIDE DEF parts, new, T
  <2>3. ASSUME NEW q \in Seq(Seq(W)), NEW y \in Seq(W), y # <<>>,
               \A i \in 1..Len(q) : q[i] # <<>>, new = Append(q, y), FlattenSeq(q) \o y = Append(t, x)
        PROVE  Append(t, x) \in T
    <3>1. FlattenSeq(new) = Append(t, x)
      BY <2>3, FlattenGrows
    <3>2. new # <<>> /\ \A i \in 1..Len(new) : new[i] # <<>>
      <4>1. /\ new # <<>> /\ Len(new) = Len(q) + 1 /\ Len(q) \in Nat
            /\ \A i \in 1..Len(q) : new[i] = q[i]
            /\ new[Len(q) + 1] = y
        BY <2>3, AppendProperties, LenProperties
      <4>2. \A i \in 1..Len(new) : i \in 1..Len(q) \/ i = Len(q) + 1
        BY <4>1
      <4> QED BY <2>3, <4>1, <4>2
    <3> QED BY <2>1, <3>1, <3>2 DEF T, PiecesRight, new
  <2>4. CASE parts # <<>> /\ ByteLength(Last(parts)) + Width[x] <= ChunkBytes
    <3>1. /\ Front(parts) \in Seq(Seq(W)) /\ Last(parts) \in Seq(W)
          /\ parts = Append(Front(parts), Last(parts))
          /\ Len(parts) = Len(Front(parts)) + 1 /\ Len(Front(parts)) \in Nat
      BY <2>1, <2>4, FrontLast
    <3> DEFINE q == Front(parts)
               l == Last(parts)
               y == Append(l, x)
    <3> HIDE DEF q, l
    <3>2. /\ q \in Seq(Seq(W)) /\ l \in Seq(W) /\ parts = Append(q, l)
          /\ Len(parts) = Len(q) + 1 /\ Len(q) \in Nat
      BY <3>1 DEF q, l
    <3>3. y \in Seq(W) /\ y # <<>> /\ y = l \o <<x>>
      BY <3>2, AppendProperties, AppendIsConcat
    <3> HIDE DEF y
    <3>4. new = Append(q, y)
      <4>1. new = q \o <<y>>
        BY <2>2, <2>4 DEF q, l, y
      <4> QED BY <3>2, <3>3, <4>1, AppendIsConcat
    <3>5. \A i \in 1..Len(q) : q[i] # <<>>
      BY <2>1, <3>2, AppendProperties
    <3>6. FlattenSeq(q) \in Seq(W) /\ FlattenSeq(q) \o l = t
      BY <2>1, <3>2, FlattenGrows
    <3>7. FlattenSeq(q) \o y = Append(t, x)
      <4>1. /\ FlattenSeq(q) \in Seq(W) /\ l \in Seq(W) /\ <<x>> \in Seq(W)
        BY <2>1, <3>2, <3>6
      <4>2. (FlattenSeq(q) \o l) \o <<x>> = FlattenSeq(q) \o (l \o <<x>>)
        BY ONLY <4>1, ConcatAssociative
      <4>3. FlattenSeq(q) \o l = t /\ y = l \o <<x>> /\ Append(t, x) = t \o <<x>>
        BY <2>1, <3>3, <3>6
      <4> QED BY ONLY <4>2, <4>3
    <3> QED BY <2>3, <3>2, <3>3, <3>4, <3>5, <3>7
  <2>5. CASE ~(parts # <<>> /\ ByteLength(Last(parts)) + Width[x] <= ChunkBytes)
    <3>1. new = Append(parts, <<x>>)
      BY <2>2, <2>5
    <3>2. <<x>> # <<>>
      OBVIOUS
    <3> QED BY <2>1, <2>3, <3>1, <3>2
  <2> QED BY <2>4, <2>5
<1>3. T \in SUBSET Seq(W)
  OBVIOUS
<1> HIDE DEF T, W
<1>4. T = Seq(W)
  BY <1>1, <1>2, <1>3, SeqInductSet
<1> QED BY <1>4 DEF T, W

AllFit(s) == \A j \in 1..Len(s) : Width[s[j]] <= ChunkBytes

\* SplitStringByBytes: no piece is larger than a chunk, if no character is.
LEMMA PiecesFit ==
    ASSUME NEW s \in Seq(DOMAIN Width), AllFit(s)
    PROVE  \A i \in 1..Len(SplitStringByBytes(s)) :
               ByteLength(SplitStringByBytes(s)[i]) <= ChunkBytes
<1> DEFINE W == DOMAIN Width
           Fit(parts) == \A i \in 1..Len(parts) : ByteLength(parts[i]) <= ChunkBytes
           T == {t \in Seq(W) : AllFit(t) => Fit(SplitStringByBytes(t))}
<1>0. ChunkBytes \in Nat /\ \A x \in W : Width[x] \in Nat
  BY JSONAssumption
<1>1. <<>> \in T
  <2>1. <<>> \in Seq(W) /\ Len(<<>>) = 0
    BY ShortSeqs
  <2> QED BY <2>1, PiecesGrow
<1>2. ASSUME NEW t \in T, NEW x \in W PROVE Append(t, x) \in T
  <2> DEFINE parts == SplitStringByBytes(t)
             new == SplitStringByBytes(Append(t, x))
  <2>1. t \in Seq(W) /\ Append(t, x) \in Seq(W) /\ <<x>> \in Seq(W) /\ parts \in Seq(Seq(W))
    BY ShortSeqs, PiecesGrow
  <2> SUFFICES ASSUME AllFit(Append(t, x)) PROVE Fit(new)
    BY <2>1
  <2>2. AllFit(t) /\ Width[x] <= ChunkBytes
    <3>1. /\ Len(Append(t, x)) = Len(t) + 1 /\ Len(t) \in Nat
          /\ \A i \in 1..Len(t) : Append(t, x)[i] = t[i]
          /\ Append(t, x)[Len(t) + 1] = x
      BY <2>1, AppendProperties, LenProperties
    <3> QED BY <3>1 DEF AllFit
  <2>3. Fit(parts)
    BY <2>2
  <2>4. new = IF parts # <<>> /\ ByteLength(Last(parts)) + Width[x] <= ChunkBytes
              THEN Front(parts) \o << Append(Last(parts), x) >>
              ELSE Append(parts, <<x>>)
    BY <2>1, PiecesGrow
  <2> HIDE DEF parts, new, T
  <2>5. ASSUME NEW q \in Seq(Seq(W)), NEW y \in Seq(W), Fit(q), ByteLength(y) <= ChunkBytes,
               new = Append(q, y)
        PROVE  Fit(new)
    <3>1. /\ Len(new) = Len(q) + 1 /\ Len(q) \in Nat
          /\ \A i \in 1..Len(q) : new[i] = q[i]
          /\ new[Len(q) + 1] = y
      BY <2>5, AppendProperties, LenProperties
    <3>2. \A i \in 1..Len(new) : i \in 1..Len(q) \/ i = Len(q) + 1
      BY <3>1
    <3> QED BY <2>5, <3>1, <3>2
  <2>6. CASE parts # <<>> /\ ByteLength(Last(parts)) + Width[x] <= ChunkBytes
    <3>1. /\ Front(parts) \in Seq(Seq(W)) /\ Last(parts) \in Seq(W)
          /\ parts = Append(Front(parts), Last(parts))
          /\ Len(parts) = Len(Front(parts)) + 1 /\ Len(Front(parts)) \in Nat
      BY <2>1, <2>6, FrontLast
    <3> DEFINE q == Front(parts)
               l == Last(parts)
    <3> HIDE DEF q, l
    <3>2. /\ q \in Seq(Seq(W)) /\ l \in Seq(W) /\ parts = Append(q, l)
          /\ Len(parts) = Len(q) + 1 /\ Len(q) \in Nat
      BY <3>1 DEF q, l
    <3>3. Append(l, x) \in Seq(W) /\ ByteLength(Append(l, x)) <= ChunkBytes
      <4>1. ByteLength(l) + Width[x] <= ChunkBytes
        BY <2>6 DEF l
      <4> QED BY <3>2, <4>1, ShortSeqs, ByteLengthGrows
    <3>4. new = Append(q, Append(l, x))
      <4>1. new = q \o << Append(l, x) >>
        BY <2>4, <2>6 DEF q, l
      <4> QED BY <3>2, <3>3, <4>1, AppendIsConcat
    <3>5. Fit(q)
      <4>1. \A i \in 1..Len(q) : parts[i] = q[i] /\ i \in 1..Len(parts)
        BY <3>2, AppendProperties
      <4> QED BY <2>3, <4>1
    <3> HIDE DEF Fit
    <3> QED BY <2>5, <3>2, <3>3, <3>4, <3>5
  <2>7. CASE ~(parts # <<>> /\ ByteLength(Last(parts)) + Width[x] <= ChunkBytes)
    <3>1. new = Append(parts, <<x>>)
      BY <2>4, <2>7
    <3>2. ByteLength(<<x>>) <= ChunkBytes
      <4>1. <<>> \in Seq(W) /\ <<x>> = Append(<<>>, x)
        BY ShortSeqs
      <4>2. ByteLength(<<x>>) = 0 + Width[x]
        BY <4>1, ByteLengthGrows
      <4> QED BY <1>0, <2>2, <4>2
    <3> HIDE DEF Fit
    <3> QED BY <2>1, <2>3, <2>5, <3>1, <3>2
  <2> QED BY <2>6, <2>7
<1>3. T \in SUBSET Seq(W)
  OBVIOUS
<1> HIDE DEF T, W
<1>4. T = Seq(W)
  BY <1>1, <1>2, <1>3, SeqInductSet
<1> QED BY <1>4 DEF T, W

-----------------------------------------------------------------------------
(* A pointer leads back to its path. *)

LEMMA AppendFacts ==
    ASSUME NEW X, NEW s \in Seq(X), NEW x \in X
    PROVE  /\ Append(s, x) \in Seq(X) /\ Append(s, x) # <<>>
           /\ Front(Append(s, x)) = s /\ Last(Append(s, x)) = x
           /\ Append(s, x) = s \o <<x>>
<1> DEFINE t == Append(s, x)
<1>1. t \in Seq(X) /\ t # <<>> /\ t = s \o <<x>>
  BY AppendProperties, AppendIsConcat
<1>2. t = Append(Front(t), Last(t)) /\ Front(t) \in Seq(X) /\ Last(t) \in X
  BY <1>1, FrontLast
<1> HIDE DEF t
<1>3. Append(s, x) = Append(Front(t), Last(t))
  BY <1>2 DEF t
<1>4. s = Front(t) /\ x = Last(t)
  BY <1>2, <1>3, AppendInjective
<1> QED BY <1>1, <1>4 DEF t

\* No "~" in front of d; and whether the last "~" is one that was not put there.
NoPair(t, d) == \A j \in 1..(Len(t) - 1) : t[j] = "~" => t[j + 1] # d
EndsInTilde(t, c) == t # <<>> /\ Last(t) = "~" /\ c # "~"

\* What was replaced is put back: of "~" itself, or where no "~" had d behind it.
LEMMA UndoReplace ==
    ASSUME NEW c \in Alphabet, NEW d \in Alphabet, d # "~",
           NEW t \in Seq(Alphabet), c = "~" \/ NoPair(t, d)
    PROVE  ReplaceTilde(ReplaceChar(t, c, <<"~", d>>), d, c) = t
<1> DEFINE by == <<"~", d>>
           Back(s) == LET done == TildeState(ReplaceChar(s, c, by), d, c)
                      IN  done.out = s /\ (done.tilde <=> EndsInTilde(s, c))
           T == {s \in Seq(Alphabet) : c = "~" \/ NoPair(s, d) => Back(s)}
<1>0. "~" \in Alphabet /\ by \in Seq(Alphabet)
  <2>1. "~" \in Alphabet
    BY DEF Alphabet
  <2> QED BY <2>1, ShortSeqs
<1>1. <<>> \in T
  <2>1. <<>> \in Seq(Alphabet)
    BY ShortSeqs
  <2>2. ReplaceChar(<<>>, c, by) = <<>> /\ TildeState(<<>>, d, c) = NoTilde
    BY <1>0, ReplaceCharNone, TildeStateNone
  <2>3. Back(<<>>)
    BY <2>2 DEF NoTilde, EndsInTilde
  <2> QED BY <2>1, <2>3
<1>2. ASSUME NEW s \in T, NEW x \in Alphabet PROVE Append(s, x) \in T
  <2> DEFINE u == Append(s, x)
             r == ReplaceChar(s, c, by)
             done == TildeState(r, d, c)
  <2>1. /\ s \in Seq(Alphabet) /\ u \in Seq(Alphabet) /\ r \in Seq(Alphabet)
        /\ u # <<>> /\ Last(u) = x
        /\ done \in TildeStates
        /\ (x = c => ReplaceChar(u, c, by) = r \o by)
        /\ (x # c => ReplaceChar(u, c, by) = r \o <<x>>)
    <3>1. s \in Seq(Alphabet)
      OBVIOUS
    <3>2. u \in Seq(Alphabet) /\ u # <<>> /\ Last(u) = x
      <4> HIDE DEF T
      <4>1. u \in Seq(Alphabet) /\ u # <<>>
        BY ONLY <3>1, x \in Alphabet, AppendProperties
      <4>2. Last(u) = x
        BY ONLY <3>1, x \in Alphabet, AppendFacts
      <4> QED BY <4>1, <4>2
    <3>3. /\ r \in Seq(Alphabet) /\ (x = c => ReplaceChar(u, c, by) = r \o by)
          /\ (x # c => ReplaceChar(u, c, by) = r \o <<x>>)
      <4> HIDE DEF by
      <4>1. r \in Seq(Alphabet)
        BY <1>0, <3>1, ReplaceCharType
      <4>2. ReplaceGoesOn(s, x, c, by)
        BY <1>0, <3>1, ReplaceCharGrows
      <4>3. ReplaceChar(u, c, by) = r \o IF x = c THEN by ELSE <<x>>
        BY <4>2 DEF ReplaceGoesOn
      <4> QED BY <4>1, <4>3
    <3> QED BY <3>1, <3>2, <3>3, TildeStateType
  <2> SUFFICES ASSUME c = "~" \/ NoPair(u, d) PROVE Back(u)
    BY <2>1
  <2>2. (c = "~" \/ NoPair(s, d)) /\ (EndsInTilde(s, c) => x # d)
    <3>1. /\ Len(u) = Len(s) + 1 /\ Len(s) \in Nat
          /\ \A i \in 1..Len(s) : u[i] = s[i]
          /\ u[Len(s) + 1] = x
      BY <2>1, AppendProperties, LenProperties
    <3>2. CASE c = "~"
      BY <3>2 DEF EndsInTilde
    <3>3. CASE NoPair(u, d)
      <4>1. NoPair(s, d)
        BY <3>1, <3>3 DEF NoPair
      <4>2. ASSUME EndsInTilde(s, c) PROVE x # d
        <5>1. Len(s) \in 1..(Len(u) - 1) /\ u[Len(s)] = "~"
          <6>1. Len(s) # 0
            BY <2>1, <4>2, EmptySeq DEF EndsInTilde
          <6> QED BY <3>1, <4>2, <6>1 DEF EndsInTilde, Last
        <5> QED BY <3>1, <3>3, <5>1 DEF NoPair
      <4> QED BY <4>1, <4>2
    <3> QED BY <3>2, <3>3
  <2>3. done.out = s /\ (done.tilde <=> EndsInTilde(s, c))
    BY <2>2
  <2> HIDE DEF u, r, done, T
  <2>4. CASE x = c
    <3> DEFINE mid == TildeState(Append(r, "~"), d, c)
    <3>1. Append(r, "~") \in Seq(Alphabet) /\ r \o by = Append(Append(r, "~"), d)
      <4>1. Append(r, "~") \in Seq(Alphabet) /\ Append(r, "~") = r \o <<"~">>
        BY <1>0, <2>1, AppendFacts
      <4>2. Append(Append(r, "~"), d) = (r \o <<"~">>) \o <<d>>
        BY <4>1, AppendFacts
      <4>3. <<"~">> \in Seq(Alphabet) /\ <<d>> \in Seq(Alphabet)
        BY <1>0, ShortSeqs
      <4>4. <<"~">> \o <<d>> = by
        BY <1>0, Pair
      <4> QED BY <2>1, <4>1, <4>2, <4>3, <4>4, ConcatAssociative
    <3>2. mid.out = Append(s, "~") /\ mid.tilde
      <4>1. done = TildeState(r, d, c) /\ mid = TildeState(Append(r, "~"), d, c)
        BY DEF done
      <4> HIDE DEF mid
      <4>2. TildeGoesOn(done, mid, "~", d, c)
        BY ONLY <1>0, <2>1, <4>1, c \in Alphabet, TildeGrows
      <4>3. mid = [out |-> Append(done.out, "~"), tilde |-> "~" = "~"]
        BY <2>3, <4>2 DEF TildeGoesOn
      <4> QED BY <2>3, <4>3
    <3> DEFINE end == TildeState(r \o by, d, c)
    <3> HIDE DEF mid
    <3>3. end.out = Append(Front(mid.out), c) /\ ~end.tilde
      <4> HIDE DEF by
      <4>1. end = TildeState(Append(Append(r, "~"), d), d, c)
        BY <3>1
      <4>2. mid = TildeState(Append(r, "~"), d, c)
        BY DEF mid
      <4> HIDE DEF end
      <4>3. TildeGoesOn(mid, end, d, d, c)
        BY ONLY <3>1, <4>1, <4>2, c \in Alphabet, d \in Alphabet, TildeGrows
      <4>4. end = [out |-> Append(Front(mid.out), c), tilde |-> FALSE]
        BY <3>2, <4>3 DEF TildeGoesOn
      <4> QED BY <4>4
    <3>4. Front(Append(s, "~")) = s
      BY <1>0, <2>1, AppendFacts
    <3>5. end.out = u /\ ReplaceChar(u, c, by) = r \o by
      BY <2>1, <2>4, <3>2, <3>3, <3>4 DEF u
    <3>6. ~EndsInTilde(u, c)
      BY <2>1, <2>4 DEF EndsInTilde
    <3> QED BY <3>3, <3>5, <3>6
  <2>5. CASE x # c
    <3>1. ReplaceChar(u, c, by) = Append(r, x)
      BY <2>1, <2>5, AppendFacts
    <3>2. ~(done.tilde /\ x = d)
      BY <2>2, <2>3
    <3> DEFINE end == TildeState(Append(r, x), d, c)
    <3>3. end.out = Append(done.out, x) /\ (end.tilde <=> x = "~")
      <4> HIDE DEF end
      <4>1. end = TildeState(Append(r, x), d, c)
        BY DEF end
      <4>2. done = TildeState(r, d, c)
        BY DEF done
      <4>3. TildeGoesOn(done, end, x, d, c)
        BY ONLY <2>1, <4>1, <4>2, c \in Alphabet, x \in Alphabet, TildeGrows
      <4>4. end = [out |-> Append(done.out, x), tilde |-> x = "~"]
        BY <3>2, <4>3 DEF TildeGoesOn
      <4>5. end.out = Append(done.out, x) /\ end.tilde = (x = "~")
        BY <4>4
      <4> QED BY <4>5
    <3>5. EndsInTilde(u, c) <=> x = "~"
      <4>1. u # <<>> /\ Last(u) = x
        BY <2>1
      <4> QED BY <2>5, <4>1 DEF EndsInTilde
    <3> QED BY <2>3, <3>1, <3>3, <3>5 DEF u
  <2> QED BY <2>4, <2>5
<1>3. T \in SUBSET Seq(Alphabet)
  OBVIOUS
<1> HIDE DEF T
<1>4. t \in T
  BY <1>1, <1>2, <1>3, SeqInductSet
<1>5. Back(t)
  BY <1>4 DEF T
<1>6. ReplaceChar(t, c, by) \in Seq(Alphabet)
  BY <1>0, ReplaceCharType
<1> QED BY <1>5, <1>6, TildeStateType

LEMMA Letters == {"~", "/", "0", "1"} \subseteq Alphabet
BY DEF Alphabet

\* The first pass leaves no "~" without a "0" behind it.
Guarded(e) == NoPair(e, "1") /\ (e # <<>> => Last(e) # "~")

LEMMA NoPairGrows ==
    ASSUME NEW s \in Seq(Alphabet), NEW x \in Alphabet, NEW d,
           NoPair(s, d), s # <<>> => Last(s) # "~" \/ x # d
    PROVE  NoPair(Append(s, x), d)
<1> DEFINE u == Append(s, x)
<1>1. /\ Len(u) = Len(s) + 1 /\ Len(s) \in Nat
      /\ \A i \in 1..Len(s) : u[i] = s[i]
      /\ u[Len(s) + 1] = x
  BY AppendProperties, LenProperties
<1> HIDE DEF u
<1> SUFFICES ASSUME NEW j \in 1..(Len(u) - 1), u[j] = "~" PROVE u[j + 1] # d
  BY DEF NoPair, u
<1>2. j \in 1..Len(s) /\ s[j] = "~"
  BY <1>1
<1>3. CASE j = Len(s)
  <2>1. s # <<>> /\ Last(s) = "~"
    BY <1>2, <1>3, EmptySeq DEF Last
  <2> QED BY <1>1, <1>3, <2>1
<1>4. CASE j # Len(s)
  <2>1. j \in 1..(Len(s) - 1) /\ j + 1 \in 1..Len(s)
    BY <1>1, <1>2, <1>4
  <2> QED BY <1>1, <1>2, <2>1 DEF NoPair
<1> QED BY <1>3, <1>4

LEMMA FirstPassGuards ==
    ASSUME NEW key \in Seq(Alphabet)
    PROVE  Guarded(ReplaceChar(key, "~", <<"~", "0">>))
<1> DEFINE by == <<"~", "0">>
           T == {s \in Seq(Alphabet) : Guarded(ReplaceChar(s, "~", by))}
<1>0. by \in Seq(Alphabet) /\ "~" \in Alphabet /\ "0" \in Alphabet /\ by = <<"~">> \o <<"0">>
      /\ <<"~">> \in Seq(Alphabet) /\ <<"0">> \in Seq(Alphabet)
  BY Letters, ShortSeqs, Pair
<1> HIDE DEF by
<1>1. <<>> \in T
  <2>1. <<>> \in Seq(Alphabet) /\ Len(<<>>) = 0
    BY ShortSeqs
  <2>2. ReplaceChar(<<>>, "~", by) = <<>>
    BY <1>0, ReplaceCharNone
  <2> QED BY <2>1, <2>2 DEF Guarded, NoPair
<1>2. ASSUME NEW s \in T, NEW x \in Alphabet PROVE Append(s, x) \in T
  <2> DEFINE r == ReplaceChar(s, "~", by)
             n == ReplaceChar(Append(s, x), "~", by)
  <2>1. s \in Seq(Alphabet) /\ Append(s, x) \in Seq(Alphabet) /\ Guarded(r)
    BY ShortSeqs
  <2>2. ReplaceGoesOn(s, x, "~", by)
    BY <1>0, <2>1, ReplaceCharGrows
  <2>3. n = r \o IF x = "~" THEN by ELSE <<x>>
    BY <2>2 DEF ReplaceGoesOn
  <2>4. r \in Seq(Alphabet)
    BY <1>0, <2>1, ReplaceCharType
  <2> HIDE DEF r, n
  <2>5. CASE x = "~"
    <3> DEFINE mid == Append(r, "~")
    <3>1. /\ mid \in Seq(Alphabet) /\ mid = r \o <<"~">> /\ NoPair(mid, "1")
          /\ Append(mid, "0") # <<>> /\ Last(Append(mid, "0")) = "0"
          /\ Append(mid, "0") = mid \o <<"0">>
      <4>1. mid \in Seq(Alphabet) /\ mid = r \o <<"~">>
        BY <1>0, <2>4, AppendFacts
      <4>2. NoPair(mid, "1")
        BY <1>0, <2>1, <2>4, NoPairGrows DEF Guarded
      <4> HIDE DEF mid
      <4> QED BY <1>0, <4>1, <4>2, AppendFacts
    <3> HIDE DEF mid
    <3>2. NoPair(Append(mid, "0"), "1")
      BY <1>0, <3>1, NoPairGrows
    <3>3. n = Append(mid, "0")
      BY <1>0, <2>3, <2>4, <2>5, <3>1, ConcatAssociative
    <3> QED BY <2>1, <3>1, <3>2, <3>3 DEF Guarded, n
  <2>6. CASE x # "~"
    <3>1. n = Append(r, x) /\ n # <<>> /\ Last(n) = x
      BY <2>3, <2>4, <2>6, AppendFacts
    <3>2. NoPair(n, "1")
      BY <2>1, <2>4, <3>1, NoPairGrows DEF Guarded
    <3> QED BY <2>1, <2>6, <3>1, <3>2 DEF Guarded, n
  <2> QED BY <2>5, <2>6
<1>3. T \in SUBSET Seq(Alphabet)
  OBVIOUS
<1> HIDE DEF T
<1>4. key \in T
  BY <1>1, <1>2, <1>3, SeqInductSet
<1> QED BY <1>4 DEF T, by

\* Of a key, escaping and unescaping give the key.
LEMMA KeyBack ==
    ASSUME NEW key \in Seq(Alphabet)
    PROVE  UnescapeJSONPointer(EscapeJSONPointer(key)) = key
<1> DEFINE e == ReplaceChar(key, "~", <<"~", "0">>)
<1>1. "~" \in Alphabet /\ "/" \in Alphabet /\ "0" \in Alphabet /\ "1" \in Alphabet
  BY Letters
<1>2. e \in Seq(Alphabet) /\ NoPair(e, "1")
  <2>1. <<"~", "0">> \in Seq(Alphabet)
    BY <1>1, ShortSeqs
  <2> QED BY <2>1, ReplaceCharType, FirstPassGuards DEF Guarded
<1>3. ReplaceTilde(e, "0", "~") = key
  BY <1>1, UndoReplace
<1> HIDE DEF e
<1>4. ReplaceTilde(ReplaceChar(e, "/", <<"~", "1">>), "1", "/") = e
  BY <1>1, <1>2, UndoReplace
<1> QED BY <1>3, <1>4 DEF e, EscapeJSONPointer, UnescapeJSONPointer

\* An escaped key has no "/" in it.
NoSlash(s) == \A i \in 1..Len(s) : s[i] # "/"

LEMMA EscapedHasNoSlash ==
    ASSUME NEW key \in Seq(Alphabet)
    PROVE  NoSlash(EscapeJSONPointer(key))
<1> DEFINE by == <<"~", "1">>
           T == {s \in Seq(Alphabet) : NoSlash(ReplaceChar(s, "/", by))}
<1>0. by \in Seq(Alphabet) /\ Len(by) = 2 /\ by[1] # "/" /\ by[2] # "/"
  BY Letters, ShortSeqs
<1>1. <<>> \in T
  <2>1. <<>> \in Seq(Alphabet) /\ Len(<<>>) = 0
    BY ShortSeqs
  <2>2. ReplaceChar(<<>>, "/", by) = <<>>
    BY <1>0, ReplaceCharNone
  <2> QED BY <2>1, <2>2 DEF NoSlash
<1>2. ASSUME NEW s \in T, NEW x \in Alphabet PROVE Append(s, x) \in T
  <2> DEFINE r == ReplaceChar(s, "/", by)
             n == ReplaceChar(Append(s, x), "/", by)
             more == IF x = "/" THEN by ELSE <<x>>
  <2>1. s \in Seq(Alphabet) /\ Append(s, x) \in Seq(Alphabet) /\ NoSlash(r)
    BY ShortSeqs
  <2>2. ReplaceGoesOn(s, x, "/", by)
    BY <1>0, <2>1, ReplaceCharGrows
  <2>3. n = r \o more
    BY <2>2 DEF ReplaceGoesOn
  <2>4. r \in Seq(Alphabet)
    BY <1>0, <2>1, ReplaceCharType
  <2>5. more \in Seq(Alphabet) /\ NoSlash(more)
    <3>1. CASE x = "/"
      <4>1. more = by /\ \A i \in 1..2 : i = 1 \/ i = 2
        BY <3>1
      <4> QED BY <1>0, <4>1 DEF NoSlash
    <3>2. CASE x # "/"
      <4>1. more = <<x>> /\ Len(<<x>>) = 1 /\ <<x>>[1] = x /\ <<x>> \in Seq(Alphabet)
        BY <3>2
      <4> QED BY <3>2, <4>1 DEF NoSlash
    <3> QED BY <3>1, <3>2
  <2> HIDE DEF r, n, more
  <2>6. NoSlash(n)
    <3>1. /\ Len(n) = Len(r) + Len(more) /\ Len(r) \in Nat /\ Len(more) \in Nat
          /\ \A i \in 1..Len(n) : n[i] = IF i <= Len(r) THEN r[i] ELSE more[i - Len(r)]
      BY <2>3, <2>4, <2>5, ConcatProperties, LenProperties
    <3> SUFFICES ASSUME NEW i \in 1..Len(n) PROVE n[i] # "/"
      BY DEF NoSlash
    <3>2. CASE i <= Len(r)
      <4>1. i \in 1..Len(r) /\ n[i] = r[i]
        BY <3>1, <3>2
      <4> QED BY <2>1, <4>1 DEF NoSlash
    <3>3. CASE i > Len(r)
      <4>1. i - Len(r) \in 1..Len(more) /\ n[i] = more[i - Len(r)]
        BY <3>1, <3>3
      <4> QED BY <2>5, <4>1 DEF NoSlash
    <3> QED BY <3>1, <3>2, <3>3
  <2> QED BY <2>1, <2>6 DEF n
<1>3. T \in SUBSET Seq(Alphabet)
  OBVIOUS
<1> HIDE DEF T, by
<1>4. T = Seq(Alphabet)
  BY <1>1, <1>2, <1>3, SeqInductSet
<1>5. ReplaceChar(key, "~", <<"~", "0">>) \in Seq(Alphabet)
  <2>1. <<"~", "0">> \in Seq(Alphabet)
    BY Letters, ShortSeqs
  <2> QED BY <2>1, ReplaceCharType
<1> QED BY <1>4, <1>5 DEF T, by, EscapeJSONPointer

\* Splitting a pointer that grows by a key without "/" adds that key.
LEMMA SegmentAdded ==
    ASSUME NEW p \in Seq(Alphabet), NEW e \in Seq(Alphabet), NoSlash(e)
    PROVE  Segments((p \o <<"/">>) \o e) = Append(Segments(p), e)
<1> DEFINE start == p \o <<"/">>
           T == {s \in Seq(Alphabet) : NoSlash(s) => Segments(start \o s) = Append(Segments(p), s)}
<1>0. "/" \in Alphabet /\ start \in Seq(Alphabet) /\ start = Append(p, "/")
      /\ Segments(p) \in Seq(Seq(Alphabet)) /\ <<>> \in Seq(Alphabet)
  <2>1. "/" \in Alphabet
    BY Letters
  <2> QED BY <2>1, AppendFacts, SegmentsGrow, ShortSeqs
<1>1. <<>> \in T
  <2>1. Segments(start) = Append(Segments(p), <<>>)
    BY <1>0, SegmentsGrow
  <2>2. start \o <<>> = start
    BY <1>0, ConcatEmptySeq
  <2> QED BY <1>0, <2>1, <2>2
<1> HIDE DEF start
<1>2. ASSUME NEW s \in T, NEW x \in Alphabet PROVE Append(s, x) \in T
  <2>1. s \in Seq(Alphabet) /\ Append(s, x) \in Seq(Alphabet)
    BY ShortSeqs
  <2> SUFFICES ASSUME NoSlash(Append(s, x))
               PROVE  Segments(start \o Append(s, x)) = Append(Segments(p), Append(s, x))
    BY <2>1
  <2>2. NoSlash(s) /\ x # "/"
    <3>1. /\ Len(Append(s, x)) = Len(s) + 1 /\ Len(s) \in Nat
          /\ \A i \in 1..Len(s) : Append(s, x)[i] = s[i]
          /\ Append(s, x)[Len(s) + 1] = x
      BY <2>1, AppendProperties, LenProperties
    <3> QED BY <3>1 DEF NoSlash
  <2> DEFINE segs == Segments(p)
             mid == start \o s
  <2>3. Segments(mid) = Append(segs, s)
    BY <2>2
  <2>4. mid \in Seq(Alphabet) /\ start \o Append(s, x) = Append(mid, x)
    <3>1. mid \in Seq(Alphabet)
      BY <1>0, <2>1, ConcatProperties
    <3>2. <<x>> \in Seq(Alphabet)
      BY ShortSeqs
    <3>3. Append(s, x) = s \o <<x>>
      BY <2>1, AppendFacts
    <3>4. Append(mid, x) = mid \o <<x>>
      BY <3>1, AppendFacts
    <3> QED BY <1>0, <2>1, <3>1, <3>2, <3>3, <3>4, ConcatAssociative
  <2> HIDE DEF mid, segs
  <2>5. Segments(Append(mid, x)) =
            IF x = "/" THEN Append(Segments(mid), <<>>)
            ELSE [Segments(mid) EXCEPT ![Len(Segments(mid))] = Append(@, x)]
    BY <2>4, SegmentsGrow
  <2> DEFINE full == Append(segs, s)
             new == Append(segs, Append(s, x))
  <2>6. Segments(Append(mid, x)) = [full EXCEPT ![Len(full)] = Append(@, x)]
    BY <2>2, <2>3, <2>5
  <2>7. /\ full \in Seq(Seq(Alphabet)) /\ Len(full) = Len(segs) + 1 /\ Len(segs) \in Nat
        /\ \A i \in 1..Len(segs) : full[i] = segs[i]
        /\ full[Len(segs) + 1] = s
    BY <1>0, <2>1, AppendProperties, LenProperties DEF segs
  <2>8. /\ new \in Seq(Seq(Alphabet)) /\ Len(new) = Len(segs) + 1
        /\ \A i \in 1..Len(segs) : new[i] = segs[i]
        /\ new[Len(segs) + 1] = Append(s, x)
    BY <1>0, <2>1, AppendProperties, LenProperties DEF segs
  <2> HIDE DEF full, new
  <2> DEFINE cut == [full EXCEPT ![Len(full)] = Append(@, x)]
  <2>9. /\ cut \in Seq(Seq(Alphabet)) /\ Len(cut) = Len(full)
        /\ \A i \in 1..Len(full) : cut[i] = IF i = Len(full) THEN Append(s, x) ELSE full[i]
    <3>1. Len(full) \in 1..Len(full) /\ full[Len(full)] = s
      BY <2>7
    <3>2. cut = [full EXCEPT ![Len(full)] = Append(s, x)]
      BY <3>1
    <3> HIDE DEF cut
    <3> QED BY <2>1, <2>7, <3>1, <3>2, ExceptSeq
  <2> HIDE DEF cut
  <2>10. ASSUME NEW i \in 1..Len(new) PROVE cut[i] = new[i]
    <3>1. i \in 1..Len(full) /\ (i # Len(full) => i \in 1..Len(segs))
      BY <2>7, <2>8
    <3>2. cut[i] = IF i = Len(full) THEN Append(s, x) ELSE full[i]
      BY <2>9, <3>1
    <3>3. CASE i = Len(full)
      BY <2>7, <2>8, <3>2, <3>3
    <3>4. CASE i # Len(full)
      <4>1. i \in 1..Len(segs) /\ cut[i] = full[i]
        BY <3>1, <3>2, <3>4
      <4> QED BY <2>7, <2>8, <4>1
    <3> QED BY <3>3, <3>4
  <2>11. cut = new
    <3>1. cut \in Seq(Seq(Alphabet)) /\ new \in Seq(Seq(Alphabet)) /\ Len(cut) = Len(new)
      BY <2>7, <2>8, <2>9
    <3> QED BY <2>10, <3>1, SeqEqual
  <2> QED BY <2>4, <2>6, <2>11 DEF cut, new, segs
<1>3. T \in SUBSET Seq(Alphabet)
  OBVIOUS
<1> HIDE DEF T
<1>4. e \in T
  BY <1>1, <1>2, <1>3, SeqInductSet
<1> QED BY <1>4 DEF T, start

\* The segments of a pointer are the escaped keys of its path.
Escaped(path) == Segments(Pointer(path)) = [i \in 1..Len(path) |-> EscapeJSONPointer(path[i])]

LEMMA PointerSegments ==
    ASSUME NEW path \in Seq(Seq(Alphabet))
    PROVE  Escaped(path)
<1> DEFINE T == {s \in Seq(Seq(Alphabet)) : Escaped(s)}
<1>1. <<>> \in T
  <2>1. <<>> \in Seq(Seq(Alphabet)) /\ Len(<<>>) = 0
    BY ShortSeqs
  <2>2. Segments(Pointer(<<>>)) = <<>>
    BY PointerGrows, SegmentsGrow
  <2>3. <<>> = [i \in 1..0 |-> EscapeJSONPointer(<<>>[i])]
    OBVIOUS
  <2> QED BY <2>1, <2>2, <2>3 DEF Escaped
<1>2. ASSUME NEW s \in T, NEW x \in Seq(Alphabet) PROVE Append(s, x) \in T
  <2> DEFINE e == EscapeJSONPointer(x)
             segs == Segments(Pointer(s))
             u == Append(s, x)
             n == Segments(Pointer(u))
  <2>1. /\ s \in Seq(Seq(Alphabet)) /\ u \in Seq(Seq(Alphabet))
        /\ e \in Seq(Alphabet) /\ NoSlash(e) /\ Pointer(s) \in Seq(Alphabet)
        /\ segs \in Seq(Seq(Alphabet))
    BY ShortSeqs, EscapeType, EscapedHasNoSlash, PointerGrows, SegmentsGrow
  <2>2. segs = [i \in 1..Len(s) |-> EscapeJSONPointer(s[i])]
    BY DEF Escaped
  <2>3. Pointer(u) = (Pointer(s) \o <<"/">>) \o e
    BY <2>1, PointerGrows
  <2> HIDE DEF e
  <2>4. n = Append(segs, e)
    BY <2>1, <2>3, SegmentAdded
  <2>5. /\ Len(u) = Len(s) + 1 /\ Len(s) \in Nat
        /\ \A i \in 1..Len(s) : u[i] = s[i]
        /\ u[Len(s) + 1] = x
    BY <2>1, AppendProperties, LenProperties
  <2> HIDE DEF segs, u, n
  <2>6. Len(segs) = Len(s)
    BY <2>1, <2>2, <2>5
  <2>7. /\ n \in Seq(Seq(Alphabet)) /\ Len(n) = Len(s) + 1
        /\ \A i \in 1..Len(s) : n[i] = segs[i]
        /\ n[Len(s) + 1] = e
    BY <2>1, <2>4, <2>6, AppendProperties
  <2>8. \A i \in 1..Len(u) : n[i] = EscapeJSONPointer(u[i])
    <3> SUFFICES ASSUME NEW i \in 1..Len(u) PROVE n[i] = EscapeJSONPointer(u[i])
      OBVIOUS
    <3>1. CASE i = Len(s) + 1
      BY <2>5, <2>7, <3>1 DEF e
    <3>2. CASE i # Len(s) + 1
      <4>1. i \in 1..Len(s)
        BY <2>5, <3>2
      <4> QED BY <2>2, <2>5, <2>7, <4>1
    <3> QED BY <3>1, <3>2
  <2>9. n = [i \in 1..Len(u) |-> EscapeJSONPointer(u[i])]
    <3>1. n = [i \in 1..Len(u) |-> n[i]]
      BY <2>5, <2>7
    <3> QED BY <2>8, <3>1
  <2> QED BY <2>1, <2>9 DEF Escaped, u, n
<1>3. T \in SUBSET Seq(Seq(Alphabet))
  OBVIOUS
<1> HIDE DEF T
<1>4. path \in T
  BY <1>1, <1>2, <1>3, SeqInductSet
<1> QED BY <1>4 DEF T

\* Every path of keys is the one its JSON pointer leads back to, whatever "/" and
\* "~" its keys hold (the pointers cloneAndSplit writes, lines 1150-1184, and
\* setByJSONPointer and getByJSONPointer follow, lines 1242-1275).
THEOREM PointersLeadBack ==
    ASSUME NEW path \in Seq(Seq(STRING))
    PROVE  PathOf(Pointer(path)) = path
<1>1. path \in Seq(Seq(Alphabet))
  BY SeqMonotonic DEF Alphabet
<1>2. Segments(Pointer(path)) = [i \in 1..Len(path) |-> EscapeJSONPointer(path[i])]
  BY <1>1, PointerSegments DEF Escaped
<1>3. \A i \in 1..Len(path) : UnescapeJSONPointer(EscapeJSONPointer(path[i])) = path[i]
  BY <1>1, ElementOfSeq, KeyBack
<1>4. PathOf(Pointer(path)) = [i \in 1..Len(path) |-> path[i]]
  BY <1>2, <1>3 DEF PathOf
<1> QED BY <1>1, <1>4

\* No piece of a splittable text is larger than a chunk or empty, and one after
\* the other they are the text (splitStringByBytes, lines 1206-1227, and the
\* chunks.join('') of assembleJSON).
THEOREM PiecesAreTheText ==
    ASSUME NEW text \in Seq(DOMAIN Width), \A j \in DOMAIN text : Width[text[j]] <= ChunkBytes
    PROVE  LET pieces == SplitStringByBytes(text)
           IN  /\ FlattenSeq(pieces) = text
               /\ \A j \in DOMAIN pieces : pieces[j] # <<>> /\ ByteLength(pieces[j]) <= ChunkBytes
<1>1. DOMAIN text = 1..Len(text)
  BY LenProperties
<1>2. AllFit(text)
  BY <1>1 DEF AllFit
<1>3. SplitStringByBytes(text) \in Seq(Seq(DOMAIN Width))
  BY PiecesGrow
<1>4. DOMAIN SplitStringByBytes(text) = 1..Len(SplitStringByBytes(text))
  BY <1>3, LenProperties
<1>5. PiecesRight(text)
  BY PiecesJoin
<1>6. \A i \in 1..Len(SplitStringByBytes(text)) : ByteLength(SplitStringByBytes(text)[i]) <= ChunkBytes
  BY <1>2, PiecesFit
<1> QED BY <1>4, <1>5, <1>6 DEF PiecesRight

-----------------------------------------------------------------------------
(* The inductive invariant. *)

\* What splitJSON makes of a document, with any numbering of its chunked leaves.
PartsOf(doc, i) == SplitStringByBytes(doc[i].leaf.text)
RefOf(doc, cid, i) ==
    [cid |-> cid[i], path |-> Pointer(doc[i].path), chunks |-> Len(PartsOf(doc, i)),
     size |-> ByteLength(doc[i].leaf.text)]
MarkedRoot(doc, cid) ==
    [i \in DOMAIN doc |-> IF i \in SplitAt(doc) THEN [path |-> doc[i].path, leaf |-> [cid |-> cid[i]]]
                          ELSE doc[i]]
ManifestOf(doc, tid, cid) ==
    [type |-> "json:manifest", tid |-> tid, root |-> MarkedRoot(doc, cid),
     refs |-> {RefOf(doc, cid, i) : i \in SplitAt(doc)}]
ChunkOf(doc, tid, cid, i, j) ==
    [type |-> "json:chunk", tid |-> tid, cid |-> cid[i], index |-> j,
     total |-> Len(PartsOf(doc, i)), data |-> PartsOf(doc, i)[j], hash |-> PartsOf(doc, i)[j]]
ChunksOfDoc(doc, tid, cid) ==
    UNION {{ChunkOf(doc, tid, cid, i, j) : j \in DOMAIN PartsOf(doc, i)} : i \in SplitAt(doc)}
CompleteOf(tid) == [type |-> "json:complete", tid |-> tid]
PacketsOf(doc, tid, cid) ==
    {ManifestOf(doc, tid, cid)} \cup ChunksOfDoc(doc, tid, cid) \cup {CompleteOf(tid)}

OneToOne(cid) == \A i, j \in DOMAIN cid : cid[i] = cid[j] => i = j
Numberings(doc) == {cid \in [SplitAt(doc) -> (0..MaxRestarts) \X Nat] : OneToOne(cid)}

\* The numbers a counter of this instance, or of one before it, has given out.
GivenOut(tid) == tid[1] < instance \/ (tid[1] = instance /\ tid[2] <= lastIds.tid)

IdsGoOn == idsUnique \/ instance = 0
PacketsWith(tid) == {p \in packets : p.tid = tid}

\* No tid was given out twice.
SentOnce ==
    /\ sentDocs \subseteq [tid : (0..MaxRestarts) \X Nat, doc : Documents]
    /\ \A e \in sentDocs : GivenOut(e.tid) /\ ~Unsplittable(e.doc)
    /\ \A e, f \in sentDocs : e.tid = f.tid => e = f

\* What travels under a tid is all that splitJSON made of that document.
PacketsTrue ==
    /\ \A p \in packets : \E e \in sentDocs : e.tid = p.tid
    /\ \A e \in sentDocs : \E cid \in Numberings(e.doc) :
           PacketsWith(e.tid) = PacketsOf(e.doc, e.tid, cid)

\* A partial message holds what has come of them, and does not hold them all.
Holds(s, P) ==
    /\ s.got \subseteq P
    /\ s.manifest = {p \in s.got : p.type = "json:manifest"}
    /\ s.chunks = {p \in s.got : p.type = "json:chunk"}
    /\ s.complete <=> \E p \in s.got : p.type = "json:complete"
Partials(P) == [manifest : SUBSET P, chunks : SUBSET P, complete : BOOLEAN, got : SUBSET P]
Waiting(s, P) == s \in Partials(P) /\ Holds(s, P) /\ ~(P \subseteq s.got)
PartialsTrue ==
    \A tid \in DOMAIN partials :
        /\ \E e \in sentDocs : e.tid = tid
        /\ Waiting(partials[tid], PacketsWith(tid))

ChunksFit == \A p \in packets : p.type = "json:chunk" => ByteLength(p.data) <= ChunkBytes

DocumentInv ==
    /\ DocumentTypeOK
    /\ ChunksFit
    /\ IdsGoOn => SentOnce /\ PacketsTrue /\ PartialsTrue /\ rebuilt \subseteq sentDocs

-----------------------------------------------------------------------------
(* What there is to know of a document and its packets. *)

LEMMA DocFacts ==
    ASSUME NEW doc \in Documents
    PROVE  /\ DOMAIN doc = 1..Len(doc) /\ Len(doc) \in Nat
           /\ doc = [i \in DOMAIN doc |-> doc[i]]
           /\ SplitAt(doc) \in SUBSET (DOMAIN doc) /\ IsFiniteSet(SplitAt(doc))
<1>1. doc \in Seq({doc[i] : i \in DOMAIN doc})
  BY JSONAssumption
<1>2. DOMAIN doc = 1..Len(doc) /\ Len(doc) \in Nat /\ doc = [i \in DOMAIN doc |-> doc[i]]
  BY <1>1
<1>3. SplitAt(doc) \in SUBSET (DOMAIN doc)
  BY DEF SplitAt
<1>4. IsFiniteSet(1..Len(doc))
  <2>1. Len(doc) \in Int /\ 1 \in Int
    BY <1>2
  <2> QED BY ONLY <2>1, FS_Interval
<1> QED BY <1>2, <1>3, <1>4, FS_Subset

LEMMA LeafFacts ==
    ASSUME NEW doc \in Documents, NEW i \in DOMAIN doc
    PROVE  /\ doc[i] = [path |-> doc[i].path, leaf |-> doc[i].leaf]
           /\ doc[i].path \in Seq(Seq(STRING))
           /\ PathOf(Pointer(doc[i].path)) = doc[i].path
           /\ \A k \in DOMAIN doc : doc[k].path = doc[i].path => k = i
<1>1. doc[i] \in [path : Seq(Seq(STRING)), leaf : {doc[i].leaf}]
  BY JSONAssumption
<1>2. doc[i] = [path |-> doc[i].path, leaf |-> doc[i].leaf] /\ doc[i].path \in Seq(Seq(STRING))
  BY <1>1
<1>3. PathOf(Pointer(doc[i].path)) = doc[i].path
  BY <1>2, PointersLeadBack
<1>4. \A k \in DOMAIN doc : doc[k].path = doc[i].path => k = i
  BY JSONAssumption
<1> QED BY <1>2, <1>3, <1>4

LEMMA TextFacts ==
    ASSUME NEW doc \in Documents, NEW i \in SplitAt(doc)
    PROVE  /\ doc[i].leaf.text \in Seq(DOMAIN Width)
           /\ doc[i].leaf = [text |-> doc[i].leaf.text]
<1>1. i \in DOMAIN doc /\ "text" \in DOMAIN doc[i].leaf
  BY DEF SplitAt, IsText
<1>2. doc[i].leaf \in [text : Seq(DOMAIN Width)]
  BY <1>1, JSONAssumption
<1> QED BY <1>2

LEMMA PieceFacts ==
    ASSUME NEW doc \in Documents, NEW i \in SplitAt(doc)
    PROVE  /\ PartsOf(doc, i) \in Seq(Seq(DOMAIN Width))
           /\ DOMAIN PartsOf(doc, i) = 1..Len(PartsOf(doc, i)) /\ Len(PartsOf(doc, i)) \in Nat
           /\ FlattenSeq(PartsOf(doc, i)) = doc[i].leaf.text
           /\ \A j \in DOMAIN PartsOf(doc, i) :
                  PartsOf(doc, i)[j] \in Seq(DOMAIN Width) /\ PartsOf(doc, i)[j] # <<>>
<1> DEFINE parts == PartsOf(doc, i)
<1>1. parts \in Seq(Seq(DOMAIN Width)) /\ PiecesRight(doc[i].leaf.text)
  BY TextFacts, PiecesGrow, PiecesJoin DEF PartsOf
<1>2. FlattenSeq(parts) = doc[i].leaf.text /\ \A j \in 1..Len(parts) : parts[j] # <<>>
  BY <1>1 DEF PiecesRight, PartsOf
<1> HIDE DEF parts
<1>3. DOMAIN parts = 1..Len(parts) /\ Len(parts) \in Nat
      /\ \A j \in 1..Len(parts) : parts[j] \in Seq(DOMAIN Width)
  BY <1>1, ElementOfSeq, LenProperties
<1> QED BY <1>1, <1>2, <1>3 DEF parts

LEMMA PiecesOfDocFit ==
    ASSUME NEW doc \in Documents, ~Unsplittable(doc), NEW i \in SplitAt(doc),
           NEW j \in DOMAIN PartsOf(doc, i)
    PROVE  ByteLength(PartsOf(doc, i)[j]) <= ChunkBytes
<1>1. doc[i].leaf.text \in Seq(DOMAIN Width)
  BY TextFacts
<1>2. DOMAIN doc[i].leaf.text = 1..Len(doc[i].leaf.text)
  BY <1>1, LenProperties
<1>3. \A k \in 1..Len(doc[i].leaf.text) :
          doc[i].leaf.text[k] \in DOMAIN Width /\ Width[doc[i].leaf.text[k]] <= ChunkBytes
  <2>1. \A k \in 1..Len(doc[i].leaf.text) : ~(Width[doc[i].leaf.text[k]] > ChunkBytes)
    BY <1>2 DEF Unsplittable
  <2> SUFFICES ASSUME NEW k \in 1..Len(doc[i].leaf.text)
               PROVE  doc[i].leaf.text[k] \in DOMAIN Width /\ Width[doc[i].leaf.text[k]] <= ChunkBytes
    OBVIOUS
  <2>2. doc[i].leaf.text[k] \in DOMAIN Width
    BY <1>1, ElementOfSeq
  <2>3. Width[doc[i].leaf.text[k]] \in Nat /\ ChunkBytes \in Nat
    BY <2>2, JSONAssumption
  <2> QED BY <2>1, <2>2, <2>3
<1>4. AllFit(doc[i].leaf.text)
  BY <1>3 DEF AllFit
<1>5. \A k \in 1..Len(PartsOf(doc, i)) : ByteLength(PartsOf(doc, i)[k]) <= ChunkBytes
  BY <1>1, <1>4, PiecesFit DEF PartsOf
<1> QED BY <1>5, PieceFacts

LEMMA PacketKinds ==
    ASSUME NEW doc, NEW tid, NEW cid, NEW p \in PacketsOf(doc, tid, cid)
    PROVE  /\ p.tid = tid
           /\ p.type \in {"json:manifest", "json:chunk", "json:complete"}
           /\ p.type = "json:manifest" <=> p = ManifestOf(doc, tid, cid)
           /\ p.type = "json:chunk" <=> p \in ChunksOfDoc(doc, tid, cid)
           /\ p.type = "json:complete" <=> p = CompleteOf(tid)
<1>1. ManifestOf(doc, tid, cid).tid = tid /\ ManifestOf(doc, tid, cid).type = "json:manifest"
  BY DEF ManifestOf
<1>2. CompleteOf(tid).tid = tid /\ CompleteOf(tid).type = "json:complete"
  BY DEF CompleteOf
<1>3. \A c \in ChunksOfDoc(doc, tid, cid) : c.tid = tid /\ c.type = "json:chunk"
  BY DEF ChunksOfDoc, ChunkOf
<1>4. p = ManifestOf(doc, tid, cid) \/ p \in ChunksOfDoc(doc, tid, cid) \/ p = CompleteOf(tid)
  BY DEF PacketsOf
<1>5. "json:manifest" # "json:chunk" /\ "json:manifest" # "json:complete" /\ "json:chunk" # "json:complete"
  OBVIOUS
<1> QED BY <1>1, <1>2, <1>3, <1>4, <1>5

LEMMA ChunkFields ==
    ASSUME NEW doc, NEW tid, NEW cid, NEW c \in ChunksOfDoc(doc, tid, cid)
    PROVE  \E i \in SplitAt(doc) : \E j \in DOMAIN PartsOf(doc, i) :
               /\ c = ChunkOf(doc, tid, cid, i, j)
               /\ c.cid = cid[i] /\ c.index = j /\ c.total = Len(PartsOf(doc, i))
               /\ c.data = PartsOf(doc, i)[j] /\ c.hash = c.data
<1>0. PICK i \in SplitAt(doc) : \E j \in DOMAIN PartsOf(doc, i) : c = ChunkOf(doc, tid, cid, i, j)
  BY DEF ChunksOfDoc
<1>1. PICK j \in DOMAIN PartsOf(doc, i) : c = ChunkOf(doc, tid, cid, i, j)
  BY <1>0
<1>2. /\ c.cid = cid[i] /\ c.index = j /\ c.total = Len(PartsOf(doc, i))
      /\ c.data = PartsOf(doc, i)[j] /\ c.hash = c.data
  BY <1>1 DEF ChunkOf
<1> QED BY <1>1, <1>2

LEMMA RefFields ==
    ASSUME NEW doc, NEW cid, NEW i
    PROVE  LET r == RefOf(doc, cid, i)
           IN  /\ r.cid = cid[i] /\ r.path = Pointer(doc[i].path)
               /\ r.chunks = Len(PartsOf(doc, i)) /\ r.size = ByteLength(doc[i].leaf.text)
BY DEF RefOf

LEMMA NumberingFacts ==
    ASSUME NEW doc, NEW cid \in Numberings(doc)
    PROVE  DOMAIN cid = SplitAt(doc) /\ \A i, k \in SplitAt(doc) : cid[i] = cid[k] => i = k
BY DEF Numberings, OneToOne

\* The leaf a ref's pointer addresses is the one it was made for.
LEMMA AddressedAlone ==
    ASSUME NEW doc \in Documents, NEW tid, NEW cid, NEW i \in SplitAt(doc)
    PROVE  Addressed(ManifestOf(doc, tid, cid).root, RefOf(doc, cid, i).path) = {i}
<1> DEFINE root == MarkedRoot(doc, cid)
<1>1. ManifestOf(doc, tid, cid).root = root /\ RefOf(doc, cid, i).path = Pointer(doc[i].path)
  BY DEF ManifestOf, RefOf
<1>2. DOMAIN root = DOMAIN doc /\ \A k \in DOMAIN doc : root[k].path = doc[k].path
  BY DEF MarkedRoot
<1>3. i \in DOMAIN doc /\ PathOf(Pointer(doc[i].path)) = doc[i].path
      /\ \A k \in DOMAIN doc : doc[k].path = doc[i].path => k = i
  BY DocFacts, LeafFacts
<1> HIDE DEF root
<1> QED BY <1>1, <1>2, <1>3 DEF Addressed

LEMMA ManifestValid ==
    ASSUME NEW doc \in Documents, NEW tid, NEW cid \in Numberings(doc)
    PROVE  ValidateManifest(ManifestOf(doc, tid, cid))
<1> DEFINE m == ManifestOf(doc, tid, cid)
<1>1. m.refs = {RefOf(doc, cid, i) : i \in SplitAt(doc)} /\ m.root = MarkedRoot(doc, cid)
  BY DEF ManifestOf
<1>2. \A i \in SplitAt(doc) : Addressed(m.root, RefOf(doc, cid, i).path) = {i}
  BY AddressedAlone
<1> HIDE DEF m
<1>3. ASSUME NEW r1 \in m.refs, NEW r2 \in m.refs, r1.cid = r2.cid PROVE r1 = r2
  <2>1. PICK i \in SplitAt(doc) : r1 = RefOf(doc, cid, i)
    BY <1>1
  <2>2. PICK k \in SplitAt(doc) : r2 = RefOf(doc, cid, k)
    BY <1>1
  <2>3. cid[i] = cid[k]
    BY <1>3, <2>1, <2>2, RefFields
  <2>4. i = k
    BY <2>3, NumberingFacts
  <2> QED BY <2>1, <2>2, <2>4
<1>4. ASSUME NEW r \in m.refs
      PROVE  \E i \in Addressed(m.root, r.path) : m.root[i].leaf = [cid |-> r.cid]
  <2>1. PICK i \in SplitAt(doc) : r = RefOf(doc, cid, i)
    BY <1>1
  <2>2. i \in DOMAIN doc
    BY DocFacts
  <2>3. m.root[i].leaf = [cid |-> cid[i]]
    BY <1>1, <2>2 DEF MarkedRoot
  <2>4. r.cid = cid[i]
    BY <2>1, RefFields
  <2> QED BY <1>2, <2>1, <2>3, <2>4
<1> QED BY <1>3, <1>4 DEF ValidateManifest, m

LEMMA ChunkValid ==
    ASSUME NEW doc \in Documents, NEW tid, NEW cid \in Numberings(doc),
           NEW c \in ChunksOfDoc(doc, tid, cid)
    PROVE  ValidateChunk(ManifestOf(doc, tid, cid), c)
<1>1. PICK i \in SplitAt(doc) : c.cid = cid[i] /\ c.total = Len(PartsOf(doc, i))
  BY ChunkFields
<1>2. RefOf(doc, cid, i) \in ManifestOf(doc, tid, cid).refs
  BY DEF ManifestOf
<1>3. RefOf(doc, cid, i).cid = c.cid /\ RefOf(doc, cid, i).chunks = c.total
  BY <1>1, RefFields
<1> QED BY <1>2, <1>3 DEF ValidateChunk

LEMMA ChunksDistinct ==
    ASSUME NEW doc \in Documents, NEW tid, NEW cid \in Numberings(doc),
           NEW c \in ChunksOfDoc(doc, tid, cid), NEW d \in ChunksOfDoc(doc, tid, cid),
           c.cid = d.cid, c.index = d.index
    PROVE  c = d
<1>1. PICK i \in SplitAt(doc) : c = ChunkOf(doc, tid, cid, i, c.index) /\ c.cid = cid[i]
  BY ChunkFields
<1>2. PICK k \in SplitAt(doc) : d = ChunkOf(doc, tid, cid, k, d.index) /\ d.cid = cid[k]
  BY ChunkFields
<1>3. i = k
  BY <1>1, <1>2, NumberingFacts
<1> QED BY <1>1, <1>2, <1>3

-----------------------------------------------------------------------------
(* A message whose packets have all come is its document. *)

\* The chunks of a leaf, once they are there, join to its text.
LEMMA JoinedText ==
    ASSUME NEW doc \in Documents, NEW tid, NEW cid \in Numberings(doc),
           NEW s, s.chunks \subseteq ChunksOfDoc(doc, tid, cid),
           NEW i \in SplitAt(doc), AllThere(s, RefOf(doc, cid, i))
    PROVE  Joined(s, RefOf(doc, cid, i)) = doc[i].leaf.text
<1> DEFINE r == RefOf(doc, cid, i)
           parts == PartsOf(doc, i)
           n == Len(parts)
           Chosen(j) == CHOOSE c \in ChunksOf(s, r) : c.index = j
<1>1. r.cid = cid[i] /\ r.chunks = n
  BY RefFields
<1>2. {c.index : c \in ChunksOf(s, r)} = 1..n
  BY <1>1 DEF AllThere
<1> HIDE DEF r
<1>3. ASSUME NEW j \in 1..n PROVE Chosen(j).data = parts[j]
  <2>1. \E c \in ChunksOf(s, r) : c.index = j
    BY <1>2
  <2> DEFINE c == Chosen(j)
  <2>2. c \in ChunksOf(s, r) /\ c.index = j
    BY <2>1
  <2> HIDE DEF c
  <2>3. c \in ChunksOfDoc(doc, tid, cid) /\ c.cid = cid[i]
    BY <1>1, <2>2 DEF ChunksOf
  <2>4. PICK k \in SplitAt(doc) : c.cid = cid[k] /\ c.data = PartsOf(doc, k)[c.index]
    BY <2>3, ChunkFields
  <2>5. k = i
    BY <2>3, <2>4, NumberingFacts
  <2> QED BY <2>2, <2>4, <2>5 DEF c
<1>4. parts \in Seq(Seq(DOMAIN Width)) /\ FlattenSeq(parts) = doc[i].leaf.text
  BY PieceFacts
<1>5. [j \in 1..n |-> Chosen(j).data] = parts
  <2>1. parts = [j \in 1..n |-> parts[j]]
    BY <1>4
  <2> HIDE DEF parts, n, Chosen
  <2> QED BY <1>3, <2>1
<1>6. Joined(s, r) = FlattenSeq([j \in 1..n |-> Chosen(j).data])
  BY <1>1 DEF Joined
<1> QED BY <1>4, <1>5, <1>6 DEF r

\* assembleJSON puts every text back where it was.
LEMMA RootBack ==
    ASSUME NEW doc \in Documents, NEW tid, NEW cid \in Numberings(doc),
           NEW s, s.chunks \subseteq ChunksOfDoc(doc, tid, cid),
           \A r \in ManifestOf(doc, tid, cid).refs : AllThere(s, r)
    PROVE  RootWith(s, ManifestOf(doc, tid, cid)) = doc
<1> DEFINE m == ManifestOf(doc, tid, cid)
           Ref(i) == RefOf(doc, cid, i)
           Chosen(i) == CHOOSE r \in m.refs : i \in Addressed(m.root, r.path)
<1>1. m.refs = {Ref(i) : i \in SplitAt(doc)} /\ m.root = MarkedRoot(doc, cid)
  BY DEF ManifestOf
<1>2. \A i \in SplitAt(doc) : Addressed(m.root, Ref(i).path) = {i}
  BY AddressedAlone
<1>3. \A i \in SplitAt(doc) : Joined(s, Ref(i)) = doc[i].leaf.text
  <2>1. \A i \in SplitAt(doc) : AllThere(s, Ref(i))
    BY <1>1
  <2> QED BY <2>1, JoinedText
<1>4. RootWith(s, m) =
          [i \in DOMAIN m.root |->
              IF \E r \in m.refs : i \in Addressed(m.root, r.path)
              THEN [m.root[i] EXCEPT !.leaf = [text |-> Joined(s, Chosen(i))]]
              ELSE m.root[i]]
  BY DEF RootWith
<1> HIDE DEF m, Ref
<1>5. ASSUME NEW i \in DOMAIN doc
      PROVE  (IF \E r \in m.refs : i \in Addressed(m.root, r.path)
              THEN [m.root[i] EXCEPT !.leaf = [text |-> Joined(s, Chosen(i))]]
              ELSE m.root[i]) = doc[i]
  <2>1. CASE i \in SplitAt(doc)
    <3>1. \E r \in m.refs : i \in Addressed(m.root, r.path)
      BY <1>1, <1>2, <2>1
    <3>2. Chosen(i) = Ref(i)
      <4>1. Chosen(i) \in m.refs /\ i \in Addressed(m.root, Chosen(i).path)
        BY <3>1
      <4> HIDE DEF Chosen
      <4>2. PICK k \in SplitAt(doc) : Chosen(i) = Ref(k)
        BY <1>1, <4>1
      <4>3. i \in {k}
        BY <1>2, <4>1, <4>2
      <4> QED BY <4>2, <4>3
    <3> HIDE DEF Chosen
    <3>3. m.root[i] = [path |-> doc[i].path, leaf |-> [cid |-> cid[i]]]
      BY <1>1, <2>1 DEF MarkedRoot
    <3>4. Joined(s, Chosen(i)) = doc[i].leaf.text
      BY <1>3, <2>1, <3>2
    <3>5. [m.root[i] EXCEPT !.leaf = [text |-> Joined(s, Chosen(i))]]
              = [path |-> doc[i].path, leaf |-> [text |-> doc[i].leaf.text]]
      BY <3>3, <3>4
    <3>6. doc[i] = [path |-> doc[i].path, leaf |-> [text |-> doc[i].leaf.text]]
      <4>1. doc[i] = [path |-> doc[i].path, leaf |-> doc[i].leaf]
        BY LeafFacts
      <4>2. doc[i].leaf = [text |-> doc[i].leaf.text]
        BY <2>1, TextFacts
      <4> QED BY ONLY <4>1, <4>2
    <3> QED BY <3>1, <3>5, <3>6
  <2>2. CASE i \notin SplitAt(doc)
    <3>1. ~(\E r \in m.refs : i \in Addressed(m.root, r.path))
      BY <1>1, <1>2, <2>2
    <3>2. m.root[i] = doc[i]
      BY <1>1, <2>2 DEF MarkedRoot
    <3> QED BY <3>1, <3>2
  <2> QED BY <2>1, <2>2
<1>6. DOMAIN m.root = DOMAIN doc
  BY <1>1 DEF MarkedRoot
<1>7. doc = [i \in DOMAIN doc |-> doc[i]]
  BY DocFacts
<1> HIDE DEF Chosen
<1>8. RootWith(s, m) = [i \in DOMAIN doc |-> doc[i]]
  BY <1>4, <1>5, <1>6
<1> QED BY <1>7, <1>8 DEF m

\* What a partial message of this document holds.
Of(s, doc, tid, cid) ==
    /\ s \in Partials(PacketsOf(doc, tid, cid))
    /\ Holds(s, PacketsOf(doc, tid, cid))

LEMMA HeldFacts ==
    ASSUME NEW doc, NEW tid, NEW cid, NEW s, Of(s, doc, tid, cid)
    PROVE  /\ s.chunks \subseteq ChunksOfDoc(doc, tid, cid)
           /\ s.manifest \subseteq {ManifestOf(doc, tid, cid)}
           /\ s.chunks = {p \in s.got : p.type = "json:chunk"}
           /\ s.manifest = {p \in s.got : p.type = "json:manifest"}
           /\ s.got \subseteq PacketsOf(doc, tid, cid)
<1>1. /\ s.got \subseteq PacketsOf(doc, tid, cid)
      /\ s.chunks = {p \in s.got : p.type = "json:chunk"}
      /\ s.manifest = {p \in s.got : p.type = "json:manifest"}
  BY DEF Of, Holds
<1> QED BY <1>1, PacketKinds

LEMMA SizesValid ==
    ASSUME NEW doc \in Documents, NEW tid, NEW cid \in Numberings(doc), NEW s, Of(s, doc, tid, cid)
    PROVE  ValidateSizes(s)
<1> SUFFICES ASSUME NEW m \in s.manifest, NEW r \in m.refs, AllThere(s, r)
             PROVE  ByteLength(Joined(s, r)) = r.size
  BY DEF ValidateSizes
<1>1. m = ManifestOf(doc, tid, cid) /\ s.chunks \subseteq ChunksOfDoc(doc, tid, cid)
  BY HeldFacts
<1>2. PICK i \in SplitAt(doc) : r = RefOf(doc, cid, i)
  BY <1>1 DEF ManifestOf
<1>3. Joined(s, r) = doc[i].leaf.text
  BY <1>1, <1>2, JoinedText
<1> QED BY <1>2, <1>3, RefFields

LEMMA AssembledIsDoc ==
    ASSUME NEW doc \in Documents, NEW tid, NEW cid \in Numberings(doc), NEW s, Of(s, doc, tid, cid),
           CanAssemble(s), NEW m \in s.manifest
    PROVE  RootWith(s, m) = doc
<1>1. s.manifest \subseteq {ManifestOf(doc, tid, cid)} /\ s.chunks \subseteq ChunksOfDoc(doc, tid, cid)
  BY HeldFacts
<1>2. m = ManifestOf(doc, tid, cid) /\ \A r \in m.refs : AllThere(s, r)
  BY <1>1 DEF CanAssemble
<1> QED BY <1>1, <1>2, RootBack

LEMMA AllHeldAssembles ==
    ASSUME NEW doc \in Documents, NEW tid, NEW cid \in Numberings(doc), NEW s, Of(s, doc, tid, cid),
           PacketsOf(doc, tid, cid) \subseteq s.got
    PROVE  CanAssemble(s)
<1> DEFINE m == ManifestOf(doc, tid, cid)
<1>1. /\ s.chunks = {p \in s.got : p.type = "json:chunk"}
      /\ s.manifest = {p \in s.got : p.type = "json:manifest"}
      /\ s.chunks \subseteq ChunksOfDoc(doc, tid, cid)
  BY HeldFacts
<1>2. m \in s.manifest
  <2>1. m \in PacketsOf(doc, tid, cid) /\ m.type = "json:manifest"
    BY DEF PacketsOf, ManifestOf
  <2> QED BY <1>1, <2>1
<1>3. s.complete
  <2>1. CompleteOf(tid) \in s.got /\ CompleteOf(tid).type = "json:complete"
    BY DEF PacketsOf, CompleteOf
  <2>2. s.complete <=> \E p \in s.got : p.type = "json:complete"
    BY DEF Of, Holds
  <2> QED BY <2>1, <2>2
<1> HIDE DEF m
<1>4. ASSUME NEW r \in m.refs PROVE AllThere(s, r)
  <2>1. PICK i \in SplitAt(doc) : r = RefOf(doc, cid, i)
    BY DEF m, ManifestOf
  <2> DEFINE n == Len(PartsOf(doc, i))
  <2>2. r.cid = cid[i] /\ r.chunks = n
    BY <2>1, RefFields
  <2>3. DOMAIN PartsOf(doc, i) = 1..n
    BY PieceFacts
  <2> HIDE DEF n
  <2>4. ASSUME NEW j \in 1..n PROVE \E c \in ChunksOf(s, r) : c.index = j
    <3> DEFINE c == ChunkOf(doc, tid, cid, i, j)
    <3>1. c.cid = cid[i] /\ c.index = j /\ c.type = "json:chunk"
      BY DEF ChunkOf
    <3>2. c \in ChunksOfDoc(doc, tid, cid)
      <4>1. c \in {ChunkOf(doc, tid, cid, i, l) : l \in DOMAIN PartsOf(doc, i)}
        BY <2>3, <2>4
      <4> HIDE DEF c
      <4> QED BY <4>1 DEF ChunksOfDoc
    <3> HIDE DEF c
    <3>3. c \in s.chunks
      BY <1>1, <3>1, <3>2 DEF PacketsOf
    <3> QED BY <2>2, <3>1, <3>3 DEF ChunksOf
  <2>5. ASSUME NEW c \in ChunksOf(s, r) PROVE c.index \in 1..n
    <3>1. c \in ChunksOfDoc(doc, tid, cid) /\ c.cid = cid[i]
      BY <1>1, <2>2 DEF ChunksOf
    <3>2. PICK k \in SplitAt(doc) : c.cid = cid[k] /\ c.index \in DOMAIN PartsOf(doc, k)
      BY <3>1, ChunkFields
    <3>3. k = i
      BY <3>1, <3>2, NumberingFacts
    <3> QED BY <2>3, <3>2, <3>3
  <2>6. {c.index : c \in ChunksOf(s, r)} = 1..n
    BY <2>4, <2>5
  <2> QED BY <2>2, <2>6 DEF AllThere
<1> QED BY <1>2, <1>3, <1>4 DEF CanAssemble

-----------------------------------------------------------------------------
(* What a packet does to a partial message. *)

LEMMA FreshIsOf ==
    ASSUME NEW doc, NEW tid, NEW cid
    PROVE  Of(FreshPartial, doc, tid, cid)
BY DEF FreshPartial, Of, Partials, Holds

\* A partial message that has got one more packet.
Got(s, p) == [s EXCEPT !.got = @ \cup {p}]

LEMMA GotFields ==
    ASSUME NEW P, NEW s \in Partials(P), NEW p \in P
    PROVE  /\ Got(s, p) \in Partials(P) /\ Got(s, p).got = s.got \cup {p}
           /\ Got(s, p).chunks = s.chunks /\ Got(s, p).manifest = s.manifest
           /\ Got(s, p).complete = s.complete
BY DEF Got, Partials

LEMMA CompleteTaken ==
    ASSUME NEW doc, NEW tid, NEW cid, NEW s, Of(s, doc, tid, cid)
    PROVE  Of([Got(s, CompleteOf(tid)) EXCEPT !.complete = TRUE], doc, tid, cid)
<1> DEFINE P == PacketsOf(doc, tid, cid)
           p == CompleteOf(tid)
           g == Got(s, p)
           n == [g EXCEPT !.complete = TRUE]
<1>1. s \in Partials(P) /\ Holds(s, P)
  BY DEF Of
<1>2. p \in P /\ p.type = "json:complete"
  BY DEF PacketsOf, CompleteOf
<1> HIDE DEF P, p
<1>3. /\ g \in Partials(P) /\ g.got = s.got \cup {p}
      /\ g.chunks = s.chunks /\ g.manifest = s.manifest
  BY <1>1, <1>2, GotFields
<1> HIDE DEF g
<1>4. /\ n \in Partials(P) /\ n.got = s.got \cup {p} /\ n.chunks = s.chunks
      /\ n.manifest = s.manifest
  BY <1>3 DEF Partials
<1>5. n.complete
  BY <1>3 DEF Partials
<1> HIDE DEF n
<1>6. Holds(n, P)
  BY <1>1, <1>2, <1>4, <1>5 DEF Holds
<1> QED BY <1>4, <1>6 DEF Of, P, n, g, p

LEMMA ManifestTaken ==
    ASSUME NEW doc, NEW tid, NEW cid, NEW s, Of(s, doc, tid, cid), s.manifest = {}
    PROVE  LET m == ManifestOf(doc, tid, cid)
           IN  Of([Got(s, m) EXCEPT !.manifest = {m}], doc, tid, cid)
<1> DEFINE P == PacketsOf(doc, tid, cid)
           p == ManifestOf(doc, tid, cid)
           g == Got(s, p)
           n == [g EXCEPT !.manifest = {p}]
<1>1. s \in Partials(P) /\ Holds(s, P)
  BY DEF Of
<1>2. p \in P /\ p.type = "json:manifest"
  BY DEF PacketsOf, ManifestOf
<1> HIDE DEF P, p
<1>3. /\ g \in Partials(P) /\ g.got = s.got \cup {p}
      /\ g.chunks = s.chunks /\ g.manifest = s.manifest /\ g.complete = s.complete
  BY <1>1, <1>2, GotFields
<1> HIDE DEF g
<1>4. /\ n \in Partials(P) /\ n.got = s.got \cup {p} /\ n.chunks = s.chunks
      /\ n.manifest = {p}
  BY <1>2, <1>3 DEF Partials
<1>5. n.complete = s.complete
  BY <1>3 DEF Partials
<1> HIDE DEF n
<1>6. Holds(n, P)
  <2>1. n.got \subseteq P /\ n.chunks = {q \in n.got : q.type = "json:chunk"}
    BY <1>1, <1>2, <1>4 DEF Holds
  <2>2. n.manifest = {q \in n.got : q.type = "json:manifest"}
    BY <1>1, <1>2, <1>4 DEF Holds
  <2>3. n.complete <=> \E q \in n.got : q.type = "json:complete"
    <3>1. s.complete <=> \E q \in s.got : q.type = "json:complete"
      BY <1>1 DEF Holds
    <3>2. (\E q \in n.got : q.type = "json:complete") <=> (\E q \in s.got : q.type = "json:complete")
      BY <1>2, <1>4
    <3> QED BY <1>5, <3>1, <3>2
  <2> QED BY <2>1, <2>2, <2>3 DEF Holds
<1> QED BY <1>4, <1>6 DEF Of, P, n, g, p

\* Of what has come already, nothing changes.
LEMMA SeenAgain ==
    ASSUME NEW P, NEW s \in Partials(P), NEW p \in s.got
    PROVE  Got(s, p) = s
<1>1. s.got \cup {p} = s.got
  OBVIOUS
<1> QED BY <1>1 DEF Got, Partials

LEMMA ChunkTaken ==
    ASSUME NEW doc \in Documents, NEW tid, NEW cid \in Numberings(doc), NEW s, Of(s, doc, tid, cid),
           NEW p \in ChunksOfDoc(doc, tid, cid)
    PROVE  Of(ChunkAccepted(Got(s, p), p), doc, tid, cid)
<1> DEFINE P == PacketsOf(doc, tid, cid)
           g == Got(s, p)
<1>1. s \in Partials(P) /\ Holds(s, P)
  BY DEF Of
<1>2. p \in P /\ p.type = "json:chunk" /\ p.hash = p.data
  <2>1. p \in P
    BY DEF PacketsOf
  <2> QED BY <2>1, PacketKinds, ChunkFields
<1>3. CASE p \in s.got
  <2>1. g = s
    BY <1>1, <1>3, SeenAgain
  <2>2. p \in s.chunks
    BY <1>2, <1>3, HeldFacts
  <2>3. ChunkAccepted(s, p) = s
    BY <2>2 DEF ChunkAccepted
  <2> QED BY <2>1, <2>3
<1>4. CASE p \notin s.got
  <2> HIDE DEF P
  <2>1. /\ g \in Partials(P) /\ g.got = s.got \cup {p}
        /\ g.chunks = s.chunks /\ g.manifest = s.manifest /\ g.complete = s.complete
    BY <1>1, <1>2, GotFields
  <2> HIDE DEF g
  <2>2. \A m \in g.manifest : ValidateChunk(m, p)
    BY <2>1, HeldFacts, ChunkValid
  <2>3. \A c \in g.chunks : c.cid # p.cid \/ c.index # p.index
    <3> SUFFICES ASSUME NEW c \in s.chunks, c.cid = p.cid, c.index = p.index PROVE FALSE
      BY <2>1
    <3>1. c \in ChunksOfDoc(doc, tid, cid) /\ c \in s.got
      BY HeldFacts
    <3>2. c = p
      BY <3>1, ChunksDistinct
    <3> QED BY <1>4, <3>1, <3>2
  <2> DEFINE n == [g EXCEPT !.chunks = @ \cup {p}]
  <2>4. ChunkAccepted(g, p) = n
    BY <1>2, <2>2, <2>3 DEF ChunkAccepted
  <2>5. n \in Partials(P) /\ n.got = s.got \cup {p} /\ n.manifest = s.manifest
        /\ n.chunks = s.chunks \cup {p}
    BY <1>2, <2>1 DEF Partials
  <2>6. n.complete = s.complete
    BY <2>1 DEF Partials
  <2> HIDE DEF n
  <2>7. Holds(n, P)
    <3>1. n.got \subseteq P /\ n.chunks = {q \in n.got : q.type = "json:chunk"}
      BY <1>1, <1>2, <2>5 DEF Holds
    <3>2. n.manifest = {q \in n.got : q.type = "json:manifest"}
      BY <1>1, <1>2, <2>5 DEF Holds
    <3>3. n.complete <=> \E q \in n.got : q.type = "json:complete"
      <4>1. s.complete <=> \E q \in s.got : q.type = "json:complete"
        BY <1>1 DEF Holds
      <4>2. (\E q \in n.got : q.type = "json:complete") <=> (\E q \in s.got : q.type = "json:complete")
        BY <1>2, <2>5
      <4> QED BY <2>6, <4>1, <4>2
    <3> QED BY <3>1, <3>2, <3>3 DEF Holds
  <2> QED BY <2>4, <2>5, <2>7 DEF Of, P, g
<1> QED BY <1>3, <1>4

LEMMA BufferedValid ==
    ASSUME NEW doc \in Documents, NEW tid, NEW cid \in Numberings(doc), NEW s, Of(s, doc, tid, cid),
           NEW t, t.chunks = s.chunks
    PROVE  ValidateBufferedChunks(ManifestOf(doc, tid, cid), t)
BY HeldFacts, ChunkValid DEF ValidateBufferedChunks

\* A damaged chunk is not what its hash says.
LEMMA DamageShows ==
    ASSUME NEW X, NEW data \in Seq(X), data # <<>>
    PROVE  CorruptChunkData(data) # data
<1> DEFINE Y == X \cup {"X", "Y"}
           x == IF data[1] = "X" THEN "Y" ELSE "X"
<1>1. Tail(data) \in Seq(Y) /\ <<x>> \in Seq(Y) /\ Len(<<x>>) = 1 /\ <<x>>[1] = x
  <2>1. data \in Seq(Y)
    BY SeqMonotonic
  <2>2. Tail(data) \in Seq(Y)
    BY <2>1, HeadTailProperties
  <2>3. x \in Y
    OBVIOUS
  <2> HIDE DEF x, Y
  <2> QED BY <2>2, <2>3
<1>2. x # data[1]
  <2>1. "X" # "Y"
    OBVIOUS
  <2> QED BY <2>1
<1> HIDE DEF x, Y
<1>3. (<<x>> \o Tail(data))[1] = x
  BY <1>1, ConcatProperties, LenProperties
<1>4. CorruptChunkData(data) = <<x>> \o Tail(data)
  BY DEF CorruptChunkData, x
<1> QED BY <1>2, <1>3, <1>4

-----------------------------------------------------------------------------
(* The receiver keeps the invariant. *)

\* The document of a tid, and what its packets are.
LEMMA KnownTid ==
    ASSUME SentOnce, PacketsTrue, NEW e \in sentDocs
    PROVE  /\ e = [tid |-> e.tid, doc |-> e.doc]
           /\ e.doc \in Documents
           /\ \E cid \in Numberings(e.doc) : PacketsWith(e.tid) = PacketsOf(e.doc, e.tid, cid)
BY DEF SentOnce, PacketsTrue

LEMMA KeepStep ==
    ASSUME PartialsTrue, rebuilt \subseteq sentDocs,
           NEW e \in sentDocs, NEW s, Waiting(s, PacketsWith(e.tid)),
           Keep(e.tid, s), UNCHANGED <<sentDocs, packets>>
    PROVE  PartialsTrue' /\ (rebuilt \subseteq sentDocs)'
<1> DEFINE tid == e.tid
<1>1. /\ partials' = [t \in DOMAIN partials \cup {tid} |-> IF t = tid THEN s ELSE partials[t]]
      /\ rebuilt' = rebuilt
  BY DEF Keep
<1>2. \A t : PacketsWith(t)' = PacketsWith(t)
  BY DEF PacketsWith
<1>3. ASSUME NEW t \in DOMAIN partials'
      PROVE  (\E f \in sentDocs' : f.tid = t) /\ Waiting(partials'[t], PacketsWith(t)')
  <2>1. CASE t = tid
    <3>1. partials'[t] = s
      BY <1>1, <2>1
    <3> QED BY <1>2, <2>1, <3>1
  <2>2. CASE t # tid
    <3>1. t \in DOMAIN partials /\ partials'[t] = partials[t]
      BY <1>1, <2>2
    <3>2. (\E f \in sentDocs : f.tid = t) /\ Waiting(partials[t], PacketsWith(t))
      BY <3>1 DEF PartialsTrue
    <3> QED BY <1>2, <3>1, <3>2
  <2> QED BY <2>1, <2>2
<1>4. PartialsTrue'
  BY <1>3 DEF PartialsTrue
<1> QED BY <1>1, <1>4

LEMMA RemoveStep ==
    ASSUME PartialsTrue, NEW gone,
           partials' = [t \in DOMAIN partials \ gone |-> partials[t]], UNCHANGED <<sentDocs, packets>>
    PROVE  PartialsTrue'
<1>1. \A t : PacketsWith(t)' = PacketsWith(t)
  BY DEF PacketsWith
<1>2. ASSUME NEW t \in DOMAIN partials'
      PROVE  (\E f \in sentDocs' : f.tid = t) /\ Waiting(partials'[t], PacketsWith(t)')
  <2>1. t \in DOMAIN partials /\ partials'[t] = partials[t]
    OBVIOUS
  <2>2. (\E f \in sentDocs : f.tid = t) /\ Waiting(partials[t], PacketsWith(t))
    BY <2>1 DEF PartialsTrue
  <2> QED BY <1>1, <2>1, <2>2
<1> QED BY <1>2 DEF PartialsTrue

\* A message that is complete is handed over and is the document; one that is
\* kept still lacks a packet.
LEMMA ConcludeStep ==
    ASSUME PartialsTrue, rebuilt \subseteq sentDocs, SentOnce,
           NEW e \in sentDocs, NEW cid \in Numberings(e.doc),
           PacketsWith(e.tid) = PacketsOf(e.doc, e.tid, cid),
           NEW s, Of(s, e.doc, e.tid, cid),
           Conclude(e.tid, s), UNCHANGED <<sentDocs, packets>>
    PROVE  PartialsTrue' /\ (rebuilt \subseteq sentDocs)'
<1>0. e = [tid |-> e.tid, doc |-> e.doc] /\ e.doc \in Documents
  BY DEF SentOnce
<1>1. ValidateSizes(s)
  BY <1>0, SizesValid
<1>2. CASE CanAssemble(s)
  <2>1. /\ partials' = [t \in DOMAIN partials \ {e.tid} |-> partials[t]]
        /\ \E m \in s.manifest : rebuilt' = rebuilt \cup {[tid |-> e.tid, doc |-> RootWith(s, m)]}
    BY <1>1, <1>2 DEF Conclude
  <2>2. PartialsTrue'
    BY <2>1, RemoveStep
  <2>3. PICK m \in s.manifest : rebuilt' = rebuilt \cup {[tid |-> e.tid, doc |-> RootWith(s, m)]}
    BY <2>1
  <2>4. RootWith(s, m) = e.doc
    BY <1>0, <1>2, AssembledIsDoc
  <2>5. rebuilt' = rebuilt \cup {e}
    BY <1>0, <2>3, <2>4
  <2> QED BY <2>2, <2>5
<1>3. CASE ~CanAssemble(s)
  <2>1. Keep(e.tid, s)
    BY <1>3 DEF Conclude
  <2>2. Waiting(s, PacketsWith(e.tid))
    <3>1. ~(PacketsOf(e.doc, e.tid, cid) \subseteq s.got)
      BY <1>0, <1>3, AllHeldAssembles
    <3> QED BY <3>1 DEF Waiting, Of
  <2> QED BY <2>1, <2>2, KeepStep
<1> QED BY <1>2, <1>3

LEMMA PartialOf ==
    ASSUME PartialsTrue, NEW e \in sentDocs, NEW cid,
           PacketsWith(e.tid) = PacketsOf(e.doc, e.tid, cid)
    PROVE  /\ Of(GetPartial(e.tid), e.doc, e.tid, cid)
           /\ ~(PacketsWith(e.tid) \subseteq GetPartial(e.tid).got)
<1>1. CASE e.tid \in DOMAIN partials
  <2>1. Waiting(partials[e.tid], PacketsWith(e.tid)) /\ GetPartial(e.tid) = partials[e.tid]
    BY <1>1 DEF PartialsTrue, GetPartial
  <2> QED BY <2>1 DEF Waiting, Of
<1>2. CASE e.tid \notin DOMAIN partials
  <2>1. GetPartial(e.tid) = FreshPartial /\ FreshPartial.got = {}
    BY <1>2 DEF GetPartial, FreshPartial
  <2>2. CompleteOf(e.tid) \in PacketsOf(e.doc, e.tid, cid)
    BY DEF PacketsOf
  <2> QED BY <2>1, <2>2, FreshIsOf
<1> QED BY <1>1, <1>2

LEMMA ReceiveStep ==
    ASSUME SentOnce, PacketsTrue, PartialsTrue, rebuilt \subseteq sentDocs,
           NEW p \in packets, NEW frame \in Conditioned(p), ReceivePacket(frame)
    PROVE  PartialsTrue' /\ (rebuilt \subseteq sentDocs)'
<1>1. PICK e \in sentDocs : e.tid = p.tid
  BY DEF PacketsTrue
<1> DEFINE tid == e.tid
           doc == e.doc
           s == GetPartial(tid)
           known == [Got(s, frame) EXCEPT !.manifest = {frame}]
<1>2. PICK cid \in Numberings(doc) : PacketsWith(tid) = PacketsOf(doc, tid, cid)
  BY KnownTid
<1> DEFINE P == PacketsOf(doc, tid, cid)
<1>3. doc \in Documents
  BY KnownTid
<1>4. Of(s, doc, tid, cid) /\ ~(P \subseteq s.got) /\ s \in Partials(P)
  BY <1>2, PartialOf DEF Of
<1>5. p \in P
  BY <1>1, <1>2 DEF PacketsWith
<1>6. UNCHANGED <<sentDocs, packets>>
  BY DEF ReceivePacket
<1>7. CASE frame = p
  <2>1. frame \in packets /\ frame.tid = tid
    BY <1>1, <1>7
  <2>2. [GetPartial(frame.tid) EXCEPT !.got = IF frame \in packets THEN @ \cup {frame} ELSE @]
            = Got(s, frame)
    BY <2>1 DEF Got
  <2>3. \/ frame.type = "json:complete" /\ Conclude(tid, [Got(s, frame) EXCEPT !.complete = TRUE])
        \/ frame.type = "json:chunk" /\ Conclude(tid, ChunkAccepted(Got(s, frame), frame))
        \/ /\ frame.type = "json:manifest"
           /\ \/ (Got(s, frame).manifest # {} \/ ~ValidateManifest(frame)) /\ Keep(tid, Got(s, frame))
              \/ /\ Got(s, frame).manifest = {} /\ ValidateManifest(frame)
                 /\ IF ValidateBufferedChunks(frame, Got(s, frame))
                    THEN Conclude(tid, known) ELSE Keep(tid, known)
    BY <2>1, <2>2 DEF ReceivePacket
  <2> HIDE DEF s, doc, tid, known
  <2>4. CASE frame.type = "json:complete" /\ Conclude(tid, [Got(s, frame) EXCEPT !.complete = TRUE])
    <3>1. frame = CompleteOf(tid)
      BY <1>5, <1>7, <2>4, PacketKinds
    <3>2. Of([Got(s, frame) EXCEPT !.complete = TRUE], doc, tid, cid)
      BY <1>4, <3>1, CompleteTaken
    <3> QED BY <1>2, <1>6, <2>4, <3>2, ConcludeStep DEF tid, doc
  <2>5. CASE frame.type = "json:chunk" /\ Conclude(tid, ChunkAccepted(Got(s, frame), frame))
    <3>1. frame \in ChunksOfDoc(doc, tid, cid)
      BY <1>5, <1>7, <2>5, PacketKinds
    <3>2. Of(ChunkAccepted(Got(s, frame), frame), doc, tid, cid)
      BY <1>2, <1>3, <1>4, <3>1, ChunkTaken
    <3> QED BY <1>2, <1>6, <2>5, <3>2, ConcludeStep DEF tid, doc
  <2>6. CASE frame.type = "json:manifest"
    <3>1. frame = ManifestOf(doc, tid, cid)
      BY <1>5, <1>7, <2>6, PacketKinds
    <3>2. ValidateManifest(frame)
      BY <1>2, <1>3, <3>1, ManifestValid
    <3>3. Got(s, frame).manifest = s.manifest /\ Got(s, frame).chunks = s.chunks
      BY <1>4, <1>5, <1>7, GotFields
    <3>4. CASE s.manifest # {}
      <4>1. frame \in s.got
        BY <1>4, <3>1, <3>4, HeldFacts
      <4>2. Got(s, frame) = s
        BY <1>4, <4>1, SeenAgain
      <4>3. Keep(tid, s)
        BY <2>3, <2>6, <3>3, <3>4, <4>2
      <4>4. Waiting(s, PacketsWith(tid))
        BY <1>2, <1>4 DEF Waiting, Of
      <4> QED BY <1>6, <4>3, <4>4, KeepStep DEF tid
    <3>5. CASE s.manifest = {}
      <4>1. Of(known, doc, tid, cid)
        BY <1>4, <3>1, <3>5, ManifestTaken DEF known
      <4>2. ValidateBufferedChunks(frame, Got(s, frame))
        BY <1>2, <1>3, <1>4, <3>1, <3>3, BufferedValid
      <4>3. Conclude(tid, known)
        BY <2>3, <2>6, <3>2, <3>3, <3>5, <4>2
      <4> QED BY <1>2, <1>6, <4>1, <4>3, ConcludeStep DEF tid, doc
    <3> QED BY <3>4, <3>5
  <2> QED BY <2>3, <2>4, <2>5, <2>6
<1>8. CASE frame # p
  <2>1. p.type = "json:chunk" /\ frame = [p EXCEPT !.data = CorruptChunkData(@)]
    BY <1>8 DEF Conditioned
  <2>2. p \in ChunksOfDoc(doc, tid, cid)
    BY <1>5, <2>1, PacketKinds
  <2>3. PICK i \in SplitAt(doc) : \E j \in DOMAIN PartsOf(doc, i) :
            p = ChunkOf(doc, tid, cid, i, j) /\ p.data = PartsOf(doc, i)[j] /\ p.hash = p.data
    BY <2>2, ChunkFields
  <2>4. PICK j \in DOMAIN PartsOf(doc, i) :
            p = ChunkOf(doc, tid, cid, i, j) /\ p.data = PartsOf(doc, i)[j] /\ p.hash = p.data
    BY <2>3
  <2>5. CorruptChunkData(p.data) # p.data
    <3>1. p.data \in Seq(DOMAIN Width) /\ p.data # <<>>
      BY <1>3, <2>4, PieceFacts
    <3> QED BY <3>1, DamageShows
  <2>6. /\ frame.tid = tid /\ frame.type = "json:chunk" /\ frame.hash = p.data
        /\ frame.data = CorruptChunkData(p.data)
    <3>1. p = ChunkOf(doc, tid, cid, i, j)
      BY <2>4
    <3> HIDE DEF doc, tid
    <3> QED BY <2>1, <2>4, <3>1 DEF ChunkOf
  <2>7. frame \notin packets
    <3> SUFFICES ASSUME frame \in packets PROVE FALSE
      OBVIOUS
    <3>1. frame \in P
      BY <1>2, <2>6 DEF PacketsWith
    <3>2. frame \in ChunksOfDoc(doc, tid, cid)
      BY <2>6, <3>1, PacketKinds
    <3>3. frame.hash = frame.data
      BY <3>2, ChunkFields
    <3> QED BY <2>5, <2>6, <3>3
  <2>8. Conclude(tid, ChunkAccepted(s, frame))
    <3>1. [GetPartial(frame.tid) EXCEPT !.got = IF frame \in packets THEN @ \cup {frame} ELSE @] = s
      <4>1. [s EXCEPT !.got = @] = s
        BY <1>4 DEF Partials
      <4> HIDE DEF s
      <4> QED BY <2>6, <2>7, <4>1 DEF s
    <3>2. "json:chunk" # "json:manifest" /\ "json:chunk" # "json:complete"
      OBVIOUS
    <3> QED BY <2>6, <3>1, <3>2 DEF ReceivePacket
  <2>9. ChunkAccepted(s, frame) = s
    BY <2>5, <2>6 DEF ChunkAccepted
  <2> QED BY <1>2, <1>4, <1>6, <2>8, <2>9, ConcludeStep
<1> QED BY <1>7, <1>8

-----------------------------------------------------------------------------
(* The sender keeps the invariant. *)

\* The numbers splitJSON gives the chunked leaves of a document are distinct.
NewCids(doc) == [i \in SplitAt(doc) |-> NewId(lastIds.cid + Cardinality(SplitAt(doc) \cap (1..i)))]

LEMMA CountsRise ==
    ASSUME NEW doc \in Documents, NEW i \in SplitAt(doc), NEW k \in SplitAt(doc), i # k
    PROVE  /\ Cardinality(SplitAt(doc) \cap (1..i)) # Cardinality(SplitAt(doc) \cap (1..k))
           /\ Cardinality(SplitAt(doc) \cap (1..i)) \in Nat
<1> DEFINE U(n) == SplitAt(doc) \cap (1..n)
<1>1. i \in Nat /\ k \in Nat /\ i # 0 /\ k # 0
  BY DocFacts
<1>2. IsFiniteSet(SplitAt(doc))
  BY DocFacts
<1>3. IsFiniteSet(U(i)) /\ IsFiniteSet(U(k))
  BY <1>2, FS_Subset
<1>4. Cardinality(U(i)) \in Nat /\ Cardinality(U(k)) \in Nat
  BY <1>3, FS_CardinalityType
<1>5. CASE i < k
  <2>1. U(i) \in SUBSET U(k) /\ U(i) # U(k)
    <3>1. k \in U(k) /\ k \notin U(i)
      BY <1>1, <1>5
    <3>2. U(i) \subseteq U(k)
      BY <1>1, <1>5
    <3> QED BY <3>1, <3>2
  <2> HIDE DEF U
  <2>2. Cardinality(U(i)) # Cardinality(U(k))
    BY <1>3, <2>1, FS_Subset
  <2> QED BY <1>4, <2>2 DEF U
<1>6. CASE k < i
  <2>1. U(k) \in SUBSET U(i) /\ U(k) # U(i)
    <3>1. i \in U(i) /\ i \notin U(k)
      BY <1>1, <1>6
    <3>2. U(k) \subseteq U(i)
      BY <1>1, <1>6
    <3> QED BY <3>1, <3>2
  <2> HIDE DEF U
  <2>2. Cardinality(U(i)) # Cardinality(U(k))
    BY <1>3, <2>1, FS_Subset
  <2> QED BY <1>4, <2>2 DEF U
<1> QED BY <1>1, <1>5, <1>6

LEMMA NewIdType ==
    ASSUME instance \in 0..MaxRestarts, NEW n \in Nat
    PROVE  NewId(n) \in (0..MaxRestarts) \X Nat
<1>1. 0 \in 0..MaxRestarts
  BY JSONAssumption
<1> QED BY <1>1 DEF NewId

LEMMA NewCidsNumber ==
    ASSUME DocumentTypeOK, NEW doc \in Documents
    PROVE  NewCids(doc) \in Numberings(doc)
<1>1. lastIds.cid \in Nat /\ instance \in 0..MaxRestarts
  BY DEF DocumentTypeOK
<1> DEFINE N(i) == Cardinality(SplitAt(doc) \cap (1..i))
<1>2. \A i \in SplitAt(doc) : N(i) \in Nat
  <2> SUFFICES ASSUME NEW i \in SplitAt(doc) PROVE N(i) \in Nat
    OBVIOUS
  <2>1. IsFiniteSet(SplitAt(doc) \cap (1..i))
    BY DocFacts, FS_Subset
  <2> QED BY <2>1, FS_CardinalityType
<1>3. \A i, k \in SplitAt(doc) : i # k => N(i) # N(k)
  BY CountsRise
<1> HIDE DEF N
<1>4. NewCids(doc) = [i \in SplitAt(doc) |-> NewId(lastIds.cid + N(i))]
  BY DEF NewCids, N
<1>5. \A i \in SplitAt(doc) : NewId(lastIds.cid + N(i)) \in (0..MaxRestarts) \X Nat
  <2>1. \A i \in SplitAt(doc) : lastIds.cid + N(i) \in Nat
    BY <1>1, <1>2
  <2> QED BY <1>1, <2>1, NewIdType
<1>6. \A i, k \in SplitAt(doc) : NewId(lastIds.cid + N(i)) = NewId(lastIds.cid + N(k)) => i = k
  <2> SUFFICES ASSUME NEW i \in SplitAt(doc), NEW k \in SplitAt(doc),
                      NewId(lastIds.cid + N(i)) = NewId(lastIds.cid + N(k))
               PROVE  i = k
    OBVIOUS
  <2>1. lastIds.cid + N(i) = lastIds.cid + N(k)
    BY DEF NewId
  <2>2. N(i) = N(k)
    BY <1>1, <1>2, <2>1
  <2> QED BY <1>3, <2>2
<1> QED BY <1>4, <1>5, <1>6 DEF Numberings, OneToOne

LEMMA SplitIsPackets ==
    ASSUME NEW doc \in Documents
    PROVE  SplitJSON(doc) = PacketsOf(doc, NewId(lastIds.tid + 1), NewCids(doc))
<1> DEFINE tid == NewId(lastIds.tid + 1)
           Cid(i) == NewId(lastIds.cid + Cardinality(SplitAt(doc) \cap (1..i)))
           cid == NewCids(doc)
<1>1. \A i \in SplitAt(doc) : cid[i] = Cid(i)
  BY DEF NewCids
<1> DEFINE Parts(i) == SplitStringByBytes(doc[i].leaf.text)
<1>2. \A i : PartsOf(doc, i) = Parts(i)
  BY DEF PartsOf
<1> DEFINE R == [i \in DOMAIN doc |->
                    IF i \in SplitAt(doc) THEN [path |-> doc[i].path, leaf |-> [cid |-> Cid(i)]]
                    ELSE doc[i]]
           F == {[cid |-> Cid(i), path |-> Pointer(doc[i].path), chunks |-> Len(Parts(i)),
                  size |-> ByteLength(doc[i].leaf.text)] : i \in SplitAt(doc)}
           C == UNION {{[type |-> "json:chunk", tid |-> tid, cid |-> Cid(i), index |-> j,
                         total |-> Len(Parts(i)), data |-> Parts(i)[j], hash |-> Parts(i)[j]]
                           : j \in DOMAIN Parts(i)} : i \in SplitAt(doc)}
<1>3. SplitJSON(doc) =
        {[type |-> "json:manifest", tid |-> tid, root |-> R, refs |-> F]}
        \cup {[type |-> "json:complete", tid |-> tid]} \cup C
  BY DEF SplitJSON
<1> HIDE DEF tid, Cid, cid, Parts
<1>4. R = MarkedRoot(doc, cid)
  BY <1>1 DEF MarkedRoot
<1>5. F = {RefOf(doc, cid, i) : i \in SplitAt(doc)}
  <2>1. \A i \in SplitAt(doc) :
            RefOf(doc, cid, i) = [cid |-> Cid(i), path |-> Pointer(doc[i].path), chunks |-> Len(Parts(i)),
                                  size |-> ByteLength(doc[i].leaf.text)]
    BY <1>1, <1>2 DEF RefOf
  <2> QED BY <2>1
<1>6. C = ChunksOfDoc(doc, tid, cid)
  <2> DEFINE A(i) == {[type |-> "json:chunk", tid |-> tid, cid |-> Cid(i), index |-> j,
                       total |-> Len(Parts(i)), data |-> Parts(i)[j], hash |-> Parts(i)[j]]
                         : j \in DOMAIN Parts(i)}
             B(i) == {ChunkOf(doc, tid, cid, i, j) : j \in DOMAIN PartsOf(doc, i)}
  <2>1. ASSUME NEW i \in SplitAt(doc) PROVE A(i) = B(i)
    <3>1. \A j : ChunkOf(doc, tid, cid, i, j) =
              [type |-> "json:chunk", tid |-> tid, cid |-> Cid(i), index |-> j,
               total |-> Len(Parts(i)), data |-> Parts(i)[j], hash |-> Parts(i)[j]]
      BY <1>1, <1>2 DEF ChunkOf
    <3> QED BY <1>2, <3>1
  <2> HIDE DEF A, B
  <2>2. UNION {A(i) : i \in SplitAt(doc)} = UNION {B(i) : i \in SplitAt(doc)}
    BY <2>1
  <2> QED BY <2>2 DEF A, B, ChunksOfDoc
<1> HIDE DEF R, F, C
<1>7. ManifestOf(doc, tid, cid) = [type |-> "json:manifest", tid |-> tid, root |-> R, refs |-> F]
  BY <1>4, <1>5 DEF ManifestOf
<1>8. SplitJSON(doc) = PacketsOf(doc, tid, cid)
  BY <1>3, <1>6, <1>7 DEF PacketsOf, CompleteOf
<1> QED BY <1>8 DEF tid, cid

LEMMA SendStep ==
    ASSUME DocumentInv, NEW doc \in Documents, SendDocument(doc), DocumentTypeOK'
    PROVE  DocumentInv'
<1>1. /\ instance \in 0..MaxRestarts /\ lastIds.tid \in Nat
      /\ idsUnique' = idsUnique /\ instance' = instance /\ partials' = partials /\ rebuilt' = rebuilt
      /\ lastIds'.tid = lastIds.tid + 1
  BY JSONAssumption DEF DocumentInv, DocumentTypeOK, SendDocument
<1>2. \A t \in (0..MaxRestarts) \X Nat : GivenOut(t) => GivenOut(t)'
  BY <1>1 DEF GivenOut
<1>3. CASE Unsplittable(doc)
  <2>1. packets' = packets /\ sentDocs' = sentDocs
    BY <1>3 DEF SendDocument
  <2>2. ChunksFit'
    BY <2>1 DEF DocumentInv, ChunksFit
  <2>3. ASSUME IdsGoOn' PROVE (SentOnce /\ PacketsTrue /\ PartialsTrue /\ rebuilt \subseteq sentDocs)'
    <3>1. SentOnce /\ PacketsTrue /\ PartialsTrue /\ rebuilt \subseteq sentDocs
      BY <1>1, <2>3 DEF DocumentInv, IdsGoOn
    <3>2. SentOnce'
      BY <1>2, <2>1, <3>1 DEF SentOnce
    <3>3. PacketsTrue'
      BY <2>1, <3>1 DEF PacketsTrue, PacketsWith
    <3>4. PartialsTrue'
      BY <1>1, <2>1, <3>1 DEF PartialsTrue, PacketsWith
    <3> QED BY <1>1, <2>1, <3>1, <3>2, <3>3, <3>4
  <2> QED BY <2>2, <2>3 DEF DocumentInv
<1>4. CASE ~Unsplittable(doc)
  <2>a. PICK tid \in (0..MaxRestarts) \X Nat : tid = NewId(lastIds.tid + 1)
    <3>1. lastIds.tid + 1 \in Nat
      BY <1>1
    <3> QED BY <1>1, <3>1, NewIdType
  <2>b. PICK cid \in Numberings(doc) : cid = NewCids(doc)
    BY NewCidsNumber DEF DocumentInv
  <2> DEFINE e == [tid |-> tid, doc |-> doc]
             New == PacketsOf(doc, tid, cid)
  <2>1. packets' = packets \cup New /\ sentDocs' = sentDocs \cup {e}
    BY <1>4, <2>a, <2>b, SplitIsPackets DEF SendDocument
  <2>2. cid \in Numberings(doc) /\ tid \in (0..MaxRestarts) \X Nat
    OBVIOUS
  <2>3. e.tid = tid /\ e.doc = doc /\ e = [tid |-> e.tid, doc |-> e.doc]
    OBVIOUS
  <2> HIDE DEF e, New
  <2>4. \A p \in New : p.tid = tid
    BY PacketKinds DEF New
  <2>5. ChunksFit'
    <3>1. ASSUME NEW p \in New, p.type = "json:chunk" PROVE ByteLength(p.data) <= ChunkBytes
      <4>1. p \in ChunksOfDoc(doc, tid, cid)
        BY <3>1, PacketKinds DEF New
      <4>2. PICK i \in SplitAt(doc) : \E j \in DOMAIN PartsOf(doc, i) : p.data = PartsOf(doc, i)[j]
        BY <4>1, ChunkFields
      <4> QED BY <1>4, <4>2, PiecesOfDocFit
    <3> QED BY <2>1, <3>1 DEF DocumentInv, ChunksFit
  <2>6. ASSUME IdsGoOn' PROVE (SentOnce /\ PacketsTrue /\ PartialsTrue /\ rebuilt \subseteq sentDocs)'
    <3>1. SentOnce /\ PacketsTrue /\ PartialsTrue /\ rebuilt \subseteq sentDocs /\ IdsGoOn
      BY <1>1, <2>6 DEF DocumentInv, IdsGoOn
    <3>2. tid = <<instance, lastIds.tid + 1>>
      <4>1. ~idsUnique => instance = 0
        BY <3>1 DEF IdsGoOn
      <4> QED BY <2>a, <4>1 DEF NewId
    <3>3. ~GivenOut(tid) /\ GivenOut(tid)'
      BY <1>1, <3>2 DEF GivenOut
    <3>4. \A f \in sentDocs : f.tid # tid
      BY <3>1, <3>3 DEF SentOnce
    <3>5. \A p \in packets : p.tid # tid
      BY <3>1, <3>4 DEF PacketsTrue
    <3>6. PacketsWith(tid)' = New /\ \A f \in sentDocs : PacketsWith(f.tid)' = PacketsWith(f.tid)
      <4>1. \A t : PacketsWith(t)' = {p \in packets \cup New : p.tid = t}
        BY <2>1 DEF PacketsWith
      <4> QED BY <2>4, <3>4, <3>5, <4>1 DEF PacketsWith
    <3>7. SentOnce'
      <4>1. sentDocs' \subseteq [tid : (0..MaxRestarts) \X Nat, doc : Documents]
        BY <2>1, <2>2, <2>3, <3>1 DEF SentOnce, e
      <4>2. \A f \in sentDocs' : GivenOut(f.tid)' /\ ~Unsplittable(f.doc)
        <5>1. ASSUME NEW f \in sentDocs PROVE GivenOut(f.tid)' /\ ~Unsplittable(f.doc)
          <6>1. f.tid \in (0..MaxRestarts) \X Nat /\ GivenOut(f.tid) /\ ~Unsplittable(f.doc)
            BY <3>1 DEF SentOnce
          <6> QED BY <1>2, <6>1
        <5>2. GivenOut(e.tid)' /\ ~Unsplittable(e.doc)
          BY <1>4, <2>3, <3>3
        <5> QED BY <2>1, <5>1, <5>2
      <4>3. \A f, g \in sentDocs' : f.tid = g.tid => f = g
        BY <2>1, <2>3, <3>1, <3>4 DEF SentOnce
      <4> QED BY <4>1, <4>2, <4>3 DEF SentOnce
    <3>8. PacketsTrue'
      <4>1. \A p \in packets' : \E f \in sentDocs' : f.tid = p.tid
        BY <2>1, <2>3, <2>4, <3>1 DEF PacketsTrue
      <4>2. ASSUME NEW f \in sentDocs'
            PROVE  \E c \in Numberings(f.doc) : PacketsWith(f.tid)' = PacketsOf(f.doc, f.tid, c)
        <5>1. CASE f \in sentDocs
          BY <3>1, <3>6, <5>1 DEF PacketsTrue
        <5>2. CASE f = e
          BY <2>2, <2>3, <3>6, <5>2 DEF New
        <5> QED BY <2>1, <5>1, <5>2
      <4> QED BY <4>1, <4>2 DEF PacketsTrue
    <3>9. PartialsTrue'
      <4> SUFFICES ASSUME NEW t \in DOMAIN partials
                   PROVE  (\E f \in sentDocs' : f.tid = t) /\ Waiting(partials[t], PacketsWith(t)')
        BY <1>1 DEF PartialsTrue
      <4>1. (\E f \in sentDocs : f.tid = t) /\ Waiting(partials[t], PacketsWith(t))
        BY <3>1 DEF PartialsTrue
      <4>2. PICK f \in sentDocs : f.tid = t
        BY <4>1
      <4>3. PacketsWith(t)' = PacketsWith(t)
        BY <3>6, <4>2
      <4> QED BY <2>1, <4>1, <4>2, <4>3
    <3> QED BY <1>1, <2>1, <3>1, <3>7, <3>8, <3>9
  <2> QED BY <2>5, <2>6 DEF DocumentInv
<1> QED BY <1>3, <1>4

LEMMA RestartStep ==
    ASSUME DocumentInv, SenderRestarts, DocumentTypeOK'
    PROVE  DocumentInv'
<1>1. /\ instance' = instance + 1 /\ instance \in Nat /\ idsUnique' = idsUnique
      /\ partials' = partials /\ rebuilt' = rebuilt /\ packets' = packets /\ sentDocs' = sentDocs
  BY JSONAssumption DEF DocumentInv, DocumentTypeOK, SenderRestarts
<1>2. ChunksFit'
  BY <1>1 DEF DocumentInv, ChunksFit
<1>3. ASSUME IdsGoOn' PROVE (SentOnce /\ PacketsTrue /\ PartialsTrue /\ rebuilt \subseteq sentDocs)'
  <2>1. SentOnce /\ PacketsTrue /\ PartialsTrue /\ rebuilt \subseteq sentDocs
    <3>1. idsUnique
      BY <1>1, <1>3 DEF IdsGoOn
    <3> QED BY <3>1 DEF DocumentInv, IdsGoOn
  <2>2. SentOnce'
    <3>1. \A f \in sentDocs : f.tid \in (0..MaxRestarts) \X Nat /\ GivenOut(f.tid)
      BY <2>1 DEF SentOnce
    <3>2. \A f \in sentDocs : GivenOut(f.tid)'
      BY <1>1, <3>1 DEF GivenOut
    <3> QED BY <1>1, <2>1, <3>2 DEF SentOnce
  <2>3. PacketsTrue'
    BY <1>1, <2>1 DEF PacketsTrue, PacketsWith
  <2>4. PartialsTrue'
    BY <1>1, <2>1 DEF PartialsTrue, PacketsWith
  <2> QED BY <1>1, <2>1, <2>2, <2>3, <2>4
<1> QED BY <1>2, <1>3 DEF DocumentInv

-----------------------------------------------------------------------------

LEMMA DocumentStart == ASSUME DocumentInit PROVE DocumentTypeOK
BY JSONAssumption DEF DocumentInit, DocumentTypeOK

LEMMA DocumentStep ==
    ASSUME DocumentTypeOK, [DocumentNext]_jsonVars
    PROVE  DocumentTypeOK'
<1>1. /\ idsUnique \in BOOLEAN /\ attached \in BOOLEAN /\ instance \in 0..MaxRestarts
      /\ lastIds \in [tid : 0..MaxDocuments, cid : Nat] /\ \A s \in sentDocs : s.doc \in Documents
      /\ MaxDocuments \in Nat /\ MaxRestarts \in Nat
  BY JSONAssumption DEF DocumentTypeOK
<1>2. ASSUME NEW doc \in Documents, SendDocument(doc) PROVE DocumentTypeOK'
  <2>1. Cardinality(SplitAt(doc)) \in Nat
    <3>1. DOMAIN doc = 1..Len(doc) /\ Len(doc) \in Nat
      <4>1. doc \in Seq({doc[i] : i \in DOMAIN doc})
        BY JSONAssumption
      <4> QED BY <4>1
    <3>2. SplitAt(doc) \in SUBSET (DOMAIN doc)
      BY DEF SplitAt
    <3>3. IsFiniteSet(1..Len(doc))
      BY <3>1, FS_Interval
    <3> QED BY <3>1, <3>2, <3>3, FS_Subset, FS_CardinalityType
  <2>2. /\ lastIds.tid < MaxDocuments
        /\ lastIds' = [tid |-> lastIds.tid + 1, cid |-> lastIds.cid + Cardinality(SplitAt(doc))]
        /\ sentDocs' = sentDocs \/ sentDocs' = sentDocs \cup {[tid |-> NewId(lastIds.tid + 1), doc |-> doc]}
        /\ UNCHANGED <<idsUnique, instance, attached>>
    BY <1>2 DEF SendDocument
  <2>3. lastIds' \in [tid : 0..MaxDocuments, cid : Nat]
    <3>1. lastIds.tid + 1 \in 0..MaxDocuments /\ lastIds.cid + Cardinality(SplitAt(doc)) \in Nat
      BY <1>1, <2>1, <2>2
    <3> QED BY <2>2, <3>1
  <2>4. \A s \in sentDocs' : s.doc \in Documents
    BY <1>1, <2>2
  <2> QED BY <1>1, <2>2, <2>3, <2>4 DEF DocumentTypeOK
<1>3. CASE SenderRestarts
  BY <1>1, <1>3 DEF SenderRestarts, DocumentTypeOK
<1>4. CASE DetachDocuments
  BY <1>1, <1>4 DEF DetachDocuments, DocumentTypeOK
<1>5. ASSUME NEW frame, ReceivePacket(frame) PROVE DocumentTypeOK'
  BY <1>1, <1>5 DEF ReceivePacket, DocumentTypeOK
<1>6. ASSUME NEW tid, PartialExpires(tid) PROVE DocumentTypeOK'
  BY <1>1, <1>6 DEF PartialExpires, DocumentTypeOK
<1>7. CASE UNCHANGED jsonVars
  BY <1>1, <1>7 DEF jsonVars, DocumentTypeOK
<1> QED BY <1>2, <1>3, <1>4, <1>5, <1>6, <1>7 DEF DocumentNext

LEMMA DocumentInvStart == ASSUME DocumentInit PROVE DocumentInv
<1>1. DocumentTypeOK
  BY DocumentStart
<1>2. packets = {} /\ sentDocs = {} /\ rebuilt = {} /\ DOMAIN partials = {}
  BY DEF DocumentInit
<1> QED BY <1>1, <1>2 DEF DocumentInv, ChunksFit, SentOnce, PacketsTrue, PartialsTrue

LEMMA DocumentInvStep ==
    ASSUME DocumentInv, [DocumentNext]_jsonVars
    PROVE  DocumentInv'
<1>1. DocumentTypeOK'
  BY DocumentStep DEF DocumentInv
<1>2. ASSUME UNCHANGED <<idsUnique, instance, lastIds, sentDocs, packets>>,
             SentOnce /\ PacketsTrue /\ PartialsTrue /\ rebuilt \subseteq sentDocs
                 => PartialsTrue' /\ (rebuilt \subseteq sentDocs)'
      PROVE  DocumentInv'
  <2>1. ChunksFit'
    BY <1>2 DEF DocumentInv, ChunksFit
  <2>2. ASSUME IdsGoOn' PROVE (SentOnce /\ PacketsTrue /\ PartialsTrue /\ rebuilt \subseteq sentDocs)'
    <3>1. SentOnce /\ PacketsTrue /\ PartialsTrue /\ rebuilt \subseteq sentDocs
      BY <1>2, <2>2 DEF DocumentInv, IdsGoOn
    <3>2. SentOnce' /\ PacketsTrue'
      BY <1>2, <3>1 DEF SentOnce, GivenOut, PacketsTrue, PacketsWith
    <3> QED BY <1>2, <3>1, <3>2
  <2> QED BY <1>1, <2>1, <2>2 DEF DocumentInv
<1>3. ASSUME NEW doc \in Documents, SendDocument(doc) PROVE DocumentInv'
  BY <1>1, <1>3, SendStep
<1>4. CASE SenderRestarts
  BY <1>1, <1>4, RestartStep
<1>5. CASE DetachDocuments
  <2>1. /\ UNCHANGED <<idsUnique, instance, lastIds, sentDocs, packets>>
        /\ rebuilt' = rebuilt /\ DOMAIN partials' = {}
    BY <1>5 DEF DetachDocuments
  <2>2. PartialsTrue'
    BY <2>1 DEF PartialsTrue
  <2> QED BY <1>2, <2>1, <2>2
<1>6. ASSUME NEW p \in packets, NEW frame \in Conditioned(p), ReceivePacket(frame) PROVE DocumentInv'
  <2>1. UNCHANGED <<idsUnique, instance, lastIds, sentDocs, packets>>
    BY <1>6 DEF ReceivePacket
  <2> QED BY <1>2, <1>6, <2>1, ReceiveStep
<1>7. ASSUME NEW tid \in DOMAIN partials, PartialExpires(tid) PROVE DocumentInv'
  <2>1. /\ UNCHANGED <<idsUnique, instance, lastIds, sentDocs, packets>> /\ rebuilt' = rebuilt
        /\ partials' = [t \in DOMAIN partials \ {tid} |-> partials[t]]
    BY <1>7 DEF PartialExpires
  <2>2. PartialsTrue => PartialsTrue'
    BY <2>1, RemoveStep
  <2> QED BY <1>2, <2>1, <2>2
<1>8. CASE UNCHANGED jsonVars
  <2>1. UNCHANGED <<idsUnique, instance, lastIds, sentDocs, packets, partials, rebuilt>>
    BY <1>8 DEF jsonVars
  <2>2. PartialsTrue => PartialsTrue'
    BY <2>1 DEF PartialsTrue, PacketsWith
  <2> QED BY <1>2, <2>1, <2>2
<1> QED BY <1>3, <1>4, <1>5, <1>6, <1>7, <1>8 DEF DocumentNext

\* Whatever the network loses, repeats, reorders or damages, and whenever messages
\* expire, listeners detach or the sender starts over: a document that is handed
\* over is the one sent under its tid, unless counters have started over, one of
\* which every packet has come is not kept waiting, and no chunk is too large
\* (splitJSON, assembleJSON and JSONTransport without acks, transport.ts).
THEOREM DocumentsStayIntact == DocumentSpec => []DocumentsIntact
<1>1. DocumentInit => DocumentInv
  BY DocumentInvStart
<1>2. DocumentInv /\ [DocumentNext]_jsonVars => DocumentInv'
  BY DocumentInvStep
<1>3. DocumentInv => DocumentsIntact
  <2> SUFFICES ASSUME DocumentInv PROVE DocumentsIntact
    OBVIOUS
  <2>1. \A p \in packets : p.type = "json:chunk" => ByteLength(p.data) <= ChunkBytes
    BY DEF DocumentInv, ChunksFit
  <2>2. ASSUME idsUnique \/ instance = 0
        PROVE  /\ rebuilt \subseteq sentDocs
               /\ \A tid \in DOMAIN partials :
                      ~({p \in packets : p.tid = tid} \subseteq partials[tid].got)
    <3>1. rebuilt \subseteq sentDocs /\ PartialsTrue
      BY <2>2 DEF DocumentInv, IdsGoOn
    <3> QED BY <3>1 DEF PartialsTrue, Waiting, PacketsWith
  <2> QED BY <2>1, <2>2 DEF DocumentsIntact
<1> QED BY <1>1, <1>2, <1>3, PTL DEF DocumentSpec
=============================================================================
