---------------------------- MODULE SequenceLemmas ----------------------------
(***************************************************************************)
(* Facts about sequences that several proofs need: the elements of a       *)
(* sequence, what is left when some are erased, and sequences of           *)
(* sequences put end to end.                                               *)
(*                                                                         *)
(* What a recursive function computes is proved from the least number for  *)
(* which it would not hold: the induction theorems of the library take an  *)
(* operator as a parameter, which the provers cannot instantiate.          *)
(***************************************************************************)
EXTENDS Selection, SequencesExt, SequenceTheorems, WellFoundedInduction, TLAPS

\* A set of numbers that is not empty has a least one.
LEMMA LeastNat ==
    ASSUME NEW T \in SUBSET Nat, T # {}
    PROVE  \E m \in T : \A k \in T : m <= k
<1>1. PICK m \in T : \A k \in T : ~(<<k, m>> \in OpToRel(<, Nat))
  BY NatLessThanWellFounded, WFMin
<1>2. \A k \in T : ~(k < m)
  BY <1>1 DEF OpToRel
<1> QED
  BY <1>2

\* A function on 1 .. n is a sequence.
LEMMA FunctionIsSeq ==
    ASSUME NEW S, NEW n \in Nat, NEW f \in [1 .. n -> S]
    PROVE  f \in Seq(S) /\ Len(f) = n
OBVIOUS

\* What holds of 0, and of n if it holds of n - 1, holds of all numbers up to N.
LEMMA UpTo ==
    ASSUME NEW N \in Nat, NEW T, 0 \in T, \A n \in 1 .. N : n - 1 \in T => n \in T
    PROVE  0 .. N \subseteq T
<1> SUFFICES ASSUME (0 .. N) \ T # {} PROVE FALSE
  OBVIOUS
<1>1. (0 .. N) \ T \in SUBSET Nat
  OBVIOUS
<1>2. PICK m \in (0 .. N) \ T : \A k \in (0 .. N) \ T : m <= k
  BY <1>1, LeastNat
<1>3. m \in 1 .. N /\ m - 1 \in 0 .. N /\ ~(m <= m - 1)
  BY <1>2
<1>4. m - 1 \in T
  BY <1>2, <1>3
<1> QED
  BY <1>2, <1>3, <1>4

\* A function that follows a recursion up to N.
Solves(f, b, N, F) == f[0] = b /\ \A n \in 1 .. N : f[n] = F[n][f[n - 1]]

\* A recursion over 0 .. N has a solution.
LEMMA RecursionExists ==
    ASSUME NEW V, NEW b \in V, NEW N \in Nat, NEW F \in [1 .. N -> [V -> V]]
    PROVE  \E f \in [0 .. N -> V] : Solves(f, b, N, F)
<1> DEFINE Part(f, m) == f[0] = b /\ \A n \in 1 .. m : f[n] = F[n][f[n - 1]]
           T == {m \in 0 .. N : \E f \in [0 .. m -> V] : Part(f, m)}
<1>1. 0 \in T
  <2>1. [n \in 0 .. 0 |-> b] \in [0 .. 0 -> V] /\ Part([n \in 0 .. 0 |-> b], 0) /\ 0 \in 0 .. N
    OBVIOUS
  <2> HIDE DEF Part
  <2> QED
    BY <2>1
<1>2. ASSUME NEW m \in 1 .. N, m - 1 \in T PROVE m \in T
  <2>1. PICK f \in [0 .. m - 1 -> V] : Part(f, m - 1)
    BY <1>2
  <2> DEFINE x == F[m][f[m - 1]]
             g == [n \in 0 .. m |-> IF n = m THEN x ELSE f[n]]
  <2>2. /\ m \in Nat /\ m # 0 /\ m - 1 \in 0 .. m - 1 /\ m \in 0 .. N
        /\ \A n \in 0 .. m : n = m \/ n \in 0 .. m - 1
    OBVIOUS
  <2>3. x \in V
    BY <2>2
  <2>4. g \in [0 .. m -> V]
    <3> HIDE DEF x
    <3> QED
      BY <2>2, <2>3
  <2>5. g[0] = b /\ g[m] = x
    BY <2>1, <2>2
  <2>6. ASSUME NEW n \in 1 .. m PROVE g[n] = F[n][g[n - 1]]
    <3>1. n - 1 \in 0 .. m - 1 /\ n - 1 # m /\ n - 1 \in 0 .. m
      OBVIOUS
    <3>2. g[n - 1] = f[n - 1]
      BY <3>1
    <3>3. CASE n = m
      BY <2>5, <3>2, <3>3
    <3>4. CASE n # m
      <4>1. n \in 1 .. m - 1 /\ g[n] = f[n]
        BY <3>4
      <4> QED
        BY <2>1, <3>2, <4>1
    <3> QED
      BY <3>3, <3>4
  <2>7. Part(g, m)
    <3> HIDE DEF g
    <3> QED
      BY <2>5, <2>6
  <2> HIDE DEF Part, g
  <2> QED
    BY <2>2, <2>4, <2>7
<1>3. N \in T
  <2> HIDE DEF T
  <2>1. 0 .. N \subseteq T
    BY <1>1, <1>2, UpTo
  <2> QED
    BY <2>1
<1> QED
  BY <1>3 DEF Solves
-----------------------------------------------------------------------------
(* Kept.                                                                    *)

\* How Kept goes through a sequence.
KeptStep(s, S, f, n) ==
    f[n] = IF s[n] \in S THEN Append(f[n - 1], s[n]) ELSE f[n - 1]
KeptFcn(s, S, f) ==
    f = [n \in 0 .. Len(s) |->
           IF n = 0 THEN <<>>
           ELSE IF s[n] \in S THEN Append(f[n - 1], s[n]) ELSE f[n - 1]]

\* The recursion of Kept has a solution.
LEMMA KeptExists ==
    ASSUME NEW E, NEW s \in Seq(E), NEW S
    PROVE  \E f : KeptFcn(s, S, f)
<1> DEFINE F == [n \in 1 .. Len(s) |->
                   [t \in Seq(E) |-> IF s[n] \in S THEN Append(t, s[n]) ELSE t]]
<1>1. Len(s) \in Nat /\ <<>> \in Seq(E)
  OBVIOUS
<1>2. F \in [1 .. Len(s) -> [Seq(E) -> Seq(E)]]
  <2>1. \A n \in 1 .. Len(s) : \A t \in Seq(E) :
          (IF s[n] \in S THEN Append(t, s[n]) ELSE t) \in Seq(E)
    OBVIOUS
  <2> QED
    BY <2>1
<1>3. \A n \in 1 .. Len(s) : \A t \in Seq(E) :
        F[n][t] = IF s[n] \in S THEN Append(t, s[n]) ELSE t
  OBVIOUS
<1> HIDE DEF F
<1>4. PICK f \in [0 .. Len(s) -> Seq(E)] :
        f[0] = <<>> /\ \A n \in 1 .. Len(s) : f[n] = F[n][f[n - 1]]
  <2> DEFINE V == Seq(E)
             b == <<>>
             N == Len(s)
  <2>1. b \in V /\ N \in Nat /\ F \in [1 .. N -> [V -> V]]
    BY <1>1, <1>2
  <2> HIDE DEF V, b, N
  <2>2. \E f \in [0 .. N -> V] : Solves(f, b, N, F)
    BY <2>1, RecursionExists
  <2> QED
    BY <2>2 DEF V, b, N, Solves
<1>5. f = [n \in 0 .. Len(s) |-> f[n]]
  OBVIOUS
<1>6. \A n \in 1 .. Len(s) :
        /\ n # 0 /\ n - 1 \in 0 .. Len(s)
        /\ f[n] = IF s[n] \in S THEN Append(f[n - 1], s[n]) ELSE f[n - 1]
  <2>1. ASSUME NEW n \in 1 .. Len(s)
        PROVE  n # 0 /\ n - 1 \in 0 .. Len(s) /\ f[n - 1] \in Seq(E) /\ f[n] = F[n][f[n - 1]]
    <3>1. n # 0 /\ n - 1 \in 0 .. Len(s)
      BY <1>1
    <3> QED
      BY <1>4, <3>1
  <2> QED
    BY <1>3, <2>1
<1>7. \A n \in 0 .. Len(s) :
        f[n] = IF n = 0 THEN <<>>
               ELSE IF s[n] \in S THEN Append(f[n - 1], s[n]) ELSE f[n - 1]
  <2>1. \A n \in 0 .. Len(s) : n = 0 \/ n \in 1 .. Len(s)
    BY <1>1
  <2> QED
    BY <1>4, <1>6, <2>1
<1>8. KeptFcn(s, S, f)
  BY <1>5, <1>7 DEF KeptFcn
<1> QED
  BY <1>8

\* t is what is kept of the first n elements of s: some of those in S, in their
\* order and once each, and none is missing.
IsKept(t, s, S, n) ==
    /\ Len(t) <= n
    /\ \E h \in [1 .. Len(t) -> 1 .. n] :
          /\ \A i \in 1 .. Len(t) : t[i] = s[h[i]] /\ t[i] \in S
          /\ \A i, j \in 1 .. Len(t) : i < j => h[i] < h[j]
    /\ \A i \in 1 .. n : s[i] \in S => \E j \in 1 .. Len(t) : t[j] = s[i]

\* One element more.
LEMMA KeptGrows ==
    ASSUME NEW E, NEW s \in Seq(E), NEW S, NEW n \in 1 .. Len(s), NEW t \in Seq(E),
           IsKept(t, s, S, n - 1)
    PROVE  IF s[n] \in S THEN IsKept(Append(t, s[n]), s, S, n) ELSE IsKept(t, s, S, n)
<1>1. /\ n \in Nat /\ n - 1 \in Nat /\ Len(t) \in Nat /\ Len(t) <= n - 1 /\ s[n] \in E
      /\ 1 .. n - 1 \subseteq 1 .. n /\ \A i \in 1 .. n : i = n \/ i \in 1 .. n - 1
  BY DEF IsKept
<1>2. PICK h \in [1 .. Len(t) -> 1 .. n - 1] :
        /\ \A i \in 1 .. Len(t) : t[i] = s[h[i]] /\ t[i] \in S
        /\ \A i, j \in 1 .. Len(t) : i < j => h[i] < h[j]
  BY DEF IsKept
<1>3. \A i \in 1 .. n - 1 : s[i] \in S => \E j \in 1 .. Len(t) : t[j] = s[i]
  BY DEF IsKept
<1>4. CASE s[n] \in S
  <2> DEFINE u == Append(t, s[n])
             g == [i \in 1 .. Len(t) + 1 |-> IF i = Len(t) + 1 THEN n ELSE h[i]]
  <2>1. /\ Len(u) = Len(t) + 1 /\ u[Len(t) + 1] = s[n]
        /\ \A i \in 1 .. Len(t) : u[i] = t[i]
    BY <1>1
  <2>2. \A i \in 1 .. Len(t) + 1 : i = Len(t) + 1 \/ i \in 1 .. Len(t)
    BY <1>1
  <2>3. /\ g[Len(t) + 1] = n /\ \A i \in 1 .. Len(t) : g[i] = h[i] /\ h[i] \in 1 .. n - 1
        /\ g \in [1 .. Len(t) + 1 -> 1 .. n]
    <3>1. Len(t) + 1 \in 1 .. Len(t) + 1 /\ n \in 1 .. n
      BY <1>1
    <3>2. \A i \in 1 .. Len(t) :
            i \in 1 .. Len(t) + 1 /\ i # Len(t) + 1 /\ h[i] \in 1 .. n - 1 /\ h[i] \in 1 .. n
      BY <1>1, <1>2
    <3> QED
      BY <2>2, <3>1, <3>2
  <2> HIDE DEF u, g
  <2>4. \A i \in 1 .. Len(u) : u[i] = s[g[i]] /\ u[i] \in S
    BY <1>2, <1>4, <2>1, <2>2, <2>3
  <2>5. ASSUME NEW i \in 1 .. Len(u), NEW j \in 1 .. Len(u), i < j PROVE g[i] < g[j]
    <3>1. i \in 1 .. Len(t)
      BY <1>1, <2>1, <2>5
    <3>2. CASE j = Len(t) + 1
      BY <1>1, <2>3, <3>1, <3>2
    <3>3. CASE j \in 1 .. Len(t)
      BY <1>2, <2>3, <2>5, <3>1, <3>3
    <3> QED
      BY <2>1, <2>2, <3>2, <3>3
  <2>6. ASSUME NEW i \in 1 .. n, s[i] \in S PROVE \E j \in 1 .. Len(u) : u[j] = s[i]
    <3>1. CASE i = n
      BY <1>1, <2>1, <3>1
    <3>2. CASE i \in 1 .. n - 1
      <4>1. PICK j \in 1 .. Len(t) : t[j] = s[i]
        BY <1>3, <2>6, <3>2
      <4>2. j \in 1 .. Len(u) /\ u[j] = s[i]
        BY <1>1, <2>1, <4>1
      <4> QED
        BY <4>2
    <3> QED
      BY <1>1, <3>1, <3>2
  <2>7. Len(u) <= n
    BY <1>1, <2>1
  <2>8. IsKept(u, s, S, n)
    BY <2>1, <2>3, <2>4, <2>5, <2>6, <2>7 DEF IsKept
  <2> QED
    BY <1>4, <2>8 DEF u
<1>5. CASE s[n] \notin S
  <2>1. h \in [1 .. Len(t) -> 1 .. n] /\ Len(t) <= n
    BY <1>1, <1>2
  <2>2. \A i \in 1 .. n : s[i] \in S => \E j \in 1 .. Len(t) : t[j] = s[i]
    BY <1>1, <1>3, <1>5
  <2>3. IsKept(t, s, S, n)
    BY <1>2, <2>1, <2>2 DEF IsKept
  <2> QED
    BY <1>5, <2>3
<1> QED
  BY <1>4, <1>5

\* What Kept computes.
LEMMA KeptOf ==
    ASSUME NEW E, NEW s \in Seq(E), NEW S
    PROVE  Kept(s, S) \in Seq(E) /\ IsKept(Kept(s, S), s, S, Len(s))
<1> DEFINE f == CHOOSE f : KeptFcn(s, S, f)
<1>1. Kept(s, S) = f[Len(s)] /\ Len(s) \in Nat
  BY DEF Kept, KeptFcn
<1>2. KeptFcn(s, S, f)
  BY KeptExists
<1> HIDE DEF f
<1>3. f[0] = <<>> /\ \A n \in 1 .. Len(s) : KeptStep(s, S, f, n)
  <2>1. \A n \in 0 .. Len(s) :
          f[n] = IF n = 0 THEN <<>>
                 ELSE IF s[n] \in S THEN Append(f[n - 1], s[n]) ELSE f[n - 1]
    BY <1>2 DEF KeptFcn
  <2>2. 0 \in 0 .. Len(s) /\ \A n \in 1 .. Len(s) : n \in 0 .. Len(s) /\ n # 0
    BY <1>1
  <2> QED
    BY <2>1, <2>2 DEF KeptStep
<1> DEFINE T == {n \in 0 .. Len(s) : f[n] \in Seq(E) /\ IsKept(f[n], s, S, n)}
<1>4. 0 \in T
  <2>1. <<>> \in Seq(E) /\ Len(<<>>) = 0
    OBVIOUS
  <2>2. IsKept(<<>>, s, S, 0)
    <3>1. 1 .. 0 = {}
      OBVIOUS
    <3>2. PICK h : h \in [{} -> {}]
      <4>1. [x \in {} |-> x] \in [{} -> {}]
        OBVIOUS
      <4> QED
        BY <4>1
    <3> DEFINE none == <<>>
    <3>3. 1 .. Len(none) = {} /\ Len(none) <= 0
      BY <2>1, <3>1
    <3> HIDE DEF none
    <3>4. IsKept(none, s, S, 0)
      BY <3>1, <3>2, <3>3 DEF IsKept
    <3> QED
      BY <3>4 DEF none
  <2>3. 0 \in 0 .. Len(s)
    BY <1>1
  <2> QED
    BY <1>3, <2>1, <2>2, <2>3
<1>5. ASSUME NEW n \in 1 .. Len(s), n - 1 \in T PROVE n \in T
  <2>1. f[n - 1] \in Seq(E) /\ IsKept(f[n - 1], s, S, n - 1)
    BY <1>5
  <2>2. s[n] \in E /\ n \in 0 .. Len(s)
    BY <1>1
  <2>3. f[n] = IF s[n] \in S THEN Append(f[n - 1], s[n]) ELSE f[n - 1]
    BY <1>3 DEF KeptStep
  <2>4. f[n] \in Seq(E)
    BY <2>1, <2>2, <2>3
  <2>5. IsKept(f[n], s, S, n)
    BY <2>1, <2>3, KeptGrows
  <2> QED
    BY <2>2, <2>4, <2>5
<1> HIDE DEF T
<1>6. 0 .. Len(s) \subseteq T
  BY <1>1, <1>4, <1>5, UpTo
<1>7. Len(s) \in T
  BY <1>1, <1>6
<1> QED
  BY <1>1, <1>7 DEF T
\* One element more is kept if it is in the set.
LEMMA KeptAppend ==
    ASSUME NEW E, NEW s \in Seq(E), NEW x \in E, NEW S
    PROVE  Kept(Append(s, x), S) = IF x \in S THEN Append(Kept(s, S), x) ELSE Kept(s, S)
<1> DEFINE t == Append(s, x)
           f == CHOOSE f : KeptFcn(s, S, f)
           g == CHOOSE g : KeptFcn(t, S, g)
<1>1. /\ Len(s) \in Nat /\ t \in Seq(E) /\ Len(t) = Len(s) + 1 /\ t[Len(s) + 1] = x
      /\ \A n \in 1 .. Len(s) : t[n] = s[n]
  OBVIOUS
<1>2. Kept(s, S) = f[Len(s)]
  BY DEF Kept, KeptFcn
<1> HIDE DEF t
<1>3. Kept(t, S) = g[Len(t)]
  BY DEF Kept, KeptFcn
<1>4. KeptFcn(s, S, f) /\ KeptFcn(t, S, g)
  BY <1>1, KeptExists
<1> HIDE DEF f, g
<1>5. f[0] = <<>> /\ \A n \in 1 .. Len(s) : KeptStep(s, S, f, n)
  <2>1. \A n \in 0 .. Len(s) :
          f[n] = IF n = 0 THEN <<>>
                 ELSE IF s[n] \in S THEN Append(f[n - 1], s[n]) ELSE f[n - 1]
    BY <1>4 DEF KeptFcn
  <2>2. 0 \in 0 .. Len(s) /\ \A n \in 1 .. Len(s) : n \in 0 .. Len(s) /\ n # 0
    BY <1>1
  <2> QED
    BY <2>1, <2>2 DEF KeptStep
<1>6. g[0] = <<>> /\ \A n \in 1 .. Len(s) + 1 : KeptStep(t, S, g, n)
  <2>1. \A n \in 0 .. Len(t) :
          g[n] = IF n = 0 THEN <<>>
                 ELSE IF t[n] \in S THEN Append(g[n - 1], t[n]) ELSE g[n - 1]
    BY <1>4 DEF KeptFcn
  <2>2. 0 \in 0 .. Len(t) /\ \A n \in 1 .. Len(s) + 1 : n \in 0 .. Len(t) /\ n # 0
    BY <1>1
  <2> QED
    BY <2>1, <2>2 DEF KeptStep
<1> DEFINE T == {n \in 0 .. Len(s) : f[n] = g[n]}
<1>7. 0 \in T
  BY <1>1, <1>5, <1>6
<1>8. ASSUME NEW n \in 1 .. Len(s), n - 1 \in T PROVE n \in T
  <2>1. n \in 1 .. Len(s) + 1 /\ n \in 0 .. Len(s) /\ t[n] = s[n]
    BY <1>1
  <2> QED
    BY <1>5, <1>6, <1>8, <2>1 DEF KeptStep
<1> HIDE DEF T
<1>9. Len(s) \in T
  <2>1. 0 .. Len(s) \subseteq T
    BY <1>1, <1>7, <1>8, UpTo
  <2> QED
    BY <1>1, <2>1
<1>10. f[Len(s)] = g[Len(s)]
  BY <1>9 DEF T
<1>11. g[Len(s) + 1] = IF x \in S THEN Append(g[Len(s)], x) ELSE g[Len(s)]
  <2>1. Len(s) + 1 \in 1 .. Len(s) + 1 /\ Len(s) + 1 - 1 = Len(s)
    BY <1>1
  <2> QED
    BY <1>1, <1>6, <2>1 DEF KeptStep
<1> QED
  BY <1>1, <1>2, <1>3, <1>10, <1>11 DEF t

\* Nothing is kept of nothing.
LEMMA KeptEmpty == ASSUME NEW S PROVE Kept(<<>>, S) = <<>>
<1>1. <<>> \in Seq({})
  OBVIOUS
<1>2. Kept(<<>>, S) \in Seq({}) /\ Len(Kept(<<>>, S)) <= Len(<<>>)
  BY <1>1, KeptOf DEF IsKept
<1> QED
  BY <1>2

\* The entries that are not about a peer of the set.
Others(s, gone) == {c \in ToSet(s) : c.peer \notin gone}

\* Connections are closed: each element carries its peer, and no two the same.
\* Those that are left are in their order, and the peers closed have none.
LEMMA ConnectionsLeft ==
    ASSUME NEW R, NEW s \in Seq(R), NEW gone,
           \A i, j \in 1 .. Len(s) : s[i].peer = s[j].peer => i = j,
           NEW t, t = Kept(s, Others(s, gone))
    PROVE  /\ t \in Seq(R) /\ Len(t) <= Len(s)
           /\ \A i, j \in 1 .. Len(t) : t[i].peer = t[j].peer => i = j
           /\ \A i \in 1 .. Len(t) : t[i].peer \notin gone /\ \E k \in 1 .. Len(s) : t[i] = s[k]
           /\ \A k \in 1 .. Len(s) :
                 s[k].peer \notin gone => \E i \in 1 .. Len(t) : t[i] = s[k]
<1> DEFINE S == Others(s, gone)
<1>1. \A k \in 1 .. Len(s) : s[k] \in S <=> s[k].peer \notin gone
  BY DEF ToSet, Others
<1>2. \A c \in S : c.peer \notin gone
  BY DEF Others
<1> HIDE DEF S
<1>3. t \in Seq(R) /\ IsKept(t, s, S, Len(s))
  BY KeptOf DEF S
<1>4. PICK h \in [1 .. Len(t) -> 1 .. Len(s)] :
        /\ \A i \in 1 .. Len(t) : t[i] = s[h[i]] /\ t[i] \in S
        /\ \A i, j \in 1 .. Len(t) : i < j => h[i] < h[j]
  BY <1>3 DEF IsKept
<1>5. Len(t) <= Len(s) /\ Len(t) \in Nat /\ Len(s) \in Nat
      /\ \A i \in 1 .. Len(s) : s[i] \in S => \E j \in 1 .. Len(t) : t[j] = s[i]
  <2>1. Len(t) \in Nat /\ Len(s) \in Nat
    BY <1>3
  <2>2. Len(t) <= Len(s) /\ \A i \in 1 .. Len(s) : s[i] \in S => \E j \in 1 .. Len(t) : t[j] = s[i]
    BY <1>3 DEF IsKept
  <2> QED
    BY <2>1, <2>2
<1>6. ASSUME NEW i \in 1 .. Len(t), NEW j \in 1 .. Len(t), t[i].peer = t[j].peer
      PROVE  i = j
  <2>1. h[i] \in 1 .. Len(s) /\ h[j] \in 1 .. Len(s) /\ h[i] = h[j]
    BY <1>4, <1>6
  <2>2. ~(i < j) /\ ~(j < i)
    BY <1>4, <1>5, <2>1
  <2> QED
    BY <1>5, <2>2
<1>7. \A i \in 1 .. Len(t) : t[i].peer \notin gone /\ \E k \in 1 .. Len(s) : t[i] = s[k]
  BY <1>2, <1>4
<1>8. ASSUME NEW k \in 1 .. Len(s), s[k].peer \notin gone
      PROVE  \E i \in 1 .. Len(t) : t[i] = s[k]
  BY <1>1, <1>5, <1>8
<1> QED
  BY <1>3, <1>5, <1>6, <1>7, <1>8

\* Numbers that grow with their index are not less than it.
LEMMA GrowingIsAhead ==
    ASSUME NEW n \in Nat, NEW m \in Nat, NEW h \in [1 .. n -> 1 .. m],
           \A i, j \in 1 .. n : i < j => h[i] < h[j]
    PROVE  \A i \in 1 .. n : i <= h[i]
<1> DEFINE T == {i \in 1 .. n : ~(i <= h[i])}
<1> SUFFICES ASSUME T # {} PROVE FALSE
  OBVIOUS
<1>1. T \in SUBSET Nat
  OBVIOUS
<1>2. PICK i \in T : \A k \in T : i <= k
  BY <1>1, LeastNat
<1>3. i \in 1 .. n /\ h[i] \in 1 .. m /\ h[i] < i
  BY <1>2
<1>4. i - 1 \in 1 .. n /\ i - 1 < i /\ ~(i <= i - 1)
  BY <1>3
<1>5. h[i - 1] < h[i] /\ h[i - 1] \in 1 .. m
  BY <1>3, <1>4
<1>6. ~(i - 1 <= h[i - 1])
  BY <1>3, <1>4, <1>5
<1>7. i - 1 \in T
  BY <1>4, <1>6
<1> QED
  BY <1>2, <1>4, <1>7

\* What is kept has moved towards the front.
LEMMA KeptMovesDown ==
    ASSUME NEW R, NEW s \in Seq(R), NEW S
    PROVE  \A i \in 1 .. Len(Kept(s, S)) : \E k \in 1 .. Len(s) : i <= k /\ Kept(s, S)[i] = s[k]
<1>1. PICK t \in Seq(R) : t = Kept(s, S) /\ IsKept(t, s, S, Len(s))
  BY KeptOf
<1>2. PICK h \in [1 .. Len(t) -> 1 .. Len(s)] :
        /\ \A i \in 1 .. Len(t) : t[i] = s[h[i]] /\ t[i] \in S
        /\ \A i, j \in 1 .. Len(t) : i < j => h[i] < h[j]
  BY <1>1 DEF IsKept
<1>3. Len(t) \in Nat /\ Len(s) \in Nat
  OBVIOUS
<1>4. \A i \in 1 .. Len(t) : i <= h[i]
  BY <1>2, <1>3, GrowingIsAhead
<1> QED
  BY <1>1, <1>2, <1>4

\* One element is replaced.
LEMMA Replaced ==
    ASSUME NEW R, NEW s \in Seq(R), NEW n \in 1 .. Len(s), NEW x \in R,
           NEW t, t = [s EXCEPT ![n] = x]
    PROVE  /\ t \in Seq(R) /\ Len(t) = Len(s) /\ t[n] = x
           /\ \A i \in 1 .. Len(s) : i # n => t[i] = s[i]
OBVIOUS
-----------------------------------------------------------------------------
(* Sequences put end to end.                                                *)

\* How FlattenSeq goes through a sequence of sequences.
FlattenStep(s, f, n) == f[n] = IF n = 1 THEN s[n] ELSE f[n - 1] \o s[n]
FlattenFcn(s, f) ==
    f = [n \in 1 .. Len(s) |-> IF n = 1 THEN s[n] ELSE f[n - 1] \o s[n]]

\* The recursion of FlattenSeq has a solution.
LEMMA FlattenExists ==
    ASSUME NEW E, NEW s \in Seq(Seq(E))
    PROVE  \E f : FlattenFcn(s, f) /\ f \in [1 .. Len(s) -> Seq(E)]
<1> DEFINE F == [n \in 1 .. Len(s) |-> [t \in Seq(E) |-> IF n = 1 THEN s[n] ELSE t \o s[n]]]
<1>1. Len(s) \in Nat /\ <<>> \in Seq(E) /\ \A n \in 1 .. Len(s) : s[n] \in Seq(E)
  OBVIOUS
<1>2. F \in [1 .. Len(s) -> [Seq(E) -> Seq(E)]]
  <2>1. \A n \in 1 .. Len(s) : \A t \in Seq(E) :
          (IF n = 1 THEN s[n] ELSE t \o s[n]) \in Seq(E)
    BY <1>1
  <2> QED
    BY <2>1
<1>3. \A n \in 1 .. Len(s) : \A t \in Seq(E) :
        F[n][t] = IF n = 1 THEN s[n] ELSE t \o s[n]
  OBVIOUS
<1> HIDE DEF F
<1>4. PICK g \in [0 .. Len(s) -> Seq(E)] :
        g[0] = <<>> /\ \A n \in 1 .. Len(s) : g[n] = F[n][g[n - 1]]
  <2> DEFINE V == Seq(E)
             b == <<>>
             N == Len(s)
  <2>1. b \in V /\ N \in Nat /\ F \in [1 .. N -> [V -> V]]
    BY <1>1, <1>2
  <2> HIDE DEF V, b, N
  <2>2. \E f \in [0 .. N -> V] : Solves(f, b, N, F)
    BY <2>1, RecursionExists
  <2> QED
    BY <2>2 DEF V, b, N, Solves
<1> DEFINE f == [n \in 1 .. Len(s) |-> g[n]]
<1>5. f \in [1 .. Len(s) -> Seq(E)]
  BY <1>1
<1>6. ASSUME NEW n \in 1 .. Len(s) PROVE f[n] = IF n = 1 THEN s[n] ELSE f[n - 1] \o s[n]
  <2>1. f[n] = g[n] /\ n - 1 \in 0 .. Len(s) /\ g[n - 1] \in Seq(E)
    <3>1. n - 1 \in 0 .. Len(s)
      BY <1>1
    <3> HIDE DEF f
    <3>2. g[n - 1] \in Seq(E)
      BY <3>1
    <3> QED
      BY <3>1, <3>2 DEF f
  <2>2. g[n] = IF n = 1 THEN s[n] ELSE g[n - 1] \o s[n]
    BY <1>3, <1>4, <2>1
  <2>3. n # 1 => n - 1 \in 1 .. Len(s) /\ f[n - 1] = g[n - 1]
    BY <1>1
  <2> HIDE DEF f
  <2> QED
    BY <2>1, <2>2, <2>3
<1>7. f = [n \in 1 .. Len(s) |-> f[n]]
  OBVIOUS
<1> HIDE DEF f
<1>8. FlattenFcn(s, f)
  BY <1>6, <1>7 DEF FlattenFcn
<1> QED
  BY <1>5, <1>8

\* The recursion has one solution, on any common part of two sequences.
LEMMA FlattenUnique ==
    ASSUME NEW s, NEW t, NEW N \in Nat, N <= Len(s), N <= Len(t), Len(s) \in Nat, Len(t) \in Nat,
           \A n \in 1 .. N : s[n] = t[n],
           NEW f, NEW g, FlattenFcn(s, f), FlattenFcn(t, g)
    PROVE  \A n \in 1 .. N : f[n] = g[n]
<1> DEFINE T == {n \in 0 .. N : n = 0 \/ f[n] = g[n]}
<1>1. 0 \in T
  OBVIOUS
<1>2. ASSUME NEW n \in 1 .. N, n - 1 \in T PROVE n \in T
  <2>1. n \in 1 .. Len(s) /\ n \in 1 .. Len(t) /\ n \in 0 .. N
    OBVIOUS
  <2>2. f[n] = IF n = 1 THEN s[n] ELSE f[n - 1] \o s[n]
    BY <2>1 DEF FlattenFcn
  <2>3. g[n] = IF n = 1 THEN t[n] ELSE g[n - 1] \o t[n]
    BY <2>1 DEF FlattenFcn
  <2>4. n # 1 => f[n - 1] = g[n - 1]
    BY <1>2
  <2> QED
    BY <2>1, <2>2, <2>3, <2>4
<1>3. 0 .. N \subseteq T
  <2> HIDE DEF T
  <2> QED
    BY <1>1, <1>2, UpTo
<1>4. \A n \in 1 .. N : n \in 0 .. N /\ n # 0
  OBVIOUS
<1> QED
  BY <1>3, <1>4

\* One sequence more is put at the end.
LEMMA FlattenAppend ==
    ASSUME NEW E, NEW s \in Seq(Seq(E)), NEW x \in Seq(E)
    PROVE  /\ FlattenSeq(s) \in Seq(E)
           /\ FlattenSeq(Append(s, x)) = FlattenSeq(s) \o x
<1> DEFINE t == Append(s, x)
           f == CHOOSE f : FlattenFcn(s, f)
           g == CHOOSE g : FlattenFcn(t, g)
<1>1. /\ Len(s) \in Nat /\ t \in Seq(Seq(E)) /\ Len(t) = Len(s) + 1 /\ t[Len(s) + 1] = x
      /\ \A n \in 1 .. Len(s) : t[n] = s[n]
  OBVIOUS
<1>2. FlattenSeq(s) = IF Len(s) = 0 THEN s ELSE f[Len(s)]
  BY DEF FlattenSeq, FlattenFcn
<1> HIDE DEF t
<1>3. FlattenSeq(t) = IF Len(t) = 0 THEN t ELSE g[Len(t)]
  BY DEF FlattenSeq, FlattenFcn
<1>4. FlattenFcn(s, f) /\ FlattenFcn(t, g)
  BY <1>1, FlattenExists
<1> HIDE DEF f, g
<1>5. PICK h : FlattenFcn(s, h) /\ h \in [1 .. Len(s) -> Seq(E)]
  BY FlattenExists
<1>6. \A n \in 1 .. Len(s) : f[n] = h[n] /\ f[n] \in Seq(E)
  <2>1. \A n \in 1 .. Len(s) : f[n] = h[n]
    BY <1>1, <1>4, <1>5, FlattenUnique
  <2> QED
    BY <1>5, <2>1
<1>7. \A n \in 1 .. Len(s) : g[n] = f[n]
  <2>0. PICK N \in Nat : N = Len(s)
    BY <1>1
  <2>1. N \in Nat /\ N <= Len(s) /\ N <= Len(t) /\ Len(s) \in Nat /\ Len(t) \in Nat
    BY <1>1, <2>0
  <2>2. \A n \in 1 .. N : s[n] = t[n]
    BY <1>1, <2>0
  <2>3. \A n \in 1 .. N : f[n] = g[n]
    BY <1>4, <2>1, <2>2, FlattenUnique, SMTT(30)
  <2> QED
    BY <2>0, <2>3
<1>8. g[Len(t)] = IF Len(t) = 1 THEN t[Len(t)] ELSE g[Len(t) - 1] \o t[Len(t)]
  <2>1. Len(t) \in 1 .. Len(t)
    BY <1>1
  <2> QED
    BY <1>4, <2>1 DEF FlattenFcn
<1>9. CASE Len(s) = 0
  <2>1. s = <<>> /\ FlattenSeq(s) = s /\ FlattenSeq(t) = x
    BY <1>1, <1>2, <1>3, <1>8, <1>9
  <2>2. <<>> \in Seq(E) /\ <<>> \o x = x
    OBVIOUS
  <2>3. FlattenSeq(s) = <<>> /\ FlattenSeq(t) = FlattenSeq(s) \o x
    BY <2>1, <2>2
  <2> QED
    BY <2>2, <2>3 DEF t
<1>10. CASE Len(s) # 0
  <2>1. Len(s) \in 1 .. Len(s) /\ Len(t) - 1 = Len(s) /\ Len(t) # 0 /\ Len(t) # 1
    BY <1>1, <1>10
  <2>2. FlattenSeq(s) = f[Len(s)] /\ FlattenSeq(t) = g[Len(s)] \o x
    BY <1>1, <1>2, <1>3, <1>8, <1>10, <2>1
  <2> QED
    BY <1>6, <1>7, <2>1, <2>2 DEF t
<1> QED
  BY <1>9, <1>10

\* One sequence more in front.
LEMMA FlattenCons ==
    ASSUME NEW E, NEW s \in Seq(Seq(E)), Len(s) >= 1
    PROVE  FlattenSeq(s) = s[1] \o FlattenSeq(Tail(s))
<1> DEFINE t == Tail(s)
           f == CHOOSE f : FlattenFcn(s, f)
           g == CHOOSE g : FlattenFcn(t, g)
<1>1. /\ Len(s) \in Nat \ {0} /\ t \in Seq(Seq(E)) /\ Len(t) = Len(s) - 1 /\ Len(t) \in Nat
      /\ \A n \in 1 .. Len(t) : t[n] = s[n + 1]
      /\ s[1] \in Seq(E)
  <2>1. s # <<>> /\ Len(s) \in Nat \ {0} /\ s[1] \in Seq(E)
    OBVIOUS
  <2>2. /\ t \in Seq(Seq(E)) /\ Len(t) = Len(s) - 1
        /\ \A n \in 1 .. Len(t) : t[n] = s[n + 1]
    BY <2>1, HeadTailProperties
  <2> QED
    BY <2>1, <2>2
<1>2. FlattenSeq(s) = f[Len(s)]
  <2>1. FlattenSeq(s) = IF Len(s) = 0 THEN s ELSE f[Len(s)]
    BY DEF FlattenSeq, FlattenFcn
  <2> QED
    BY <1>1, <2>1
<1> HIDE DEF t
<1>3. FlattenSeq(t) = IF Len(t) = 0 THEN t ELSE g[Len(t)]
  BY DEF FlattenSeq, FlattenFcn
<1>4. FlattenFcn(s, f) /\ FlattenFcn(t, g)
  BY <1>1, FlattenExists
<1> HIDE DEF f, g
<1>5. PICK N \in Nat : N = Len(t)
  BY <1>1
<1>6. \A n \in 1 .. N : g[n] \in Seq(E)
  <2>1. PICK h : FlattenFcn(t, h) /\ h \in [1 .. Len(t) -> Seq(E)]
    BY <1>1, FlattenExists
  <2>2. \A n \in 1 .. N : t[n] = t[n]
    OBVIOUS
  <2>3. N <= Len(t) /\ Len(t) \in Nat
    BY <1>5
  <2>4. \A n \in 1 .. N : g[n] = h[n]
    BY <1>4, <2>1, <2>2, <2>3, FlattenUnique
  <2> QED
    BY <1>5, <2>1, <2>4
<1>7. \A n \in 1 .. N : t[n] \in Seq(E)
  <2> SUFFICES ASSUME NEW n \in 1 .. N PROVE t[n] \in Seq(E)
    OBVIOUS
  <2>1. n \in 1 .. Len(t)
    BY <1>5
  <2> QED
    BY <1>1, <2>1
<1>8. \A a, b, c \in Seq(E) : (a \o b) \o c = a \o (b \o c)
  <2> TAKE a, b, c \in Seq(E)
  <2> QED
    OBVIOUS
<1>9. \A n \in 1 .. N : g[n] = IF n = 1 THEN t[n] ELSE g[n - 1] \o t[n]
  BY <1>4, <1>5 DEF FlattenFcn
<1>10. f[1] = s[1]
  BY <1>1, <1>4 DEF FlattenFcn
<1>11. \A n \in 1 .. N : f[n + 1] = f[n] \o t[n]
  <2> SUFFICES ASSUME NEW n \in 1 .. N PROVE f[n + 1] = f[n] \o t[n]
    OBVIOUS
  <2>1. n + 1 \in 1 .. Len(s) /\ n + 1 # 1 /\ (n + 1) - 1 = n
    BY <1>1, <1>5
  <2>2. f[n + 1] = f[(n + 1) - 1] \o s[n + 1]
    BY <1>4, <2>1 DEF FlattenFcn
  <2>3. t[n] = s[n + 1]
    BY <1>1, <1>5
  <2> QED
    BY <2>1, <2>2, <2>3
<1> DEFINE T == {n \in 0 .. N : n = 0 \/ f[n + 1] = s[1] \o g[n]}
<1>12. 0 \in T
  BY <1>5
<1>13. ASSUME NEW n \in 1 .. N, n - 1 \in T PROVE n \in T
  <2>1. n \in 0 .. N /\ (n = 1 \/ f[(n - 1) + 1] = s[1] \o g[n - 1])
    <3>1. n \in 0 .. N /\ n - 1 \in Int /\ (n - 1 = 0 => n = 1)
      BY <1>5
    <3>2. n - 1 = 0 \/ f[(n - 1) + 1] = s[1] \o g[n - 1]
      BY <1>13
    <3> QED
      BY <3>1, <3>2
  <2> SUFFICES f[n + 1] = s[1] \o g[n]
    BY <2>1
  <2> HIDE DEF T
  <2>2. CASE n = 1
    <3>1. g[1] = t[1] /\ f[1 + 1] = f[1] \o t[1]
      BY <1>9, <1>11, <2>2
    <3> QED
      BY <1>10, <2>2, <3>1
  <2>3. CASE n # 1
    <3>1. n - 1 \in 1 .. N /\ (n - 1) + 1 = n
      BY <2>3
    <3>2. f[n] = s[1] \o g[n - 1]
      BY <2>1, <2>3, <3>1
    <3>3. g[n - 1] \in Seq(E) /\ t[n] \in Seq(E) /\ s[1] \in Seq(E)
      BY <1>1, <1>6, <1>7, <3>1
    <3>4. (s[1] \o g[n - 1]) \o t[n] = s[1] \o (g[n - 1] \o t[n])
      BY <3>3, <1>8
    <3>5. g[n] = g[n - 1] \o t[n]
      BY <1>9, <2>3
    <3>6. f[n + 1] = f[n] \o t[n]
      BY <1>11
    <3> HIDE DEF f, g, t
    <3> QED
      BY ONLY <3>2, <3>4, <3>5, <3>6
  <2> QED
    BY <2>2, <2>3
<1>14. 0 .. N \subseteq T
  <2> HIDE DEF T
  <2> QED
    BY <1>12, <1>13, UpTo
<1>15. CASE Len(t) = 0
  <2>1. t = <<>> /\ Len(s) = 1
    BY <1>1, <1>15
  <2>2. FlattenSeq(s) = s[1] /\ FlattenSeq(t) = <<>> /\ s[1] \o <<>> = s[1]
    BY <1>1, <1>2, <1>3, <1>10, <1>15, <2>1
  <2> QED
    BY <2>2 DEF t
<1>16. CASE Len(t) # 0
  <2>1. N \in 0 .. N /\ N # 0 /\ N + 1 = Len(s)
    BY <1>1, <1>5, <1>16
  <2>2. N \in T
    BY <1>14, <2>1
  <2>3. f[N + 1] = s[1] \o g[N]
    BY <2>1, <2>2
  <2>4. FlattenSeq(s) = f[N + 1] /\ FlattenSeq(t) = g[N]
    BY <1>2, <1>3, <1>5, <2>1
  <2> QED
    BY <2>3, <2>4 DEF t
<1> QED
  BY <1>15, <1>16

\* The kind of the result.
LEMMA FlattenIs ==
    ASSUME NEW E, NEW s \in Seq(Seq(E))
    PROVE  FlattenSeq(s) \in Seq(E)
<1>1. <<>> \in Seq(E)
  OBVIOUS
<1> QED
  BY <1>1, FlattenAppend

\* Nothing at first.
LEMMA FlattenEmpty == FlattenSeq(<<>>) = <<>>
BY DEF FlattenSeq
=============================================================================
