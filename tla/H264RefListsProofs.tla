--------------------------- MODULE H264RefListsProofs ---------------------------
(***************************************************************************)
(* Proofs about H264RefLists, in every state the buffer of H264Dpb         *)
(* reaches.  The initial lists: the operators sort, filter, alternate,     *)
(* turn round and concatenate without losing or repeating an entry, and    *)
(* what they are given in an order they leave in an order, so the lists    *)
(* name the usable references once each, in the order of the clauses.      *)
(* Modification: the loop with its prediction and its spare slot keeps,    *)
(* after each command, the targets so far and then the initial list        *)
(* without the pictures named so far.                                      *)
(***************************************************************************)
EXTENDS H264RefLists, H264DpbProofs

-----------------------------------------------------------------------------
(* Members of a set in their order *)

\* R orders S strictly and totally.
TotalOrder(S, R) ==
    /\ \A j \in S : <<j, j>> \notin R
    /\ \A i, j, k \in S : <<i, j>> \in R /\ <<j, k>> \in R => <<i, k>> \in R
    /\ \A j, k \in S : j # k => <<j, k>> \in R \/ <<k, j>> \in R

\* s runs through S in the order R.
RunsThrough(s, S, R) ==
    /\ s \in [1 .. Cardinality(S) -> S]
    /\ \A k \in S : \E i \in DOMAIN s : s[i] = k
    /\ \A i, j \in DOMAIN s : <<s[i], s[j]>> \in R <=> i < j

\* The members that come before one, counted.
Rank(S, R, k) == Cardinality(Before(S, R, k))

\* How many members come before one tells the order.
LEMMA Ranks ==
    ASSUME NEW S, IsFiniteSet(S), NEW R, TotalOrder(S, R)
    PROVE  /\ Cardinality(S) \in Nat
           /\ \A k \in S : Rank(S, R, k) \in 0 .. Cardinality(S) - 1
           /\ \A j, k \in S : <<j, k>> \in R <=> Rank(S, R, j) < Rank(S, R, k)
  <1>1. Cardinality(S) \in Nat
    BY FS_CardinalityType
  <1>2. ASSUME NEW k \in S
        PROVE  /\ Before(S, R, k) \in SUBSET S /\ IsFiniteSet(Before(S, R, k))
               /\ Rank(S, R, k) \in 0 .. Cardinality(S) - 1
    <2>1. Before(S, R, k) \in SUBSET S /\ k \notin Before(S, R, k)
      BY DEF Before, TotalOrder
    <2>2. IsFiniteSet(Before(S, R, k)) /\ Cardinality(Before(S, R, k)) \in Nat
      BY <2>1, FS_Subset, FS_CardinalityType
    <2>3. Cardinality(Before(S, R, k)) <= Cardinality(S) /\ Cardinality(Before(S, R, k)) # Cardinality(S)
      BY <2>1, FS_Subset
    <2> QED
      BY <1>1, <2>1, <2>2, <2>3 DEF Rank
  <1>3. ASSUME NEW j \in S, NEW k \in S, <<j, k>> \in R
        PROVE  Rank(S, R, j) < Rank(S, R, k)
    <2>1. Before(S, R, j) \subseteq Before(S, R, k) /\ j \in Before(S, R, k) /\ j \notin Before(S, R, j)
      BY <1>3 DEF Before, TotalOrder
    <2>2. Rank(S, R, j) <= Rank(S, R, k) /\ Rank(S, R, j) # Rank(S, R, k)
      BY <1>2, <2>1, FS_Subset DEF Rank
    <2> QED
      BY <1>1, <1>2, <2>2
  <1>4. ASSUME NEW j \in S, NEW k \in S, Rank(S, R, j) < Rank(S, R, k)
        PROVE  <<j, k>> \in R
    <2>1. j # k
      BY <1>1, <1>2, <1>4
    <2>2. CASE <<k, j>> \in R
      BY <1>1, <1>2, <1>3, <1>4, <2>2
    <2> QED
      BY <2>1, <2>2 DEF TotalOrder
  <1> QED
    BY <1>1, <1>2, <1>3, <1>4

\* InOrder lists every member once, in the order; the member at i has i - 1 before it.
LEMMA InOrderIs ==
    ASSUME NEW S, IsFiniteSet(S), NEW R, TotalOrder(S, R)
    PROVE  /\ RunsThrough(InOrder(S, R), S, R)
           /\ \A i \in 1 .. Cardinality(S) : Rank(S, R, InOrder(S, R)[i]) = i - 1
  <1> DEFINE n == Cardinality(S)
             rank == [k \in S |-> Rank(S, R, k)]
             s == InOrder(S, R)
  <1>1. /\ n \in Nat
        /\ \A k \in S : Rank(S, R, k) \in 0 .. n - 1
        /\ \A j, k \in S : <<j, k>> \in R <=> Rank(S, R, j) < Rank(S, R, k)
    BY Ranks
  <1>2. rank \in Injection(S, 0 .. n - 1)
    <2>1. ASSUME NEW j \in S, NEW k \in S, rank[j] = rank[k]
          PROVE  j = k
      <3>1. Rank(S, R, j) = Rank(S, R, k) /\ Rank(S, R, j) \in Nat
        BY <1>1, <2>1
      <3>2. ~(<<j, k>> \in R) /\ ~(<<k, j>> \in R)
        BY <1>1, <3>1
      <3> QED
        BY <3>2 DEF TotalOrder
    <2>2. rank \in [S -> 0 .. n - 1]
      BY <1>1
    <2> HIDE DEF rank
    <2> QED
      BY <2>1, <2>2 DEF Injection, IsInjective
  <1>3. rank \in Surjection(S, 0 .. n - 1)
    <2>1. IsFiniteSet(0 .. n - 1) /\ Cardinality(0 .. n - 1) = n
      <3>1. 0 \in Int /\ n - 1 \in Int
        BY <1>1
      <3>2. IsFiniteSet(0 .. n - 1) /\ Cardinality(0 .. n - 1) = IF 0 > n - 1 THEN 0 ELSE (n - 1) - 0 + 1
        BY <3>1, FS_Interval
      <3> QED
        BY <1>1, <3>2
    <2> HIDE DEF rank
    <2> QED
      BY <1>2, <2>1, FS_Injection
  <1>4. ASSUME NEW i \in 1 .. n
        PROVE  s[i] \in S /\ Rank(S, R, s[i]) = i - 1
    <2>1. i - 1 \in 0 .. n - 1
      BY <1>1
    <2>2. \E k \in S : rank[k] = i - 1
      <3> HIDE DEF rank
      <3> QED
        BY <1>3, <2>1 DEF Surjection
    <2>3. \E k \in S : Cardinality({j \in S : <<j, k>> \in R}) = i - 1
      BY <2>2 DEF Rank, Before
    <2>4. s[i] = CHOOSE k \in S : Cardinality({j \in S : <<j, k>> \in R}) = i - 1
      BY DEF InOrder
    <2>5. s[i] \in S /\ Cardinality({j \in S : <<j, s[i]>> \in R}) = i - 1
      <3> HIDE DEF s
      <3> QED
        BY <2>3, <2>4
    <2> QED
      BY <2>5 DEF Rank, Before
  <1>5. DOMAIN s = 1 .. n /\ s = [i \in 1 .. n |-> s[i]]
    <2> DEFINE At(i) == CHOOSE k \in S : Cardinality({j \in S : <<j, k>> \in R}) = i - 1
               t == [i \in 1 .. n |-> At(i)]
    <2>1. s = t
      BY DEF InOrder
    <2> HIDE DEF At, s, n
    <2>2. DOMAIN t = 1 .. n /\ t = [i \in 1 .. n |-> t[i]]
      OBVIOUS
    <2> QED
      BY <2>1, <2>2, Zenon
  <1> HIDE DEF s
  <1>6. s \in [1 .. n -> S]
    BY <1>4, <1>5
  <1>7. ASSUME NEW k \in S
        PROVE  \E i \in DOMAIN s : s[i] = k
    <2> DEFINE i == Rank(S, R, k) + 1
    <2>1. i \in 1 .. n
      BY <1>1
    <2>2. s[i] \in S /\ Rank(S, R, s[i]) = i - 1
      BY <1>4, <2>1
    <2>3. s[i] = k
      <3>1. Rank(S, R, s[i]) = Rank(S, R, k)
        BY <1>1, <2>2
      <3>2. ~(<<s[i], k>> \in R) /\ ~(<<k, s[i]>> \in R)
        BY <1>1, <2>2, <3>1
      <3> QED
        BY <2>2, <3>2 DEF TotalOrder
    <2> QED
      BY <1>5, <2>1, <2>3
  <1>8. ASSUME NEW i \in DOMAIN s, NEW j \in DOMAIN s
        PROVE  <<s[i], s[j]>> \in R <=> i < j
    <2>1. /\ s[i] \in S /\ Rank(S, R, s[i]) = i - 1
          /\ s[j] \in S /\ Rank(S, R, s[j]) = j - 1
          /\ i \in Int /\ j \in Int
      BY <1>4, <1>5
    <2> QED
      BY <1>1, <2>1
  <1> QED
    BY <1>4, <1>6, <1>7, <1>8 DEF RunsThrough, s

\* A member with i - 1 before it is the one at i.
LEMMA InOrderAt ==
    ASSUME NEW S, IsFiniteSet(S), NEW R, TotalOrder(S, R), NEW k \in S
    PROVE  /\ Rank(S, R, k) + 1 \in 1 .. Cardinality(S)
           /\ InOrder(S, R)[Rank(S, R, k) + 1] = k
  <1> DEFINE s == InOrder(S, R)
  <1>1. RunsThrough(s, S, R) /\ \A i \in 1 .. Cardinality(S) : Rank(S, R, s[i]) = i - 1
    BY InOrderIs
  <1>2. DOMAIN s = 1 .. Cardinality(S)
    BY <1>1 DEF RunsThrough
  <1>3. PICK i \in DOMAIN s : s[i] = k
    BY <1>1 DEF RunsThrough
  <1>4. Rank(S, R, k) = i - 1 /\ i \in Int
    BY <1>1, <1>2, <1>3
  <1> HIDE DEF s
  <1> QED
    BY <1>2, <1>3, <1>4 DEF s

-----------------------------------------------------------------------------
(* Entries at chosen positions *)

Upwards(I) == {e \in I \X I : e[1] < e[2]}

Positions(I) == InOrder(I, Upwards(I))

\* f runs upwards through the positions I.
Climbs(f, I, n) ==
    /\ f \in [1 .. n -> I]
    /\ \A k \in I : \E i \in 1 .. n : f[i] = k
    /\ \A i, j \in 1 .. n : f[i] < f[j] <=> i < j

\* Numbers in rising order.
LEMMA RisingOrder ==
    ASSUME NEW I, I \subseteq Int
    PROVE  TotalOrder(I, Upwards(I)) /\ \A j, k \in I : <<j, k>> \in Upwards(I) <=> j < k
  BY DEF TotalOrder, Upwards

\* How many positions come before one.
Below(I, k) == Cardinality({j \in I : j < k})

\* The positions in rising order, and where each of them comes.
LEMMA PositionsClimb ==
    ASSUME NEW I, I \subseteq Int, IsFiniteSet(I)
    PROVE  /\ Climbs(Positions(I), I, Cardinality(I))
           /\ Cardinality(I) \in Nat
           /\ \A i \in 1 .. Cardinality(I) : Below(I, Positions(I)[i]) = i - 1
           /\ \A k \in I : Below(I, k) + 1 \in 1 .. Cardinality(I) /\ Positions(I)[Below(I, k) + 1] = k
  <1> DEFINE R == Upwards(I)
             f == Positions(I)
             n == Cardinality(I)
  <1>1. TotalOrder(I, R) /\ \A j, k \in I : <<j, k>> \in R <=> j < k
    BY RisingOrder
  <1>2. \A k \in I : Rank(I, R, k) = Below(I, k)
    <2> SUFFICES ASSUME NEW k \in I  PROVE Before(I, R, k) = {j \in I : j < k}
      BY DEF Rank, Below
    <2> HIDE DEF R
    <2> QED
      BY <1>1 DEF Before
  <1> HIDE DEF R
  <1>3. RunsThrough(f, I, R) /\ (\A i \in 1 .. n : Rank(I, R, f[i]) = i - 1) /\ n \in Nat
    <2>1. f = InOrder(I, R)
      BY DEF Positions, R
    <2> QED
      BY <1>1, <2>1, InOrderIs, FS_CardinalityType
  <1>4. \A k \in I : Rank(I, R, k) + 1 \in 1 .. n /\ f[Rank(I, R, k) + 1] = k
    <2>1. f = InOrder(I, R)
      BY DEF Positions, R
    <2> QED
      BY <1>1, <2>1, InOrderAt
  <1> HIDE DEF f, n
  <1>5. f \in [1 .. n -> I] /\ DOMAIN f = 1 .. n
    BY <1>3 DEF RunsThrough, n
  <1>6. \A i, j \in 1 .. n : f[i] < f[j] <=> i < j
    <2> SUFFICES ASSUME NEW i \in 1 .. n, NEW j \in 1 .. n  PROVE f[i] < f[j] <=> i < j
      OBVIOUS
    <2>1. f[i] \in I /\ f[j] \in I
      BY <1>5
    <2>2. <<f[i], f[j]>> \in R <=> i < j
      BY <1>3, <1>5 DEF RunsThrough
    <2> QED
      BY <1>1, <2>1, <2>2
  <1>7. \A k \in I : \E i \in 1 .. n : f[i] = k
    BY <1>3, <1>5 DEF RunsThrough
  <1>8. Climbs(f, I, n)
    BY <1>5, <1>6, <1>7 DEF Climbs
  <1>9. \A i \in 1 .. n : Below(I, f[i]) = i - 1
    BY <1>2, <1>3, <1>5
  <1>10. \A k \in I : Below(I, k) + 1 \in 1 .. n /\ f[Below(I, k) + 1] = k
    BY <1>2, <1>4
  <1> QED
    BY <1>3, <1>8, <1>9, <1>10 DEF f, n

\* What the entries at the positions I are.
LEMMA OnlyIs ==
    ASSUME NEW s, NEW I, I \subseteq Int, IsFiniteSet(I)
    PROVE  /\ Only(s, I) = [i \in 1 .. Cardinality(I) |-> s[Positions(I)[i]]]
           /\ Cardinality(I) \in Nat
           /\ \A i \in 1 .. Cardinality(I) : Positions(I)[i] \in I /\ Only(s, I)[i] = s[Positions(I)[i]]
  <1>1. Climbs(Positions(I), I, Cardinality(I)) /\ Cardinality(I) \in Nat
    BY PositionsClimb
  <1>2. DOMAIN Positions(I) = 1 .. Cardinality(I) /\ \A i \in 1 .. Cardinality(I) : Positions(I)[i] \in I
    BY <1>1 DEF Climbs
  <1>3. Only(s, I) = [i \in DOMAIN Positions(I) |-> s[Positions(I)[i]]]
    BY DEF Only, Positions, Upwards
  <1> QED
    BY <1>1, <1>2, <1>3

\* Every entry kept is one of a position kept.
OnlyAt(s, I) ==
    \A i \in 1 .. Cardinality(I) : Positions(I)[i] \in I /\ Only(s, I)[i] = s[Positions(I)[i]]

\* Entries at positions are entries of the sequence.
LEMMA OnlyPoints ==
    ASSUME NEW s, NEW I, I \subseteq Int, IsFiniteSet(I)
    PROVE  OnlyAt(s, I)
  <1>1. Climbs(Positions(I), I, Cardinality(I)) /\ Cardinality(I) \in Nat
    BY PositionsClimb
  <1>2. DOMAIN Positions(I) = 1 .. Cardinality(I) /\ \A i \in 1 .. Cardinality(I) : Positions(I)[i] \in I
    BY <1>1 DEF Climbs
  <1>3. Only(s, I) = [i \in DOMAIN Positions(I) |-> s[Positions(I)[i]]]
    BY DEF Only, Positions, Upwards
  <1> QED
    BY <1>2, <1>3 DEF OnlyAt

\* They are a sequence of as many entries, each once if it was once before.
LEMMA OnlySequence ==
    ASSUME NEW S, NEW s \in Seq(S), NEW I, I \subseteq DOMAIN s
    PROVE  /\ IsFiniteSet(I)
           /\ Only(s, I) \in Seq(S)
           /\ Len(Only(s, I)) = Cardinality(I)
           /\ ToSet(Only(s, I)) = {s[i] : i \in I}
           /\ IsInjective(s) => IsInjective(Only(s, I))
  <1> DEFINE f == Positions(I)
             n == Cardinality(I)
             o == Only(s, I)
  <1>1. I \subseteq Int /\ IsFiniteSet(I)
    <2>1. I \in SUBSET (1 .. Len(s)) /\ Len(s) \in Int /\ 1 \in Int
      OBVIOUS
    <2>2. IsFiniteSet(1 .. Len(s))
      BY <2>1, FS_Interval
    <2> QED
      BY <2>1, <2>2, FS_Subset
  <1>2. /\ o = [i \in 1 .. n |-> s[f[i]]] /\ n \in Nat
        /\ \A i \in 1 .. n : f[i] \in I /\ o[i] = s[f[i]]
    BY <1>1, OnlyIs
  <1>3. Climbs(f, I, n)
    BY <1>1, PositionsClimb
  <1> HIDE DEF f, n, o
  <1>4. \A i \in I : s[i] \in S /\ i \in DOMAIN s
    OBVIOUS
  <1>5. o \in Seq(S) /\ Len(o) = n /\ DOMAIN o = 1 .. n
    BY <1>2, <1>4
  <1>6. ToSet(o) = {s[i] : i \in I}
    <2>1. ASSUME NEW i \in I
          PROVE  s[i] \in ToSet(o)
      <3>1. PICK j \in 1 .. n : f[j] = i
        BY <1>3 DEF Climbs
      <3> QED
        BY <1>2, <1>5, <3>1 DEF ToSet
    <2>2. ASSUME NEW j \in DOMAIN o
          PROVE  o[j] \in {s[i] : i \in I}
      BY <1>2, <1>5, <2>2
    <2> QED
      BY <2>1, <2>2 DEF ToSet
  <1>7. ASSUME IsInjective(s), NEW i \in DOMAIN o, NEW j \in DOMAIN o, o[i] = o[j]
        PROVE  i = j
    <2>1. f[i] = f[j] /\ f[i] \in Int
      BY <1>1, <1>2, <1>4, <1>5, <1>7 DEF IsInjective
    <2>2. ~(f[i] < f[j]) /\ ~(f[j] < f[i])
      BY <2>1
    <2> QED
      BY <1>3, <1>5, <2>2 DEF Climbs
  <1> QED
    BY <1>1, <1>5, <1>6, <1>7 DEF o, n, IsInjective

\* All positions in a row.
LEMMA PositionsAll ==
    ASSUME NEW n \in Nat
    PROVE  Cardinality(1 .. n) = n /\ \A i \in 1 .. n : Positions(1 .. n)[i] = i
  <1>1. \A m \in Nat : IsFiniteSet(1 .. m) /\ Cardinality(1 .. m) = m
    <2> SUFFICES ASSUME NEW m \in Nat  PROVE IsFiniteSet(1 .. m) /\ Cardinality(1 .. m) = m
      OBVIOUS
    <2>1. IsFiniteSet(1 .. m) /\ Cardinality(1 .. m) = IF 1 > m THEN 0 ELSE m - 1 + 1
      BY FS_Interval
    <2> QED
      BY <2>1
  <1>2. ASSUME NEW i \in 1 .. n
        PROVE  Positions(1 .. n)[i] = i
    <2>1. {j \in 1 .. n : j < i} = 1 .. (i - 1) /\ i - 1 \in Nat
      OBVIOUS
    <2>2. Below(1 .. n, i) = i - 1
      BY <1>1, <2>1 DEF Below
    <2>3. \A k \in 1 .. n : Positions(1 .. n)[Below(1 .. n, k) + 1] = k
      <3>1. 1 .. n \subseteq Int
        OBVIOUS
      <3> QED
        BY <1>1, <3>1, PositionsClimb
    <2>4. Below(1 .. n, i) + 1 = i
      BY <2>2
    <2> QED
      BY <2>3, <2>4
  <1> QED
    BY <1>1, <1>2

\* The first n entries.
LEMMA OnlyAll ==
    ASSUME NEW s, NEW n \in Nat
    PROVE  Only(s, 1 .. n) = [i \in 1 .. n |-> s[i]]
  <1>1. 1 .. n \subseteq Int /\ IsFiniteSet(1 .. n)
    <2>1. 1 \in Int /\ n \in Int
      OBVIOUS
    <2> QED
      BY <2>1, FS_Interval
  <1>2. Only(s, 1 .. n) = [i \in 1 .. Cardinality(1 .. n) |-> s[Positions(1 .. n)[i]]]
    BY <1>1, OnlyIs
  <1> QED
    BY <1>2, PositionsAll

\* s without its entry at p.
Without(s, p, t, n) == \A j \in 1 .. n - 1 : t[j] = IF j < p THEN s[j] ELSE s[j + 1]

\* One position less: what follows it moves up.
LEMMA OnlyDrop ==
    ASSUME NEW s, NEW I, I \subseteq Int, IsFiniteSet(I), NEW r \in I
    PROVE  /\ Below(I, r) + 1 \in 1 .. Cardinality(I)
           /\ Positions(I)[Below(I, r) + 1] = r
           /\ Cardinality(I \ {r}) = Cardinality(I) - 1
           /\ Without(Only(s, I), Below(I, r) + 1, Only(s, I \ {r}), Cardinality(I))
  <1> DEFINE f == Positions(I)
             n == Cardinality(I)
             J == I \ {r}
             g == Positions(J)
             p == Below(I, r) + 1
  <1>1. /\ Climbs(f, I, n) /\ n \in Nat
        /\ \A i \in 1 .. n : Below(I, f[i]) = i - 1
        /\ \A k \in I : Below(I, k) + 1 \in 1 .. n /\ f[Below(I, k) + 1] = k
    BY PositionsClimb
  <1>2. J \subseteq Int /\ IsFiniteSet(J) /\ Cardinality(J) = n - 1
    BY FS_RemoveElement
  <1>3. \A k \in J : g[Below(J, k) + 1] = k
    BY <1>2, PositionsClimb
  <1>4. p \in 1 .. n /\ f[p] = r
    BY <1>1
  <1>5. ASSUME NEW k \in J
        PROVE  Below(J, k) = IF r < k THEN Below(I, k) - 1 ELSE Below(I, k)
    <2> DEFINE A == {j \in I : j < k}
    <2>1. {j \in J : j < k} = A \ {r} /\ A \in SUBSET I
      OBVIOUS
    <2>2. IsFiniteSet(A)
      BY <2>1, FS_Subset
    <2>3. Cardinality(A \ {r}) = IF r \in A THEN Cardinality(A) - 1 ELSE Cardinality(A)
      BY <2>2, FS_RemoveElement
    <2> QED
      BY <2>1, <2>3 DEF Below
  <1>6. ASSUME NEW j \in 1 .. n - 1
        PROVE  g[j] = IF j < p THEN f[j] ELSE f[j + 1]
    <2> DEFINE i == IF j < p THEN j ELSE j + 1
    <2>1. i \in 1 .. n /\ i # p
      BY <1>1, <1>4
    <2> HIDE DEF f, n, J, g, p
    <2>2. f[i] \in I /\ f[i] # r /\ Below(I, f[i]) = i - 1
      <3>1. f[i] \in I /\ Below(I, f[i]) = i - 1
        BY <1>1, <2>1 DEF Climbs
      <3>2. f[i] < f[p] <=> i < p
        BY <1>1, <1>4, <2>1 DEF Climbs
      <3>3. f[p] < f[i] <=> p < i
        BY <1>1, <1>4, <2>1 DEF Climbs
      <3>4. f[i] \in Int /\ f[p] \in Int /\ i \in Int /\ p \in Int
        <4>1. n \in Nat
          BY <1>1
        <4>2. i \in Int /\ p \in Int
          <5> HIDE DEF i
          <5> QED
            BY <1>4, <2>1, <4>1
        <4>3. f[p] \in Int
          BY <1>4
        <4> QED
          BY <3>1, <4>2, <4>3
      <3> QED
        BY <1>4, <2>1, <3>1, <3>2, <3>3, <3>4
    <2>3. f[i] \in J
      BY <2>2 DEF J
    <2>4. r < f[i] <=> p < i
      BY <1>1, <1>4, <2>1 DEF Climbs
    <2>5. Below(J, f[i]) + 1 = j
      <3>1. Below(J, f[i]) = IF r < f[i] THEN Below(I, f[i]) - 1 ELSE Below(I, f[i])
        BY <1>5, <2>3
      <3>2. i \in Int /\ p \in Int
        BY <1>4, <2>1
      <3> QED
        BY <2>1, <2>2, <2>4, <3>1, <3>2
    <2>6. g[j] = f[i]
      BY <1>3, <2>3, <2>5
    <2> QED
      BY <2>6
  <1>7. ASSUME NEW j \in 1 .. n - 1
        PROVE  Only(s, J)[j] = IF j < p THEN Only(s, I)[j] ELSE Only(s, I)[j + 1]
    <2>1. Only(s, J)[j] = s[g[j]]
      <3>1. OnlyAt(s, J)
        <4> HIDE DEF J
        <4> QED
          BY <1>2, OnlyPoints
      <3>2. \A i \in 1 .. Cardinality(J) : Only(s, J)[i] = s[g[i]]
        <4> HIDE DEF J
        <4> QED
          BY <3>1 DEF OnlyAt
      <3> HIDE DEF g, J
      <3> QED
        BY <1>2, <3>2
    <2>2. \A i \in 1 .. n : Only(s, I)[i] = s[f[i]]
      <3>1. OnlyAt(s, I)
        BY OnlyPoints
      <3> QED
        BY <3>1 DEF OnlyAt
    <2>3. j \in 1 .. n /\ j + 1 \in 1 .. n
      BY <1>1
    <2> HIDE DEF f, n, J, g, p
    <2> QED
      BY <1>6, <2>1, <2>2, <2>3
  <1>8. Without(Only(s, I), p, Only(s, J), n)
    <2> HIDE DEF p, J, n
    <2> QED
      BY <1>7 DEF Without
  <1> QED
    BY <1>2, <1>4, <1>8

-----------------------------------------------------------------------------
(* Taking turns *)

\* A number is even or odd.
LEMMA Halves ==
    ASSUME NEW i \in Nat
    PROVE  \E h \in Nat : \/ /\ i = 2 * h /\ i % 2 = 0 /\ i \div 2 = h
                             /\ (i + 1) \div 2 = h /\ (i + 1) % 2 = 1 /\ (i + 2) \div 2 = h + 1
                          \/ /\ i = 2 * h + 1 /\ i % 2 = 1 /\ i \div 2 = h
                             /\ (i + 1) \div 2 = h + 1 /\ (i + 1) % 2 = 0 /\ (i + 2) \div 2 = h + 1
  <1> DEFINE h == i \div 2
  <1>1. h \in Nat /\ (i = 2 * h \/ i = 2 * h + 1)
    OBVIOUS
  <1>2. i % 2 = i - 2 * h
    OBVIOUS
  <1>3. CASE i = 2 * h
    <2>1. (i + 1) \div 2 = h /\ (i + 2) \div 2 = h + 1
      BY <1>3
    <2>2. (i + 1) % 2 = 1
      BY <1>3
    <2> QED
      BY <1>1, <1>2, <1>3, <2>1, <2>2
  <1>4. CASE i = 2 * h + 1
    <2>1. (i + 1) \div 2 = h + 1 /\ (i + 2) \div 2 = h + 1
      BY <1>4
    <2>2. (i + 1) % 2 = 0
      BY <1>4
    <2> QED
      BY <1>1, <1>2, <1>4, <2>1, <2>2
  <1> QED
    BY <1>1, <1>3, <1>4

\* How many of the first i entries are of the first sequence, when two sequences of n and
\* m entries take turns, and whether the next one is.
OfFirst(i, n, m) ==
    IF i <= 2 * n /\ i <= 2 * m THEN (i + 1) \div 2
    ELSE IF n > m THEN i - m ELSE n

FirstsTurn(i, n, m) == IF i < 2 * n /\ i < 2 * m THEN i % 2 = 0 ELSE n > m

\* The next entry of a, b, a, b, ..., and how far both sequences have come.
NextTurn(a, b, i, n, m) ==
    LET c == OfFirst(i, n, m)
    IN  /\ c \in 0 .. n /\ i - c \in 0 .. m
        /\ FirstsTurn(i, n, m) =>
             c < n /\ OfFirst(i + 1, n, m) = c + 1 /\ Alternate(a, b)[i + 1] = a[c + 1]
        /\ ~FirstsTurn(i, n, m) =>
             i - c < m /\ OfFirst(i + 1, n, m) = c /\ Alternate(a, b)[i + 1] = b[(i - c) + 1]
        /\ ~(i < 2 * n /\ i < 2 * m) => IF FirstsTurn(i, n, m) THEN i - c = m ELSE c = n
        /\ i + 1 < 2 * n /\ i + 1 < 2 * m => IF i % 2 = 0 THEN i - c < m ELSE c < n

\* The turns of a, b, a, b, ... are counted right.
LEMMA AlternateTurn ==
    ASSUME NEW a, NEW b, NEW n \in Nat, NEW m \in Nat, Len(a) = n, Len(b) = m,
           NEW i \in 0 .. n + m - 1
    PROVE  NextTurn(a, b, i, n, m)
  <1> DEFINE l == IF n < m THEN n ELSE m
  <1>1. PICK h \in Nat :
           \/ /\ i = 2 * h /\ i % 2 = 0 /\ i \div 2 = h
              /\ (i + 1) \div 2 = h /\ (i + 1) % 2 = 1 /\ (i + 2) \div 2 = h + 1
           \/ /\ i = 2 * h + 1 /\ i % 2 = 1 /\ i \div 2 = h
              /\ (i + 1) \div 2 = h + 1 /\ (i + 1) % 2 = 0 /\ (i + 2) \div 2 = h + 1
    BY Halves
  <1>2. /\ OfFirst(i, n, m) = IF i <= 2 * l THEN (i + 1) \div 2 ELSE IF n > m THEN i - m ELSE n
        /\ OfFirst(i + 1, n, m) = IF i + 1 <= 2 * l THEN (i + 2) \div 2 ELSE IF n > m THEN (i + 1) - m ELSE n
        /\ FirstsTurn(i, n, m) <=> IF i < 2 * l THEN i % 2 = 0 ELSE n > m
    BY DEF OfFirst, FirstsTurn
  <1>3. Alternate(a, b)[i + 1] =
           CASE i + 1 <= 2 * l -> IF (i + 1) % 2 = 1 THEN a[(i + 2) \div 2] ELSE b[(i + 1) \div 2]
             [] i + 1 > 2 * l /\ n > l -> a[(i + 1) - l]
             [] OTHER -> b[(i + 1) - l]
    <2>1. i + 1 \in 1 .. n + m /\ (i + 1) + 1 = i + 2
      OBVIOUS
    <2> QED
      BY <2>1 DEF Alternate
  <1>4. l \in Nat /\ l <= n /\ l <= m /\ (l = n \/ l = m) /\ (n > m <=> n > l)
    OBVIOUS
  <1> DEFINE c == OfFirst(i, n, m)
             d == OfFirst(i + 1, n, m)
             first == FirstsTurn(i, n, m)
             e == Alternate(a, b)[i + 1]
             even == i % 2
             up == (i + 1) % 2
             half == i \div 2
             one == (i + 1) \div 2
             two == (i + 2) \div 2
             Goal == /\ c \in 0 .. n /\ i - c \in 0 .. m
                     /\ first => c < n /\ d = c + 1 /\ e = a[c + 1]
                     /\ ~first => i - c < m /\ d = c /\ e = b[(i - c) + 1]
                     /\ ~(i < 2 * n /\ i < 2 * m) => IF first THEN i - c = m ELSE c = n
                     /\ i + 1 < 2 * n /\ i + 1 < 2 * m => IF even = 0 THEN i - c < m ELSE c < n
  <1>5. /\ c = IF i <= 2 * l THEN one ELSE IF n > m THEN i - m ELSE n
        /\ d = IF i + 1 <= 2 * l THEN two ELSE IF n > m THEN (i + 1) - m ELSE n
        /\ first <=> IF i < 2 * l THEN even = 0 ELSE n > m
    BY <1>2
  <1>6. \/ /\ i = 2 * h /\ even = 0 /\ half = h /\ one = h /\ up = 1 /\ two = h + 1
        \/ /\ i = 2 * h + 1 /\ even = 1 /\ half = h /\ one = h + 1 /\ up = 0 /\ two = h + 1
    BY <1>1
  <1>7. /\ i + 1 <= 2 * l => e = IF up = 1 THEN a[two] ELSE b[one]
        /\ ~(i + 1 <= 2 * l) /\ n > l => e = a[(i + 1) - l]
        /\ ~(i + 1 <= 2 * l) /\ ~(n > l) => e = b[(i + 1) - l]
    BY <1>3
  <1> HIDE DEF l, c, d, first, e, even, up, half, one, two
  <1>8. ASSUME i = 2 * h /\ even = 0 /\ one = h /\ up = 1 /\ two = h + 1
        PROVE  Goal
    <2>1. CASE i < 2 * l
      <3>1. c = h /\ d = h + 1 /\ first /\ e = a[h + 1]
        BY <1>4, <1>5, <1>7, <1>8, <2>1
      <3> QED
        BY <1>4, <1>8, <2>1, <3>1
    <2>2. CASE ~(i < 2 * l)
      <3>1. c = IF i = 2 * l THEN h ELSE IF n > m THEN i - m ELSE n
        BY <1>4, <1>5, <1>8, <2>2
      <3>2. /\ d = IF n > m THEN (i + 1) - m ELSE n
            /\ first <=> n > m
            /\ n > l => e = a[(i + 1) - l]
            /\ ~(n > l) => e = b[(i + 1) - l]
        BY <1>4, <1>5, <1>7, <2>2
      <3> QED
        BY <1>4, <1>8, <2>2, <3>1, <3>2
    <2> QED
      BY <2>1, <2>2
  <1>9. ASSUME i = 2 * h + 1 /\ even = 1 /\ one = h + 1 /\ up = 0 /\ two = h + 1
        PROVE  Goal
    <2>1. CASE i < 2 * l
      <3>1. c = h + 1 /\ d = h + 1 /\ ~first /\ e = b[h + 1]
        BY <1>4, <1>5, <1>7, <1>9, <2>1
      <3> QED
        BY <1>4, <1>9, <2>1, <3>1
    <2>2. CASE ~(i < 2 * l)
      <3>1. c = IF n > m THEN i - m ELSE n
        BY <1>4, <1>5, <1>9, <2>2
      <3>2. /\ d = IF n > m THEN (i + 1) - m ELSE n
            /\ first <=> n > m
            /\ n > l => e = a[(i + 1) - l]
            /\ ~(n > l) => e = b[(i + 1) - l]
        BY <1>4, <1>5, <1>7, <2>2
      <3> QED
        BY <1>4, <1>9, <2>2, <3>1, <3>2
    <2> QED
      BY <2>1, <2>2
  <1>10. Goal
    BY <1>6, <1>8, <1>9
  <1> QED
    BY <1>10 DEF c, d, first, e, even, NextTurn

\* What is left of a sequence from k on.
LEMMA LeftOf ==
    ASSUME NEW S, NEW a \in Seq(S), NEW k \in 1 .. Len(a) + 1
    PROVE  /\ SubSeq(a, k, Len(a)) # <<>> <=> k <= Len(a)
           /\ k <= Len(a) => /\ Head(SubSeq(a, k, Len(a))) = a[k]
                             /\ Tail(SubSeq(a, k, Len(a))) = SubSeq(a, k + 1, Len(a))
  <1> DEFINE n == Len(a)
             s == SubSeq(a, k, n)
             t == SubSeq(a, k + 1, n)
  <1>1. n \in Nat /\ DOMAIN a = 1 .. n
    OBVIOUS
  <1>2. s \in Seq(S) /\ Len(s) = (n - k) + 1 /\ \A i \in 1 .. (n - k) + 1 : s[i] = a[k + i - 1]
    BY <1>1
  <1>3. ASSUME k <= n
        PROVE  t \in Seq(S) /\ Len(t) = n - k /\ \A i \in 1 .. n - k : t[i] = a[k + i]
    BY <1>1, <1>3
  <1> HIDE DEF n, s, t
  <1>4. ASSUME k <= n
        PROVE  Head(s) = a[k] /\ Tail(s) = t /\ s # <<>>
    <2>1. s # <<>> /\ Head(s) = s[1] /\ s[1] = a[k]
      BY <1>1, <1>2, <1>4
    <2>2. Tail(s) \in Seq(S) /\ Len(Tail(s)) = n - k /\ \A i \in 1 .. n - k : Tail(s)[i] = s[i + 1]
      BY <1>1, <1>2, <1>4, <2>1
    <2>3. \A i \in 1 .. n - k : Tail(s)[i] = t[i]
      <3> SUFFICES ASSUME NEW i \in 1 .. n - k  PROVE Tail(s)[i] = t[i]
        OBVIOUS
      <3>1. k + (i + 1) - 1 = k + i /\ i + 1 \in 1 .. (n - k) + 1
        BY <1>1
      <3> QED
        BY <1>2, <1>3, <1>4, <2>2, <3>1
    <2>4. Tail(s) = t
      BY <1>3, <1>4, <2>2, <2>3
    <2> QED
      BY <2>1, <2>4
  <1>5. ASSUME ~(k <= n)
        PROVE  s = <<>>
    <2>1. Len(s) = 0
      BY <1>1, <1>2, <1>5 DEF n
    <2> QED
      BY <1>2, <2>1
  <1> QED
    BY <1>4, <1>5 DEF n, s, t

Tagged(s, p) == [i \in DOMAIN s |-> <<s[i], p>>]

ByTurns(a, b, cur) == Alternate(Tagged(a, cur), Tagged(b, Other(cur)))

\* The alternation after i entries.
TurnOK(t, i, a, b, cur) ==
    /\ t.taken = [j \in 1 .. i |-> ByTurns(a, b, cur)[j]]
    /\ t.left = [p \in Parities |->
                   IF p = cur THEN SubSeq(a, OfFirst(i, Len(a), Len(b)) + 1, Len(a))
                   ELSE SubSeq(b, (i - OfFirst(i, Len(a), Len(b))) + 1, Len(b))]
    /\ t.want \in Parities
    /\ i < 2 * Len(a) /\ i < 2 * Len(b) => t.want = IF i % 2 = 0 THEN cur ELSE Other(cur)

\* There are two parities.
LEMMA Others ==
    ASSUME NEW p \in Parities
    PROVE  Other(p) \in Parities /\ Other(p) # p /\ Other(Other(p)) = p
           /\ Parities = {p, Other(p)}
  BY DEF Parities, Other

\* One entry more, of a.
LEMMA TakeFieldOn ==
    ASSUME NEW S, NEW a \in Seq(S), NEW b \in Seq(S), NEW cur \in Parities,
           NEW i \in 0 .. Len(a) + Len(b) - 1, NEW t, TurnOK(t, i, a, b, cur)
    PROVE  TurnOK(TakeField(t), i + 1, a, b, cur)
  <1> DEFINE n == Len(a)
             m == Len(b)
             c == OfFirst(i, n, m)
             d == OfFirst(i + 1, n, m)
             first == FirstsTurn(i, n, m)
             A == ByTurns(a, b, cur)
             oth == Other(cur)
             even == i % 2
             up == (i + 1) % 2
             la == SubSeq(a, c + 1, n)
             lb == SubSeq(b, (i - c) + 1, m)
             wanted == IF t.left[t.want] # <<>> THEN t.want ELSE Other(t.want)
             u == TakeField(t)
  <1>1. n \in Nat /\ m \in Nat /\ i \in Nat /\ i \in 0 .. n + m - 1
    OBVIOUS
  <1>2. /\ Len(Tagged(a, cur)) = n /\ Len(Tagged(b, oth)) = m
        /\ \A j \in 1 .. n : Tagged(a, cur)[j] = <<a[j], cur>>
        /\ \A j \in 1 .. m : Tagged(b, oth)[j] = <<b[j], oth>>
    <2>1. DOMAIN a = 1 .. n /\ DOMAIN b = 1 .. m
      OBVIOUS
    <2> QED
      BY <1>1, <2>1 DEF Tagged
  <1>3. /\ c \in 0 .. n /\ i - c \in 0 .. m
        /\ first => c < n /\ d = c + 1 /\ A[i + 1] = <<a[c + 1], cur>>
        /\ ~first => i - c < m /\ d = c /\ A[i + 1] = <<b[(i - c) + 1], oth>>
        /\ ~(i < 2 * n /\ i < 2 * m) => IF first THEN i - c = m ELSE c = n
        /\ i + 1 < 2 * n /\ i + 1 < 2 * m => IF even = 0 THEN i - c < m ELSE c < n
        /\ i < 2 * n /\ i < 2 * m => (first <=> even = 0)
    <2> DEFINE e == A[i + 1]
    <2>1. /\ c \in 0 .. n /\ i - c \in 0 .. m
          /\ first => c < n /\ d = c + 1 /\ e = Tagged(a, cur)[c + 1]
          /\ ~first => i - c < m /\ d = c /\ e = Tagged(b, oth)[(i - c) + 1]
          /\ ~(i < 2 * n /\ i < 2 * m) => IF first THEN i - c = m ELSE c = n
          /\ i + 1 < 2 * n /\ i + 1 < 2 * m => IF even = 0 THEN i - c < m ELSE c < n
      <3> DEFINE ta == Tagged(a, cur)
                 tb == Tagged(b, oth)
                 f == Alternate(ta, tb)[i + 1]
      <3>1. e = f
        BY DEF ByTurns
      <3>2. Len(ta) = n /\ Len(tb) = m
        BY <1>2
      <3>4. NextTurn(ta, tb, i, n, m)
        <4> HIDE DEF n, m, ta, tb
        <4> QED
          BY <1>1, <3>2, AlternateTurn
      <3> HIDE DEF n, m, ta, tb, e
      <3>3. /\ c \in 0 .. n /\ i - c \in 0 .. m
            /\ first => c < n /\ d = c + 1 /\ f = ta[c + 1]
            /\ ~first => i - c < m /\ d = c /\ f = tb[(i - c) + 1]
            /\ ~(i < 2 * n /\ i < 2 * m) => IF first THEN i - c = m ELSE c = n
            /\ i + 1 < 2 * n /\ i + 1 < 2 * m => IF even = 0 THEN i - c < m ELSE c < n
        BY <3>4 DEF NextTurn
      <3> HIDE DEF c, d, first, f, even
      <3> QED
        BY <3>1, <3>3 DEF ta, tb
    <2>2. i < 2 * n /\ i < 2 * m => (first <=> even = 0)
      BY DEF FirstsTurn
    <2> HIDE DEF c, d, first, e, even, n, m
    <2> QED
      BY <1>1, <1>2, <2>1, <2>2 DEF e
  <1>4. up = IF even = 0 THEN 1 ELSE 0
    BY <1>1, Halves
  <1>5. even = 0 \/ even = 1
    BY <1>1, Halves
  <1>6. /\ t.taken = [j \in 1 .. i |-> A[j]]
        /\ t.left = [p \in Parities |-> IF p = cur THEN la ELSE lb]
        /\ t.want \in Parities
        /\ i < 2 * n /\ i < 2 * m => t.want = IF even = 0 THEN cur ELSE oth
    BY DEF TurnOK
  <1>7. oth \in Parities /\ oth # cur /\ Other(oth) = cur /\ Parities = {cur, oth}
    BY Others
  <1>8. t.left[cur] = la /\ t.left[oth] = lb /\ DOMAIN t.left = Parities
    <2> HIDE DEF la, lb, oth
    <2> QED
      BY <1>6, <1>7
  <1>9. /\ la # <<>> <=> c < n
        /\ c < n => Head(la) = a[c + 1] /\ Tail(la) = SubSeq(a, (c + 1) + 1, n)
    <2>1. c + 1 \in 1 .. n + 1 /\ (c + 1 <= n <=> c < n)
      <3> HIDE DEF c, n
      <3> QED
        BY <1>1, <1>3
    <2> QED
      BY <2>1, LeftOf
  <1>10. /\ lb # <<>> <=> i - c < m
         /\ i - c < m => Head(lb) = b[(i - c) + 1] /\ Tail(lb) = SubSeq(b, ((i - c) + 1) + 1, m)
    <2>1. (i - c) + 1 \in 1 .. m + 1 /\ ((i - c) + 1 <= m <=> i - c < m)
      <3> HIDE DEF c, m
      <3> QED
        BY <1>1, <1>3
    <2> QED
      BY <2>1, LeftOf
  <1>11. wanted = IF first THEN cur ELSE oth
    <2> HIDE DEF c, d, first, n, m, even, la, lb, A, oth, wanted
    <2>1. t.want = cur \/ t.want = oth
      BY <1>6, <1>7
    <2>2. CASE t.want = cur
      <3>1. wanted = IF c < n THEN cur ELSE oth
        BY <1>8, <1>9, <2>2 DEF wanted, oth
      <3>2. first <=> c < n
        BY <1>1, <1>3, <1>5, <1>6, <1>7, <2>2
      <3> QED
        BY <3>1, <3>2
    <2>3. CASE t.want = oth
      <3>1. wanted = IF i - c < m THEN oth ELSE cur
        BY <1>7, <1>8, <1>10, <2>3 DEF wanted
      <3>2. ~first <=> i - c < m
        BY <1>1, <1>3, <1>5, <1>6, <1>7, <2>3
      <3> QED
        BY <3>1, <3>2
    <2> QED
      BY <2>1, <2>2, <2>3
  <1>12. /\ u.taken = Append(t.taken, <<Head(t.left[wanted]), wanted>>)
         /\ u.left = [t.left EXCEPT ![wanted] = Tail(t.left[wanted])]
         /\ u.want = IF t.left[Other(wanted)] # <<>> THEN Other(wanted) ELSE wanted
    BY DEF TakeField
  <1> HIDE DEF c, d, first, n, m, even, up, la, lb, A, oth, wanted, u
  <1>13. <<Head(t.left[wanted]), wanted>> = A[i + 1]
    BY <1>3, <1>8, <1>9, <1>10, <1>11
  <1>14. u.taken = [j \in 1 .. i + 1 |-> A[j]]
    <2>1. Append([j \in 1 .. i |-> A[j]], A[i + 1]) = [j \in 1 .. i + 1 |-> A[j]]
      BY <1>1
    <2> QED
      BY <1>6, <1>12, <1>13, <2>1
  <1>15. u.left = [p \in Parities |-> IF p = cur THEN SubSeq(a, d + 1, n) ELSE SubSeq(b, ((i + 1) - d) + 1, m)]
    <2>1. CASE first
      <3>1. u.left = [p \in Parities |-> IF p = cur THEN Tail(la) ELSE lb]
        BY <1>6, <1>7, <1>8, <1>11, <1>12, <2>1
      <3>2. (i + 1) - d = i - c /\ d = c + 1
        BY <1>1, <1>3, <2>1
      <3> QED
        BY <1>3, <1>9, <2>1, <3>1, <3>2 DEF lb
    <2>2. CASE ~first
      <3>1. u.left = [p \in Parities |-> IF p = cur THEN la ELSE Tail(lb)]
        BY <1>6, <1>7, <1>8, <1>11, <1>12, <2>2
      <3>2. (i + 1) - d = (i - c) + 1 /\ d = c
        BY <1>1, <1>3, <2>2
      <3> QED
        BY <1>3, <1>10, <2>2, <3>1, <3>2 DEF la
    <2> QED
      BY <2>1, <2>2
  <1>16. u.want \in Parities
    BY <1>7, <1>11, <1>12 DEF oth
  <1>17. ASSUME i + 1 < 2 * n, i + 1 < 2 * m
         PROVE  u.want = IF up = 0 THEN cur ELSE oth
    <2>1. first <=> even = 0
      BY <1>1, <1>3, <1>17
    <2>2. CASE even = 0
      <3>1. wanted = cur /\ t.left[Other(wanted)] = lb /\ Other(wanted) = oth /\ lb # <<>>
        BY <1>1, <1>3, <1>8, <1>10, <1>11, <1>17, <2>1, <2>2 DEF oth
      <3> QED
        BY <1>4, <1>12, <2>2, <3>1
    <2>3. CASE even # 0
      <3>1. wanted = oth /\ Other(wanted) = cur /\ t.left[Other(wanted)] = la /\ la # <<>>
        BY <1>1, <1>3, <1>7, <1>8, <1>9, <1>11, <1>17, <2>1, <2>3
      <3> QED
        BY <1>4, <1>12, <2>3, <3>1
    <2> QED
      BY <2>2, <2>3
  <1> QED
    BY <1>14, <1>15, <1>16, <1>17 DEF TurnOK, n, m, d, A, oth, up, u

-----------------------------------------------------------------------------
(* The loop with two cursors *)

StartTurn(left, cur) == [taken |-> <<>>, left |-> left, want |-> cur]

Turning(f, left, cur, m) ==
    f = [n \in 0 .. m |-> IF n = 0 THEN StartTurn(left, cur) ELSE TakeField(f[n - 1])]

\* The recursive function of the alternation exists, one entry after another.
LEMMA TurningExists ==
    ASSUME NEW left, NEW cur, NEW m \in Nat
    PROVE  \E f : Turning(f, left, cur, m)
  <1> DEFINE P == {n \in 0 .. m : \E f : Turning(f, left, cur, n)}
  <1>1. 0 \in P
    <2> DEFINE f == [n \in 0 .. 0 |-> StartTurn(left, cur)]
    <2>1. Turning(f, left, cur, 0)
      BY DEF Turning
    <2> QED
      BY <2>1
  <1>2. ASSUME NEW n \in 1 .. m, n - 1 \in P
        PROVE  n \in P
    <2>1. PICK f : Turning(f, left, cur, n - 1)
      BY <1>2
    <2> DEFINE last == TakeField(f[n - 1])
               g == [j \in 0 .. n |-> IF j = n THEN last ELSE f[j]]
    <2>2. n - 1 \in 0 .. n - 1
      OBVIOUS
    <2> HIDE DEF last
    <2>3. (\A j \in 0 .. n - 1 : g[j] = f[j]) /\ g[n] = last
      OBVIOUS
    <2>4. ASSUME NEW j \in 0 .. n
          PROVE  g[j] = IF j = 0 THEN StartTurn(left, cur) ELSE TakeField(g[j - 1])
      <3>1. CASE j = n
        <4>1. n # 0 /\ g[j - 1] = f[n - 1] /\ g[j] = last
          BY <2>2, <2>3, <3>1
        <4> HIDE DEF g
        <4> QED
          BY <3>1, <4>1 DEF last
      <3>2. CASE j # n
        <4>1. j \in 0 .. n - 1 /\ (j # 0 => j - 1 \in 0 .. n - 1)
          BY <3>2
        <4>2. f[j] = IF j = 0 THEN StartTurn(left, cur) ELSE TakeField(f[j - 1])
          BY <2>1, <4>1 DEF Turning
        <4> HIDE DEF g
        <4> QED
          BY <2>3, <4>1, <4>2
      <3> QED
        BY <3>1, <3>2
    <2>5. Turning(g, left, cur, n)
      BY <2>4 DEF Turning, g
    <2> QED
      BY <2>5
  <1>3. m \in P
    <2> HIDE DEF P
    <2> QED
      BY <1>1, <1>2, UpTo
  <1> QED
    BY <1>3

FieldsLeft(keys, class) == [p \in Parities |-> FieldsOf(keys, p, class)]

Interleaving(f, keys, cur, class, left, m) ==
    /\ InterleaveFields(keys, cur, class) = f[m].taken
    /\ f[0] = StartTurn(left, cur)
    /\ \A n \in 1 .. m : f[n] = TakeField(f[n - 1])

\* The loop gives the value such a function ends with.
LEMMA InterleaveRuns ==
    ASSUME NEW keys, NEW cur, NEW class, NEW left, left = FieldsLeft(keys, class),
           NEW m \in Nat, m = Len(left["Top"]) + Len(left["Bottom"])
    PROVE  \E f : Interleaving(f, keys, cur, class, left, m)
  <1> DEFINE ls == [p \in Parities |-> FieldsOf(keys, p, class)]
             Is(f) == f = [i \in 0 .. Len(ls["Top"]) + Len(ls["Bottom"]) |->
                        IF i = 0 THEN [taken |-> <<>>, left |-> ls, want |-> cur] ELSE TakeField(f[i - 1])]
             f == CHOOSE f : Is(f)
  <1>1. \A g : Is(g) <=> Turning(g, left, cur, m)
    <2>1. ls = left
      BY DEF FieldsLeft
    <2> HIDE DEF ls
    <2> QED
      BY <2>1 DEF Turning, StartTurn
  <1>2. \E g : Is(g)
    <2> HIDE DEF Is
    <2> QED
      BY <1>1, TurningExists
  <1>3. Is(f)
    <2> HIDE DEF Is
    <2> QED
      BY <1>2, Zenon
  <1>4. InterleaveFields(keys, cur, class) = f[Len(ls["Top"]) + Len(ls["Bottom"])].taken
    BY Zenon DEF InterleaveFields
  <1>5. Len(ls["Top"]) + Len(ls["Bottom"]) = m
    BY DEF FieldsLeft
  <1> HIDE DEF f
  <1>6. Turning(f, left, cur, m)
    <2> HIDE DEF Is
    <2> QED
      BY <1>1, <1>3
  <1>7. \A n \in 0 .. m : f[n] = IF n = 0 THEN StartTurn(left, cur) ELSE TakeField(f[n - 1])
    BY <1>6 DEF Turning
  <1>8. 0 \in 0 .. m /\ \A n \in 1 .. m : n \in 0 .. m /\ n # 0
    <2>1. \A k \in Nat : 0 \in 0 .. k /\ \A n \in 1 .. k : n \in 0 .. k /\ n # 0
      OBVIOUS
    <2> QED
      BY <2>1
  <1>9. InterleaveFields(keys, cur, class) = f[m].taken
    BY <1>4, <1>5
  <1> QED
    BY <1>7, <1>8, <1>9 DEF Interleaving

\* The fields of an ordered list of stores take turns.
LEMMA InterleaveIs ==
    ASSUME NEW S, NEW keys \in Seq(S), NEW cur \in Parities, NEW class
    PROVE  LET a == FieldsOf(keys, cur, class)
               b == FieldsOf(keys, Other(cur), class)
           IN  InterleaveFields(keys, cur, class) = [j \in 1 .. Len(a) + Len(b) |-> ByTurns(a, b, cur)[j]]
  <1> DEFINE a == FieldsOf(keys, cur, class)
             b == FieldsOf(keys, Other(cur), class)
             left == FieldsLeft(keys, class)
             m == Len(a) + Len(b)
  <1>1. \A p \in Parities : FieldsOf(keys, p, class) \in Seq(S)
    <2> SUFFICES ASSUME NEW p \in Parities  PROVE FieldsOf(keys, p, class) \in Seq(S)
      OBVIOUS
    <2> DEFINE I == {i \in DOMAIN keys : IsMarked(stores[keys[i]].fields[p], class)}
    <2>1. I \subseteq DOMAIN keys
      OBVIOUS
    <2> HIDE DEF I
    <2>2. Only(keys, I) \in Seq(S)
      BY <2>1, OnlySequence
    <2> QED
      BY <2>2 DEF FieldsOf, I
  <1>2. /\ a \in Seq(S) /\ b \in Seq(S)
        /\ left = [p \in Parities |-> IF p = cur THEN a ELSE b]
        /\ m \in Nat /\ m = Len(left["Top"]) + Len(left["Bottom"])
    <2>1. Other(cur) \in Parities /\ Other(cur) # cur /\ Parities = {cur, Other(cur)}
      BY Others
    <2>2. a \in Seq(S) /\ b \in Seq(S)
      BY <1>1, <2>1
    <2>3. \A p \in Parities : left[p] = IF p = cur THEN a ELSE b
      BY <2>1 DEF FieldsLeft
    <2>4. left = [p \in Parities |-> IF p = cur THEN a ELSE b]
      BY <2>1 DEF FieldsLeft
    <2>5. m \in Nat
      BY <2>2
    <2>6. "Top" \in Parities /\ "Bottom" \in Parities /\ "Top" # "Bottom" /\ (cur = "Top" \/ cur = "Bottom")
      BY DEF Parities
    <2> HIDE DEF a, b, left
    <2>7. \/ left["Top"] = a /\ left["Bottom"] = b
          \/ left["Top"] = b /\ left["Bottom"] = a
      BY <2>3, <2>6
    <2>8. m = Len(left["Top"]) + Len(left["Bottom"])
      <3>1. Len(a) \in Nat /\ Len(b) \in Nat
        BY <2>2
      <3> QED
        <4>1. CASE left["Top"] = a /\ left["Bottom"] = b
          BY <4>1
        <4>2. CASE left["Top"] = b /\ left["Bottom"] = a
          <5>1. m = Len(b) + Len(a)
            BY <3>1
          <5> QED
            BY <4>2, <5>1
        <4> QED
          BY <2>7, <4>1, <4>2
    <2> HIDE DEF m
    <2> QED
      BY <2>2, <2>4, <2>5, <2>8
  <1>0. left = FieldsLeft(keys, class)
    OBVIOUS
  <1> HIDE DEF a, b, left, m
  <1>10. m \in Nat /\ m = Len(left["Top"]) + Len(left["Bottom"])
    BY <1>2
  <1>11. PICK f : Interleaving(f, keys, cur, class, left, m)
    <2>1. m \in Nat
      BY <1>10
    <2>2. m = Len(left["Top"]) + Len(left["Bottom"])
      BY <1>10
    <2> QED
      BY <1>0, <2>1, <2>2, InterleaveRuns
  <1>3. /\ InterleaveFields(keys, cur, class) = f[m].taken /\ f[0] = StartTurn(left, cur)
        /\ \A n \in 1 .. m : f[n] = TakeField(f[n - 1])
    BY <1>11 DEF Interleaving
  <1> DEFINE P == {n \in 0 .. m : TurnOK(f[n], n, a, b, cur)}
  <1>4. 0 \in P
    <2>1. OfFirst(0, Len(a), Len(b)) = 0
      <3>1. Len(a) \in Nat /\ Len(b) \in Nat
        BY <1>2
      <3> QED
        BY <3>1 DEF OfFirst
    <2>2. SubSeq(a, 1, Len(a)) = a /\ SubSeq(b, 1, Len(b)) = b
      BY <1>2
    <2>3. f[0].taken = <<>> /\ f[0].left = left /\ f[0].want = cur
      BY <1>3 DEF StartTurn
    <2>4. f[0].left = [p \in Parities |-> IF p = cur THEN SubSeq(a, 0 + 1, Len(a))
                                            ELSE SubSeq(b, (0 - 0) + 1, Len(b))]
      <3>1. 0 + 1 = 1 /\ (0 - 0) + 1 = 1
        OBVIOUS
      <3>2. left = [p \in Parities |-> IF p = cur THEN SubSeq(a, 1, Len(a)) ELSE SubSeq(b, 1, Len(b))]
        BY <1>2, <2>2
      <3> QED
        BY <2>3, <3>1, <3>2
    <2>5. f[0].taken = [j \in 1 .. 0 |-> ByTurns(a, b, cur)[j]]
      BY <2>3
    <2>6. 0 % 2 = 0
      OBVIOUS
    <2>7. TurnOK(f[0], 0, a, b, cur)
      BY <2>1, <2>3, <2>4, <2>5, <2>6 DEF TurnOK
    <2> QED
      <3>1. \A k \in Nat : 0 \in 0 .. k
        OBVIOUS
      <3> QED
        BY <1>10, <2>7, <3>1
  <1>5. ASSUME NEW n \in 1 .. m, n - 1 \in P
        PROVE  n \in P
    <2>1. n - 1 \in 0 .. Len(a) + Len(b) - 1 /\ (n - 1) + 1 = n /\ n \in 0 .. m
      BY <1>2 DEF m
    <2>2. TurnOK(f[n - 1], n - 1, a, b, cur)
      BY <1>5
    <2>3. TurnOK(TakeField(f[n - 1]), (n - 1) + 1, a, b, cur)
      BY <1>2, <2>1, <2>2, TakeFieldOn
    <2> QED
      BY <1>3, <2>1, <2>3
  <1>6. TurnOK(f[m], m, a, b, cur)
    <2>1. m \in 0 .. m
      <3>1. \A k \in Nat : k \in 0 .. k
        OBVIOUS
      <3> QED
        BY <1>10, <3>1
    <2>2. m \in P
      <3>1. m \in Nat
        BY <1>10
      <3> HIDE DEF P
      <3> QED
        BY <1>4, <1>5, <2>1, <3>1, UpTo
    <2> QED
      BY <2>2
  <1> QED
    BY <1>3, <1>6 DEF TurnOK, m, a, b

-----------------------------------------------------------------------------
(* Alternation keeps every entry *)

\* Where the k-th entry of the first and of the second sequence stands.
PlaceOfFirst(k, m) == IF k <= m THEN 2 * k - 1 ELSE k + m
PlaceOfSecond(k, n) == IF k <= n THEN 2 * k ELSE k + n

\* Every place holds an entry that stands there.
AlternatesFrom(a, b, n, m, i) ==
    \/ \E k \in 1 .. n : PlaceOfFirst(k, m) = i /\ Alternate(a, b)[i] = a[k]
    \/ \E k \in 1 .. m : PlaceOfSecond(k, n) = i /\ Alternate(a, b)[i] = b[k]

\* Every place is taken, and every entry stands at its place.
Alternates(a, b, n, m) ==
    /\ \A i \in 1 .. n + m : AlternatesFrom(a, b, n, m, i)
    /\ \A k \in 1 .. n : /\ PlaceOfFirst(k, m) \in 1 .. n + m
                         /\ Alternate(a, b)[PlaceOfFirst(k, m)] = a[k]
    /\ \A k \in 1 .. m : /\ PlaceOfSecond(k, n) \in 1 .. n + m
                         /\ Alternate(a, b)[PlaceOfSecond(k, n)] = b[k]

\* Every entry of both sequences has its place among the turns.
LEMMA AlternateAt ==
    ASSUME NEW a, NEW b, NEW n \in Nat, NEW m \in Nat, Len(a) = n, Len(b) = m
    PROVE  Alternates(a, b, n, m)
  <1> DEFINE l == IF n < m THEN n ELSE m
             A == Alternate(a, b)
  <1>1. l \in Nat /\ l <= n /\ l <= m /\ (l = n \/ l = m) /\ (n > m <=> n > l) /\ (n > l => l = m) /\ (~(n > l) => l = n)
    OBVIOUS
  <1>2. \A i \in 1 .. n + m :
          A[i] = CASE i <= 2 * l -> IF i % 2 = 1 THEN a[(i + 1) \div 2] ELSE b[i \div 2]
                   [] i > 2 * l /\ n > l -> a[i - l]
                   [] OTHER -> b[i - l]
    BY DEF Alternate
  <1>3. \A i \in 1 .. n + m : \A h \in Nat :
          /\ i <= 2 * l /\ i = 2 * h - 1 => A[i] = a[h]
          /\ i <= 2 * l /\ i = 2 * h => A[i] = b[h]
          /\ i > 2 * l /\ n > l => A[i] = a[i - l]
          /\ i > 2 * l /\ ~(n > l) => A[i] = b[i - l]
    <2> SUFFICES ASSUME NEW i \in 1 .. n + m, NEW h \in Nat
                 PROVE  /\ i <= 2 * l /\ i = 2 * h - 1 => A[i] = a[h]
                        /\ i <= 2 * l /\ i = 2 * h => A[i] = b[h]
                        /\ i > 2 * l /\ n > l => A[i] = a[i - l]
                        /\ i > 2 * l /\ ~(n > l) => A[i] = b[i - l]
      OBVIOUS
    <2>1. i = 2 * h - 1 => i % 2 = 1 /\ (i + 1) \div 2 = h
      OBVIOUS
    <2>2. i = 2 * h => i % 2 = 0 /\ i \div 2 = h
      OBVIOUS
    <2> DEFINE early == i <= 2 * l
               late == i > 2 * l
               odd == i % 2 = 1
               x == a[(i + 1) \div 2]
               y == b[i \div 2]
               rest == a[i - l]
               other == b[i - l]
    <2>3. A[i] = CASE early -> (IF odd THEN x ELSE y)
                   [] late /\ n > l -> rest
                   [] OTHER -> other
      BY <1>2
    <2>4. late => ~early
      BY <1>1
    <2>5. i = 2 * h - 1 => odd /\ x = a[h]
      BY <2>1
    <2>6. i = 2 * h => ~odd /\ y = b[h]
      BY <2>2
    <2> HIDE DEF l, A, early, late, odd, x, y, rest, other
    <2>7. early => A[i] = IF odd THEN x ELSE y
      BY <2>3, <2>4
    <2>8. /\ late /\ n > l => A[i] = rest
          /\ late /\ ~(n > l) => A[i] = other
      BY <2>3, <2>4
    <2>9. /\ early /\ i = 2 * h - 1 => A[i] = a[h]
          /\ early /\ i = 2 * h => A[i] = b[h]
      BY <2>5, <2>6, <2>7
    <2> QED
      BY <2>8, <2>9 DEF early, late, rest, other
  <1> HIDE DEF l, A
  <1>4. ASSUME NEW i \in 1 .. n + m
        PROVE  AlternatesFrom(a, b, n, m, i)
    <2>1. PICK h \in Nat : i = 2 * h - 1 \/ i = 2 * h
      <3>1. PICK h \in Nat : i = 2 * h \/ i = 2 * h + 1
        <4>1. i \in Nat
          OBVIOUS
        <4> QED
          BY <4>1, Halves
      <3>2. CASE i = 2 * h
        BY <3>2
      <3>3. CASE i = 2 * h + 1
        <4>1. i = 2 * (h + 1) - 1 /\ h + 1 \in Nat
          BY <3>3
        <4> QED
          BY <4>1
      <3> QED
        BY <3>1, <3>2, <3>3
    <2>2. CASE i <= 2 * l /\ i = 2 * h - 1
      <3>1. h \in 1 .. n /\ PlaceOfFirst(h, m) = i /\ A[i] = a[h]
        BY <1>1, <1>3, <2>2 DEF PlaceOfFirst
      <3> QED
        BY <3>1 DEF AlternatesFrom, A
    <2>3. CASE i <= 2 * l /\ i = 2 * h
      <3>1. h \in 1 .. m /\ PlaceOfSecond(h, n) = i /\ A[i] = b[h]
        BY <1>1, <1>3, <2>3 DEF PlaceOfSecond
      <3> QED
        BY <3>1 DEF AlternatesFrom, A
    <2>4. CASE i > 2 * l /\ n > l
      <3>1. i - l \in 1 .. n /\ PlaceOfFirst(i - l, m) = i /\ A[i] = a[i - l]
        BY <1>1, <1>3, <2>4 DEF PlaceOfFirst
      <3> QED
        BY <3>1 DEF AlternatesFrom, A
    <2>5. CASE i > 2 * l /\ ~(n > l)
      <3>1. i - l \in 1 .. m /\ PlaceOfSecond(i - l, n) = i /\ A[i] = b[i - l]
        BY <1>1, <1>3, <2>5 DEF PlaceOfSecond
      <3> QED
        BY <3>1 DEF AlternatesFrom, A
    <2> QED
      BY <1>1, <2>1, <2>2, <2>3, <2>4, <2>5
  <1>5. ASSUME NEW k \in 1 .. n
        PROVE  PlaceOfFirst(k, m) \in 1 .. n + m /\ A[PlaceOfFirst(k, m)] = a[k]
    <2>1. CASE k <= m
      <3>1. PlaceOfFirst(k, m) = 2 * k - 1 /\ 2 * k - 1 \in 1 .. n + m /\ 2 * k - 1 <= 2 * l
        BY <1>1, <2>1 DEF PlaceOfFirst
      <3> QED
        BY <1>3, <3>1
    <2>2. CASE ~(k <= m)
      <3>1. PlaceOfFirst(k, m) = k + m /\ k + m \in 1 .. n + m /\ k + m > 2 * l /\ n > l /\ (k + m) - l = k
        BY <1>1, <2>2 DEF PlaceOfFirst
      <3> QED
        BY <1>3, <3>1
    <2> QED
      BY <2>1, <2>2
  <1>6. ASSUME NEW k \in 1 .. m
        PROVE  PlaceOfSecond(k, n) \in 1 .. n + m /\ A[PlaceOfSecond(k, n)] = b[k]
    <2>1. CASE k <= n
      <3>1. PlaceOfSecond(k, n) = 2 * k /\ 2 * k \in 1 .. n + m /\ 2 * k <= 2 * l
        BY <1>1, <2>1 DEF PlaceOfSecond
      <3> QED
        BY <1>3, <3>1
    <2>2. CASE ~(k <= n)
      <3>1. PlaceOfSecond(k, n) = k + n /\ k + n \in 1 .. n + m /\ k + n > 2 * l /\ ~(n > l) /\ (k + n) - l = k
        BY <1>1, <2>2 DEF PlaceOfSecond
      <3> QED
        BY <1>3, <3>1
    <2> QED
      BY <2>1, <2>2
  <1> QED
    BY <1>4, <1>5, <1>6 DEF A, Alternates

\* s names the members of E once each.
Lists(s, E) == s \in Seq(E) /\ IsInjective(s) /\ ToSet(s) = E

\* A list of E, entry by entry.
LEMMA ListsParts ==
    ASSUME NEW E, NEW s, Lists(s, E)
    PROVE  /\ Len(s) \in Nat /\ DOMAIN s = 1 .. Len(s)
           /\ \A k \in 1 .. Len(s) : s[k] \in E
           /\ \A x \in E : \E k \in 1 .. Len(s) : s[k] = x
           /\ \A j, k \in 1 .. Len(s) : s[j] = s[k] => j = k
  <1>1. s \in Seq(E) /\ Len(s) \in Nat /\ DOMAIN s = 1 .. Len(s)
    BY DEF Lists
  <1>2. \A k \in 1 .. Len(s) : s[k] \in E
    BY <1>1
  <1>3. \A x \in E : \E k \in 1 .. Len(s) : s[k] = x
    BY <1>1 DEF Lists, ToSet
  <1>4. \A j, k \in 1 .. Len(s) : s[j] = s[k] => j = k
    BY <1>1 DEF Lists, IsInjective
  <1> QED
    BY <1>1, <1>2, <1>3, <1>4

\* Two lists that take turns list what both list.
LEMMA AlternateLists ==
    ASSUME NEW D, NEW E, D \cap E = {}, NEW a, NEW b, Lists(a, D), Lists(b, E)
    PROVE  Lists([j \in 1 .. Len(a) + Len(b) |-> Alternate(a, b)[j]], D \cup E)
  <1> DEFINE n == Len(a)
             m == Len(b)
             A == Alternate(a, b)
             s == [j \in 1 .. n + m |-> A[j]]
  <1>1. /\ n \in Nat /\ m \in Nat /\ DOMAIN a = 1 .. n /\ DOMAIN b = 1 .. m
        /\ \A k \in 1 .. n : a[k] \in D
        /\ \A k \in 1 .. m : b[k] \in E
        /\ \A x \in D : \E k \in 1 .. n : a[k] = x
        /\ \A x \in E : \E k \in 1 .. m : b[k] = x
        /\ \A j, k \in 1 .. n : a[j] = a[k] => j = k
        /\ \A j, k \in 1 .. m : b[j] = b[k] => j = k
    BY ListsParts
  <1>2. /\ \A i \in 1 .. n + m : AlternatesFrom(a, b, n, m, i)
        /\ \A k \in 1 .. n : PlaceOfFirst(k, m) \in 1 .. n + m /\ A[PlaceOfFirst(k, m)] = a[k]
        /\ \A k \in 1 .. m : PlaceOfSecond(k, n) \in 1 .. n + m /\ A[PlaceOfSecond(k, n)] = b[k]
    <2>1. n \in Nat /\ m \in Nat /\ Len(a) = n /\ Len(b) = m
      BY <1>1
    <2>2. Alternates(a, b, n, m)
      <3> HIDE DEF n, m
      <3> QED
        BY <2>1, AlternateAt
    <2> HIDE DEF n, m
    <2> QED
      BY <2>2 DEF Alternates
  <1>3. /\ DOMAIN s = 1 .. n + m /\ s = [j \in 1 .. n + m |-> s[j]] /\ n + m \in Nat
        /\ \A j \in 1 .. n + m : s[j] = A[j]
    BY <1>1
  <1> HIDE DEF n, m, A, s
  <1>4. \A i \in 1 .. n + m : \/ \E k \in 1 .. n : PlaceOfFirst(k, m) = i /\ s[i] = a[k]
                              \/ \E k \in 1 .. m : PlaceOfSecond(k, n) = i /\ s[i] = b[k]
    BY <1>2, <1>3 DEF AlternatesFrom, A
  <1>5. s \in Seq(D \cup E) /\ Len(s) = n + m
    <2>1. \A i \in 1 .. n + m : s[i] \in D \cup E
      BY <1>1, <1>4
    <2> QED
      BY <1>3, <2>1
  <1>6. ASSUME NEW i \in 1 .. n + m, NEW j \in 1 .. n + m, s[i] = s[j]
        PROVE  i = j
    <2>1. CASE s[i] \in D
      <3>1. PICK k \in 1 .. n : PlaceOfFirst(k, m) = i /\ s[i] = a[k]
        BY <1>1, <1>4, <2>1
      <3>2. PICK h \in 1 .. n : PlaceOfFirst(h, m) = j /\ s[j] = a[h]
        BY <1>1, <1>4, <1>6, <2>1
      <3>3. a[k] = a[h]
        BY <1>6, <3>1, <3>2
      <3>4. \A q, r \in 1 .. n : a[q] = a[r] => q = r
        BY <1>1
      <3>5. k = h
        BY <3>3, <3>4
      <3> QED
        BY <3>1, <3>2, <3>5
    <2>2. CASE s[i] \notin D
      <3>1. PICK k \in 1 .. m : PlaceOfSecond(k, n) = i /\ s[i] = b[k]
        BY <1>1, <1>4, <2>2
      <3>2. PICK h \in 1 .. m : PlaceOfSecond(h, n) = j /\ s[j] = b[h]
        BY <1>1, <1>4, <1>6, <2>2
      <3>3. b[k] = b[h]
        BY <1>6, <3>1, <3>2
      <3>4. \A q, r \in 1 .. m : b[q] = b[r] => q = r
        BY <1>1
      <3>5. k = h
        BY <3>3, <3>4
      <3> QED
        BY <3>1, <3>2, <3>5
    <2> QED
      BY <2>1, <2>2
  <1>7. ASSUME NEW x \in D \cup E
        PROVE  \E i \in 1 .. n + m : s[i] = x
    <2>1. CASE x \in D
      <3>1. PICK k \in 1 .. n : a[k] = x
        BY <1>1, <2>1
      <3> QED
        BY <1>2, <1>3, <3>1
    <2>2. CASE x \in E
      <3>1. PICK k \in 1 .. m : b[k] = x
        BY <1>1, <2>2
      <3> QED
        BY <1>2, <1>3, <3>1
    <2> QED
      BY <2>1, <2>2
  <1>8. ToSet(s) = D \cup E
    <2>1. ToSet(s) \subseteq D \cup E
      BY <1>3, <1>5 DEF ToSet
    <2>2. D \cup E \subseteq ToSet(s)
      BY <1>3, <1>7 DEF ToSet
    <2> QED
      BY <2>1, <2>2
  <1>9. Lists(s, D \cup E)
    BY <1>3, <1>5, <1>6, <1>8 DEF Lists, IsInjective
  <1> QED
    BY <1>9 DEF s, n, m, A

-----------------------------------------------------------------------------
(* Lists of a set *)

\* A function on 1 .. n has every member of E for a value, once.
NamesEach(s, E, n) ==
    /\ s = [i \in 1 .. n |-> s[i]]
    /\ \A k \in 1 .. n : s[k] \in E
    /\ \A x \in E : \E k \in 1 .. n : s[k] = x
    /\ \A j, k \in 1 .. n : s[j] = s[k] => j = k

\* What makes a sequence a list of E.
LEMMA IsLists ==
    ASSUME NEW E, NEW n \in Nat, NEW s, NamesEach(s, E, n)
    PROVE  Lists(s, E) /\ Len(s) = n
  <1> USE DEF NamesEach
  <1>1. s \in Seq(E) /\ Len(s) = n /\ DOMAIN s = 1 .. n
    OBVIOUS
  <1>2. ToSet(s) = E
    <2>1. ToSet(s) \subseteq E
      BY <1>1 DEF ToSet
    <2>2. E \subseteq ToSet(s)
      BY <1>1 DEF ToSet
    <2> QED
      BY <2>1, <2>2
  <1>3. IsInjective(s)
    BY <1>1 DEF IsInjective
  <1> QED
    BY <1>1, <1>2, <1>3 DEF Lists

\* The order of a stable sort by value.
ByValue(K, value) == {e \in K \X K : \/ value[e[1]] < value[e[2]]
                                     \/ value[e[1]] = value[e[2]] /\ e[1] < e[2]}

\* It is a total order.
LEMMA ValueOrder ==
    ASSUME NEW K, K \subseteq Nat, NEW value, \A k \in K : value[k] \in Int
    PROVE  TotalOrder(K, ByValue(K, value))
  <1> DEFINE R == ByValue(K, value)
  <1>1. \A j, k \in K : <<j, k>> \in R <=> value[j] < value[k] \/ (value[j] = value[k] /\ j < k)
    BY DEF ByValue
  <1> HIDE DEF R
  <1>2. \A j \in K : <<j, j>> \notin R
    BY <1>1
  <1>3. ASSUME NEW i \in K, NEW j \in K, NEW k \in K, <<i, j>> \in R, <<j, k>> \in R
        PROVE  <<i, k>> \in R
    <2>1. i \in Nat /\ j \in Nat /\ k \in Nat /\ value[i] \in Int /\ value[j] \in Int /\ value[k] \in Int
      OBVIOUS
    <2> QED
      BY <1>1, <1>3, <2>1
  <1>4. ASSUME NEW j \in K, NEW k \in K, j # k
        PROVE  <<j, k>> \in R \/ <<k, j>> \in R
    <2>1. j \in Nat /\ k \in Nat /\ value[j] \in Int /\ value[k] \in Int
      OBVIOUS
    <2> QED
      BY <1>1, <1>4, <2>1
  <1> QED
    BY <1>2, <1>3, <1>4 DEF TotalOrder, R

\* A stable sort lists what it sorts.
LEMMA AscendingLists ==
    ASSUME NEW K, K \subseteq Nat, IsFiniteSet(K), NEW value, \A k \in K : value[k] \in Int
    PROVE  Lists(Ascending(K, value), K)
  <1> DEFINE R == ByValue(K, value)
             s == InOrder(K, R)
             n == Cardinality(K)
  <1>1. Ascending(K, value) = s
    BY DEF Ascending, ByValue
  <1>3. TotalOrder(K, R)
    BY ValueOrder
  <1> HIDE DEF R
  <1>4. RunsThrough(s, K, R) /\ n \in Nat
    BY <1>3, InOrderIs, FS_CardinalityType
  <1> HIDE DEF s, n
  <1>5. s \in [1 .. n -> K] /\ \A k \in K : \E i \in 1 .. n : s[i] = k
    BY <1>4 DEF RunsThrough, n
  <1>6. ASSUME NEW i \in 1 .. n, NEW j \in 1 .. n, s[i] = s[j]
        PROVE  i = j
    <2>1. <<s[i], s[j]>> \in R <=> i < j
      BY <1>4, <1>5 DEF RunsThrough
    <2>2. <<s[j], s[i]>> \in R <=> j < i
      BY <1>4, <1>5 DEF RunsThrough
    <2>3. <<s[i], s[j]>> \notin R /\ <<s[j], s[i]>> \notin R
      BY <1>3, <1>5, <1>6 DEF TotalOrder
    <2> QED
      BY <1>4, <2>1, <2>2, <2>3
  <1>7. Lists(s, K)
    <2>1. NamesEach(s, K, n)
      BY <1>5, <1>6 DEF NamesEach
    <2> QED
      BY <1>4, <2>1, IsLists
  <1> QED
    BY <1>1, <1>7

\* So does a descending one.
LEMMA DescendingLists ==
    ASSUME NEW K, K \subseteq Nat, IsFiniteSet(K), NEW value, \A k \in K : value[k] \in Int
    PROVE  Lists(Descending(K, value), K)
  <1> DEFINE v == [k \in K |-> -value[k]]
  <1>1. \A k \in K : v[k] \in Int
    OBVIOUS
  <1>2. Lists(Ascending(K, v), K)
    <2> HIDE DEF v
    <2> QED
      BY <1>1, AscendingLists
  <1> QED
    BY <1>2 DEF Descending

\* Entries at some positions, one list after another, backwards, with its first two
\* entries swapped, or with a parity beside each.
LEMMA OnlyLists ==
    ASSUME NEW E, NEW s, Lists(s, E), NEW I, I \subseteq DOMAIN s
    PROVE  Lists(Only(s, I), {s[i] : i \in I})
  <1> DEFINE D == {s[i] : i \in I}
             o == Only(s, I)
  <1>1. s \in Seq(E) /\ IsInjective(s)
    BY DEF Lists
  <1>2. o \in Seq(E) /\ ToSet(o) = D /\ IsInjective(o)
    BY <1>1, OnlySequence
  <1> HIDE DEF D, o
  <1>3. o \in Seq(D)
    <2>1. \A i \in DOMAIN o : o[i] \in D
      BY <1>2 DEF ToSet
    <2> QED
      BY <1>2, <2>1
  <1> QED
    BY <1>2, <1>3 DEF Lists, D, o

\* s is a followed by b, n and m entries.
IsConcat(s, a, b, n, m) ==
    /\ s = [i \in 1 .. n + m |-> s[i]]
    /\ \A i \in 1 .. n + m : s[i] = IF i <= n THEN a[i] ELSE b[i - n]

\* One sequence after another.
LEMMA Concat ==
    ASSUME NEW S, NEW a \in Seq(S), NEW b \in Seq(S), NEW n \in Nat, NEW m \in Nat,
           Len(a) = n, Len(b) = m
    PROVE  a \o b \in Seq(S) /\ Len(a \o b) = n + m /\ IsConcat(a \o b, a, b, n, m)
  <1> DEFINE s == a \o b
  <1>1. s \in Seq(S) /\ Len(s) = n + m
    OBVIOUS
  <1>2. \A i \in 1 .. n + m : s[i] = IF i <= n THEN a[i] ELSE b[i - n]
    OBVIOUS
  <1> HIDE DEF s
  <1>3. s = [i \in 1 .. n + m |-> s[i]]
    <2>1. DOMAIN s = 1 .. Len(s) /\ s = [i \in DOMAIN s |-> s[i]]
      BY <1>1
    <2> QED
      BY <1>1, <2>1
  <1> QED
    BY <1>1, <1>2, <1>3 DEF s, IsConcat

\* Lists of different things, one after another.
LEMMA ConcatLists ==
    ASSUME NEW D, NEW E, D \cap E = {}, NEW a, NEW b, Lists(a, D), Lists(b, E)
    PROVE  Lists(a \o b, D \cup E) /\ Len(a \o b) = Len(a) + Len(b)
  <1> DEFINE n == Len(a)
             m == Len(b)
             s == a \o b
  <1>1. /\ n \in Nat /\ m \in Nat
        /\ \A k \in 1 .. n : a[k] \in D
        /\ \A x \in D : \E k \in 1 .. n : a[k] = x
        /\ \A j, k \in 1 .. n : a[j] = a[k] => j = k
    BY ListsParts
  <1>2. /\ m \in Nat
        /\ \A k \in 1 .. m : b[k] \in E
        /\ \A x \in E : \E k \in 1 .. m : b[k] = x
        /\ \A j, k \in 1 .. m : b[j] = b[k] => j = k
    BY ListsParts
  <1>3. /\ s = [i \in 1 .. n + m |-> s[i]]
        /\ \A i \in 1 .. n : s[i] = a[i]
        /\ \A i \in 1 .. n + m : i > n => s[i] = b[i - n]
    <2>1. a \in Seq(D) /\ b \in Seq(E)
      BY DEF Lists
    <2> DEFINE U == D \cup E
    <2>2. a \in Seq(U) /\ b \in Seq(U)
      BY <2>1
    <2> HIDE DEF U
    <2>3. n \in Nat /\ m \in Nat /\ Len(a) = n /\ Len(b) = m
      BY <1>1, <1>2
    <2> HIDE DEF n, m
    <2>4. /\ s = [i \in 1 .. n + m |-> s[i]]
          /\ \A i \in 1 .. n + m : s[i] = IF i <= n THEN a[i] ELSE b[i - n]
      <3>1. IsConcat(s, a, b, n, m)
        BY <2>2, <2>3, Concat
      <3> QED
        BY <3>1 DEF IsConcat
    <2> HIDE DEF s
    <2>5. \A i \in 1 .. n : i \in 1 .. n + m /\ i <= n
      BY <2>3
    <2>6. \A i \in 1 .. n + m : i > n => ~(i <= n)
      BY <2>3
    <2> QED
      BY <2>4, <2>5, <2>6
  <1> HIDE DEF n, m, s
  <1>9. n \in Nat /\ m \in Nat
    BY <1>1, <1>2
  <1>10. ASSUME NEW i \in 1 .. n + m
         PROVE  \/ i \in 1 .. n /\ s[i] = a[i] /\ s[i] \in D
                \/ i > n /\ i - n \in 1 .. m /\ s[i] = b[i - n] /\ s[i] \in E
    <2>1. CASE i <= n
      <3>1. i \in 1 .. n
        BY <1>9, <2>1
      <3> QED
        BY <1>1, <1>3, <3>1
    <2>2. CASE ~(i <= n)
      <3>1. i > n /\ i - n \in 1 .. m
        BY <1>9, <2>2
      <3> QED
        BY <1>2, <1>3, <3>1
    <2> QED
      BY <2>1, <2>2
  <1>4. \A k \in 1 .. n + m : s[k] \in D \cup E
    BY <1>10
  <1>5. ASSUME NEW x \in D \cup E
        PROVE  \E k \in 1 .. n + m : s[k] = x
    <2>1. CASE x \in D
      <3>1. PICK k \in 1 .. n : a[k] = x
        BY <1>1, <2>1
      <3>2. k \in 1 .. n + m
        BY <1>9
      <3> QED
        BY <1>3, <3>1, <3>2
    <2>2. CASE x \in E
      <3>1. PICK k \in 1 .. m : b[k] = x
        BY <1>2, <2>2
      <3>2. n + k \in 1 .. n + m /\ n + k > n /\ (n + k) - n = k
        BY <1>1
      <3>3. s[n + k] = x
        BY <1>3, <3>1, <3>2
      <3> QED
        BY <3>2, <3>3
    <2> QED
      BY <2>1, <2>2
  <1>6. ASSUME NEW j \in 1 .. n + m, NEW k \in 1 .. n + m, s[j] = s[k]
        PROVE  j = k
    <2>1. CASE s[j] \in D
      <3>1. s[j] = a[j] /\ s[k] = a[k] /\ j \in 1 .. n /\ k \in 1 .. n
        BY <1>6, <1>10, <2>1
      <3> QED
        BY <1>1, <1>6, <3>1
    <2>2. CASE s[j] \notin D
      <3>1. s[j] = b[j - n] /\ s[k] = b[k - n] /\ j - n \in 1 .. m /\ k - n \in 1 .. m
        BY <1>6, <1>10, <2>2
      <3>2. j - n = k - n
        BY <1>2, <1>6, <3>1
      <3> QED
        BY <1>9, <3>2
    <2> QED
      BY <2>1, <2>2
  <1>7. n + m \in Nat
    BY <1>9
  <1>8. Lists(s, D \cup E) /\ Len(s) = n + m
    <2> DEFINE U == D \cup E
               l == n + m
    <2>1. s = [i \in 1 .. l |-> s[i]] /\ l \in Nat
      BY <1>3, <1>7
    <2>2. \A k \in 1 .. l : s[k] \in U
      BY <1>4
    <2>3. \A x \in U : \E k \in 1 .. l : s[k] = x
      BY <1>5
    <2>4. \A j, k \in 1 .. l : s[j] = s[k] => j = k
      BY <1>6
    <2> HIDE DEF U, l
    <2>5. Lists(s, U) /\ Len(s) = l
      <3>1. NamesEach(s, U, l)
        BY <2>1, <2>2, <2>3, <2>4 DEF NamesEach
      <3> QED
        BY <2>1, <3>1, IsLists
    <2> QED
      BY <2>5 DEF U, l
  <1> QED
    BY <1>8 DEF s, n, m

\* A list backwards.
LEMMA ReverseLists ==
    ASSUME NEW E, NEW a, Lists(a, E)
    PROVE  Lists(Reverse(a), E)
  <1> DEFINE n == Len(a)
             s == Reverse(a)
  <1>1. /\ n \in Nat
        /\ \A k \in 1 .. n : a[k] \in E
        /\ \A x \in E : \E k \in 1 .. n : a[k] = x
        /\ \A j, k \in 1 .. n : a[j] = a[k] => j = k
    BY ListsParts
  <1>2. s = [i \in 1 .. n |-> s[i]] /\ \A i \in 1 .. n : s[i] = a[(n - i) + 1]
    BY DEF Reverse
  <1> HIDE DEF n, s
  <1>3. \A k \in 1 .. n : (n - k) + 1 \in 1 .. n /\ (n - ((n - k) + 1)) + 1 = k
    BY <1>1
  <1>4. \A k \in 1 .. n : s[k] \in E
    BY <1>1, <1>2, <1>3
  <1>5. \A x \in E : \E k \in 1 .. n : s[k] = x
    <2> SUFFICES ASSUME NEW x \in E  PROVE \E k \in 1 .. n : s[k] = x
      OBVIOUS
    <2>1. PICK k \in 1 .. n : a[k] = x
      BY <1>1
    <2>2. s[(n - k) + 1] = a[k]
      BY <1>2, <1>3
    <2> QED
      BY <1>3, <2>1, <2>2
  <1>6. ASSUME NEW j \in 1 .. n, NEW k \in 1 .. n, s[j] = s[k]
        PROVE  j = k
    <2>1. (n - j) + 1 = (n - k) + 1
      <3> DEFINE g == (n - j) + 1
                 h == (n - k) + 1
      <3>1. g \in 1 .. n /\ h \in 1 .. n /\ a[g] = a[h]
        BY <1>2, <1>3, <1>6
      <3> HIDE DEF g, h
      <3> QED
        BY <1>1, <3>1 DEF g, h
    <2> QED
      BY <1>1, <2>1
  <1>7. Lists(s, E)
    <2>1. NamesEach(s, E, n)
      BY <1>2, <1>4, <1>5, <1>6 DEF NamesEach
    <2> QED
      BY <1>1, <2>1, IsLists
  <1> QED
    BY <1>7 DEF s

\* A list with its first two entries swapped.
LEMMA SwapLists ==
    ASSUME NEW E, NEW a, Lists(a, E), Len(a) > 1
    PROVE  Lists(SwapFirst(a), E)
  <1> DEFINE n == Len(a)
             s == SwapFirst(a)
             at(i) == IF i = 1 THEN 2 ELSE IF i = 2 THEN 1 ELSE i
  <1>1. /\ n \in Nat /\ n > 1
        /\ \A k \in 1 .. n : a[k] \in E
        /\ \A x \in E : \E k \in 1 .. n : a[k] = x
        /\ \A j, k \in 1 .. n : a[j] = a[k] => j = k
    BY ListsParts
  <1>2. s = [i \in 1 .. n |-> s[i]] /\ \A i \in 1 .. n : s[i] = a[at(i)]
    <2>1. a \in Seq(E) /\ DOMAIN a = 1 .. n
      BY DEF Lists
    <2> DEFINE t == SubSeq(a, 3, n)
               h == <<a[2], a[1]>>
    <2>2. t \in Seq(E) /\ Len(t) = n - 2 /\ \A i \in 1 .. n - 2 : t[i] = a[i + 2]
      BY <1>1, <2>1
    <2>3. h \in Seq(E) /\ Len(h) = 2 /\ h[1] = a[2] /\ h[2] = a[1]
      BY <1>1
    <2>4. s = h \o t
      BY DEF SwapFirst
    <2> HIDE DEF n, s, t, h
    <2>7. h \in Seq(E) /\ t \in Seq(E) /\ Len(h) = 2 /\ Len(t) = n - 2 /\ n - 2 \in Nat
      BY <1>1, <2>2, <2>3
    <2>8. 2 + (n - 2) = n
      BY <1>1
    <2>9. /\ s = [i \in 1 .. 2 + (n - 2) |-> s[i]]
          /\ \A i \in 1 .. 2 + (n - 2) : s[i] = IF i <= 2 THEN h[i] ELSE t[i - 2]
      <3>1. IsConcat(s, h, t, 2, n - 2)
        <4> DEFINE k == n - 2
        <4>1. 2 \in Nat /\ k \in Nat /\ Len(t) = k
          BY <2>7
        <4> HIDE DEF k
        <4>2. IsConcat(s, h, t, 2, k)
          BY <2>4, <2>7, <4>1, Concat
        <4> QED
          BY <4>2 DEF k
      <3> QED
        BY <3>1 DEF IsConcat
    <2>5. /\ s = [i \in 1 .. n |-> s[i]]
          /\ \A i \in 1 .. n : s[i] = IF i <= 2 THEN h[i] ELSE t[i - 2]
      BY <2>8, <2>9
    <2>6. ASSUME NEW i \in 1 .. n
          PROVE  s[i] = a[at(i)]
      <3>1. CASE i = 1
        BY <1>1, <2>3, <2>5, <3>1
      <3>2. CASE i = 2
        BY <1>1, <2>3, <2>5, <3>2
      <3>3. CASE i # 1 /\ i # 2
        <4>1. i - 2 \in 1 .. n - 2 /\ (i - 2) + 2 = i /\ ~(i <= 2)
          BY <1>1, <3>3
        <4> QED
          BY <2>2, <2>5, <3>3, <4>1
      <3> QED
        BY <3>1, <3>2, <3>3
    <2> QED
      BY <2>5, <2>6
  <1>3. \A k \in 1 .. n : at(k) \in 1 .. n /\ at(at(k)) = k
    BY <1>1
  <1> HIDE DEF n, s, at
  <1>4. \A k \in 1 .. n : s[k] \in E
    BY <1>1, <1>2, <1>3
  <1>5. \A x \in E : \E k \in 1 .. n : s[k] = x
    <2> SUFFICES ASSUME NEW x \in E  PROVE \E k \in 1 .. n : s[k] = x
      OBVIOUS
    <2>1. PICK k \in 1 .. n : a[k] = x
      BY <1>1
    <2>2. s[at(k)] = a[k]
      BY <1>2, <1>3
    <2> QED
      BY <1>3, <2>1, <2>2
  <1>6. ASSUME NEW j \in 1 .. n, NEW k \in 1 .. n, s[j] = s[k]
        PROVE  j = k
    <2>1. at(j) = at(k)
      BY <1>1, <1>2, <1>3, <1>6
    <2> QED
      BY <1>3, <2>1
  <1>7. Lists(s, E)
    <2>1. NamesEach(s, E, n)
      BY <1>2, <1>4, <1>5, <1>6 DEF NamesEach
    <2> QED
      BY <1>1, <2>1, IsLists
  <1> QED
    BY <1>7 DEF s

\* A list with a parity beside each entry.
LEMMA TaggedLists ==
    ASSUME NEW K, NEW a, Lists(a, K), NEW p
    PROVE  Lists(Tagged(a, p), K \X {p}) /\ Len(Tagged(a, p)) = Len(a)
  <1> DEFINE n == Len(a)
             s == Tagged(a, p)
             E == K \X {p}
  <1>1. /\ n \in Nat /\ DOMAIN a = 1 .. n
        /\ \A k \in 1 .. n : a[k] \in K
        /\ \A x \in K : \E k \in 1 .. n : a[k] = x
        /\ \A j, k \in 1 .. n : a[j] = a[k] => j = k
    BY ListsParts
  <1>2. s = [i \in 1 .. n |-> s[i]] /\ \A i \in 1 .. n : s[i] = <<a[i], p>>
    BY <1>1 DEF Tagged
  <1> HIDE DEF n, s
  <1>3. \A k \in 1 .. n : s[k] \in E
    BY <1>1, <1>2
  <1>4. \A x \in E : \E k \in 1 .. n : s[k] = x
    BY <1>1, <1>2
  <1>5. \A j, k \in 1 .. n : s[j] = s[k] => j = k
    BY <1>1, <1>2
  <1> HIDE DEF E
  <1>6. Lists(s, E) /\ Len(s) = n
    <2>1. NamesEach(s, E, n)
      BY <1>2, <1>3, <1>4, <1>5 DEF NamesEach
    <2> QED
      BY <1>1, <2>1, IsLists
  <1> QED
    BY <1>6 DEF s, E, n

-----------------------------------------------------------------------------
(* Entries that follow an order *)

\* Of any two entries of s, the earlier stands in relation R to the later.
Follows(s, R) == \A i, j \in DOMAIN s : i < j => <<s[i], s[j]>> \in R

\* The pairs of which the second has no smaller value.
StepsUp(K, value) == {e \in K \X K : value[e[1]] <= value[e[2]]}

\* The pairs the other way round.
Turned(R) == {<<e[2], e[1]>> : e \in R}

\* A stable sort never puts a greater value first.
LEMMA AscendingFollows ==
    ASSUME NEW K, K \subseteq Nat, IsFiniteSet(K), NEW value, \A k \in K : value[k] \in Int
    PROVE  Follows(Ascending(K, value), StepsUp(K, value))
  <1> DEFINE R == ByValue(K, value)
             s == InOrder(K, R)
             n == Cardinality(K)
  <1>1. Ascending(K, value) = s
    BY DEF Ascending, ByValue
  <1>2. \A e \in R : e \in StepsUp(K, value)
    <2> SUFFICES ASSUME NEW e \in K \X K, value[e[1]] < value[e[2]] \/ value[e[1]] = value[e[2]]
                 PROVE  value[e[1]] <= value[e[2]]
      BY DEF ByValue, StepsUp
    <2>1. value[e[1]] \in Int /\ value[e[2]] \in Int
      OBVIOUS
    <2> QED
      BY <2>1
  <1>3. TotalOrder(K, R)
    BY ValueOrder
  <1> HIDE DEF R
  <1>4. RunsThrough(s, K, R)
    BY <1>3, InOrderIs
  <1> HIDE DEF s
  <1>5. \A i, j \in DOMAIN s : i < j => <<s[i], s[j]>> \in R
    BY <1>4 DEF RunsThrough
  <1> QED
    BY <1>1, <1>2, <1>5 DEF Follows

\* Entries at some positions stay in the order.
LEMMA OnlyFollows ==
    ASSUME NEW E, NEW s, Lists(s, E), NEW R, Follows(s, R), NEW I, I \subseteq DOMAIN s
    PROVE  Follows(Only(s, I), R)
  <1> DEFINE f == Positions(I)
             n == Cardinality(I)
             o == Only(s, I)
  <1>1. s \in Seq(E)
    BY DEF Lists
  <1>2. IsFiniteSet(I) /\ o \in Seq(E) /\ Len(o) = n
    BY <1>1, OnlySequence
  <1>3. I \subseteq Int
    BY <1>1
  <1>4. Climbs(f, I, n) /\ \A i \in 1 .. n : f[i] \in I /\ o[i] = s[f[i]]
    BY <1>2, <1>3, OnlyIs, PositionsClimb
  <1>5. DOMAIN o = 1 .. n
    BY <1>2
  <1> HIDE DEF f, n, o
  <1>6. ASSUME NEW i \in 1 .. n, NEW j \in 1 .. n, i < j
        PROVE  <<o[i], o[j]>> \in R
    <2>1. f[i] < f[j] /\ f[i] \in DOMAIN s /\ f[j] \in DOMAIN s
      BY <1>4, <1>6 DEF Climbs
    <2> QED
      BY <1>4, <2>1 DEF Follows
  <1> QED
    BY <1>5, <1>6 DEF Follows, o

\* A list backwards follows the order turned round.
LEMMA ReverseFollows ==
    ASSUME NEW E, NEW a, Lists(a, E), NEW R, Follows(a, R)
    PROVE  Follows(Reverse(a), Turned(R))
  <1> DEFINE n == Len(a)
             s == Reverse(a)
  <1>1. n \in Nat /\ DOMAIN a = 1 .. n
    BY ListsParts
  <1>2. DOMAIN s = 1 .. n /\ \A i \in 1 .. n : s[i] = a[(n - i) + 1]
    BY DEF Reverse
  <1> HIDE DEF n, s
  <1>3. ASSUME NEW i \in 1 .. n, NEW j \in 1 .. n, i < j
        PROVE  <<s[i], s[j]>> \in Turned(R)
    <2> DEFINE g == (n - j) + 1
               h == (n - i) + 1
    <2>1. g \in 1 .. n /\ h \in 1 .. n /\ g < h
      BY <1>1, <1>3
    <2>2. s[j] = a[g] /\ s[i] = a[h]
      BY <1>2
    <2> HIDE DEF g, h
    <2>3. <<a[g], a[h]>> \in R
      BY <1>1, <2>1 DEF Follows
    <2> QED
      BY <2>2, <2>3 DEF Turned
  <1> QED
    BY <1>2, <1>3 DEF Follows, s

\* One list after another keeps the order if it holds between them.
LEMMA ConcatFollows ==
    ASSUME NEW D, NEW E, NEW a, NEW b, Lists(a, D), Lists(b, E), NEW R,
           Follows(a, R), Follows(b, R), \A x \in D, y \in E : <<x, y>> \in R
    PROVE  Follows(a \o b, R)
  <1> DEFINE n == Len(a)
             m == Len(b)
             s == a \o b
             U == D \cup E
  <1>1. /\ n \in Nat /\ DOMAIN a = 1 .. n /\ \A k \in 1 .. n : a[k] \in D
        /\ m \in Nat /\ DOMAIN b = 1 .. m /\ \A k \in 1 .. m : b[k] \in E
    BY ListsParts
  <1>2. a \in Seq(U) /\ b \in Seq(U)
    BY DEF Lists
  <1>3. s \in Seq(U) /\ Len(s) = n + m /\ IsConcat(s, a, b, n, m)
    <2> HIDE DEF U, n, m
    <2> QED
      BY <1>1, <1>2, Concat DEF n, m
  <1>4. DOMAIN s = 1 .. n + m /\ \A i \in 1 .. n + m : s[i] = IF i <= n THEN a[i] ELSE b[i - n]
    BY <1>3 DEF IsConcat
  <1> HIDE DEF n, m, s, U
  <1>5. ASSUME NEW i \in 1 .. n + m, NEW j \in 1 .. n + m, i < j
        PROVE  <<s[i], s[j]>> \in R
    <2>1. CASE j <= n
      <3>1. i \in 1 .. n /\ j \in 1 .. n /\ s[i] = a[i] /\ s[j] = a[j]
        BY <1>1, <1>4, <1>5, <2>1
      <3> QED
        BY <1>1, <1>5, <3>1 DEF Follows
    <2>2. CASE i <= n /\ ~(j <= n)
      <3>1. i \in 1 .. n /\ j - n \in 1 .. m /\ s[i] = a[i] /\ s[j] = b[j - n]
        BY <1>1, <1>4, <2>2
      <3> QED
        BY <1>1, <3>1
    <2>3. CASE ~(i <= n)
      <3> DEFINE g == i - n
                 h == j - n
      <3>1. g \in 1 .. m /\ h \in 1 .. m /\ g < h /\ s[i] = b[g] /\ s[j] = b[h]
        BY <1>1, <1>4, <1>5, <2>3
      <3> HIDE DEF g, h
      <3> QED
        BY <1>1, <3>1 DEF Follows
    <2> QED
      BY <1>1, <1>5, <2>1, <2>2, <2>3
  <1> QED
    BY <1>4, <1>5 DEF Follows, s

\* Where entries stand that take turns: each sequence in its order, and two of one
\* sequence in a row only behind the whole of the other.
PlacesInTurn(n, m) ==
    /\ \A k, h \in 1 .. n : PlaceOfFirst(k, m) < PlaceOfFirst(h, m) => k < h
    /\ \A k, h \in 1 .. m : PlaceOfSecond(k, n) < PlaceOfSecond(h, n) => k < h
    /\ \A k, h \in 1 .. n : \A q \in 1 .. m :
         PlaceOfFirst(h, m) = PlaceOfFirst(k, m) + 1 => PlaceOfSecond(q, n) < PlaceOfFirst(k, m)
    /\ \A k, h \in 1 .. m : \A q \in 1 .. n :
         PlaceOfSecond(h, n) = PlaceOfSecond(k, n) + 1 => PlaceOfFirst(q, m) < PlaceOfSecond(k, n)
    /\ \A k \in 1 .. m : \A q \in 1 .. n : PlaceOfSecond(k, n) # 1

\* The places of two sequences are in turn.
LEMMA PlacesTurn ==
    ASSUME NEW n \in Nat, NEW m \in Nat
    PROVE  PlacesInTurn(n, m)
  <1>1. ASSUME NEW k \in 1 .. n, NEW h \in 1 .. n, PlaceOfFirst(k, m) < PlaceOfFirst(h, m)
        PROVE  k < h
    BY <1>1 DEF PlaceOfFirst
  <1>2. ASSUME NEW k \in 1 .. m, NEW h \in 1 .. m, PlaceOfSecond(k, n) < PlaceOfSecond(h, n)
        PROVE  k < h
    BY <1>2 DEF PlaceOfSecond
  <1>3. ASSUME NEW k \in 1 .. n, NEW h \in 1 .. n, NEW q \in 1 .. m,
               PlaceOfFirst(h, m) = PlaceOfFirst(k, m) + 1
        PROVE  PlaceOfSecond(q, n) < PlaceOfFirst(k, m)
    <2>1. k > m
      BY <1>3 DEF PlaceOfFirst
    <2> QED
      BY <2>1 DEF PlaceOfFirst, PlaceOfSecond
  <1>4. ASSUME NEW k \in 1 .. m, NEW h \in 1 .. m, NEW q \in 1 .. n,
               PlaceOfSecond(h, n) = PlaceOfSecond(k, n) + 1
        PROVE  PlaceOfFirst(q, m) < PlaceOfSecond(k, n)
    <2>1. k >= n /\ m > n
      BY <1>4 DEF PlaceOfSecond
    <2> QED
      BY <2>1 DEF PlaceOfFirst, PlaceOfSecond
  <1>5. ASSUME NEW k \in 1 .. m, NEW q \in 1 .. n
        PROVE  PlaceOfSecond(k, n) # 1
    BY DEF PlaceOfSecond
  <1> QED
    BY <1>1, <1>2, <1>3, <1>4, <1>5 DEF PlacesInTurn

\* Entries of one parity are in the order R of their stores.
KeepsOrder(s, R) ==
    \A i, j \in DOMAIN s : i < j /\ s[i][2] = s[j][2] => <<s[i][1], s[j][1]>> \in R

\* Only the parity of the entry at i is left.
OneLeft(s, i) == \A j \in DOMAIN s : j > i => s[j][2] = s[i][2]

\* The entries take turns, cur first.
InTurns(s, cur) ==
    \A i \in DOMAIN s : /\ i + 1 \in DOMAIN s /\ s[i][2] = s[i + 1][2] => OneLeft(s, i)
                        /\ i = 1 /\ s[i][2] # cur => OneLeft(s, i)

\* Fields of ordered stores that take turns keep the order in each parity.
LEMMA TurnsOrdered ==
    ASSUME NEW A, NEW B, NEW a, NEW b, Lists(a, A), Lists(b, B), NEW R, Follows(a, R), Follows(b, R),
           NEW cur \in Parities, NEW s, s = [j \in 1 .. Len(a) + Len(b) |-> ByTurns(a, b, cur)[j]]
    PROVE  KeepsOrder(s, R) /\ InTurns(s, cur)
  <1> DEFINE n == Len(a)
             m == Len(b)
             oth == Other(cur)
             ta == Tagged(a, cur)
             tb == Tagged(b, oth)
             F(k) == PlaceOfFirst(k, m)
             S(k) == PlaceOfSecond(k, n)
  <1>1. n \in Nat /\ DOMAIN a = 1 .. n /\ m \in Nat /\ DOMAIN b = 1 .. m
    BY ListsParts
  <1>2. oth # cur
    BY Others
  <1>3. /\ Len(ta) = n /\ Len(tb) = m
        /\ \A k \in 1 .. n : ta[k] = <<a[k], cur>>
        /\ \A k \in 1 .. m : tb[k] = <<b[k], oth>>
    BY <1>1 DEF Tagged
  <1>4. DOMAIN s = 1 .. n + m /\ \A i \in 1 .. n + m : s[i] = Alternate(ta, tb)[i]
    BY DEF ByTurns
  <1> HIDE DEF n, m, oth, ta, tb
  <1>5. Alternates(ta, tb, n, m)
    BY <1>1, <1>3, AlternateAt
  <1>6. ASSUME NEW i \in 1 .. n + m
        PROVE  \/ s[i][2] = cur /\ \E k \in 1 .. n : F(k) = i /\ s[i] = <<a[k], cur>>
               \/ s[i][2] = oth /\ \E k \in 1 .. m : S(k) = i /\ s[i] = <<b[k], oth>>
    <2>1. AlternatesFrom(ta, tb, n, m, i)
      BY <1>5 DEF Alternates
    <2> HIDE DEF F, S
    <2>2. ASSUME NEW k \in 1 .. n, F(k) = i, Alternate(ta, tb)[i] = ta[k]
          PROVE  s[i][2] = cur /\ F(k) = i /\ s[i] = <<a[k], cur>>
      <3>1. s[i] = <<a[k], cur>>
        BY <1>3, <1>4, <2>2
      <3>2. <<a[k], cur>>[2] = cur
        OBVIOUS
      <3>3. s[i][2] = cur
        BY <3>1, <3>2
      <3> QED
        BY <2>2, <3>1, <3>3
    <2>3. ASSUME NEW k \in 1 .. m, S(k) = i, Alternate(ta, tb)[i] = tb[k]
          PROVE  s[i][2] = oth /\ S(k) = i /\ s[i] = <<b[k], oth>>
      <3>1. s[i] = <<b[k], oth>>
        BY <1>3, <1>4, <2>3
      <3>2. <<b[k], oth>>[2] = oth
        OBVIOUS
      <3>3. s[i][2] = oth
        BY <3>1, <3>2
      <3> QED
        BY <2>3, <3>1, <3>3
    <2> QED
      BY <2>1, <2>2, <2>3 DEF AlternatesFrom, F, S
  <1>7. PlacesInTurn(n, m)
    BY <1>1, PlacesTurn
  <1>8. /\ \A k, h \in 1 .. n : F(k) < F(h) => k < h
        /\ \A k, h \in 1 .. m : S(k) < S(h) => k < h
        /\ \A k, h \in 1 .. n : \A q \in 1 .. m : F(h) = F(k) + 1 => S(q) < F(k)
        /\ \A k, h \in 1 .. m : \A q \in 1 .. n : S(h) = S(k) + 1 => F(q) < S(k)
        /\ \A k \in 1 .. m : \A q \in 1 .. n : S(k) # 1
    BY <1>7 DEF PlacesInTurn
  <1> HIDE DEF F, S
  <1>9. ASSUME NEW i \in 1 .. n + m, NEW j \in 1 .. n + m, i < j, s[i][2] = s[j][2]
        PROVE  <<s[i][1], s[j][1]>> \in R
    <2>1. CASE s[i][2] = cur
      <3>1. PICK k \in 1 .. n : F(k) = i /\ s[i] = <<a[k], cur>>
        BY <1>2, <1>6, <2>1
      <3>2. PICK h \in 1 .. n : F(h) = j /\ s[j] = <<a[h], cur>>
        BY <1>2, <1>6, <1>9, <2>1
      <3>3. k < h
        BY <1>8, <1>9, <3>1, <3>2
      <3>4. <<a[k], a[h]>> \in R
        BY <1>1, <3>3 DEF Follows
      <3>5. <<a[k], cur>>[1] = a[k]
        OBVIOUS
      <3>6. <<a[h], cur>>[1] = a[h]
        OBVIOUS
      <3>7. s[i][1] = a[k] /\ s[j][1] = a[h]
        BY <3>1, <3>2, <3>5, <3>6
      <3> QED
        BY <3>4, <3>7
    <2>2. CASE s[i][2] # cur
      <3>1. PICK k \in 1 .. m : S(k) = i /\ s[i] = <<b[k], oth>>
        BY <1>6, <2>2
      <3>2. PICK h \in 1 .. m : S(h) = j /\ s[j] = <<b[h], oth>>
        BY <1>6, <1>9, <2>2
      <3>3. k < h
        BY <1>8, <1>9, <3>1, <3>2
      <3>4. <<b[k], b[h]>> \in R
        BY <1>1, <3>3 DEF Follows
      <3>5. <<b[k], oth>>[1] = b[k]
        OBVIOUS
      <3>6. <<b[h], oth>>[1] = b[h]
        OBVIOUS
      <3>7. s[i][1] = b[k] /\ s[j][1] = b[h]
        BY <3>1, <3>2, <3>5, <3>6
      <3> QED
        BY <3>4, <3>7
    <2> QED
      BY <2>1, <2>2
  <1>10. ASSUME NEW i \in 1 .. n + m, i + 1 \in 1 .. n + m, s[i][2] = s[i + 1][2],
                NEW j \in 1 .. n + m, j > i
         PROVE  s[j][2] = s[i][2]
    <2> DEFINE g == i + 1
    <2>0. g \in 1 .. n + m /\ g = i + 1 /\ s[g][2] = s[i][2]
      BY <1>10
    <2> HIDE DEF g
    <2>1. CASE s[i][2] = cur /\ s[j][2] # cur
      <3>1. PICK k \in 1 .. n : F(k) = i
        BY <1>2, <1>6, <2>1
      <3>2. PICK h \in 1 .. n : F(h) = g
        BY <1>2, <1>6, <2>0, <2>1
      <3>3. PICK q \in 1 .. m : S(q) = j
        BY <1>6, <2>1
      <3>4. j < i
        BY <1>8, <2>0, <3>1, <3>2, <3>3
      <3> QED
        BY <1>1, <1>10, <3>4
    <2>2. CASE s[i][2] # cur /\ s[j][2] = cur
      <3>1. PICK k \in 1 .. m : S(k) = i
        BY <1>6, <2>2
      <3>2. PICK h \in 1 .. m : S(h) = g
        BY <1>6, <2>0, <2>2
      <3>3. PICK q \in 1 .. n : F(q) = j
        BY <1>2, <1>6, <2>2
      <3>4. j < i
        BY <1>8, <2>0, <3>1, <3>2, <3>3
      <3> QED
        BY <1>1, <1>10, <3>4
    <2>3. CASE s[i][2] # cur /\ s[j][2] # cur
      BY <1>6, <2>3
    <2> QED
      BY <2>1, <2>2, <2>3
  <1>11. ASSUME 1 \in 1 .. n + m, s[1][2] # cur, NEW j \in 1 .. n + m
         PROVE  s[j][2] = s[1][2]
    <2>1. PICK k \in 1 .. m : S(k) = 1
      BY <1>6, <1>11
    <2>2. ~ \E q \in 1 .. n : TRUE
      BY <1>8, <2>1
    <2> QED
      BY <1>6, <1>11, <2>2
  <1>12. KeepsOrder(s, R)
    BY <1>4, <1>9 DEF KeepsOrder
  <1>13. InTurns(s, cur)
    <2>1. ASSUME NEW i \in 1 .. n + m, i + 1 \in 1 .. n + m, s[i][2] = s[i + 1][2]
          PROVE  OneLeft(s, i)
      BY <1>4, <1>10, <2>1 DEF OneLeft
    <2>2. ASSUME 1 \in 1 .. n + m, s[1][2] # cur
          PROVE  OneLeft(s, 1)
      BY <1>4, <1>11, <2>2 DEF OneLeft
    <2> QED
      BY <1>4, <2>1, <2>2 DEF InTurns
  <1> QED
    BY <1>12, <1>13

-----------------------------------------------------------------------------
(* Entries of ordered stores *)

\* The state lists are made in.
ListState ==
    /\ AreStores(stores) /\ IsFiniteSet(DOMAIN stores)
    /\ pending \in CurrentPicture

\* The entries of the class that the stores K have.
Listed(K, cur, class) ==
    IF cur = None THEN K \X {None}
    ELSE {e \in K \X Parities : IsMarked(stores[e[1]].fields[e[2]], class)}

\* The fields of one parity out of the stores listed.
LEMMA FieldsOfLists ==
    ASSUME NEW K, NEW keys, Lists(keys, K), NEW p, NEW class
    PROVE  Lists(FieldsOf(keys, p, class), {k \in K : IsMarked(stores[k].fields[p], class)})
  <1> DEFINE I == {i \in DOMAIN keys : IsMarked(stores[keys[i]].fields[p], class)}
             E == {k \in K : IsMarked(stores[k].fields[p], class)}
             D == {keys[i] : i \in I}
  <1>1. Lists(Only(keys, I), D)
    <2>1. I \subseteq DOMAIN keys
      OBVIOUS
    <2> HIDE DEF I
    <2> QED
      BY <2>1, OnlyLists
  <1>2. D = E
    <2>1. /\ DOMAIN keys = 1 .. Len(keys) /\ \A k \in 1 .. Len(keys) : keys[k] \in K
          /\ \A x \in K : \E k \in 1 .. Len(keys) : keys[k] = x
      BY ListsParts
    <2>2. D \subseteq E
      BY <2>1
    <2>3. ASSUME NEW x \in E
          PROVE  x \in D
      <3>1. PICK k \in 1 .. Len(keys) : keys[k] = x
        BY <2>1
      <3>2. k \in I
        BY <2>1, <3>1
      <3> QED
        BY <3>1, <3>2
    <2> HIDE DEF D, E
    <2> QED
      BY <2>2, <2>3
  <1> QED
    BY <1>1, <1>2 DEF FieldsOf

\* The entries of listed stores are listed.
LEMMA EntriesOfLists ==
    ASSUME NEW K, NEW keys, Lists(keys, K), NEW cur \in Parities \cup {None}, NEW class
    PROVE  Lists(EntriesOf(keys, cur, class), Listed(K, cur, class))
  <1>1. CASE cur = None
    <2>1. EntriesOf(keys, cur, class) = Tagged(keys, None)
      BY <1>1 DEF EntriesOf, Frames, Tagged
    <2>2. Listed(K, cur, class) = K \X {None}
      BY <1>1 DEF Listed
    <2>3. Lists(Tagged(keys, None), K \X {None})
      BY TaggedLists
    <2> QED
      BY <2>1, <2>2, <2>3
  <1>2. CASE cur # None
    <2> DEFINE oth == Other(cur)
               a == FieldsOf(keys, cur, class)
               b == FieldsOf(keys, oth, class)
               A == {k \in K : IsMarked(stores[k].fields[cur], class)}
               B == {k \in K : IsMarked(stores[k].fields[oth], class)}
               ta == Tagged(a, cur)
               tb == Tagged(b, oth)
               D == A \X {cur}
               E == B \X {oth}
    <2>1. cur \in Parities /\ keys \in Seq(K)
      BY <1>2 DEF Lists
    <2>2. oth \in Parities /\ oth # cur /\ Parities = {cur, oth}
      BY <2>1, Others
    <2>3. Lists(a, A) /\ Lists(b, B)
      BY FieldsOfLists
    <2>4. EntriesOf(keys, cur, class) = [j \in 1 .. Len(a) + Len(b) |-> ByTurns(a, b, cur)[j]]
      BY <1>2, <2>1, InterleaveIs DEF EntriesOf
    <2>5. \A j : ByTurns(a, b, cur)[j] = Alternate(ta, tb)[j]
      BY DEF ByTurns
    <2> HIDE DEF a, b, A, B, oth
    <2>6. Lists(ta, D) /\ Lists(tb, E) /\ Len(ta) = Len(a) /\ Len(tb) = Len(b)
      BY <2>3, TaggedLists
    <2>7. D \cap E = {}
      BY <2>2
    <2>8. Lists([j \in 1 .. Len(ta) + Len(tb) |-> Alternate(ta, tb)[j]], D \cup E)
      <3> HIDE DEF D, E, ta, tb
      <3> QED
        BY <2>6, <2>7, AlternateLists
    <2>9. EntriesOf(keys, cur, class) = [j \in 1 .. Len(ta) + Len(tb) |-> Alternate(ta, tb)[j]]
      <3> HIDE DEF ta, tb
      <3> QED
        BY <2>4, <2>5, <2>6
    <2>10. D \cup E = Listed(K, cur, class)
      <3>1. Listed(K, cur, class) = {e \in K \X Parities : IsMarked(stores[e[1]].fields[e[2]], class)}
        BY <1>2 DEF Listed
      <3>2. \A e \in D \cup E : e \in K \X Parities /\ IsMarked(stores[e[1]].fields[e[2]], class)
        BY <2>2 DEF A, B
      <3>3. ASSUME NEW e \in K \X Parities, IsMarked(stores[e[1]].fields[e[2]], class)
            PROVE  e \in D \cup E
        <4>1. e = <<e[1], e[2]>> /\ e[1] \in K /\ e[2] \in {cur, oth}
          BY <2>2
        <4>2. CASE e[2] = cur
          <5>1. e[1] \in A
            BY <3>3, <4>1, <4>2 DEF A
          <5> QED
            BY <4>1, <4>2, <5>1
        <4>3. CASE e[2] = oth
          <5>1. e[1] \in B
            BY <3>3, <4>1, <4>3 DEF B
          <5> QED
            BY <4>1, <4>3, <5>1
        <4> QED
          BY <4>1, <4>2, <4>3
      <3> HIDE DEF D, E
      <3> QED
        BY <3>1, <3>2, <3>3
    <2> HIDE DEF ta, tb, D, E
    <2> QED
      BY <2>8, <2>9, <2>10
  <1> QED
    BY <1>1, <1>2

\* The entries of ordered stores keep their order, the fields in turns.
LEMMA EntriesOrdered ==
    ASSUME NEW K, NEW keys, Lists(keys, K), NEW R, Follows(keys, R),
           NEW cur \in Parities \cup {None}, NEW class
    PROVE  KeepsOrder(EntriesOf(keys, cur, class), R) /\ InTurns(EntriesOf(keys, cur, class), cur)
  <1> DEFINE s == EntriesOf(keys, cur, class)
  <1>1. CASE cur = None
    <2>1. DOMAIN s = DOMAIN keys /\ \A i \in DOMAIN keys : s[i] = <<keys[i], None>>
      BY <1>1 DEF EntriesOf, Frames
    <2> HIDE DEF s
    <2>2. \A i \in DOMAIN s : s[i][1] = keys[i] /\ s[i][2] = None
      BY <2>1
    <2>3. KeepsOrder(s, R)
      BY <2>1, <2>2 DEF KeepsOrder, Follows
    <2>4. InTurns(s, cur)
      BY <1>1, <2>2 DEF InTurns, OneLeft
    <2> QED
      BY <2>3, <2>4 DEF s
  <1>2. CASE cur # None
    <2> DEFINE a == FieldsOf(keys, cur, class)
               b == FieldsOf(keys, Other(cur), class)
               A == {k \in K : IsMarked(stores[k].fields[cur], class)}
               B == {k \in K : IsMarked(stores[k].fields[Other(cur)], class)}
    <2>1. cur \in Parities /\ keys \in Seq(K)
      BY <1>2 DEF Lists
    <2>2. s = [j \in 1 .. Len(a) + Len(b) |-> ByTurns(a, b, cur)[j]]
      BY <1>2, <2>1, InterleaveIs DEF EntriesOf
    <2>3. Lists(a, A) /\ Lists(b, B)
      BY FieldsOfLists
    <2>4. \A p : Follows(FieldsOf(keys, p, class), R)
      <3> SUFFICES ASSUME NEW p  PROVE Follows(FieldsOf(keys, p, class), R)
        OBVIOUS
      <3> DEFINE I == {i \in DOMAIN keys : IsMarked(stores[keys[i]].fields[p], class)}
      <3>1. I \subseteq DOMAIN keys
        OBVIOUS
      <3> HIDE DEF I
      <3>2. Follows(Only(keys, I), R)
        BY <3>1, OnlyFollows
      <3> QED
        BY <3>2 DEF FieldsOf, I
    <2>5. Follows(a, R) /\ Follows(b, R)
      BY <2>4
    <2> HIDE DEF s, a, b, A, B
    <2>6. KeepsOrder(s, R) /\ InTurns(s, cur)
      BY <2>1, <2>2, <2>3, <2>5, TurnsOrdered
    <2> QED
      BY <2>6 DEF s
  <1> QED
    BY <1>1, <1>2

\* The types of what the lists are ordered by.
LEMMA ListStateParts ==
    ASSUME ListState
    PROVE  /\ DOMAIN stores \subseteq Nat /\ IsFiniteSet(DOMAIN stores)
           /\ ParityOf(pending.header.structure) \in Parities \cup {None}
           /\ pending.header.frameNum \in Nat /\ pending.maxFrameNum \in Nat
           /\ pending.poc.count \in Int /\ pending.key \in Nat
           /\ \A k \in DOMAIN stores :
                /\ FrameNumWrap(stores[k], pending.header.frameNum, pending.maxFrameNum) \in Int
                /\ PicOrderCnt(stores[k]) \in Int
                /\ LongTermFrameIdx(stores[k]) \in Int
                /\ stores[k].frameNum \in Nat
                /\ \A p \in Parities : stores[k].fields[p].longTermFrameIdx \in Nat
  <1>1. DOMAIN stores \subseteq Nat /\ IsFiniteSet(DOMAIN stores) /\ \A k \in DOMAIN stores : stores[k] \in FrameStore
    BY DEF ListState, AreStores
  <1>2. pending.header \in Headers /\ pending.maxFrameNum \in Nat /\ pending.poc \in Poc /\ pending.key \in Nat
    BY DEF ListState, CurrentPicture
  <1>3. pending.header.frameNum \in Nat
    BY <1>2, InputsAssumption DEF Header
  <1>4. pending.poc.count \in Int
    BY <1>2, PocLimitAssumption DEF Poc, PocRange
  <1>5. ParityOf(pending.header.structure) \in Parities \cup {None}
    BY DEF ParityOf, Parities
  <1>6. ASSUME NEW k \in DOMAIN stores
        PROVE  /\ FrameNumWrap(stores[k], pending.header.frameNum, pending.maxFrameNum) \in Int
               /\ PicOrderCnt(stores[k]) \in Int
               /\ LongTermFrameIdx(stores[k]) \in Int
               /\ stores[k].frameNum \in Nat
               /\ \A p \in Parities : stores[k].fields[p].longTermFrameIdx \in Nat
    <2>1. stores[k].frameNum \in Nat /\ stores[k].fields \in [Parities -> FieldState]
      BY <1>1 DEF FrameStore
    <2>2. stores[k].fields["Top"] \in FieldState /\ stores[k].fields["Bottom"] \in FieldState
      BY <2>1 DEF Parities
    <2>3. FrameNumWrap(stores[k], pending.header.frameNum, pending.maxFrameNum) \in Int
      BY <1>2, <1>3, <2>1 DEF FrameNumWrap
    <2>4. /\ stores[k].fields["Top"].poc \in Int /\ stores[k].fields["Bottom"].poc \in Int
          /\ stores[k].fields["Top"].longTermFrameIdx \in Nat
          /\ stores[k].fields["Bottom"].longTermFrameIdx \in Nat
      BY <2>2, PocLimitAssumption DEF FieldState, PocRange
    <2>5. PicOrderCnt(stores[k]) \in Int
      BY <2>4 DEF PicOrderCnt
    <2>6. LongTermFrameIdx(stores[k]) \in Int
      BY <2>4 DEF LongTermFrameIdx
    <2> QED
      BY <2>1, <2>3, <2>4, <2>5, <2>6 DEF Parities
  <1> QED
    BY <1>1, <1>2, <1>3, <1>4, <1>5, <1>6

-----------------------------------------------------------------------------
(* Initial lists *)

Current == ParityOf(pending.header.structure)

\* Stores that hold a reference of the class.
LEMMA HoldingParts ==
    ASSUME ListState, NEW class
    PROVE  /\ Holding(Current, class) \subseteq DOMAIN stores
           /\ \A K \in SUBSET DOMAIN stores : K \subseteq Nat /\ IsFiniteSet(K)
  <1>1. Holding(Current, class) \subseteq DOMAIN stores
    BY DEF Holding
  <1>2. \A K \in SUBSET DOMAIN stores : K \subseteq Nat /\ IsFiniteSet(K)
    BY ListStateParts, FS_Subset
  <1> QED
    BY <1>1, <1>2

\* Stores by descending FrameNumWrap.
LEMMA ByFrameNumWrapLists ==
    ASSUME ListState, NEW K \in SUBSET DOMAIN stores
    PROVE  Lists(ByFrameNumWrap(K), K)
  <1> DEFINE v == [k \in K |-> FrameNumWrap(stores[k], pending.header.frameNum, pending.maxFrameNum)]
  <1>1. K \subseteq Nat /\ IsFiniteSet(K)
    BY HoldingParts
  <1>2. \A k \in K : v[k] \in Int
    BY ListStateParts
  <1>3. Lists(Descending(K, v), K)
    <2> HIDE DEF v
    <2> QED
      BY <1>1, <1>2, DescendingLists
  <1> QED
    BY <1>3 DEF ByFrameNumWrap

\* Stores by picture order count.
LEMMA ByPocLists ==
    ASSUME ListState, NEW K \in SUBSET DOMAIN stores
    PROVE  Lists(ByPoc(K), K)
  <1> DEFINE v == [k \in K |-> PicOrderCnt(stores[k])]
  <1>1. K \subseteq Nat /\ IsFiniteSet(K)
    BY HoldingParts
  <1>2. \A k \in K : v[k] \in Int
    BY ListStateParts
  <1>3. Lists(Ascending(K, v), K)
    <2> HIDE DEF v
    <2> QED
      BY <1>1, <1>2, AscendingLists
  <1> QED
    BY <1>3 DEF ByPoc

\* Long-term stores by their index.
LEMMA LongTermByIdxLists ==
    ASSUME ListState
    PROVE  Lists(LongTermByIdx(Current), Holding(Current, "LongTerm"))
  <1> DEFINE K == Holding(Current, "LongTerm")
             v == [k \in K |-> LongTermFrameIdx(stores[k])]
  <1>1. K \subseteq DOMAIN stores
    BY HoldingParts
  <1>2. K \subseteq Nat /\ IsFiniteSet(K)
    BY <1>1, HoldingParts
  <1>3. \A k \in K : v[k] \in Int
    BY <1>1, ListStateParts
  <1>4. Lists(Ascending(K, v), K)
    <2> HIDE DEF v, K
    <2> QED
      BY <1>2, <1>3, AscendingLists
  <1> QED
    BY <1>4 DEF LongTermByIdx

\* Short-term and long-term entries are different ones, and together the usable ones.
LEMMA UsableParts ==
    ASSUME ListState, NEW sps, NEW slice
    PROVE  LET short == Listed(ShortTermFor(sps, slice, Current), Current, "ShortTerm")
               long == Listed(Holding(Current, "LongTerm"), Current, "LongTerm")
           IN  short \cap long = {} /\ short \cup long = Usable(sps, slice)
  <1> DEFINE S == ShortTermFor(sps, slice, Current)
             L == Holding(Current, "LongTerm")
             short == Listed(S, Current, "ShortTerm")
             long == Listed(L, Current, "LongTerm")
             barred(k) == slice.type = "B" /\ stores[k].nonExisting /\ sps.pocType = 0
  <1>1. "Top" \in Parities /\ None \notin Parities
    BY NoneAssumption DEF Parities
  <1>2. CASE Current = None
    <2>1. short = S \X {None} /\ long = L \X {None}
      BY <1>2 DEF Listed
    <2>2. S = {k \in DOMAIN stores : BothMarked(stores[k], "ShortTerm") /\ ~barred(k)}
      BY <1>2 DEF ShortTermFor, Holding
    <2>3. L = {k \in DOMAIN stores : BothMarked(stores[k], "LongTerm")}
      BY <1>2 DEF Holding
    <2>4. Usable(sps, slice) = {e \in (DOMAIN stores) \X {None} :
              \/ BothMarked(stores[e[1]], "ShortTerm") /\ ~barred(e[1])
              \/ BothMarked(stores[e[1]], "LongTerm")}
      <3>1. Entries(stores, Current) = (DOMAIN stores) \X {None}
        BY <1>2 DEF Entries
      <3>2. \A e \in (DOMAIN stores) \X {None} : e[2] = None
        OBVIOUS
      <3> QED
        BY <3>1, <3>2 DEF Usable, Current, EntryIs
    <2>5. \A k \in DOMAIN stores : ~(BothMarked(stores[k], "ShortTerm") /\ BothMarked(stores[k], "LongTerm"))
      BY <1>1 DEF BothMarked, IsMarked
    <2> HIDE DEF barred, S, L, short, long
    <2>6. short \cap long = {}
      BY <2>1, <2>2, <2>3, <2>5
    <2>7. short \cup long = Usable(sps, slice)
      BY <2>1, <2>2, <2>3, <2>4
    <2> QED
      BY <2>6, <2>7 DEF short, long, S, L
  <1>3. CASE Current # None
    <2> DEFINE marked(e, m) == IsMarked(stores[e[1]].fields[e[2]], m)
    <2>1. /\ short = {e \in S \X Parities : marked(e, "ShortTerm")}
          /\ long = {e \in L \X Parities : marked(e, "LongTerm")}
      BY <1>3 DEF Listed
    <2>2. S = {k \in DOMAIN stores : AnyMarked(stores[k], "ShortTerm") /\ ~barred(k)}
      BY <1>3 DEF ShortTermFor, Holding
    <2>3. L = {k \in DOMAIN stores : AnyMarked(stores[k], "LongTerm")}
      BY <1>3 DEF Holding
    <2>4. Usable(sps, slice) = {e \in (DOMAIN stores) \X Parities :
              \/ marked(e, "ShortTerm") /\ ~barred(e[1])
              \/ marked(e, "LongTerm")}
      <3>1. Entries(stores, Current) = (DOMAIN stores) \X Parities
        BY <1>3 DEF Entries
      <3>2. \A e \in (DOMAIN stores) \X Parities : e[2] # None
        BY <1>1
      <3> QED
        BY <3>1, <3>2 DEF Usable, Current, EntryIs
    <2>5. \A e : ~(marked(e, "ShortTerm") /\ marked(e, "LongTerm"))
      BY DEF IsMarked
    <2>6. \A e \in (DOMAIN stores) \X Parities : \A m : marked(e, m) => AnyMarked(stores[e[1]], m)
      BY DEF AnyMarked
    <2> HIDE DEF barred, S, L, short, long, marked
    <2>7. short \cap long = {}
      BY <2>1, <2>5
    <2>8. short \cup long = Usable(sps, slice)
      BY <2>1, <2>2, <2>3, <2>4, <2>6
    <2> QED
      BY <2>7, <2>8 DEF short, long, S, L
  <1> QED
    BY <1>2, <1>3

\* Stores in an order of their own before the long-term ones name the usable entries.
LEMMA EntriesUsable ==
    ASSUME ListState, NEW sps, NEW slice, NEW keys,
           Lists(keys, ShortTermFor(sps, slice, Current))
    PROVE  Lists(EntriesOf(keys, Current, "ShortTerm")
                   \o EntriesOf(LongTermByIdx(Current), Current, "LongTerm"),
                 Usable(sps, slice))
  <1> DEFINE S == ShortTermFor(sps, slice, Current)
             L == Holding(Current, "LongTerm")
             short == Listed(S, Current, "ShortTerm")
             long == Listed(L, Current, "LongTerm")
             a == EntriesOf(keys, Current, "ShortTerm")
             b == EntriesOf(LongTermByIdx(Current), Current, "LongTerm")
  <1>1. Current \in Parities \cup {None}
    BY ListStateParts DEF Current
  <1>2. Lists(a, short)
    <2> HIDE DEF S
    <2> QED
      BY <1>1, EntriesOfLists DEF S
  <1>3. Lists(b, long)
    <2>1. Lists(LongTermByIdx(Current), L)
      BY LongTermByIdxLists
    <2> HIDE DEF L
    <2> QED
      BY <1>1, <2>1, EntriesOfLists
  <1>4. short \cap long = {} /\ short \cup long = Usable(sps, slice)
    BY UsableParts
  <1> HIDE DEF short, long, a, b
  <1>5. Lists(a \o b, short \cup long)
    BY <1>2, <1>3, <1>4, ConcatLists
  <1> QED
    BY <1>4, <1>5 DEF a, b

\* A sequence whose entries come from E follows a wider order on E.
LEMMA FollowsWider ==
    ASSUME NEW E, NEW s, Lists(s, E), NEW R, Follows(s, R), NEW Q,
           \A x, y \in E : <<x, y>> \in R => <<x, y>> \in Q
    PROVE  Follows(s, Q)
  <1>1. \A i \in DOMAIN s : s[i] \in E
    BY ListsParts
  <1> QED
    BY <1>1 DEF Follows

Counts(K) == [k \in K |-> PicOrderCnt(stores[k])]

\* The stores of K before, at and after the count of the current picture, each in
\* rising order.
PocSplit(K, before, equal, after, L, B, H) ==
    /\ L \cap H = {} /\ L \cap B = {} /\ H \cap B = {} /\ L \cup H \cup B = K
    /\ Lists(before, L) /\ Lists(equal, B) /\ Lists(after, H)
    /\ Follows(before, StepsUp(K, Counts(K))) /\ Follows(equal, StepsUp(K, Counts(K)))
    /\ Follows(after, StepsUp(K, Counts(K)))
    /\ (\A k \in L : ~IsLater(k)) /\ (\A k \in B : SharesCount(k)) /\ (\A k \in H : IsLater(k))

\* What the stores in the order of the counts are put together from.
PocPuts(s, before, equal, after, list) ==
    s = IF list = 0 THEN Reverse(before) \o equal \o after
        ELSE after \o Reverse(equal) \o Reverse(before)

\* The order of the counts splits the stores at the current picture.
LEMMA PocOrderParts ==
    ASSUME ListState, NEW sps, NEW slice, NEW list
    PROVE  \E before, equal, after, L, B, H :
             /\ PocSplit(ShortTermFor(sps, slice, Current), before, equal, after, L, B, H)
             /\ PocPuts(PocOrder(sps, slice, Current, list), before, equal, after, list)
  <1> DEFINE K == ShortTermFor(sps, slice, Current)
             count == pending.poc.count
             all == ByPoc(K)
             lower == {i \in DOMAIN all : PicOrderCnt(stores[all[i]]) < count}
             higher == {i \in DOMAIN all : PicOrderCnt(stores[all[i]]) > count}
             between == IF Current = None THEN (DOMAIN all) \ (lower \cup higher) ELSE {}
             low == (DOMAIN all) \ (higher \cup between)
             before == Only(all, low)
             after == Only(all, higher)
             equal == Only(all, between)
             At(I) == {all[i] : i \in I}
  <1>0. K \in SUBSET DOMAIN stores
    BY DEF ShortTermFor, Holding
  <1>1. Lists(all, K) /\ Follows(all, StepsUp(K, Counts(K)))
    <2> HIDE DEF K
    <2>1. K \subseteq Nat /\ IsFiniteSet(K) /\ \A k \in K : Counts(K)[k] \in Int
      BY <1>0, HoldingParts, ListStateParts DEF Counts
    <2>2. all = Ascending(K, Counts(K))
      BY DEF ByPoc, Counts
    <2> QED
      BY <2>1, <2>2, AscendingLists, AscendingFollows
  <1>2. PocPuts(PocOrder(sps, slice, Current, list), before, equal, after, list)
    BY Zenon DEF PocOrder, PocPuts
  <1>3. /\ low \subseteq DOMAIN all /\ higher \subseteq DOMAIN all /\ between \subseteq DOMAIN all
        /\ low \cup higher \cup between = DOMAIN all
        /\ low \cap higher = {} /\ low \cap between = {} /\ higher \cap between = {}
    OBVIOUS
  <1>4. /\ \A i \in low : ~IsLater(all[i])
        /\ \A i \in higher : IsLater(all[i])
    BY DEF IsLater
  <1>5. \A i \in between : SharesCount(all[i])
    <2> SUFFICES ASSUME NEW i \in DOMAIN all, Current = None,
                        ~(PicOrderCnt(stores[all[i]]) < count), ~(PicOrderCnt(stores[all[i]]) > count)
                 PROVE  SharesCount(all[i])
      OBVIOUS
    <2>1. all[i] \in DOMAIN stores
      <3> HIDE DEF K, all
      <3> QED
        BY <1>0, <1>1, ListsParts
    <2> DEFINE c == PicOrderCnt(stores[all[i]])
    <2>2. c \in Int /\ count \in Int
      BY <2>1, ListStateParts
    <2>3. ~(c < count) /\ ~(c > count)
      OBVIOUS
    <2>4. c = count
      <3> HIDE DEF c, count
      <3> QED
        BY <2>2, <2>3
    <2> QED
      BY <2>4 DEF SharesCount, Current
  <1> HIDE DEF K, all, lower, higher, between, low
  <1>6. \A i, j \in DOMAIN all : all[i] = all[j] => i = j
    BY <1>1 DEF Lists, IsInjective
  <1>7. /\ At(low) \cap At(higher) = {} /\ At(low) \cap At(between) = {}
        /\ At(higher) \cap At(between) = {}
    BY <1>3, <1>6
  <1>8. At(low) \cup At(higher) \cup At(between) = K
    <2>1. K = At(DOMAIN all)
      BY <1>1 DEF Lists, ToSet
    <2> QED
      BY <1>3, <2>1
  <1>9. Lists(before, At(low)) /\ Lists(after, At(higher)) /\ Lists(equal, At(between))
    BY <1>1, <1>3, OnlyLists
  <1>10. /\ Follows(before, StepsUp(K, Counts(K))) /\ Follows(after, StepsUp(K, Counts(K)))
         /\ Follows(equal, StepsUp(K, Counts(K)))
    BY <1>1, <1>3, OnlyFollows
  <1>11. /\ \A k \in At(low) : ~IsLater(k)
         /\ \A k \in At(between) : SharesCount(k)
         /\ \A k \in At(higher) : IsLater(k)
    BY <1>4, <1>5
  <1> DEFINE L == At(low)
             H == At(higher)
             B == At(between)
  <1> HIDE DEF before, after, equal, L, H, B
  <1>12. PocSplit(K, before, equal, after, L, B, H)
    BY <1>7, <1>8, <1>9, <1>10, <1>11 DEF PocSplit, L, H, B
  <1> QED
    BY <1>2, <1>12 DEF K

\* In the order of the counts every store has one place.
LEMMA PocOrderLists ==
    ASSUME ListState, NEW sps, NEW slice, NEW list
    PROVE  Lists(PocOrder(sps, slice, Current, list), ShortTermFor(sps, slice, Current))
  <1> DEFINE K == ShortTermFor(sps, slice, Current)
             s == PocOrder(sps, slice, Current, list)
  <1>1. PICK before, equal, after, L, B, H :
           PocSplit(K, before, equal, after, L, B, H) /\ PocPuts(s, before, equal, after, list)
    BY PocOrderParts
  <1> HIDE DEF K, s
  <1>8. /\ L \cap H = {} /\ L \cap B = {} /\ H \cap B = {} /\ L \cup H \cup B = K
        /\ Lists(before, L) /\ Lists(after, H) /\ Lists(equal, B)
    BY <1>1 DEF PocSplit
  <1>9. Lists(Reverse(before), L) /\ Lists(Reverse(equal), B)
    BY <1>8, ReverseLists
  <1>10. CASE list = 0
    <2>1. Lists(Reverse(before) \o equal, L \cup B)
      BY <1>8, <1>9, ConcatLists
    <2>2. (L \cup B) \cap H = {} /\ (L \cup B) \cup H = K
      BY <1>8
    <2>3. Lists((Reverse(before) \o equal) \o after, (L \cup B) \cup H)
      BY <1>8, <2>1, <2>2, ConcatLists
    <2> QED
      BY <1>1, <1>10, <2>2, <2>3 DEF K, s, PocPuts
  <1>11. CASE list # 0
    <2>1. Lists(after \o Reverse(equal), H \cup B)
      BY <1>8, <1>9, ConcatLists
    <2>2. (H \cup B) \cap L = {} /\ (H \cup B) \cup L = K
      BY <1>8
    <2>3. Lists((after \o Reverse(equal)) \o Reverse(before), (H \cup B) \cup L)
      BY <1>9, <2>1, <2>2, ConcatLists
    <2> QED
      BY <1>1, <1>11, <2>2, <2>3 DEF K, s, PocPuts
  <1> QED
    BY <1>10, <1>11

\* The pairs of stores of which the first may stand before the second.
StoreOrder(slice, x) ==
    {e \in (DOMAIN stores) \X (DOMAIN stores) : ShortTermBefore(slice, x, e[1], e[2])}

IdxOrder == {e \in (DOMAIN stores) \X (DOMAIN stores) : LongTermBefore(e[1], e[2])}

\* Earlier pictures backwards and later ones forwards are in the order of a list.
LEMMA PocOrderFollows ==
    ASSUME ListState, NEW sps, NEW slice, slice.type # "P", NEW list \in {0, 1}
    PROVE  Follows(PocOrder(sps, slice, Current, list), StoreOrder(slice, list))
  <1> DEFINE K == ShortTermFor(sps, slice, Current)
             s == PocOrder(sps, slice, Current, list)
             R == StepsUp(K, Counts(K))
             Q == StoreOrder(slice, list)
             Goes(k, l) == <<k, l>> \in Q
  <1>0. K \subseteq DOMAIN stores
    BY DEF ShortTermFor, Holding
  <1>1. PICK before, equal, after, L, B, H :
           PocSplit(K, before, equal, after, L, B, H) /\ PocPuts(s, before, equal, after, list)
    BY PocOrderParts
  <1> HIDE DEF K, s
  <1>2. /\ L \subseteq K /\ B \subseteq K /\ H \subseteq K
        /\ L \cap H = {} /\ L \cap B = {} /\ H \cap B = {}
        /\ Lists(before, L) /\ Lists(after, H) /\ Lists(equal, B)
        /\ Follows(before, R) /\ Follows(equal, R) /\ Follows(after, R)
        /\ (\A k \in L : ~IsLater(k)) /\ (\A k \in B : SharesCount(k)) /\ (\A k \in H : IsLater(k))
    BY <1>1 DEF PocSplit
  <1>3. \A k, l \in K : <<k, l>> \in R => PicOrderCnt(stores[k]) <= PicOrderCnt(stores[l])
    BY DEF StepsUp, Counts
  <1>4. \A k, l \in K : <<k, l>> \in Turned(R) => PicOrderCnt(stores[k]) >= PicOrderCnt(stores[l])
    <2> SUFFICES ASSUME NEW k \in K, NEW l \in K, <<k, l>> \in Turned(R)
                 PROVE  PicOrderCnt(stores[k]) >= PicOrderCnt(stores[l])
      OBVIOUS
    <2>1. <<l, k>> \in R
      BY DEF Turned, StepsUp
    <2>2. PicOrderCnt(stores[l]) \in Int /\ PicOrderCnt(stores[k]) \in Int
      BY <1>0, ListStateParts
    <2> QED
      BY <1>3, <2>1, <2>2
  <1>5. ASSUME NEW k \in K, NEW l \in K
        PROVE  /\ SharesCount(k) \/ SharesCount(l) => Goes(k, l)
               /\ ~IsLater(k) /\ IsLater(l) /\ list = 0 => Goes(k, l)
               /\ IsLater(k) /\ ~IsLater(l) /\ list = 1 => Goes(k, l)
               /\ IsLater(k) /\ IsLater(l) /\ PicOrderCnt(stores[k]) <= PicOrderCnt(stores[l]) => Goes(k, l)
               /\ ~IsLater(k) /\ ~IsLater(l) /\ PicOrderCnt(stores[k]) >= PicOrderCnt(stores[l]) => Goes(k, l)
    BY <1>0 DEF StoreOrder, ShortTermBefore
  <1> HIDE DEF R, Q, Goes
  <1>12. /\ L \subseteq K /\ B \subseteq K /\ H \subseteq K
         /\ (\A k \in L : ~IsLater(k)) /\ (\A k \in B : SharesCount(k)) /\ (\A k \in H : IsLater(k))
    BY <1>2
  <1>13. \A k \in K, l \in B : Goes(k, l) /\ Goes(l, k)
    BY <1>5, <1>12
  <1>14. \A k \in L, l \in H : (list = 0 => Goes(k, l)) /\ (list = 1 => Goes(l, k))
    BY <1>5, <1>12
  <1>6. Lists(Reverse(before), L) /\ Lists(Reverse(equal), B)
    BY <1>2, ReverseLists
  <1>7. Follows(Reverse(before), Q)
    <2>1. Follows(Reverse(before), Turned(R))
      BY <1>2, ReverseFollows
    <2>2. ASSUME NEW k \in L, NEW l \in L, <<k, l>> \in Turned(R)
          PROVE  Goes(k, l)
      BY <1>4, <1>5, <1>12, <2>2
    <2> QED
      BY <1>6, <2>1, <2>2, FollowsWider DEF Goes
  <1>8. Follows(after, Q)
    <2>1. ASSUME NEW k \in H, NEW l \in H, <<k, l>> \in R
          PROVE  Goes(k, l)
      BY <1>3, <1>5, <1>12, <2>1
    <2> QED
      BY <1>2, <2>1, FollowsWider DEF Goes
  <1>9. Follows(equal, Q) /\ Follows(Reverse(equal), Q)
    <2>1. \A k, l \in B : Goes(k, l)
      BY <1>12, <1>13
    <2>2. Follows(Reverse(equal), Turned(R))
      BY <1>2, ReverseFollows
    <2> QED
      BY <1>2, <1>6, <2>1, <2>2, FollowsWider DEF Goes
  <1>10. CASE list = 0
    <2>1. \A k \in L, l \in B : Goes(k, l)
      BY <1>12, <1>13
    <2>2. Follows(Reverse(before) \o equal, Q)
      BY <1>2, <1>6, <1>7, <1>9, <2>1, ConcatFollows DEF Goes
    <2>3. Lists(Reverse(before) \o equal, L \cup B)
      BY <1>2, <1>6, ConcatLists
    <2>4. \A k \in L \cup B, l \in H : Goes(k, l)
      BY <1>10, <1>12, <1>13, <1>14
    <2>5. Follows((Reverse(before) \o equal) \o after, Q)
      BY <1>2, <1>8, <2>2, <2>3, <2>4, ConcatFollows DEF Goes
    <2> QED
      BY <1>1, <1>10, <2>5 DEF PocPuts, s, Q
  <1>11. CASE list = 1
    <2>1. \A k \in H, l \in B : Goes(k, l)
      BY <1>12, <1>13
    <2>2. Follows(after \o Reverse(equal), Q)
      BY <1>2, <1>6, <1>8, <1>9, <2>1, ConcatFollows DEF Goes
    <2>3. Lists(after \o Reverse(equal), H \cup B)
      BY <1>2, <1>6, ConcatLists
    <2>4. \A k \in H \cup B, l \in L : Goes(k, l)
      BY <1>11, <1>12, <1>13, <1>14
    <2>5. Follows((after \o Reverse(equal)) \o Reverse(before), Q)
      BY <1>6, <1>7, <2>2, <2>3, <2>4, ConcatFollows DEF Goes
    <2>6. list # 0
      BY <1>11
    <2> QED
      BY <1>1, <2>5, <2>6 DEF PocPuts, s, Q
  <1> QED
    BY <1>10, <1>11

\* Stores by descending FrameNumWrap are in the order of a P list.
LEMMA ByFrameNumWrapFollows ==
    ASSUME ListState, NEW K \in SUBSET DOMAIN stores, NEW slice, slice.type = "P", NEW x
    PROVE  Follows(ByFrameNumWrap(K), StoreOrder(slice, x))
  <1> DEFINE w(k) == FrameNumWrap(stores[k], pending.header.frameNum, pending.maxFrameNum)
             v == [k \in K |-> -w(k)]
             s == ByFrameNumWrap(K)
  <1>1. K \subseteq Nat /\ IsFiniteSet(K) /\ \A k \in K : w(k) \in Int
    BY HoldingParts, ListStateParts
  <1>2. s = Ascending(K, v)
    <2>1. v = [k \in K |-> -([j \in K |-> w(j)][k])]
      OBVIOUS
    <2> QED
      BY <2>1 DEF ByFrameNumWrap, Descending
  <1>3. Lists(s, K)
    BY ByFrameNumWrapLists
  <1>4. Follows(s, StepsUp(K, v))
    <2>1. \A k \in K : v[k] \in Int
      BY <1>1
    <2> HIDE DEF v, s
    <2> QED
      BY <1>1, <1>2, <2>1, AscendingFollows
  <1>5. \A k, l \in K : <<k, l>> \in StepsUp(K, v) => <<k, l>> \in StoreOrder(slice, x)
    <2> SUFFICES ASSUME NEW k \in K, NEW l \in K, v[k] <= v[l]
                 PROVE  ShortTermBefore(slice, x, k, l)
      BY DEF StepsUp, StoreOrder
    <2>1. w(k) \in Int /\ w(l) \in Int /\ -w(k) <= -w(l)
      BY <1>1
    <2>2. w(k) >= w(l)
      <3> HIDE DEF w
      <3> QED
        BY <2>1
    <2> QED
      BY <2>2 DEF ShortTermBefore
  <1> HIDE DEF v, s
  <1>6. Follows(s, StoreOrder(slice, x))
    BY <1>3, <1>4, <1>5, FollowsWider
  <1> QED
    BY <1>6 DEF s

\* Long-term stores are in the order of their indices.
LEMMA LongTermByIdxFollows ==
    ASSUME ListState
    PROVE  Follows(LongTermByIdx(Current), IdxOrder)
  <1> DEFINE K == Holding(Current, "LongTerm")
             v == [k \in K |-> LongTermFrameIdx(stores[k])]
             s == LongTermByIdx(Current)
  <1>1. K \subseteq DOMAIN stores
    BY HoldingParts
  <1>2. K \subseteq Nat /\ IsFiniteSet(K) /\ \A k \in K : v[k] \in Int
    BY <1>1, HoldingParts, ListStateParts
  <1>3. s = Ascending(K, v)
    BY DEF LongTermByIdx
  <1>4. Lists(s, K)
    BY LongTermByIdxLists
  <1>5. \A k, l \in K : <<k, l>> \in StepsUp(K, v) => <<k, l>> \in IdxOrder
    BY <1>1 DEF StepsUp, IdxOrder, LongTermBefore
  <1> HIDE DEF K, v, s
  <1>6. Follows(s, StepsUp(K, v))
    BY <1>2, <1>3, AscendingFollows
  <1>7. Follows(s, IdxOrder)
    BY <1>4, <1>5, <1>6, FollowsWider
  <1> QED
    BY <1>7 DEF s

\* Ordered short-term entries before ordered long-term ones are in the order of the clauses.
LEMMA ConcatOrdered ==
    ASSUME NEW D, NEW E, NEW a, NEW b, Lists(a, D), Lists(b, E), NEW slice, NEW x,
           \A e \in D : IsShortTerm(e), \A e \in E : ~IsShortTerm(e),
           KeepsOrder(a, StoreOrder(slice, x)), KeepsOrder(b, IdxOrder),
           InTurns(a, Current), InTurns(b, Current)
    PROVE  Ordered(a \o b, slice, x)
  <1> DEFINE n == Len(a)
             m == Len(b)
             s == a \o b
             U == D \cup E
  <1>1. /\ n \in Nat /\ DOMAIN a = 1 .. n /\ \A k \in 1 .. n : a[k] \in D
        /\ m \in Nat /\ DOMAIN b = 1 .. m /\ \A k \in 1 .. m : b[k] \in E
    BY ListsParts
  <1>2. a \in Seq(U) /\ b \in Seq(U)
    BY DEF Lists
  <1>3. s \in Seq(U) /\ Len(s) = n + m /\ IsConcat(s, a, b, n, m)
    <2> HIDE DEF U, n, m
    <2> QED
      BY <1>1, <1>2, Concat DEF n, m
  <1>4. DOMAIN s = 1 .. n + m /\ \A i \in 1 .. n + m : s[i] = IF i <= n THEN a[i] ELSE b[i - n]
    BY <1>3 DEF IsConcat
  <1> HIDE DEF n, m, s, U
  <1>5. ASSUME NEW i \in 1 .. n + m
        PROVE  \/ i <= n /\ i \in 1 .. n /\ s[i] = a[i] /\ IsShortTerm(s[i])
               \/ ~(i <= n) /\ i - n \in 1 .. m /\ s[i] = b[i - n] /\ ~IsShortTerm(s[i])
    <2>1. CASE i <= n
      <3>1. i \in 1 .. n /\ s[i] = a[i]
        BY <1>1, <1>4, <2>1
      <3> QED
        BY <1>1, <2>1, <3>1
    <2>2. CASE ~(i <= n)
      <3>1. i - n \in 1 .. m /\ s[i] = b[i - n]
        BY <1>1, <1>4, <2>2
      <3> QED
        BY <1>1, <2>2, <3>1
    <2> QED
      BY <2>1, <2>2
  <1>6. ASSUME NEW i \in 1 .. n + m, NEW j \in 1 .. n + m, i < j
        PROVE  /\ IsShortTerm(s[j]) => IsShortTerm(s[i])
               /\ Alike(s[i], s[j]) =>
                    IF IsShortTerm(s[i]) THEN ShortTermBefore(slice, x, s[i][1], s[j][1])
                    ELSE LongTermBefore(s[i][1], s[j][1])
    <2>1. IsShortTerm(s[j]) => IsShortTerm(s[i])
      BY <1>1, <1>5, <1>6
    <2>2. ASSUME Alike(s[i], s[j]), IsShortTerm(s[i])
          PROVE  ShortTermBefore(slice, x, s[i][1], s[j][1])
      <3>1. i \in 1 .. n /\ j \in 1 .. n /\ s[i] = a[i] /\ s[j] = a[j] /\ s[i][2] = s[j][2]
        BY <1>5, <2>2 DEF Alike
      <3>2. <<s[i][1], s[j][1]>> \in StoreOrder(slice, x)
        BY <1>1, <1>6, <3>1 DEF KeepsOrder
      <3> QED
        BY <3>2 DEF StoreOrder
    <2>3. ASSUME Alike(s[i], s[j]), ~IsShortTerm(s[i])
          PROVE  LongTermBefore(s[i][1], s[j][1])
      <3> DEFINE g == i - n
                 h == j - n
      <3>1. g \in 1 .. m /\ h \in 1 .. m /\ s[i] = b[g] /\ s[j] = b[h] /\ s[i][2] = s[j][2]
        BY <1>5, <2>3 DEF Alike
      <3>2. g < h
        BY <1>1, <1>6
      <3> HIDE DEF g, h
      <3>3. <<s[i][1], s[j][1]>> \in IdxOrder
        BY <1>1, <3>1, <3>2 DEF KeepsOrder
      <3> QED
        BY <3>3 DEF IdxOrder
    <2> QED
      BY <2>1, <2>2, <2>3
  <1>7. InItsOrder(s, slice, x)
    BY <1>4, <1>6 DEF InItsOrder
  <1>8. ASSUME NEW i \in 1 .. n + m,
               \/ i + 1 \in 1 .. n + m /\ (IsShortTerm(s[i + 1]) <=> IsShortTerm(s[i])) /\ s[i][2] = s[i + 1][2]
               \/ s[i][2] # Current /\ (i = 1 \/ ~(IsShortTerm(s[i - 1]) <=> IsShortTerm(s[i]))),
               NEW j \in 1 .. n + m, j > i, IsShortTerm(s[j]) <=> IsShortTerm(s[i])
        PROVE  s[j][2] = s[i][2]
    <2>1. CASE IsShortTerm(s[i])
      <3>1. i \in 1 .. n /\ j \in 1 .. n /\ s[i] = a[i] /\ s[j] = a[j]
        BY <1>5, <1>8, <2>1
      <3>2. CASE i + 1 \in 1 .. n + m /\ (IsShortTerm(s[i + 1]) <=> IsShortTerm(s[i])) /\ s[i][2] = s[i + 1][2]
        <4>1. i + 1 \in 1 .. n /\ s[i + 1] = a[i + 1]
          BY <1>5, <2>1, <3>2
        <4>2. OneLeft(a, i)
          BY <1>1, <3>1, <3>2, <4>1 DEF InTurns
        <4> QED
          BY <1>1, <1>8, <3>1, <4>2 DEF OneLeft
      <3>3. CASE s[i][2] # Current /\ (i = 1 \/ ~(IsShortTerm(s[i - 1]) <=> IsShortTerm(s[i])))
        <4>1. i = 1
          <5>1. i # 1 => i - 1 \in 1 .. n + m /\ i - 1 <= n
            BY <1>1, <3>1
          <5> QED
            BY <1>5, <2>1, <3>3, <5>1
        <4>2. OneLeft(a, i)
          BY <1>1, <3>1, <3>3, <4>1 DEF InTurns
        <4> QED
          BY <1>1, <1>8, <3>1, <4>2 DEF OneLeft
      <3> QED
        BY <1>8, <3>2, <3>3
    <2>2. CASE ~IsShortTerm(s[i])
      <3> DEFINE g == i - n
                 h == j - n
      <3>1. ~(i <= n) /\ g \in 1 .. m /\ h \in 1 .. m /\ s[i] = b[g] /\ s[j] = b[h]
        BY <1>5, <1>8, <2>2
      <3>2. h > g
        BY <1>1, <1>8
      <3>3. CASE i + 1 \in 1 .. n + m /\ (IsShortTerm(s[i + 1]) <=> IsShortTerm(s[i])) /\ s[i][2] = s[i + 1][2]
        <4>1. (i + 1) - n \in 1 .. m /\ s[i + 1] = b[(i + 1) - n]
          BY <1>5, <2>2, <3>3
        <4>2. (i + 1) - n = g + 1
          BY <1>1
        <4> HIDE DEF g, h
        <4>3. g + 1 \in 1 .. m /\ b[g][2] = b[g + 1][2]
          BY <3>1, <3>3, <4>1, <4>2
        <4>4. OneLeft(b, g)
          BY <1>1, <3>1, <4>3 DEF InTurns
        <4> QED
          BY <1>1, <3>1, <3>2, <4>4 DEF OneLeft
      <3>4. CASE s[i][2] # Current /\ (i = 1 \/ ~(IsShortTerm(s[i - 1]) <=> IsShortTerm(s[i])))
        <4>1. g = 1
          <5>1. i # 1 => i - 1 \in 1 .. n + m
            BY <1>1, <3>1
          <5>2. i # 1 => i - 1 <= n
            BY <1>5, <2>2, <3>4, <5>1
          <5> QED
            BY <1>1, <3>1, <5>2
        <4> HIDE DEF g, h
        <4>2. OneLeft(b, g)
          BY <1>1, <3>1, <3>4, <4>1 DEF InTurns
        <4> QED
          BY <1>1, <3>1, <3>2, <4>2 DEF OneLeft
      <3> QED
        BY <1>8, <3>3, <3>4
    <2> QED
      BY <2>1, <2>2
  <1>9. FieldsTakeTurns(s)
    <2> SUFFICES ASSUME NEW i \in 1 .. n + m
                 PROVE  LET rest == {j \in 1 .. n + m : j > i /\ (IsShortTerm(s[j]) <=> IsShortTerm(s[i]))}
                        IN  /\ i + 1 \in rest /\ s[i][2] = s[i + 1][2] => \A j \in rest : s[j][2] = s[i][2]
                            /\ s[i][2] # Current /\ (i = 1 \/ ~(IsShortTerm(s[i - 1]) <=> IsShortTerm(s[i])))
                                 => \A j \in rest : s[j][2] = s[i][2]
      BY <1>4 DEF FieldsTakeTurns, Current
    <2> QED
      BY <1>8
  <1> QED
    BY <1>7, <1>9 DEF Ordered, s

ListCount(slice) == IF slice.type = "P" THEN 1 ELSE 2

\* Every initial list names the usable entries once each.
LEMMA InitListsList ==
    ASSUME ListState, NEW sps, NEW slice, NEW i \in 1 .. ListCount(slice)
    PROVE  Lists(InitLists(sps, slice)[i], Usable(sps, slice))
  <1> DEFINE p == InitialP(sps, slice, Current)
             l0 == InitialB(sps, slice, Current, 0)
             l1 == InitialB(sps, slice, Current, 1)
             U == Usable(sps, slice)
             swap == IF Len(l1) > 1 /\ l1 = l0 THEN SwapFirst(l1) ELSE l1
  <1>1. InitLists(sps, slice) = IF slice.type = "P" THEN <<p, <<>>>> ELSE <<l0, swap>>
    BY DEF InitLists, Current
  <1>2. Lists(p, U)
    <2>1. ShortTermFor(sps, slice, Current) \in SUBSET DOMAIN stores
      BY DEF ShortTermFor, Holding
    <2>2. Lists(ByFrameNumWrap(ShortTermFor(sps, slice, Current)), ShortTermFor(sps, slice, Current))
      BY <2>1, ByFrameNumWrapLists
    <2> QED
      BY <2>2, EntriesUsable DEF InitialP
  <1>3. Lists(l0, U) /\ Lists(l1, U)
    BY PocOrderLists, EntriesUsable DEF InitialB
  <1> HIDE DEF p, l0, l1, U
  <1>4. Lists(swap, U)
    BY <1>3, SwapLists
  <1> HIDE DEF swap
  <1>5. CASE slice.type = "P"
    <2>1. i = 1 /\ InitLists(sps, slice)[1] = p
      BY <1>1, <1>5 DEF ListCount
    <2> QED
      BY <1>2, <2>1 DEF U
  <1>6. CASE slice.type # "P"
    <2>1. (i = 1 \/ i = 2) /\ InitLists(sps, slice)[1] = l0 /\ InitLists(sps, slice)[2] = swap
      BY <1>1, <1>6 DEF ListCount
    <2> QED
      BY <1>3, <1>4, <2>1 DEF U
  <1> QED
    BY <1>5, <1>6

-----------------------------------------------------------------------------
(* The properties of the initial lists *)

\* The picture in progress is no usable entry, its first field is.
LEMMA FirstFieldUsable ==
    ASSUME ListState, PictureInv(pending), NEW sps, NEW slice
    PROVE  /\ <<pending.key, Current>> \notin Usable(sps, slice)
           /\ pending.secondField /\ pending.key \in References(stores)
                => <<pending.key, Other(Current)>> \in Usable(sps, slice)
  <1> DEFINE k == pending.key
             s == stores[k]
             own == <<k, Current>>
             first == <<k, Other(Current)>>
  <1>1. k \in DOMAIN stores => /\ pending.secondField
                               /\ IsField(pending.header.structure)
                               /\ Lacks(s, Current)
    <2>1. /\ ~pending.secondField => k \notin DOMAIN stores
          /\ pending.secondField => /\ IsField(pending.header.structure)
                                    /\ k \in DOMAIN stores => Lacks(s, Current)
      BY DEF PictureInv, Current
    <2>2. pending.secondField \in BOOLEAN
      BY DEF ListState, CurrentPicture
    <2> QED
      BY <2>1, <2>2
  <1>2. IsField(pending.header.structure) => Current \in Parities
    <2>1. pending.header \in Headers
      BY DEF ListState, CurrentPicture
    <2> QED
      BY <2>1, HeaderParts DEF Current
  <1>3. None \notin Parities
    BY NoneAssumption
  <1>4. own \notin Usable(sps, slice)
    <2> SUFFICES ASSUME own \in Usable(sps, slice)  PROVE FALSE
      OBVIOUS
    <2>1. k \in DOMAIN stores
      BY DEF Usable, Entries
    <2>2. EntryIs(s, Current, "ShortTerm") \/ EntryIs(s, Current, "LongTerm")
      BY DEF Usable
    <2>3. Current # None /\ ~s.fields[Current].decoded
      BY <1>1, <1>2, <1>3, <2>1 DEF Lacks
    <2> QED
      BY <2>2, <2>3 DEF EntryIs, IsMarked
  <1>5. ASSUME k \in References(stores)
        PROVE  first \in Usable(sps, slice)
    <2>1. k \in DOMAIN stores /\ IsReference(s)
      BY <1>5 DEF References
    <2>2. Current \in Parities /\ Lacks(s, Current)
      BY <1>1, <1>2, <2>1
    <2>3. Other(Current) \in Parities /\ Parities = {Current, Other(Current)}
      BY <2>2, Others
    <2> DEFINE q == Other(Current)
               f == s.fields[q]
    <2>4. f.decoded /\ f.marking # "Unused"
      <3>1. PICK p \in Parities : s.fields[p].decoded /\ s.fields[p].marking # "Unused"
        BY <2>1 DEF IsReference
      <3>2. p # Current
        BY <2>2, <3>1 DEF Lacks
      <3> QED
        BY <2>3, <3>1, <3>2
    <2>5. f.marking \in Markings
      <3>1. f \in FieldState
        BY <2>1, <2>3, StoreParts DEF ListState
      <3> QED
        BY <3>1 DEF FieldState
    <2>6. IsMarked(f, "ShortTerm") \/ IsMarked(f, "LongTerm")
      BY <2>4, <2>5 DEF IsMarked, Markings
    <2>7. q # None /\ Current # None
      BY <1>3, <2>2, <2>3
    <2>8. first \in Entries(stores, Current)
      BY <2>1, <2>3, <2>7 DEF Entries
    <2>9. EntryIs(stores[first[1]], first[2], "ShortTerm") \/ EntryIs(stores[first[1]], first[2], "LongTerm")
      BY <2>6, <2>7 DEF EntryIs
    <2>10. ~stores[first[1]].nonExisting
      BY <2>2 DEF Lacks
    <2> HIDE DEF first
    <2> QED
      BY <2>8, <2>9, <2>10 DEF Usable, Current
  <1> QED
    BY <1>4, <1>5

\* The lists of a slice name what they must and not the picture in progress.
LEMMA ListsName ==
    ASSUME ListState, PictureInv(pending), NEW sps, NEW slice
    PROVE  /\ \A i \in 1 .. ListCount(slice) : NamesEveryUsable(InitLists(sps, slice)[i], sps, slice)
           /\ FirstFieldNotItself(InitLists(sps, slice))
  <1> DEFINE lists == InitLists(sps, slice)
             U == Usable(sps, slice)
             own == <<pending.key, Current>>
             first == <<pending.key, Other(Current)>>
  <1>1. \A i \in 1 .. ListCount(slice) : Lists(lists[i], U)
    BY InitListsList
  <1>2. \A i \in 1 .. ListCount(slice) : NamesEveryUsable(lists[i], sps, slice)
    BY <1>1 DEF NamesEveryUsable, Lists
  <1>3. ToSet(lists[1]) = U
    BY <1>1 DEF ListCount, Lists
  <1>4. ToSet(lists[2]) \subseteq U
    <2>1. CASE slice.type = "P"
      <3>1. lists[2] = <<>>
        BY <2>1 DEF InitLists
      <3> QED
        BY <3>1 DEF ToSet
    <2>2. CASE slice.type # "P"
      BY <1>1, <2>2 DEF ListCount, Lists
    <2> QED
      BY <2>1, <2>2
  <1>5. own \notin U /\ (pending.secondField /\ pending.key \in References(stores) => first \in U)
    BY FirstFieldUsable
  <1>6. own[2] = Current
    OBVIOUS
  <1> HIDE DEF lists, U
  <1>7. FirstFieldNotItself(lists)
    BY <1>3, <1>4, <1>5, <1>6 DEF FirstFieldNotItself, Current
  <1> QED
    BY <1>2, <1>7 DEF lists

\* Ordered stores give a list in the order of the clauses.
LEMMA ListOrdered ==
    ASSUME ListState, NEW sps, NEW slice, NEW x, NEW keys,
           Lists(keys, ShortTermFor(sps, slice, Current)), Follows(keys, StoreOrder(slice, x))
    PROVE  Ordered(EntriesOf(keys, Current, "ShortTerm")
                     \o EntriesOf(LongTermByIdx(Current), Current, "LongTerm"), slice, x)
  <1> DEFINE S == ShortTermFor(sps, slice, Current)
             L == Holding(Current, "LongTerm")
             short == Listed(S, Current, "ShortTerm")
             long == Listed(L, Current, "LongTerm")
             a == EntriesOf(keys, Current, "ShortTerm")
             b == EntriesOf(LongTermByIdx(Current), Current, "LongTerm")
  <1>1. Current \in Parities \cup {None} /\ None \notin Parities
    BY ListStateParts, NoneAssumption DEF Current
  <1>2. /\ Lists(a, short)
        /\ KeepsOrder(a, StoreOrder(slice, x)) /\ InTurns(a, Current)
    <2> HIDE DEF S
    <2> QED
      BY <1>1, EntriesOfLists, EntriesOrdered DEF S
  <1>3. Lists(b, long) /\ KeepsOrder(b, IdxOrder) /\ InTurns(b, Current)
    <2>1. Lists(LongTermByIdx(Current), L) /\ Follows(LongTermByIdx(Current), IdxOrder)
      BY LongTermByIdxLists, LongTermByIdxFollows
    <2> HIDE DEF L
    <2> QED
      BY <1>1, <2>1, EntriesOfLists, EntriesOrdered
  <1>4. \A e \in short : IsShortTerm(e)
    <2>1. CASE Current = None
      BY <2>1 DEF Listed, ShortTermFor, Holding, IsShortTerm, EntryIs
    <2>2. CASE Current # None
      <3>1. \A e \in short : e[2] # None /\ IsMarked(stores[e[1]].fields[e[2]], "ShortTerm")
        BY <1>1, <2>2 DEF Listed
      <3> QED
        BY <3>1 DEF IsShortTerm, EntryIs
    <2> QED
      BY <2>1, <2>2
  <1>5. \A e \in long : ~IsShortTerm(e)
    <2>1. CASE Current = None
      <3>1. \A e \in long : e[2] = None /\ BothMarked(stores[e[1]], "LongTerm")
        BY <2>1 DEF Listed, Holding
      <3>2. \A k : BothMarked(stores[k], "LongTerm") => ~BothMarked(stores[k], "ShortTerm")
        BY DEF BothMarked, IsMarked, Parities
      <3> QED
        BY <3>1, <3>2 DEF IsShortTerm, EntryIs
    <2>2. CASE Current # None
      <3>1. \A e \in long : e[2] # None /\ IsMarked(stores[e[1]].fields[e[2]], "LongTerm")
        BY <1>1, <2>2 DEF Listed
      <3> QED
        BY <3>1 DEF IsShortTerm, EntryIs, IsMarked
    <2> QED
      BY <2>1, <2>2
  <1> HIDE DEF short, long, a, b
  <1>6. Ordered(a \o b, slice, x)
    BY <1>2, <1>3, <1>4, <1>5, ConcatOrdered
  <1> QED
    BY <1>6 DEF a, b

\* As many entries as both have.
LEMMA LenConcat ==
    ASSUME NEW S, NEW a \in Seq(S), NEW b \in Seq(S)
    PROVE  Len(a \o b) = Len(a) + Len(b)
  OBVIOUS

\* Two entries change places, the others stay.
LEMMA SwapExchanges ==
    ASSUME NEW E, NEW a, Lists(a, E), Len(a) > 1
    PROVE  Exchanged(a, SwapFirst(a))
  <1> DEFINE n == Len(a)
             h == <<a[2], a[1]>>
             t == SubSeq(a, 3, n)
             s == SwapFirst(a)
  <1>1. a \in Seq(E) /\ n \in Nat /\ n > 1 /\ DOMAIN a = 1 .. n
    BY DEF Lists
  <1>2. h \in Seq(E) /\ Len(h) = 2 /\ h[1] = a[2] /\ h[2] = a[1]
    <2>1. a[1] \in E /\ a[2] \in E
      BY <1>1
    <2> QED
      BY <2>1
  <1>3. t \in Seq(E) /\ Len(t) = n - 2 /\ \A i \in 1 .. n - 2 : t[i] = a[i + 2]
    BY <1>1
  <1>4. s = h \o t
    BY DEF SwapFirst
  <1> HIDE DEF n, h, t, s
  <1>5. Len(s) = n /\ \A i \in 1 .. n : s[i] = IF i <= 2 THEN h[i] ELSE t[i - 2]
    <2> DEFINE m == n - 2
    <2>1. m \in Nat /\ Len(t) = m /\ 2 \in Nat /\ 2 + m = n
      BY <1>1, <1>3
    <2> HIDE DEF m
    <2>2. h \in Seq(E) /\ t \in Seq(E) /\ Len(h) = 2
      BY <1>2, <1>3
    <2>3. IsConcat(s, h, t, 2, m)
      BY <1>4, <2>1, <2>2, Concat
    <2>4. Len(s) = n /\ IsConcat(s, h, t, 2, m)
      <3>1. Len(h \o t) = Len(h) + Len(t)
        BY <2>2, LenConcat
      <3> QED
        BY <1>4, <2>1, <2>2, <2>3, <3>1
    <2>5. \A i \in 1 .. 2 + m : s[i] = IF i <= 2 THEN h[i] ELSE t[i - 2]
      BY <2>4 DEF IsConcat
    <2> QED
      BY <2>1, <2>4, <2>5
  <1>6. s[1] = a[2] /\ s[2] = a[1]
    BY <1>1, <1>2, <1>5
  <1>7. \A i \in 3 .. n : s[i] = a[i]
    <2> SUFFICES ASSUME NEW i \in 3 .. n  PROVE s[i] = a[i]
      OBVIOUS
    <2>1. i - 2 \in 1 .. n - 2 /\ (i - 2) + 2 = i /\ i \in 1 .. n /\ ~(i <= 2)
      BY <1>1
    <2> QED
      BY <1>3, <1>5, <2>1
  <1> QED
    BY <1>1, <1>5, <1>6, <1>7 DEF Exchanged, s, n

\* Whatever the state, the initial lists are in the order of the clauses.
LEMMA ListsInOrder ==
    ASSUME ListState, NEW sps, NEW slice
    PROVE  ListsOrdered(InitLists(sps, slice), slice)
  <1> DEFINE p == InitialP(sps, slice, Current)
             l0 == InitialB(sps, slice, Current, 0)
             l1 == InitialB(sps, slice, Current, 1)
             swap == IF Len(l1) > 1 /\ l1 = l0 THEN SwapFirst(l1) ELSE l1
             lists == InitLists(sps, slice)
  <1>1. lists = IF slice.type = "P" THEN <<p, <<>>>> ELSE <<l0, swap>>
    BY DEF InitLists, Current
  <1>2. CASE slice.type = "P"
    <2> DEFINE K == ShortTermFor(sps, slice, Current)
    <2>1. K \in SUBSET DOMAIN stores
      BY DEF ShortTermFor, Holding
    <2>2. Lists(ByFrameNumWrap(K), K) /\ Follows(ByFrameNumWrap(K), StoreOrder(slice, 0))
      <3> HIDE DEF K
      <3> QED
        BY <1>2, <2>1, ByFrameNumWrapLists, ByFrameNumWrapFollows
    <2>3. Ordered(p, slice, 0)
      BY <2>2, ListOrdered DEF InitialP
    <2> HIDE DEF p, lists
    <2>4. lists[1] = p
      BY <1>1, <1>2
    <2> QED
      BY <1>2, <2>3, <2>4 DEF ListsOrdered, lists
  <1>3. CASE slice.type # "P"
    <2>1. Ordered(l0, slice, 0) /\ Ordered(l1, slice, 1)
      BY <1>3, PocOrderLists, PocOrderFollows, ListOrdered DEF InitialB
    <2>2. Lists(l1, Usable(sps, slice))
      BY PocOrderLists, EntriesUsable DEF InitialB
    <2> HIDE DEF l0, l1, lists
    <2>3. lists[1] = l0 /\ lists[2] = swap
      BY <1>1, <1>3
    <2>4. CASE Len(l1) > 1 /\ l1 = l0
      <3>1. Exchanged(l0, swap)
        BY <2>2, <2>4, SwapExchanges
      <3> HIDE DEF swap
      <3> QED
        BY <2>1, <2>3, <2>4, <3>1 DEF ListsOrdered, lists
    <2>5. CASE ~(Len(l1) > 1 /\ l1 = l0)
      <3>1. swap = l1 /\ Len(l1) \in Nat
        BY <2>2, <2>5, ListsParts
      <3> HIDE DEF swap
      <3>2. l0 = l1 => Len(l0) <= 1
        BY <2>5, <3>1
      <3> QED
        BY <2>1, <2>3, <3>1, <3>2 DEF ListsOrdered, lists
    <2> QED
      BY <2>4, <2>5
  <1> QED
    BY <1>2, <1>3

\* The invariant of the buffer has what the lists need.
LEMMA InvLists ==
    ASSUME IInv
    PROVE  pending # None => ListState /\ PictureInv(pending)
  <1>1. AreStores(stores) /\ IsFiniteSet(DOMAIN stores)
    BY StoresFinite
  <1> QED
    BY <1>1 DEF IInv, TypeOK, KeysInv, ListState

\* The initial lists name every usable reference exactly once, short-term before
\* long-term, each class and parity in its order and fields in turns, and never the
\* picture in progress (init_lists over every state the buffer reaches).
THEOREM InitialListsAsMeantAlways == Spec => []InitialListsAsMeant
  <1>1. ASSUME IInv, pending # None, NEW sps \in SpsSet, NEW slice \in Slices
        PROVE  LET lists == InitLists(sps, slice)
               IN  /\ \A i \in 1 .. (IF slice.type = "P" THEN 1 ELSE 2) : NamesEveryUsable(lists[i], sps, slice)
                   /\ ListsOrdered(lists, slice)
                   /\ FirstFieldNotItself(lists)
    <2>1. ListState /\ PictureInv(pending)
      BY <1>1, InvLists
    <2> QED
      BY <2>1, ListsName, ListsInOrder DEF ListCount
  <1>2. IInv => InitialListsAsMeant
    BY <1>1 DEF InitialListsAsMeant, HasBegun
  <1> QED
    BY <1>2, Invariance, PTL

-----------------------------------------------------------------------------
(* Multiples *)

\* x is a multiple of m.
Multiple(x, m) == \E q \in Int : x = q * m

\* No remainder is left of multiples only.
LEMMA RemainderZero ==
    ASSUME NEW m \in Nat \ {0}, NEW x \in Int
    PROVE  x % m = 0 <=> Multiple(x, m)
  <1>1. x % m \in 0 .. m - 1 /\ x \div m \in Int /\ x = m * (x \div m) + (x % m)
    OBVIOUS
  <1>2. ASSUME x % m = 0
        PROVE  Multiple(x, m)
    <2> DEFINE q == x \div m
               r == x % m
    <2>1. q \in Int /\ r = 0 /\ x = m * q + r
      BY <1>1, <1>2
    <2> HIDE DEF q, r
    <2>2. x = q * m
      BY <2>1
    <2> QED
      BY <2>1, <2>2 DEF Multiple
  <1>3. ASSUME NEW q \in Int, x = q * m
        PROVE  x % m = 0
    <2> DEFINE d == x \div m
               r == x % m
    <2>1. d \in Int /\ r \in 0 .. m - 1 /\ x = m * d + r
      BY <1>1
    <2> HIDE DEF d, r
    <2>2. (q - d) * m = r
      <3>1. (q - d) * m = q * m - m * d
        BY <2>1
      <3> QED
        BY <1>3, <2>1, <3>1
    <2>3. q - d \in Int
      BY <2>1
    <2>4. ASSUME NEW k \in Int, k * m \in 0 .. m - 1
          PROVE  k * m = 0
      <3>1. CASE k <= -1
        <4>1. k * m <= (-1) * m
          BY <3>1
        <4> QED
          BY <2>4, <4>1
      <3>2. CASE k = 0
        BY <3>2
      <3>3. CASE k >= 1
        <4>1. k * m >= 1 * m
          BY <3>3
        <4> QED
          BY <2>4, <4>1
      <3> QED
        BY <3>1, <3>2, <3>3
    <2>5. r = 0
      BY <2>1, <2>2, <2>3, <2>4
    <2> QED
      BY <2>5 DEF r
  <1> QED
    BY <1>2, <1>3 DEF Multiple

\* Two numbers of the same remainder in a range of m numbers are one.
LEMMA SameRemainder ==
    ASSUME NEW m \in Nat \ {0}, NEW c \in Int, NEW t \in Int,
           NEW v \in c - m + 1 .. c, NEW w \in c - m + 1 .. c,
           Multiple(v - t, m), Multiple(w - t, m)
    PROVE  v = w
  <1>1. PICK p \in Int : v - t = p * m
    BY DEF Multiple
  <1>2. PICK q \in Int : w - t = q * m
    BY DEF Multiple
  <1>3. v - w = (p - q) * m
    <2>1. (p - q) * m = p * m - q * m
      OBVIOUS
    <2> QED
      BY <1>1, <1>2, <2>1
  <1>4. ASSUME NEW k \in Int, k * m < m, -m < k * m
        PROVE  k * m = 0
    <2>1. CASE k <= -1
      <3>1. k * m <= (-1) * m
        BY <2>1
      <3> QED
        BY <1>4, <3>1
    <2>2. CASE k = 0
      BY <2>2
    <2>3. CASE k >= 1
      <3>1. k * m >= 1 * m
        BY <2>3
      <3> QED
        BY <1>4, <3>1
    <2> QED
      BY <2>1, <2>2, <2>3
  <1>5. (p - q) * m = 0
    <2>1. v - w < m /\ -m < v - w /\ p - q \in Int
      OBVIOUS
    <2> QED
      BY <1>3, <1>4, <2>1
  <1> QED
    BY <1>3, <1>5

\* The multiples of m next to one.
LEMMA NextMultiple ==
    ASSUME NEW m \in Int, NEW x \in Int, Multiple(x, m)
    PROVE  Multiple(x + m, m) /\ Multiple(x - m, m)
  <1>1. PICK q \in Int : x = q * m
    BY DEF Multiple
  <1>2. (q + 1) * m = q * m + m /\ (q - 1) * m = q * m - m
    OBVIOUS
  <1>3. q + 1 \in Int /\ q - 1 \in Int
    OBVIOUS
  <1> QED
    BY <1>1, <1>2, <1>3 DEF Multiple

-----------------------------------------------------------------------------
(* Picture numbers of the commands *)

\* Every command a slice may have.
ListCommands(commands) == commands \in Seq(Command) /\ DifferencesInRange(commands)

\* The picture in progress has a frame_num its parameter set can code.
NumberInRange == pending.header.frameNum < pending.maxFrameNum

\* The current picture number is below MaxPicNum.
LEMMA NumberRange ==
    ASSUME ListState, NumberInRange
    PROVE  MaxPicNum \in Nat \ {0} /\ CurrentPicNum \in 0 .. MaxPicNum - 1
  <1>1. pending.header.frameNum \in Nat /\ pending.maxFrameNum \in Nat
    BY ListStateParts
  <1> DEFINE f == pending.header.frameNum
             x == pending.maxFrameNum
  <1>2. /\ MaxPicNum = IF IsField(pending.header.structure) THEN 2 * x ELSE x
        /\ CurrentPicNum = IF IsField(pending.header.structure) THEN 2 * f + 1 ELSE f
    <2>1. pending.header.structure \in Structures
      BY HeaderParts DEF ListState, CurrentPicture
    <2>2. None \notin Parities
      BY NoneAssumption
    <2>3. ParityOf(pending.header.structure) = None <=> ~IsField(pending.header.structure)
      BY <2>1, <2>2 DEF ParityOf, IsField, Structures, Parities
    <2> QED
      BY <2>3 DEF MaxPicNum, CurrentPicNum, CurrPicNum
  <1>3. f < x
    BY DEF NumberInRange
  <1> HIDE DEF f, x
  <1> QED
    BY <1>1, <1>2, <1>3 DEF f, x

\* A prediction agrees with the sum of the differences.
Agrees(pred, total) ==
    /\ pred \in 0 .. MaxPicNum - 1 /\ total \in Int
    /\ Multiple(pred - (CurrentPicNum + total), MaxPicNum)

\* A wrapped step of the prediction is a step of the sum.
LEMMA PredictAgrees ==
    ASSUME MaxPicNum \in Nat \ {0}, CurrentPicNum \in 0 .. MaxPicNum - 1,
           NEW c \in Command, c.op # "LongTerm", c.value < MaxPicNum,
           NEW pred, NEW total, Agrees(pred, total)
    PROVE  Agrees(Predict(pred, c), total + Difference(c))
  <1> DEFINE m == MaxPicNum
             b == CurrentPicNum
             d == c.value + 1
             x == pred - (b + total)
  <1>1. c.value \in Nat /\ (c.op = "Subtract" \/ c.op = "Add")
    BY DEF Command
  <1>2. /\ m \in Nat \ {0} /\ b \in Int /\ d \in 1 .. m
        /\ pred \in 0 .. m - 1 /\ total \in Int /\ Multiple(x, m)
    BY <1>1 DEF Agrees
  <1>0. ASSUME NEW p \in 0 .. m - 1, NEW u \in Int, Multiple(p - (b + u), m)
        PROVE  Agrees(p, u)
    BY <1>0 DEF Agrees
  <1>3. CASE c.op = "Subtract"
    <2>1. Predict(pred, c) = (IF pred - d < 0 THEN pred - d + m ELSE pred - d) /\ Difference(c) = -d
      BY <1>3 DEF Predict, Difference
    <2> HIDE DEF m, b, d
    <2>2. pred - d - (b + (total + -d)) = x /\ (pred - d + m) - (b + (total + -d)) = x + m
      BY <1>2
    <2>3. Multiple(x + m, m)
      BY <1>2, NextMultiple
    <2> HIDE DEF x
    <2>4. Multiple(pred - d - (b + (total + -d)), m) /\ Multiple((pred - d + m) - (b + (total + -d)), m)
      BY <1>2, <2>2, <2>3
    <2>5. total + -d \in Int
      BY <1>2
    <2>6. CASE pred - d < 0
      <3>1. Predict(pred, c) = pred - d + m /\ pred - d + m \in 0 .. m - 1
        BY <1>2, <2>1, <2>6
      <3> QED
        BY <1>0, <2>1, <2>4, <2>5, <3>1
    <2>7. CASE ~(pred - d < 0)
      <3>1. Predict(pred, c) = pred - d /\ pred - d \in 0 .. m - 1
        BY <1>2, <2>1, <2>7
      <3> QED
        BY <1>0, <2>1, <2>4, <2>5, <3>1
    <2> QED
      BY <2>6, <2>7
  <1>4. CASE c.op = "Add"
    <2>1. Predict(pred, c) = (IF pred + d >= m THEN pred + d - m ELSE pred + d) /\ Difference(c) = d
      BY <1>4 DEF Predict, Difference
    <2> HIDE DEF m, b, d
    <2>2. (pred + d) - (b + (total + d)) = x /\ (pred + d - m) - (b + (total + d)) = x - m
      BY <1>2
    <2>3. Multiple(x - m, m)
      BY <1>2, NextMultiple
    <2> HIDE DEF x
    <2>4. Multiple((pred + d) - (b + (total + d)), m) /\ Multiple((pred + d - m) - (b + (total + d)), m)
      BY <1>2, <2>2, <2>3
    <2>5. total + d \in Int
      BY <1>2
    <2>6. CASE pred + d >= m
      <3>1. Predict(pred, c) = pred + d - m /\ pred + d - m \in 0 .. m - 1
        BY <1>2, <2>1, <2>6
      <3> QED
        BY <1>0, <2>1, <2>4, <2>5, <3>1
    <2>7. CASE ~(pred + d >= m)
      <3>1. Predict(pred, c) = pred + d /\ pred + d \in 0 .. m - 1
        BY <1>2, <2>1, <2>7
      <3> QED
        BY <1>0, <2>1, <2>4, <2>5, <3>1
    <2> QED
      BY <2>6, <2>7
  <1> QED
    BY <1>1, <1>3, <1>4

\* The number a prediction stands for is the one the differences name.
LEMMA AgreedNumber ==
    ASSUME MaxPicNum \in Nat \ {0}, CurrentPicNum \in 0 .. MaxPicNum - 1,
           NEW pred, NEW total, Agrees(pred, total)
    PROVE  (IF pred > CurrentPicNum THEN pred - MaxPicNum ELSE pred) =
             CHOOSE v \in CurrentPicNum - MaxPicNum + 1 .. CurrentPicNum :
                (v - CurrentPicNum - total) % MaxPicNum = 0
  <1> DEFINE m == MaxPicNum
             b == CurrentPicNum
             R == b - m + 1 .. b
             n == IF pred > b THEN pred - m ELSE pred
             t == b + total
  <1>1. m \in Nat \ {0} /\ b \in 0 .. m - 1 /\ pred \in 0 .. m - 1 /\ total \in Int /\ Multiple(pred - t, m)
    BY DEF Agrees
  <1> HIDE DEF m, b
  <1>2. t \in Int /\ n \in R
    BY <1>1
  <1>3. Multiple(n - t, m)
    <2>1. Multiple(pred - t - m, m)
      BY <1>1, <1>2, NextMultiple
    <2>2. pred - t - m = pred - m - t
      BY <1>1, <1>2
    <2> QED
      BY <1>1, <2>1, <2>2
  <1>4. ASSUME NEW v \in R
        PROVE  (v - b - total) % m = 0 <=> Multiple(v - t, m)
    <2>1. v - b - total = v - t /\ v - t \in Int
      BY <1>1
    <2> HIDE DEF t, R
    <2> QED
      BY <1>1, <2>1, RemainderZero
  <1> HIDE DEF n, t
  <1>5. \A v \in R : (v - b - total) % m = 0 <=> v = n
    <2> SUFFICES ASSUME NEW v \in R  PROVE (v - b - total) % m = 0 <=> v = n
      OBVIOUS
    <2>1. ASSUME Multiple(v - t, m)  PROVE v = n
      BY <1>1, <1>2, <1>3, <2>1, SameRemainder
    <2> QED
      BY <1>3, <1>4, <2>1
  <1> DEFINE Z(v) == (v - b - total) % m = 0
  <1>6. \A v \in R : Z(v) <=> v = n
    BY <1>5
  <1> HIDE DEF R, Z
  <1>7. n = CHOOSE v \in R : Z(v)
    BY <1>2, <1>6
  <1> QED
    BY <1>7 DEF n, R, Z, m, b

-----------------------------------------------------------------------------
(* The recursive functions of the loop and of the differences exist *)

TotalsRun(f, commands, m) == f = [i \in 0 .. m |-> IF i = 0 THEN 0 ELSE f[i - 1] + Difference(commands[i])]

\* The sums of the differences exist, one command after another.
LEMMA TotalsRunExists ==
    ASSUME NEW commands, NEW m \in Nat
    PROVE  \E f : TotalsRun(f, commands, m)
  <1> DEFINE P == {n \in 0 .. m : \E f : TotalsRun(f, commands, n)}
  <1>1. 0 \in P
    <2> DEFINE f == [i \in 0 .. 0 |-> 0]
    <2>1. TotalsRun(f, commands, 0)
      BY DEF TotalsRun
    <2> QED
      BY <2>1
  <1>2. ASSUME NEW n \in 1 .. m, n - 1 \in P
        PROVE  n \in P
    <2>1. PICK f : TotalsRun(f, commands, n - 1)
      BY <1>2
    <2> DEFINE last == f[n - 1] + Difference(commands[n])
               g == [j \in 0 .. n |-> IF j = n THEN last ELSE f[j]]
    <2>2. n - 1 \in 0 .. n - 1
      OBVIOUS
    <2> HIDE DEF last
    <2>3. (\A j \in 0 .. n - 1 : g[j] = f[j]) /\ g[n] = last
      OBVIOUS
    <2>4. ASSUME NEW i \in 0 .. n
          PROVE  g[i] = IF i = 0 THEN 0 ELSE g[i - 1] + Difference(commands[i])
      <3>1. CASE i = n
        <4>1. n # 0 /\ g[i - 1] = f[n - 1] /\ g[i] = last
          BY <2>2, <2>3, <3>1
        <4> HIDE DEF g
        <4> QED
          BY <3>1, <4>1 DEF last
      <3>2. CASE i # n
        <4>1. i \in 0 .. n - 1 /\ (i # 0 => i - 1 \in 0 .. n - 1)
          BY <3>2
        <4>2. f[i] = IF i = 0 THEN 0 ELSE f[i - 1] + Difference(commands[i])
          BY <2>1, <4>1 DEF TotalsRun
        <4> HIDE DEF g
        <4> QED
          BY <2>3, <4>1, <4>2
      <3> QED
        BY <3>1, <3>2
    <2>5. TotalsRun(g, commands, n)
      BY <2>4 DEF TotalsRun, g
    <2> QED
      BY <2>5
  <1>3. m \in P
    <2>1. m \in 0 .. m
      OBVIOUS
    <2> HIDE DEF P
    <2> QED
      BY <1>1, <1>2, <2>1, UpTo
  <1> QED
    BY <1>3

\* Each sum adds a difference to the one before.
LEMMA TotalsSteps ==
    ASSUME NEW commands, Len(commands) \in Nat
    PROVE  /\ Totals(commands)[0] = 0
           /\ \A i \in 1 .. Len(commands) : Totals(commands)[i] = Totals(commands)[i - 1] + Difference(commands[i])
  <1> DEFINE m == Len(commands)
             Is(f) == f = [i \in 0 .. Len(commands) |-> IF i = 0 THEN 0 ELSE f[i - 1] + Difference(commands[i])]
             f == CHOOSE f : Is(f)
  <1>1. \A g : Is(g) <=> TotalsRun(g, commands, m)
    BY DEF TotalsRun
  <1>2. \E g : Is(g)
    <2> HIDE DEF Is, m
    <2> QED
      BY <1>1, TotalsRunExists DEF m
  <1>3. Is(f)
    <2> HIDE DEF Is
    <2> QED
      BY <1>2, Zenon
  <1>4. Totals(commands) = f
    BY Zenon DEF Totals
  <1> HIDE DEF f
  <1>5. \A i \in 0 .. m : f[i] = IF i = 0 THEN 0 ELSE f[i - 1] + Difference(commands[i])
    BY <1>3
  <1>6. 0 \in 0 .. m /\ \A i \in 1 .. m : i \in 0 .. m /\ i # 0
    BY DEF m
  <1> QED
    BY <1>4, <1>5, <1>6

\* The list, the prediction and the index before the first command.
StartWork(initial, n) == [list |-> Append(Sized(initial, n), None), pred |-> CurrentPicNum, idx |-> 1]

WorksRun(f, initial, commands, size, m) == f = [i \in 0 .. m |-> IF i = 0 THEN StartWork(initial, size) ELSE Place(f[i - 1], commands[i])]

\* The steps of the loop exist, one command after another.
LEMMA WorksRunExists ==
    ASSUME NEW initial, NEW commands, NEW size, NEW m \in Nat
    PROVE  \E f : WorksRun(f, initial, commands, size, m)
  <1> DEFINE P == {n \in 0 .. m : \E f : WorksRun(f, initial, commands, size, n)}
  <1>1. 0 \in P
    <2> DEFINE f == [i \in 0 .. 0 |-> StartWork(initial, size)]
    <2>1. WorksRun(f, initial, commands, size, 0)
      BY DEF WorksRun
    <2> QED
      BY <2>1
  <1>2. ASSUME NEW n \in 1 .. m, n - 1 \in P
        PROVE  n \in P
    <2>1. PICK f : WorksRun(f, initial, commands, size, n - 1)
      BY <1>2
    <2> DEFINE last == Place(f[n - 1], commands[n])
               g == [j \in 0 .. n |-> IF j = n THEN last ELSE f[j]]
    <2>2. n - 1 \in 0 .. n - 1
      OBVIOUS
    <2> HIDE DEF last
    <2>3. (\A j \in 0 .. n - 1 : g[j] = f[j]) /\ g[n] = last
      OBVIOUS
    <2>4. ASSUME NEW i \in 0 .. n
          PROVE  g[i] = IF i = 0 THEN StartWork(initial, size) ELSE Place(g[i - 1], commands[i])
      <3>1. CASE i = n
        <4>1. n # 0 /\ g[i - 1] = f[n - 1] /\ g[i] = last
          BY <2>2, <2>3, <3>1
        <4> HIDE DEF g
        <4> QED
          BY <3>1, <4>1 DEF last
      <3>2. CASE i # n
        <4>1. i \in 0 .. n - 1 /\ (i # 0 => i - 1 \in 0 .. n - 1)
          BY <3>2
        <4>2. f[i] = IF i = 0 THEN StartWork(initial, size) ELSE Place(f[i - 1], commands[i])
          BY <2>1, <4>1 DEF WorksRun
        <4> HIDE DEF g
        <4> QED
          BY <2>3, <4>1, <4>2
      <3> QED
        BY <3>1, <3>2
    <2>5. WorksRun(g, initial, commands, size, n)
      BY <2>4 DEF WorksRun, g
    <2> QED
      BY <2>5
  <1>3. m \in P
    <2>1. m \in 0 .. m
      OBVIOUS
    <2> HIDE DEF P
    <2> QED
      BY <1>1, <1>2, <2>1, UpTo
  <1> QED
    BY <1>3

\* Each state of the loop is a command after the one before.
LEMMA WorksSteps ==
    ASSUME NEW initial, NEW commands, NEW size, Len(commands) \in Nat
    PROVE  /\ Works(initial, commands, size)[0] = StartWork(initial, size)
           /\ \A i \in 1 .. Len(commands) : Works(initial, commands, size)[i] = Place(Works(initial, commands, size)[i - 1], commands[i])
  <1> DEFINE m == Len(commands)
             Is(f) == f = [i \in 0 .. Len(commands) |-> IF i = 0 THEN [list |-> Append(Sized(initial, size), None), pred |-> CurrentPicNum, idx |-> 1] ELSE Place(f[i - 1], commands[i])]
             f == CHOOSE f : Is(f)
  <1>1. \A g : Is(g) <=> WorksRun(g, initial, commands, size, m)
    BY DEF WorksRun, StartWork
  <1>2. \E g : Is(g)
    <2> HIDE DEF Is, m
    <2> QED
      BY <1>1, WorksRunExists DEF m
  <1>3. Is(f)
    <2> HIDE DEF Is
    <2> QED
      BY <1>2, Zenon
  <1>4. Works(initial, commands, size) = f
    BY Zenon DEF Works
  <1> HIDE DEF f
  <1>5. \A i \in 0 .. m : f[i] = IF i = 0 THEN [list |-> Append(Sized(initial, size), None), pred |-> CurrentPicNum, idx |-> 1] ELSE Place(f[i - 1], commands[i])
    BY <1>3
  <1>6. 0 \in 0 .. m /\ \A i \in 1 .. m : i \in 0 .. m /\ i # 0
    BY DEF m
  <1> QED
    BY <1>4, <1>5, <1>6 DEF StartWork

-----------------------------------------------------------------------------
(* One command *)

ClassOf(c) == IF c.op = "LongTerm" THEN "LongTerm" ELSE "ShortTerm"

PredAfter(pred, c) == IF ClassOf(c) = "LongTerm" THEN pred ELSE Predict(pred, c)

NumberAt(pred, c) ==
    CASE ClassOf(c) = "LongTerm" -> c.value
      [] ClassOf(c) # "LongTerm" /\ pred > CurrentPicNum -> pred - MaxPicNum
      [] OTHER -> pred

\* The loop's number of a command is the one meant.
NumberMeant(pred, commands, i) ==
    LET after == PredAfter(pred, commands[i])
    IN  /\ Agrees(after, Totals(commands)[i])
        /\ <<ClassOf(commands[i]), NumberAt(after, commands[i])>> = Meant(commands, i)
        /\ NumberAt(after, commands[i]) \in Int

\* The prediction of the loop leads to the number meant.
LEMMA CommandNumber ==
    ASSUME ListState, NumberInRange, NEW commands, ListCommands(commands),
           NEW i \in 1 .. Len(commands), NEW pred, Agrees(pred, Totals(commands)[i - 1])
    PROVE  NumberMeant(pred, commands, i)
  <1> DEFINE c == commands[i]
             before == Totals(commands)[i - 1]
             total == Totals(commands)[i]
             after == PredAfter(pred, c)
  <1>1. c \in Command /\ (c.op # "LongTerm" => c.value < MaxPicNum) /\ Len(commands) \in Nat
    BY DEF ListCommands, DifferencesInRange
  <1>2. MaxPicNum \in Nat \ {0} /\ CurrentPicNum \in 0 .. MaxPicNum - 1
    BY NumberRange
  <1>3. total = before + Difference(c)
    BY <1>1, TotalsSteps
  <1>4. before \in Int /\ Agrees(pred, before)
    BY DEF Agrees
  <1>5. Meant(commands, i) =
          IF c.op = "LongTerm" THEN <<"LongTerm", c.value>>
          ELSE <<"ShortTerm",
                 CHOOSE v \in CurrentPicNum - MaxPicNum + 1 .. CurrentPicNum :
                    (v - CurrentPicNum - total) % MaxPicNum = 0>>
    BY DEF Meant
  <1> HIDE DEF c, before, total
  <1>6. CASE c.op = "LongTerm"
    <2>1. Difference(c) = 0 /\ ClassOf(c) = "LongTerm" /\ c.value \in Int
      BY <1>1, <1>6 DEF Difference, ClassOf, Command
    <2>2. total = before /\ after = pred /\ NumberAt(after, c) = c.value
      BY <1>3, <1>4, <2>1 DEF PredAfter, NumberAt
    <2>3. Meant(commands, i) = <<"LongTerm", c.value>>
      BY <1>5, <1>6
    <2> QED
      BY <1>4, <2>1, <2>2, <2>3 DEF NumberMeant, c, total
  <1>7. CASE c.op # "LongTerm"
    <2>1. ClassOf(c) = "ShortTerm" /\ after = Predict(pred, c)
      BY <1>7 DEF ClassOf, PredAfter
    <2>2. Agrees(Predict(pred, c), before + Difference(c))
      BY <1>1, <1>2, <1>4, <1>7, PredictAgrees
    <2>3. Agrees(after, total)
      BY <1>3, <2>1, <2>2
    <2> DEFINE number == IF after > CurrentPicNum THEN after - MaxPicNum ELSE after
               chosen == CHOOSE v \in CurrentPicNum - MaxPicNum + 1 .. CurrentPicNum :
                    (v - CurrentPicNum - total) % MaxPicNum = 0
    <2> HIDE DEF after
    <2>4. number = chosen
      BY <1>2, <2>3, AgreedNumber
    <2>5. NumberAt(after, c) = number
      BY <2>1 DEF NumberAt
    <2>6. Meant(commands, i) = <<"ShortTerm", chosen>>
      BY <1>5, <1>7
    <2> HIDE DEF chosen
    <2>7. number \in Int
      <3>1. after \in Int
        BY <1>2, <2>3 DEF Agrees
      <3> QED
        BY <1>2, <3>1
    <2> HIDE DEF number
    <2> QED
      BY <2>1, <2>3, <2>4, <2>5, <2>6, <2>7 DEF NumberMeant, c, total, after
  <1> QED
    BY <1>6, <1>7

\* A number names one entry of a list at most.
LEMMA NamedOnce ==
    ASSUME ListState, DistinctNumbers, NEW class \in {"ShortTerm", "LongTerm"}, NEW number \in Int,
           NEW e \in Entries(stores, Current), NEW f \in Entries(stores, Current),
           Named(e, class, number), Named(f, class, number)
    PROVE  e = f
  <1>1. None \notin Int
    BY SlicesAssumption
  <1>2. NumberOf(e[1], e[2], class) = number /\ NumberOf(f[1], f[2], class) = number
    BY DEF Named
  <1>3. number # None
    BY <1>1
  <1> QED
    BY <1>2, <1>3 DEF DistinctNumbers, Current

-----------------------------------------------------------------------------
(* Moving up and closing the gap *)

\* The positions in I whose entries have another number.
Unnamed(s, I, class, number) == {p \in I : ~Named(s[p], class, number)}

\* At most one position goes.
OneLess(I, J) == J = I \/ \E r \in I : J = I \ {r}

\* The first k entries of s are those of t.
Agree(s, t, k) == \A j \in 1 .. k : s[j] = t[j]

\* Closing up in the list and closing up in the sequence it begins are the same.
LEMMA ClosingUp ==
    ASSUME NEW sized, NEW I, I \subseteq Int, IsFiniteSet(I), NEW k \in Nat,
           k <= Cardinality(I), NEW moved, Agree(moved, Only(sized, I), k),
           NEW class, NEW number, OneLess(I, Unnamed(sized, I, class, number))
    PROVE  LET keeps == Only(moved, Unnamed(moved, 1 .. k, class, number))
               J == Unnamed(sized, I, class, number)
           IN  /\ Unnamed(moved, 1 .. k, class, number) \subseteq 1 .. k
               /\ Cardinality(Unnamed(moved, 1 .. k, class, number)) \in {k - 1, k}
               /\ Cardinality(J) \in Nat /\ Cardinality(J) >= k - 1
               /\ Agree(keeps, Only(sized, J), k - 1)
  <1> DEFINE J == Unnamed(sized, I, class, number)
             f == Positions(I)
             n == Cardinality(I)
             K == 1 .. k
             M == Unnamed(moved, K, class, number)
             whole == Only(sized, I)
             keeps == Only(moved, M)
             left == Only(sized, J)
  <1>1. /\ Climbs(f, I, n) /\ n \in Nat
        /\ \A i \in 1 .. n : f[i] \in I /\ whole[i] = sized[f[i]]
    <2>1. Climbs(f, I, n) /\ n \in Nat
      BY PositionsClimb
    <2>2. \A i \in 1 .. n : f[i] \in I /\ whole[i] = sized[f[i]]
      <3> HIDE DEF J, f, n, K, M, whole, keeps, left
      <3>1. OnlyAt(sized, I)
        BY OnlyPoints
      <3> QED
        BY <3>1 DEF OnlyAt, f, n, whole
    <2> QED
      BY <2>1, <2>2
  <1>2. \A j \in K : j \in 1 .. n /\ moved[j] = whole[j] /\ moved[j] = sized[f[j]] /\ f[j] \in I
    BY <1>1 DEF Agree
  <1>3. \A j \in K : j \in M <=> f[j] \in J
    <2> HIDE DEF f, K
    <2> QED
      BY <1>2 DEF Unnamed
  <1>4. M \subseteq K
    BY DEF Unnamed
  <1>5. K \subseteq Int /\ IsFiniteSet(K) /\ Cardinality(K) = k
    <2>1. 1 \in Int /\ k \in Int
      OBVIOUS
    <2> QED
      BY <2>1, FS_Interval, PositionsAll
  <1>6. \A j \in K : Only(moved, K)[j] = moved[j]
    <2>1. Only(moved, 1 .. k) = [j \in 1 .. k |-> moved[j]]
      <3> HIDE DEF J, f, n, K, M, whole, keeps, left
      <3> QED
        BY OnlyAll
    <2>2. Only(moved, K) = [j \in K |-> moved[j]]
      BY <2>1
    <2> HIDE DEF K
    <2> QED
      BY <2>2
  <1>8. J \subseteq I
    BY DEF Unnamed
  <1> HIDE DEF J, f, n, K, M, whole
  <1>9. ASSUME M = K, n - 1 <= Cardinality(J), Cardinality(J) \in Nat,
               \A j \in 1 .. k - 1 : left[j] = whole[j]
        PROVE  /\ Cardinality(M) \in {k - 1, k} /\ Cardinality(J) >= k - 1
               /\ Agree(keeps, left, k - 1)
    <2>1. \A j \in 1 .. k - 1 : j \in K
      BY DEF K
    <2>2. \A j \in 1 .. k - 1 : keeps[j] = left[j]
      <3> HIDE DEF left
      <3> QED
        BY <1>2, <1>6, <1>9, <2>1
    <2>3. Cardinality(J) >= k - 1
      <3>1. n >= k
        BY DEF n
      <3> QED
        BY <1>1, <1>9, <3>1
    <2> HIDE DEF keeps, left
    <2> QED
      BY <1>5, <1>9, <2>2, <2>3 DEF Agree
  <1>10. CASE J = I
    <2>1. M = K
      BY <1>2, <1>3, <1>4, <1>10
    <2>2. left = whole /\ Cardinality(J) = n
      BY <1>10 DEF whole, n
    <2>3. n - 1 <= Cardinality(J) /\ Cardinality(J) \in Nat /\ \A j \in 1 .. k - 1 : left[j] = whole[j]
      BY <1>1, <2>2
    <2> HIDE DEF keeps, left
    <2> QED
      BY <1>4, <1>9, <2>1, <2>3 DEF keeps, left, J, K, M
  <1>11. ASSUME NEW r \in I, J = I \ {r}
         PROVE  /\ Cardinality(M) \in {k - 1, k} /\ Cardinality(J) \in Nat /\ Cardinality(J) >= k - 1
                /\ Agree(keeps, left, k - 1)
    <2> DEFINE p == Below(I, r) + 1
    <2>1. p \in 1 .. n /\ f[p] = r /\ Cardinality(J) = n - 1 /\ Without(whole, p, left, n)
      BY <1>11, OnlyDrop DEF f, n, whole
    <2>2. Cardinality(J) \in Nat /\ n >= k
      BY <1>1, <2>1 DEF n
    <2> HIDE DEF p, left
    <2>3. \A j \in 1 .. n : f[j] \in J <=> j # p
      <3> SUFFICES ASSUME NEW j \in 1 .. n  PROVE f[j] = r <=> j = p
        BY <1>1, <1>11
      <3>1. ASSUME f[j] = r  PROVE j = p
        <4>1. f[j] < f[p] <=> j < p
          BY <1>1, <2>1 DEF Climbs
        <4>2. f[p] < f[j] <=> p < j
          BY <1>1, <2>1 DEF Climbs
        <4>3. r \in Int
          OBVIOUS
        <4> QED
          BY <1>1, <2>1, <3>1, <4>1, <4>2, <4>3
      <3> QED
        BY <2>1, <3>1
    <2>4. M = K \ {p}
      BY <1>2, <1>3, <1>4, <2>3
    <2>5. CASE p > k
      <3>1. M = K
        BY <2>4, <2>5 DEF K
      <3>2. \A j \in 1 .. k - 1 : left[j] = whole[j]
        <4> SUFFICES ASSUME NEW j \in 1 .. k - 1  PROVE left[j] = whole[j]
          OBVIOUS
        <4>1. j \in 1 .. n - 1 /\ j < p
          BY <1>1, <2>1, <2>2, <2>5
        <4> QED
          BY <2>1, <4>1 DEF Without
      <3> HIDE DEF keeps
      <3> QED
        BY <1>1, <1>9, <2>1, <2>2, <3>1, <3>2
    <2>6. CASE p <= k
      <3>1. p \in K
        BY <1>1, <2>1, <2>6 DEF K
      <3>2. /\ Positions(K)[Below(K, p) + 1] = p /\ Below(K, p) + 1 \in 1 .. k
            /\ Cardinality(K \ {p}) = k - 1
            /\ Without(Only(moved, K), Below(K, p) + 1, Only(moved, K \ {p}), k)
        BY <1>5, <3>1, OnlyDrop
      <3>3. Below(K, p) + 1 = p
        BY <3>2, PositionsAll DEF K
      <3>4. Without(Only(moved, K), p, keeps, k) /\ Cardinality(M) = k - 1
        BY <2>4, <3>2, <3>3
      <3> HIDE DEF keeps
      <3>5. \A j \in 1 .. k - 1 : keeps[j] = left[j]
        <4> SUFFICES ASSUME NEW j \in 1 .. k - 1  PROVE keeps[j] = left[j]
          OBVIOUS
        <4>1. j \in 1 .. n - 1 /\ j \in K /\ j + 1 \in K
          BY <1>1, <2>2 DEF K
        <4>2. keeps[j] = IF j < p THEN Only(moved, K)[j] ELSE Only(moved, K)[j + 1]
          BY <3>4 DEF Without
        <4>3. left[j] = IF j < p THEN whole[j] ELSE whole[j + 1]
          BY <2>1, <4>1 DEF Without
        <4> QED
          BY <1>2, <1>6, <4>1, <4>2, <4>3
      <3> QED
        BY <1>1, <2>1, <2>2, <3>4, <3>5 DEF Agree
    <2> QED
      <3>1. p \in Int
        BY <1>1, <2>1
      <3> QED
        BY <2>2, <2>5, <2>6, <3>1
  <1> HIDE DEF keeps, left
  <1> QED
    BY <1>4, <1>10, <1>11 DEF OneLess, J, M, K, keeps, left

\* The entries of a sequence from one place to another.
LEMMA Part ==
    ASSUME NEW S, NEW s \in Seq(S), NEW a \in Nat \ {0}, NEW b \in 0 .. Len(s), a <= b + 1
    PROVE  /\ SubSeq(s, a, b) \in Seq(S)
           /\ Len(SubSeq(s, a, b)) = b - a + 1
           /\ \A j \in 1 .. b - a + 1 : SubSeq(s, a, b)[j] = s[(a - 1) + j]
  <1> DEFINE t == SubSeq(s, a, b)
             n == b - a + 1
  <1>1. n \in Nat /\ \A j \in 1 .. n : (a - 1) + j \in 1 .. Len(s)
    OBVIOUS
  <1>2. t = [j \in 1 .. n |-> s[(a - 1) + j]]
    OBVIOUS
  <1>3. \A j \in 1 .. n : s[(a - 1) + j] \in S
    BY <1>1
  <1> HIDE DEF n
  <1>4. t \in Seq(S) /\ Len(t) = n /\ \A j \in 1 .. n : t[j] = s[(a - 1) + j]
    BY <1>1, <1>2, <1>3
  <1> QED
    BY <1>4 DEF n

\* The list with its entries from the i-th on moved up by one, the target in their place,
\* what is kept of them after it, and what is left over at the end.
MovedUp(list, i, t, keeps, n) ==
    LET moved == SubSeq(list, i + 1, n)
    IN  SubSeq(list, 1, i) \o <<t>> \o keeps \o SubSeq(moved, Len(keeps) + 1, Len(moved))

IsMovedUp(new, list, i, t, keeps) ==
    /\ \A j \in 1 .. i : new[j] = list[j]
    /\ new[i + 1] = t
    /\ \A j \in 1 .. Len(keeps) : new[(i + 1) + j] = keeps[j]

\* What the list holds after the move.
LEMMA MovedUpIs ==
    ASSUME NEW S, NEW list \in Seq(S), NEW n \in Nat, Len(list) = n + 1, NEW i \in 0 .. n - 1,
           NEW t \in S, NEW keeps \in Seq(S), Len(keeps) <= n - i
    PROVE  LET new == MovedUp(list, i, t, keeps, n)
           IN  /\ new \in Seq(S) /\ Len(new) = n + 1
               /\ IsMovedUp(new, list, i, t, keeps)
  <1> DEFINE moved == SubSeq(list, i + 1, n)
             before == SubSeq(list, 1, i)
             stale == SubSeq(moved, Len(keeps) + 1, Len(moved))
             k == Len(keeps)
             one == <<t>>
             ab == before \o one
             abc == ab \o keeps
             new == abc \o stale
  <1>1. k \in Nat /\ k <= n - i
    OBVIOUS
  <1>2. moved \in Seq(S) /\ Len(moved) = n - i
    <2>1. i + 1 \in Nat \ {0} /\ n \in 0 .. Len(list) /\ i + 1 <= n + 1 /\ n - (i + 1) + 1 = n - i
      OBVIOUS
    <2> QED
      BY <2>1, Part
  <1>3. before \in Seq(S) /\ Len(before) = i /\ \A j \in 1 .. i : before[j] = list[j]
    <2>1. 1 \in Nat \ {0} /\ i \in 0 .. Len(list) /\ 1 <= i + 1 /\ i - 1 + 1 = i
      OBVIOUS
    <2>2. before \in Seq(S) /\ Len(before) = i - 1 + 1 /\ \A j \in 1 .. i - 1 + 1 : before[j] = list[(1 - 1) + j]
      <3>1. before \in Seq(S) /\ Len(before) = i - 1 + 1
        BY <2>1, Part
      <3>2. \A j \in 1 .. i - 1 + 1 : before[j] = list[(1 - 1) + j]
        BY <2>1, Part
      <3> QED
        BY <3>1, <3>2
    <2>3. \A j \in 1 .. i : j \in 1 .. i - 1 + 1 /\ (1 - 1) + j = j
      OBVIOUS
    <2> HIDE DEF before
    <2>4. \A j \in 1 .. i : before[j] = list[j]
      BY <2>2, <2>3
    <2> QED
      BY <2>1, <2>2, <2>4
  <1> HIDE DEF moved
  <1>4. stale \in Seq(S) /\ Len(stale) = n - i - k
    <2> DEFINE a == k + 1
               b == Len(moved)
    <2>1. a \in Nat \ {0} /\ b \in 0 .. Len(moved) /\ a <= b + 1 /\ b - a + 1 = n - i - k
      BY <1>1, <1>2
    <2>2. stale = SubSeq(moved, a, b)
      OBVIOUS
    <2> HIDE DEF a, b, stale
    <2>3. SubSeq(moved, a, b) \in Seq(S) /\ Len(SubSeq(moved, a, b)) = b - a + 1
      BY <1>2, <2>1, Part
    <2> QED
      BY <2>1, <2>2, <2>3
  <1> HIDE DEF before, stale, k
  <1>5. one \in Seq(S) /\ Len(one) = 1 /\ one[1] = t
    OBVIOUS
  <1> HIDE DEF one
  <1>6. ab \in Seq(S) /\ Len(ab) = i + 1 /\ IsConcat(ab, before, one, i, 1)
    <2> DEFINE l == 1
    <2>1. i \in Nat /\ l \in Nat /\ Len(before) = i /\ Len(one) = l /\ before \in Seq(S) /\ one \in Seq(S)
      BY <1>3, <1>5
    <2> HIDE DEF l
    <2>2. ab \in Seq(S) /\ Len(ab) = i + l /\ IsConcat(ab, before, one, i, l)
      BY <2>1, Concat
    <2> QED
      BY <2>2 DEF l
  <1>7. (\A j \in 1 .. i : ab[j] = list[j]) /\ ab[i + 1] = t
    <2> HIDE DEF ab
    <2>1. \A j \in 1 .. i + 1 : ab[j] = IF j <= i THEN before[j] ELSE one[j - i]
      BY <1>6 DEF IsConcat
    <2>2. i + 1 \in 1 .. i + 1 /\ ~(i + 1 <= i) /\ (i + 1) - i = 1
      OBVIOUS
    <2>3. \A j \in 1 .. i : j \in 1 .. i + 1 /\ j <= i
      OBVIOUS
    <2> QED
      BY <1>3, <1>5, <2>1, <2>2, <2>3
  <1> HIDE DEF ab
  <1>8. abc \in Seq(S) /\ Len(abc) = (i + 1) + k /\ IsConcat(abc, ab, keeps, i + 1, k)
    <2>1. i + 1 \in Nat /\ Len(keeps) = k
      BY DEF k
    <2> QED
      BY <1>1, <1>6, <2>1, Concat
  <1> HIDE DEF abc
  <1>9. new \in Seq(S) /\ Len(new) = ((i + 1) + k) + (n - i - k)
        /\ IsConcat(new, abc, stale, (i + 1) + k, n - i - k)
    <2>1. (i + 1) + k \in Nat /\ n - i - k \in Nat
      BY <1>1
    <2> QED
      BY <1>4, <1>8, <2>1, Concat
  <1> HIDE DEF new
  <1>10. \A j \in 1 .. (i + 1) + k : new[j] = abc[j]
    <2>1. \A j \in 1 .. ((i + 1) + k) + (n - i - k) :
             new[j] = IF j <= (i + 1) + k THEN abc[j] ELSE stale[j - ((i + 1) + k)]
      BY <1>9 DEF IsConcat
    <2>2. \A j \in 1 .. (i + 1) + k : j \in 1 .. ((i + 1) + k) + (n - i - k) /\ j <= (i + 1) + k
      BY <1>1
    <2> QED
      BY <2>1, <2>2
  <1>11. \A j \in 1 .. (i + 1) + k : abc[j] = IF j <= i + 1 THEN ab[j] ELSE keeps[j - (i + 1)]
    BY <1>8 DEF IsConcat
  <1>12. \A j \in 1 .. i + 1 : new[j] = ab[j]
    <2>1. \A j \in 1 .. i + 1 : j \in 1 .. (i + 1) + k /\ j <= i + 1
      BY <1>1
    <2> QED
      BY <1>10, <1>11, <2>1
  <1>13. \A j \in 1 .. k : new[(i + 1) + j] = keeps[j]
    <2>1. \A j \in 1 .. k : (i + 1) + j \in 1 .. (i + 1) + k /\ ~((i + 1) + j <= i + 1) /\ ((i + 1) + j) - (i + 1) = j
      BY <1>1
    <2> QED
      BY <1>10, <1>11, <2>1
  <1>14. (\A j \in 1 .. i : new[j] = list[j]) /\ new[i + 1] = t
    <2>1. i + 1 \in 1 .. i + 1 /\ \A j \in 1 .. i : j \in 1 .. i + 1
      OBVIOUS
    <2> QED
      BY <1>7, <1>12, <2>1
  <1>15. Len(new) = n + 1
    BY <1>1, <1>9
  <1>16. MovedUp(list, i, t, keeps, n) = new
    BY DEF MovedUp, new, abc, ab, one, before, stale, moved
  <1> QED
    BY <1>9, <1>13, <1>14, <1>15, <1>16 DEF IsMovedUp, k

-----------------------------------------------------------------------------
(* The loop, one command after another *)

\* Positions of the entries the first i commands do not name.
Kept(sized, commands, n, i) ==
    {p \in 1 .. n : \A j \in 1 .. i : ~Named(sized[p], Meant(commands, j)[1], Meant(commands, j)[2])}

TargetOf(commands, j) == Target(Meant(commands, j)[1], Meant(commands, j)[2])

\* A list cut or padded to n entries, no entry of it twice.
SizedList(sized, n) ==
    /\ \A p \in 1 .. n : sized[p] # None => sized[p] \in Entries(stores, Current)
    /\ \A p, q \in 1 .. n : sized[p] # None /\ sized[p] = sized[q] => p = q

\* The targets of the first i commands, then what they do not name of the list.
WorkOK(w, S, sized, commands, n, i) ==
    /\ w.list \in Seq(S) /\ Len(w.list) = n + 1 /\ w.idx = i + 1
    /\ Agrees(w.pred, Totals(commands)[i])
    /\ Cardinality(Kept(sized, commands, n, i)) >= n - i
    /\ \A j \in 1 .. i : w.list[j] = TargetOf(commands, j)
    /\ \A j \in 1 .. n - i : w.list[i + j] = Only(sized, Kept(sized, commands, n, i))[j]

\* The positions kept are finitely many, fewer with each command.
LEMMA KeptParts ==
    ASSUME NEW sized, NEW commands, NEW n \in Nat, NEW i \in Nat
    PROVE  /\ Kept(sized, commands, n, i) \subseteq Int /\ IsFiniteSet(Kept(sized, commands, n, i))
           /\ Cardinality(Kept(sized, commands, n, i)) \in Nat
           /\ Kept(sized, commands, n, i + 1) =
                Unnamed(sized, Kept(sized, commands, n, i), Meant(commands, i + 1)[1], Meant(commands, i + 1)[2])
  <1> DEFINE K == Kept(sized, commands, n, i)
  <1>1. K \in SUBSET (1 .. n)
    BY DEF Kept
  <1>2. IsFiniteSet(1 .. n)
    <2>1. 1 \in Int /\ n \in Int
      OBVIOUS
    <2> QED
      BY <2>1, FS_Interval
  <1>3. IsFiniteSet(K) /\ Cardinality(K) \in Nat
    <2> HIDE DEF K
    <2> QED
      BY <1>1, <1>2, FS_Subset, FS_CardinalityType
  <1>4. \A j : j \in 1 .. i + 1 <=> j \in 1 .. i \/ j = i + 1
    OBVIOUS
  <1>5. Kept(sized, commands, n, i + 1) = Unnamed(sized, K, Meant(commands, i + 1)[1], Meant(commands, i + 1)[2])
    BY <1>4 DEF Kept, Unnamed
  <1> QED
    BY <1>1, <1>3, <1>5

\* A command names one position at most.
LEMMA OneLessKept ==
    ASSUME ListState, DistinctNumbers, NEW sized, NEW n \in Nat, SizedList(sized, n),
           NEW I \in SUBSET (1 .. n), NEW class \in {"ShortTerm", "LongTerm"}, NEW number \in Int
    PROVE  OneLess(I, Unnamed(sized, I, class, number))
  <1> DEFINE J == Unnamed(sized, I, class, number)
  <1>1. CASE \A p \in I : ~Named(sized[p], class, number)
    <2>1. J = I
      BY <1>1 DEF Unnamed
    <2> QED
      BY <2>1 DEF OneLess
  <1>2. ASSUME NEW r \in I, Named(sized[r], class, number)
        PROVE  OneLess(I, J)
    <2>1. ASSUME NEW p \in I, Named(sized[p], class, number)
          PROVE  p = r
      <3>1. sized[p] # None /\ sized[r] # None
        BY <1>2, <2>1 DEF Named
      <3>2. sized[p] \in Entries(stores, Current) /\ sized[r] \in Entries(stores, Current)
        BY <3>1 DEF SizedList
      <3>3. sized[p] = sized[r]
        BY <1>2, <2>1, <3>2, NamedOnce
      <3> QED
        BY <3>1, <3>3 DEF SizedList
    <2>2. J = I \ {r}
      BY <1>2, <2>1 DEF Unnamed
    <2> HIDE DEF J
    <2> QED
      BY <2>2 DEF OneLess
  <1> QED
    BY <1>1, <1>2

\* A command within the list moves its entries up.
LEMMA PlaceIs ==
    ASSUME NEW c, NEW w, NEW i \in Nat, NEW n \in Nat, i < n, w.idx = i + 1, Len(w.list) = n + 1
    PROVE  LET after == PredAfter(w.pred, c)
               number == NumberAt(after, c)
               moved == SubSeq(w.list, i + 1, n)
               keeps == Only(moved, {j \in DOMAIN moved : ~Named(moved[j], ClassOf(c), number)})
           IN  Place(w, c) = [list |-> MovedUp(w.list, i, Target(ClassOf(c), number), keeps, n),
                              pred |-> after, idx |-> i + 2]
  <1> DEFINE class == IF c.op = "LongTerm" THEN "LongTerm" ELSE "ShortTerm"
             pred == IF class = "LongTerm" THEN w.pred ELSE Predict(w.pred, c)
             number == CASE class = "LongTerm" -> c.value
                         [] class # "LongTerm" /\ pred > CurrentPicNum -> pred - MaxPicNum
                         [] OTHER -> pred
             moved == SubSeq(w.list, w.idx, Len(w.list) - 1)
             keeps == Only(moved, {j \in DOMAIN moved : ~Named(moved[j], class, number)})
             stale == SubSeq(moved, Len(keeps) + 1, Len(moved))
  <1>1. Place(w, c) = IF w.idx >= Len(w.list) THEN w
                      ELSE [list |-> SubSeq(w.list, 1, w.idx - 1)
                                       \o <<Target(class, number)>> \o keeps \o stale,
                            pred |-> pred,
                            idx |-> w.idx + 1]
    BY Zenon DEF Place
  <1>2. ~(w.idx >= Len(w.list)) /\ w.idx - 1 = i /\ w.idx = i + 1 /\ Len(w.list) - 1 = n /\ w.idx + 1 = i + 2
    OBVIOUS
  <1>3. class = ClassOf(c)
    BY DEF ClassOf
  <1>4. pred = PredAfter(w.pred, c)
    BY DEF PredAfter, ClassOf
  <1>5. number = NumberAt(PredAfter(w.pred, c), c)
    <2> HIDE DEF pred, class
    <2> QED
      BY <1>3, <1>4 DEF NumberAt
  <1>6. Place(w, c) = [list |-> SubSeq(w.list, 1, i) \o <<Target(class, number)>> \o keeps \o stale,
                       pred |-> pred, idx |-> i + 2]
    <2> HIDE DEF class, pred, number, keeps, stale
    <2> QED
      BY <1>1, <1>2
  <1>7. moved = SubSeq(w.list, i + 1, n)
    BY <1>2
  <1> HIDE DEF class, pred, number
  <1>8. SubSeq(w.list, 1, i) \o <<Target(class, number)>> \o keeps \o stale = MovedUp(w.list, i, Target(class, number), keeps, n)
    <2> HIDE DEF moved, keeps
    <2> QED
      BY <1>7 DEF MovedUp
  <1> HIDE DEF moved, stale
  <1> QED
    BY <1>3, <1>4, <1>5, <1>6, <1>7, <1>8

\* One command more is done.
LEMMA PlaceStep ==
    ASSUME ListState, NumberInRange, DistinctNumbers, NEW commands, ListCommands(commands),
           NEW S, NEW sized, NEW n \in Nat, SizedList(sized, n),
           \A j \in 1 .. Len(commands) : TargetOf(commands, j) \in S,
           NEW i \in Nat, i < n, i + 1 \in 1 .. Len(commands),
           NEW w, WorkOK(w, S, sized, commands, n, i)
    PROVE  WorkOK(Place(w, commands[i + 1]), S, sized, commands, n, i + 1)
  <1> DEFINE c == commands[i + 1]
             list == w.list
             pred == w.pred
             total == Totals(commands)[i]
             I == Kept(sized, commands, n, i)
             J == Kept(sized, commands, n, i + 1)
             rest == Only(sized, I)
             k == n - i
             class == ClassOf(c)
             after == PredAfter(pred, c)
             number == NumberAt(after, c)
             t == TargetOf(commands, i + 1)
             moved == SubSeq(list, i + 1, n)
             M == {j \in DOMAIN moved : ~Named(moved[j], class, number)}
             keeps == Only(moved, M)
             new == MovedUp(list, i, t, keeps, n)
  <1>1. /\ list \in Seq(S) /\ Len(list) = n + 1 /\ w.idx = i + 1
        /\ Agrees(pred, total) /\ Cardinality(I) >= k
        /\ \A j \in 1 .. i : list[j] = TargetOf(commands, j)
        /\ \A j \in 1 .. k : list[i + j] = rest[j]
    BY DEF WorkOK
  <1>2. /\ Agrees(after, Totals(commands)[i + 1])
        /\ <<class, number>> = Meant(commands, i + 1) /\ number \in Int
    <2>1. (i + 1) - 1 = i
      OBVIOUS
    <2>2. Agrees(pred, Totals(commands)[(i + 1) - 1])
      BY <1>1, <2>1
    <2>3. NumberMeant(pred, commands, i + 1)
      <3> HIDE DEF pred
      <3> QED
        BY <2>2, CommandNumber
    <2> QED
      BY <2>3 DEF NumberMeant
  <1>3. Meant(commands, i + 1)[1] = class /\ Meant(commands, i + 1)[2] = number
    <2> HIDE DEF class, number
    <2>1. <<class, number>>[1] = class /\ <<class, number>>[2] = number
      OBVIOUS
    <2> QED
      BY <1>2, <2>1
  <1>4. class \in {"ShortTerm", "LongTerm"}
    BY DEF ClassOf
  <1>5. t = Target(class, number)
    BY <1>3 DEF TargetOf
  <1>6. /\ I \subseteq Int /\ IsFiniteSet(I) /\ Cardinality(I) \in Nat /\ I \in SUBSET (1 .. n)
        /\ J = Unnamed(sized, I, class, number)
    <2>1. /\ I \subseteq Int /\ IsFiniteSet(I) /\ Cardinality(I) \in Nat
          /\ J = Unnamed(sized, I, Meant(commands, i + 1)[1], Meant(commands, i + 1)[2])
      BY KeptParts
    <2>2. I \in SUBSET (1 .. n)
      BY DEF Kept
    <2> HIDE DEF I, J, class, number
    <2> QED
      BY <1>3, <2>1, <2>2
  <1>7. t \in S
    <2> HIDE DEF t
    <2> QED
      BY DEF t
  <1>8. k \in Nat \ {0} /\ n - (i + 1) = k - 1
    OBVIOUS
  <1>9. Place(w, c) = [list |-> new, pred |-> after, idx |-> i + 2]
    <2>1. w.idx = i + 1 /\ Len(w.list) = n + 1
      BY <1>1
    <2>2. Place(w, c) = [list |-> MovedUp(w.list, i, Target(class, number), keeps, n),
                         pred |-> after, idx |-> i + 2]
      <3> HIDE DEF c
      <3> QED
        BY <2>1, PlaceIs
    <2> QED
      BY <1>5, <2>2
  <1> HIDE DEF c, list, pred, total, I, J, class, after, number, t
  <1>10. moved \in Seq(S) /\ Len(moved) = k /\ \A j \in 1 .. k : moved[j] = list[i + j]
    <2>1. i + 1 \in Nat \ {0} /\ n \in 0 .. Len(list) /\ i + 1 <= n + 1 /\ n - (i + 1) + 1 = k /\ (i + 1) - 1 = i
      BY <1>1
    <2>2. /\ SubSeq(list, i + 1, n) \in Seq(S)
          /\ Len(SubSeq(list, i + 1, n)) = n - (i + 1) + 1
      BY <1>1, <2>1, Part
    <2>3. \A j \in 1 .. n - (i + 1) + 1 : SubSeq(list, i + 1, n)[j] = list[((i + 1) - 1) + j]
      BY <1>1, <2>1, Part
    <2> HIDE DEF k
    <2> QED
      BY <2>1, <2>2, <2>3
  <1> HIDE DEF k, moved, rest
  <1>11. DOMAIN moved = 1 .. k
    BY <1>8, <1>10
  <1>12. Agree(moved, rest, k)
    BY <1>1, <1>10 DEF Agree
  <1>13. OneLess(I, J)
    <2>1. OneLess(I, Unnamed(sized, I, class, number))
      BY <1>2, <1>4, <1>6, OneLessKept
    <2> QED
      BY <1>6, <2>1
  <1>14. M = Unnamed(moved, 1 .. k, class, number)
    BY <1>11 DEF Unnamed
  <1> HIDE DEF M
  <1>15. /\ M \subseteq 1 .. k /\ Cardinality(M) \in {k - 1, k}
         /\ Cardinality(J) \in Nat /\ Cardinality(J) >= k - 1
         /\ Agree(keeps, Only(sized, J), k - 1)
    <2>1. Agree(moved, Only(sized, I), k)
      BY <1>12 DEF rest
    <2>2. OneLess(I, Unnamed(sized, I, class, number)) /\ k \in Nat /\ k <= Cardinality(I)
      BY <1>1, <1>6, <1>8, <1>13
    <2> DEFINE M2 == Unnamed(moved, 1 .. k, class, number)
               J2 == Unnamed(sized, I, class, number)
    <2>3. /\ M2 \subseteq 1 .. k /\ Cardinality(M2) \in {k - 1, k}
          /\ Cardinality(J2) \in Nat /\ Cardinality(J2) >= k - 1
          /\ Agree(Only(moved, M2), Only(sized, J2), k - 1)
      BY <1>6, <2>1, <2>2, ClosingUp
    <2> QED
      BY <1>6, <1>14, <2>3
  <1>16. keeps \in Seq(S) /\ Len(keeps) = Cardinality(M)
    <2>1. M \subseteq DOMAIN moved
      BY <1>11, <1>15
    <2> QED
      BY <1>10, <2>1, OnlySequence
  <1> HIDE DEF keeps
  <1>17. /\ new \in Seq(S) /\ Len(new) = n + 1
         /\ \A j \in 1 .. i : new[j] = list[j]
         /\ new[i + 1] = t
         /\ \A j \in 1 .. Len(keeps) : new[(i + 1) + j] = keeps[j]
    <2>1. i \in 0 .. n - 1
      OBVIOUS
    <2>2. Len(keeps) <= n - i
      BY <1>8, <1>15, <1>16 DEF k
    <2>3. /\ MovedUp(list, i, t, keeps, n) \in Seq(S) /\ Len(MovedUp(list, i, t, keeps, n)) = n + 1
          /\ IsMovedUp(MovedUp(list, i, t, keeps, n), list, i, t, keeps)
      BY <1>1, <1>7, <1>16, <2>1, <2>2, MovedUpIs
    <2> QED
      BY <2>3 DEF IsMovedUp
  <1> HIDE DEF new
  <1> DEFINE u == [list |-> new, pred |-> after, idx |-> i + 2]
  <1>18. u.list = new /\ u.pred = after /\ u.idx = (i + 1) + 1
    OBVIOUS
  <1>19. \A j \in 1 .. i + 1 : u.list[j] = TargetOf(commands, j)
    <2> SUFFICES ASSUME NEW j \in 1 .. i + 1  PROVE new[j] = TargetOf(commands, j)
      BY <1>18
    <2>1. CASE j = i + 1
      BY <1>17, <2>1 DEF t
    <2>2. CASE j # i + 1
      <3>1. j \in 1 .. i
        BY <2>2
      <3> QED
        BY <1>1, <1>17, <3>1
    <2> QED
      BY <2>1, <2>2
  <1>20. \A j \in 1 .. n - (i + 1) : u.list[(i + 1) + j] = Only(sized, J)[j]
    <2> SUFFICES ASSUME NEW j \in 1 .. k - 1  PROVE new[(i + 1) + j] = Only(sized, J)[j]
      BY <1>8, <1>18
    <2>1. j \in 1 .. Len(keeps)
      BY <1>8, <1>15, <1>16
    <2>2. keeps[j] = Only(sized, J)[j]
      BY <1>15 DEF Agree
    <2> QED
      BY <1>17, <2>1, <2>2
  <1> HIDE DEF u
  <1>21. WorkOK(u, S, sized, commands, n, i + 1)
    <2>1. u.list \in Seq(S) /\ Len(u.list) = n + 1 /\ u.idx = (i + 1) + 1
      BY <1>17, <1>18
    <2>2. Agrees(u.pred, Totals(commands)[i + 1])
      BY <1>2, <1>18
    <2>3. Cardinality(J) >= n - (i + 1)
      BY <1>8, <1>15
    <2> QED
      BY <1>19, <1>20, <2>1, <2>2, <2>3 DEF WorkOK, J
  <1> QED
    BY <1>9, <1>21 DEF u, c

-----------------------------------------------------------------------------
(* The modified lists *)

\* What the entries of a modified list are taken from.
Pool(initial, commands) ==
    ToSet(initial) \cup {None} \cup {TargetOf(commands, j) : j \in 1 .. Len(commands)}

\* How many commands the loop has done after i of them.
DoneOf(i, n) == IF i <= n THEN i ELSE n

\* A list cut or padded names nothing twice.
LEMMA SizedIs ==
    ASSUME NEW E, NEW initial, Lists(initial, E), E \subseteq Entries(stores, Current),
           NEW commands, NEW n \in Nat
    PROVE  /\ Sized(initial, n) \in Seq(Pool(initial, commands)) /\ Len(Sized(initial, n)) = n
           /\ SizedList(Sized(initial, n), n)
  <1> DEFINE s == Sized(initial, n)
             S == Pool(initial, commands)
  <1>1. /\ DOMAIN initial = 1 .. Len(initial) /\ Len(initial) \in Nat
        /\ \A k \in 1 .. Len(initial) : initial[k] \in E
        /\ \A j, k \in 1 .. Len(initial) : initial[j] = initial[k] => j = k
    BY ListsParts
  <1>2. s = [i \in 1 .. n |-> IF i <= Len(initial) THEN initial[i] ELSE None]
    BY DEF Sized
  <1>3. None \in S /\ \A k \in 1 .. Len(initial) : initial[k] \in S
    BY <1>1 DEF Pool, ToSet
  <1> HIDE DEF S, s
  <1>4. \A i \in 1 .. n : s[i] \in S /\ s[i] = IF i <= Len(initial) THEN initial[i] ELSE None
    <2> SUFFICES ASSUME NEW i \in 1 .. n
                 PROVE  s[i] \in S /\ s[i] = IF i <= Len(initial) THEN initial[i] ELSE None
      OBVIOUS
    <2>1. i <= Len(initial) => i \in 1 .. Len(initial)
      BY <1>1
    <2> QED
      BY <1>2, <1>3, <2>1
  <1>5. s \in Seq(S) /\ Len(s) = n
    <2>1. DOMAIN s = 1 .. n /\ s = [i \in 1 .. n |-> s[i]]
      BY <1>2
    <2> QED
      BY <1>4, <2>1
  <1>6. ASSUME NEW p \in 1 .. n, s[p] # None
        PROVE  p \in 1 .. Len(initial) /\ s[p] = initial[p] /\ s[p] \in E
    <2>1. p <= Len(initial)
      BY <1>4, <1>6
    <2>2. p \in 1 .. Len(initial)
      BY <1>1, <2>1
    <2> QED
      BY <1>1, <1>4, <2>1, <2>2
  <1>7. SizedList(s, n)
    <2>1. \A p \in 1 .. n : s[p] # None => s[p] \in Entries(stores, Current)
      BY <1>6
    <2>2. ASSUME NEW p \in 1 .. n, NEW q \in 1 .. n, s[p] # None, s[p] = s[q]
          PROVE  p = q
      BY <1>1, <1>6, <2>2
    <2> QED
      BY <2>1, <2>2 DEF SizedList
  <1> QED
    BY <1>5, <1>7 DEF s, S

\* Before the first command the list is the initial one.
LEMMA WorkStarts ==
    ASSUME ListState, NumberInRange, NEW commands, ListCommands(commands),
           NEW initial, NEW S, None \in S, NEW n \in Nat, Sized(initial, n) \in Seq(S), Len(Sized(initial, n)) = n
    PROVE  WorkOK(StartWork(initial, n), S, Sized(initial, n), commands, n, 0)
  <1> DEFINE s == Sized(initial, n)
             w == StartWork(initial, n)
             I == Kept(s, commands, n, 0)
  <1>1. w.list = Append(s, None) /\ w.pred = CurrentPicNum /\ w.idx = 0 + 1
    BY DEF StartWork
  <1> HIDE DEF s, w
  <1>2. w.list \in Seq(S) /\ Len(w.list) = n + 1 /\ \A j \in 1 .. n : w.list[j] = s[j]
    <2>1. s \in Seq(S) /\ Len(s) = n
      BY DEF s
    <2>2. Append(s, None) \in Seq(S) /\ Len(Append(s, None)) = n + 1
      BY <2>1
    <2>3. \A j \in 1 .. n : Append(s, None)[j] = s[j]
      BY <2>1
    <2> QED
      BY <1>1, <2>2, <2>3
  <1>3. I = 1 .. n
    BY DEF Kept
  <1>4. Cardinality(I) >= n - 0
    BY <1>3, PositionsAll
  <1>5. \A j \in 1 .. n - 0 : w.list[0 + j] = Only(s, I)[j]
    <2>1. Only(s, I) = [j \in 1 .. n |-> s[j]]
      BY <1>3, OnlyAll
    <2>2. \A j \in 1 .. n - 0 : j \in 1 .. n /\ 0 + j = j
      OBVIOUS
    <2> HIDE DEF I
    <2> QED
      BY <1>2, <2>1, <2>2
  <1>6. Agrees(CurrentPicNum, 0)
    <2>1. MaxPicNum \in Nat \ {0} /\ CurrentPicNum \in 0 .. MaxPicNum - 1
      BY NumberRange
    <2>2. CurrentPicNum - (CurrentPicNum + 0) = 0 * MaxPicNum /\ 0 \in Int
      BY <2>1
    <2> QED
      BY <2>1, <2>2 DEF Agrees, Multiple
  <1>7. Totals(commands)[0] = 0
    <2>1. Len(commands) \in Nat
      BY DEF ListCommands
    <2> QED
      BY <2>1, TotalsSteps
  <1>8. Agrees(w.pred, Totals(commands)[0])
    BY <1>1, <1>6, <1>7
  <1>9. \A j \in 1 .. 0 : w.list[j] = TargetOf(commands, j)
    OBVIOUS
  <1> QED
    BY <1>1, <1>2, <1>4, <1>5, <1>8, <1>9 DEF WorkOK, s, w

\* After every command the list holds the targets so far and the rest.
LEMMA WorksOK ==
    ASSUME ListState, NumberInRange, DistinctNumbers, NEW commands, ListCommands(commands),
           NEW E, NEW initial, Lists(initial, E), E \subseteq Entries(stores, Current), NEW n \in Nat
    PROVE  LET m == Len(commands)
           IN  WorkOK(Works(initial, commands, n)[m], Pool(initial, commands), Sized(initial, n),
                      commands, n, DoneOf(m, n))
  <1> DEFINE W == Works(initial, commands, n)
             S == Pool(initial, commands)
             s == Sized(initial, n)
             m == Len(commands)
             OK(i) == WorkOK(W[i], S, s, commands, n, DoneOf(i, n))
             P == {i \in 0 .. m : OK(i)}
  <1>1. m \in Nat
    BY DEF ListCommands
  <1>2. W[0] = StartWork(initial, n) /\ \A i \in 1 .. m : W[i] = Place(W[i - 1], commands[i])
    BY <1>1, WorksSteps
  <1>3. s \in Seq(S) /\ Len(s) = n /\ SizedList(s, n)
    BY SizedIs
  <1>4. None \in S /\ \A j \in 1 .. Len(commands) : TargetOf(commands, j) \in S
    BY DEF Pool
  <1> HIDE DEF W, S
  <1>5. OK(0)
    <2>1. WorkOK(StartWork(initial, n), S, s, commands, n, 0)
      BY <1>3, <1>4, WorkStarts
    <2> QED
      BY <1>2, <2>1 DEF DoneOf
  <1> HIDE DEF s, m
  <1>6. ASSUME NEW i \in 1 .. m, OK(i - 1)
        PROVE  OK(i)
    <2> DEFINE h == i - 1
               w == W[h]
    <2>1. h \in Nat /\ h + 1 = i /\ W[i] = Place(w, commands[h + 1])
      BY <1>1, <1>2
    <2>2. CASE i <= n
      <3>1. h < n /\ DoneOf(h, n) = h /\ DoneOf(i, n) = h + 1 /\ h + 1 \in 1 .. Len(commands)
        BY <2>1, <2>2 DEF DoneOf, m
      <3>2. WorkOK(w, S, s, commands, n, h)
        BY <1>6, <3>1
      <3> HIDE DEF h, w
      <3>3. WorkOK(Place(w, commands[h + 1]), S, s, commands, n, h + 1)
        BY <1>3, <1>4, <2>1, <3>1, <3>2, PlaceStep
      <3> QED
        BY <2>1, <3>1, <3>3
    <2>3. CASE i > n
      <3>1. DoneOf(h, n) = n /\ DoneOf(i, n) = n
        BY <1>1, <2>3 DEF DoneOf
      <3>2. WorkOK(w, S, s, commands, n, n)
        BY <1>6, <3>1
      <3>3. w.idx >= Len(w.list)
        <4>1. w.idx = n + 1 /\ Len(w.list) = n + 1
          BY <3>2 DEF WorkOK
        <4> QED
          BY <4>1
      <3> HIDE DEF h, w
      <3>4. Place(w, commands[h + 1]) = w
        BY <3>3 DEF Place
      <3> QED
        BY <2>1, <3>1, <3>2, <3>4
    <2> QED
      BY <1>1, <2>2, <2>3
  <1>7. OK(m)
    <2>1. 0 \in P
      BY <1>1, <1>5
    <2>2. \A i \in 1 .. m : i - 1 \in P => i \in P
      <3>1. \A i \in 1 .. m : i \in 0 .. m
        BY <1>1
      <3> HIDE DEF OK
      <3> QED
        BY <1>6, <3>1
    <2>3. m \in 0 .. m
      BY <1>1
    <2> HIDE DEF P
    <2>4. m \in P
      BY <1>1, <2>1, <2>2, <2>3, UpTo
    <2> QED
      BY <2>4 DEF P
  <1> QED
    BY <1>7 DEF W, S, s, m

\* Modification commands put the pictures they name first and leave the rest as it was.
LEMMA ModifyIs ==
    ASSUME ListState, NumberInRange, DistinctNumbers, NEW commands, ListCommands(commands),
           NEW E, NEW initial, Lists(initial, E), E \subseteq Entries(stores, Current), NEW n \in Nat
    PROVE  Modify(initial, commands, n) = ModifiedAsMeant(initial, commands, n)
  <1> DEFINE m == Len(commands)
             h == DoneOf(m, n)
             S == Pool(initial, commands)
             sized == Sized(initial, n)
             list == Works(initial, commands, n)[m].list
             I == Kept(sized, commands, n, m)
             rest == Only(sized, I)
             targets == [i \in 1 .. m |-> TargetOf(commands, i)]
             all == targets \o rest
  <1>1. m \in Nat /\ DOMAIN commands = 1 .. m
    BY DEF ListCommands
  <1>2. WorkOK(Works(initial, commands, n)[m], S, sized, commands, n, h)
    BY WorksOK
  <1>3. /\ list \in Seq(S) /\ Len(list) = n + 1
        /\ Cardinality(Kept(sized, commands, n, h)) >= n - h
        /\ \A j \in 1 .. h : list[j] = TargetOf(commands, j)
        /\ \A j \in 1 .. n - h : list[h + j] = Only(sized, Kept(sized, commands, n, h))[j]
    BY <1>2 DEF WorkOK
  <1>4. sized \in Seq(S) /\ Len(sized) = n
    BY SizedIs
  <1>5. Modify(initial, commands, n) = [j \in 1 .. n |-> list[j]]
    <2>1. Modify(initial, commands, n) = SubSeq(list, 1, n)
      BY DEF Modify
    <2> HIDE DEF list, S
    <2>2. SubSeq(list, 1, n) = [j \in 1 .. n |-> list[j]]
      BY <1>3
    <2> QED
      BY <2>1, <2>2
  <1>6. ModifiedAsMeant(initial, commands, n) = Sized(all, n)
    <2> DEFINE named == {Meant(commands, i) : i \in DOMAIN commands}
               ts == [i \in DOMAIN commands |-> Target(Meant(commands, i)[1], Meant(commands, i)[2])]
               kept == {i \in 1 .. n : \A x \in named : ~Named(sized[i], x[1], x[2])}
    <2>1. ModifiedAsMeant(initial, commands, n) = Sized(ts \o Only(sized, kept), n)
      BY DEF ModifiedAsMeant
    <2>2. ts = targets
      BY <1>1 DEF TargetOf
    <2>3. kept = I
      BY <1>1 DEF Kept
    <2> HIDE DEF ts, kept, targets, I
    <2> QED
      BY <2>1, <2>2, <2>3
  <1>7. targets \in Seq(S) /\ Len(targets) = m
    <2>1. \A i \in 1 .. m : TargetOf(commands, i) \in S
      BY DEF Pool
    <2> HIDE DEF S, m
    <2> QED
      BY <1>1, <2>1
  <1>8. rest \in Seq(S) /\ Len(rest) = Cardinality(I) /\ Cardinality(I) \in Nat
    <2>1. I \subseteq DOMAIN sized
      BY <1>4 DEF Kept
    <2> HIDE DEF sized, S, I
    <2>2. rest \in Seq(S) /\ Len(rest) = Cardinality(I)
      BY <1>4, <2>1, OnlySequence
    <2> QED
      BY <2>2
  <1> HIDE DEF list, S, targets, rest, all
  <1> DEFINE r == Cardinality(I)
  <1>9. all \in Seq(S) /\ Len(all) = m + r /\ IsConcat(all, targets, rest, m, r)
    <2> HIDE DEF m, r
    <2> QED
      BY <1>1, <1>7, <1>8, Concat DEF all, r
  <1>10. \A j \in 1 .. m + r : all[j] = IF j <= m THEN TargetOf(commands, j) ELSE rest[j - m]
    <2>1. \A j \in 1 .. m : targets[j] = TargetOf(commands, j)
      BY DEF targets
    <2>2. \A j \in 1 .. m + r : all[j] = IF j <= m THEN targets[j] ELSE rest[j - m]
      BY <1>9 DEF IsConcat
    <2>3. \A j \in 1 .. m + r : j <= m => j \in 1 .. m
      BY <1>1
    <2> HIDE DEF m, r
    <2> QED
      BY <2>1, <2>2, <2>3
  <1>11. ASSUME NEW j \in 1 .. n
         PROVE  j <= Len(all) /\ list[j] = all[j]
    <2>1. CASE m <= n
      <3>1. h = m
        BY <2>1 DEF DoneOf
      <3>2. r >= n - m
        BY <1>3, <3>1
      <3>3. j \in 1 .. m + r
        <4> HIDE DEF m, r
        <4> QED
          BY <1>1, <1>8, <3>2 DEF r
      <3>4. CASE j <= m
        <4>1. list[j] = TargetOf(commands, j)
          <5>1. j \in 1 .. h
            BY <1>1, <3>1, <3>4
          <5> QED
            BY <1>3, <5>1
        <4>2. all[j] = TargetOf(commands, j)
          BY <1>10, <3>3, <3>4
        <4> QED
          BY <1>9, <3>3, <4>1, <4>2
      <3>5. CASE j > m
        <4> DEFINE d == j - m
        <4>1. d \in 1 .. n - h /\ h + d = j /\ ~(j <= m)
          BY <1>1, <2>1, <3>1, <3>5
        <4>2. list[h + d] = rest[d]
          <5>1. rest = Only(sized, Kept(sized, commands, n, h))
            BY <3>1 DEF rest
          <5> HIDE DEF d, h, m
          <5> QED
            BY <1>3, <4>1, <5>1
        <4>3. all[j] = rest[d]
          BY <1>10, <3>3, <4>1
        <4> HIDE DEF d, h
        <4>4. list[j] = all[j]
          BY <4>1, <4>2, <4>3
        <4> QED
          BY <1>9, <3>3, <4>4
      <3> QED
        BY <1>1, <3>4, <3>5
    <2>2. CASE m > n
      <3>1. h = n
        <4>1. ~(m <= n)
          BY <1>1, <2>2
        <4> HIDE DEF m
        <4> QED
          BY <4>1 DEF DoneOf
      <3>2. j \in 1 .. h /\ j <= m /\ j \in 1 .. m + r
        <4> HIDE DEF m, r, h
        <4> QED
          BY <1>1, <1>8, <2>2, <3>1 DEF r
      <3>3. list[j] = TargetOf(commands, j)
        BY <1>3, <3>2
      <3>4. all[j] = TargetOf(commands, j)
        BY <1>10, <3>2
      <3> QED
        BY <1>9, <3>2, <3>3, <3>4
    <2> QED
      BY <1>1, <2>1, <2>2
  <1>12. Sized(all, n) = [j \in 1 .. n |-> list[j]]
    <2>1. Sized(all, n) = [j \in 1 .. n |-> IF j <= Len(all) THEN all[j] ELSE None]
      BY DEF Sized
    <2> HIDE DEF all, list
    <2> QED
      BY <1>11, <2>1
  <1> QED
    BY <1>5, <1>6, <1>12

\* Both lists of a slice.
LEMMA RefPicListsAsMeant ==
    ASSUME ListState, NumberInRange, DistinctNumbers, NEW sps, NEW slice \in Slices,
           DifferencesInRange(slice.commands), NEW i \in 1 .. ListCount(slice)
    PROVE  RefPicLists(sps, slice)[i] =
             ModifiedAsMeant(InitLists(sps, slice)[i], slice.commands, slice.active)
  <1> DEFINE commands == slice.commands
             n == slice.active
             initial == InitLists(sps, slice)
             E == Usable(sps, slice)
  <1>1. commands \in Seq(Command) /\ n \in Nat
    BY SlicesAssumption DEF Slice
  <1>2. ListCommands(commands)
    BY <1>1 DEF ListCommands
  <1>3. Lists(initial[i], E)
    BY InitListsList
  <1>4. E \subseteq Entries(stores, Current)
    BY DEF Usable, Current
  <1>5. RefPicLists(sps, slice)[i] = Modify(initial[i], commands, n)
    <2>1. RefPicLists(sps, slice) =
            <<Modify(initial[1], commands, n),
              IF slice.type = "P" THEN <<>> ELSE Modify(initial[2], commands, n)>>
      BY DEF RefPicLists
    <2> HIDE DEF initial, commands, n
    <2>2. CASE slice.type = "P"
      <3>1. i = 1
        BY <2>2 DEF ListCount
      <3> QED
        BY <2>1, <3>1
    <2>3. CASE slice.type # "P"
      <3>1. i = 1 \/ i = 2
        BY <2>3 DEF ListCount
      <3> QED
        BY <2>1, <2>3, <3>1
    <2> QED
      BY <2>2, <2>3
  <1> HIDE DEF commands, n, initial, E
  <1>6. Modify(initial[i], commands, n) = ModifiedAsMeant(initial[i], commands, n)
    BY <1>1, <1>2, <1>3, <1>4, ModifyIs
  <1> QED
    BY <1>5, <1>6 DEF commands, n, initial

-----------------------------------------------------------------------------
(* The frame_num of the picture in progress *)

\* It is one its parameter set can code, and so is that of the picture a gap is for.
FrameNumbersCoded ==
    /\ pending # None => NumberInRange
    /\ gap # None => gap.header.frameNum < gap.sps.maxFrameNum

\* A picture starts with the frame_num its header was parsed with.
LEMMA StartCoded ==
    ASSUME pending = None, NEW sps, NEW h, NEW firstKey, NEW abandoned, NEW nonExisting,
           h.frameNum < sps.maxFrameNum, StartPicture(sps, h, firstKey, abandoned, nonExisting)
    PROVE  pending' # None => NumberInRange'
  <1>1. CASE Derive(poc, sps, h) = None
    BY <1>1 DEF StartPicture
  <1>2. CASE Derive(poc, sps, h) # None
    <2>1. pending'.header = h /\ pending'.maxFrameNum = sps.maxFrameNum
      BY <1>2 DEF StartPicture
    <2> QED
      BY <2>1 DEF NumberInRange
  <1> QED
    BY <1>1, <1>2

\* The end of a picture leaves none in progress.
LEMMA CompleteLeaves ==
    ASSUME NEW sps, NEW cur, NEW st, NEW long, NEW mmco5, Complete(sps, cur, st, long, mmco5)
    PROVE  pending' = None /\ gap' = gap
  BY DEF Complete

\* Every step keeps frame_num in its range.
LEMMA CodedNext == IInv /\ FrameNumbersCoded /\ [Next]_vars => FrameNumbersCoded'
  <1> SUFFICES ASSUME IInv, FrameNumbersCoded, [Next]_vars
               PROVE  FrameNumbersCoded'
    OBVIOUS
  <1>1. ASSUME NEW sps \in SpsSet, NEW h \in Headers, Begin(sps, h)
        PROVE  FrameNumbersCoded'
    <2>1. CASE BeginPicture(sps, h)
      <3>1. pending' # None => NumberInRange'
        BY <2>1, StartCoded DEF BeginPicture, ParsedAgainst
      <3>2. gap' = gap
        BY <2>1 DEF BeginPicture
      <3> QED
        BY <3>1, <3>2 DEF FrameNumbersCoded
    <2>2. CASE BeginAfterLoss(sps, h)
      BY <2>2 DEF BeginAfterLoss, FrameNumbersCoded, NumberInRange
    <2>3. CASE BeginWithGap(sps, h)
      <3>1. pending' = pending /\ gap'.header = h /\ gap'.sps = sps /\ h.frameNum < sps.maxFrameNum
        BY <2>3 DEF BeginWithGap, ParsedAgainst
      <3> QED
        BY <3>1 DEF FrameNumbersCoded, NumberInRange
    <2> QED
      BY <1>1, <2>1, <2>2, <2>3 DEF Begin
  <1>2. ASSUME NEW sps \in SpsSet, Finish(sps)
        PROVE  FrameNumbersCoded'
    <2>1. pending' = None /\ gap' = gap
      <3>1. CASE FinishNonReference(sps)
        BY <3>1, CompleteLeaves DEF FinishNonReference
      <3>2. CASE FinishIdr(sps)
        BY <3>2, CompleteLeaves DEF FinishIdr
      <3>3. CASE FinishSliding(sps)
        BY <3>3, CompleteLeaves DEF FinishSliding
      <3>4. CASE BeginMarking(sps)
        BY <3>4 DEF BeginMarking
      <3> QED
        BY <1>2, <3>1, <3>2, <3>3, <3>4 DEF Finish
    <2> QED
      BY <2>1 DEF FrameNumbersCoded
  <1>3. CASE Continue
    <2>1. CASE SkipFrame
      <3>1. gap # None /\ gap'.header = gap.header /\ gap'.sps = gap.sps /\ pending' = pending
        <4>1. gap # None /\ gap \in GapLoop
          BY <2>1 DEF SkipFrame, IInv, TypeOK
        <4> QED
          BY <2>1, <4>1 DEF SkipFrame, GapLoop
      <3> QED
        BY <3>1 DEF FrameNumbersCoded, NumberInRange
    <2>2. CASE FillFrame
      <3>1. gap # None /\ pending' = pending /\ (gap' # None => gap'.header = gap.header /\ gap'.sps = gap.sps)
        <4>1. gap # None /\ gap \in GapLoop
          BY <2>2 DEF FillFrame, IInv, TypeOK
        <4> QED
          BY <2>2, <4>1 DEF FillFrame, GapLoop
      <3> QED
        BY <3>1 DEF FrameNumbersCoded, NumberInRange
    <2>3. CASE EndGap
      <3>1. gap # None /\ pending = None /\ gap' = None /\ gap.header.frameNum < gap.sps.maxFrameNum
        BY <2>3 DEF EndGap, IInv, ControlInv, FrameNumbersCoded
      <3>2. pending' # None => NumberInRange'
        BY <2>3, <3>1, StartCoded DEF EndGap
      <3> QED
        BY <3>1, <3>2 DEF FrameNumbersCoded
    <2>4. CASE MarkNext
      BY <2>4 DEF MarkNext, FrameNumbersCoded, NumberInRange
    <2>5. CASE EndMarking
      <3>1. pending' = None /\ gap' = gap
        BY <2>5, CompleteLeaves DEF EndMarking
      <3> QED
        BY <3>1 DEF FrameNumbersCoded
    <2> QED
      BY <1>3, <2>1, <2>2, <2>3, <2>4, <2>5 DEF Continue
  <1>4. CASE OutOfTurn
    BY <1>4 DEF OutOfTurn, FrameNumbersCoded, NumberInRange
  <1>5. CASE Clear
    BY <1>5 DEF Clear, FrameNumbersCoded, NumberInRange, Idle
  <1>6. CASE UNCHANGED vars
    BY <1>6 DEF vars, FrameNumbersCoded, NumberInRange
  <1> QED
    BY <1>1, <1>2, <1>3, <1>4, <1>5, <1>6 DEF Next

\* So it is in its range throughout.
LEMMA FrameNumbersAlwaysCoded == Spec => [](IInv /\ FrameNumbersCoded)
  <1>1. Init => FrameNumbersCoded
    BY DEF Init, FrameNumbersCoded
  <1> QED
    BY <1>1, CodedNext, InitInv, NextInv, PTL DEF Spec

\* Modification commands name pictures first and leave the rest as it was, in every
\* state with a picture in progress (modify over every state the buffer reaches).
THEOREM ModificationAsMeantAlways == Spec => []ModificationAsMeant
  <1>1. IInv /\ FrameNumbersCoded => ModificationAsMeant
    <2> SUFFICES ASSUME IInv, FrameNumbersCoded, pending # None, DistinctNumbers,
                        NEW sps \in SpsSet, NEW slice \in Slices, DifferencesInRange(slice.commands),
                        NEW i \in 1 .. ListCount(slice)
                 PROVE  RefPicLists(sps, slice)[i] =
                          ModifiedAsMeant(InitLists(sps, slice)[i], slice.commands, slice.active)
      BY DEF ModificationAsMeant, HasBegun, ListCount
    <2>1. ListState /\ NumberInRange
      BY InvLists DEF FrameNumbersCoded
    <2> QED
      BY <2>1, RefPicListsAsMeant
  <1> QED
    BY <1>1, FrameNumbersAlwaysCoded, PTL

=============================================================================
