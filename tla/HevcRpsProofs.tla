----------------------------- MODULE HevcRpsProofs -----------------------------
(***************************************************************************)
(* Lemmas about the operators of HevcRps, for any state and header: what   *)
(* the loops and look-ups return, and what each call leaves of a state.    *)
(***************************************************************************)
EXTENDS HevcRps, TLAPS, FiniteSetTheorems, SequenceTheorems, WellFoundedInduction

-----------------------------------------------------------------------------
(* Operators *)

\* A set of naturals that is not empty has a least element (find of an iterator).
LEMMA LeastKey ==
    ASSUME NEW S, S \subseteq Nat, S # {}
    PROVE  \E k \in S : \A j \in S : k <= j
  <1> DEFINE R == OpToRel(<, Nat)
  <1>1. PICK k \in S : \A j \in S : <<j, k>> \notin R
    BY NatLessThanWellFounded, WFMin
  <1>2. R = {ss \in Nat \X Nat : ss[1] < ss[2]}
    BY DEF OpToRel
  <1> HIDE DEF R
  <1>3. ASSUME NEW j \in S  PROVE k <= j
    <2>1. <<j, k>> \in Nat \X Nat /\ <<j, k>>[1] = j /\ <<j, k>>[2] = k
      OBVIOUS
    <2>2. ~(j < k)
      BY <1>1, <1>2, <2>1
    <2> QED
      BY <2>2
  <1> QED
    BY <1>3

\* FirstKey finds a member of the set or nothing.
LEMMA FirstKeyIn ==
    ASSUME NEW S, S \subseteq Nat
    PROVE  FirstKey(S) \in S \cup {None}
  BY LeastKey DEF FirstKey

\* kept is the function Flagged defines, up to the first m references.
KeepsUpTo(refs, used, kept, m) ==
    kept = [n \in 0 .. m |->
              IF n = 0 THEN <<>>
              ELSE IF refs[n].used = used THEN Append(kept[n - 1], refs[n]) ELSE kept[n - 1]]

\* For any number of references there is such a function, and its values are sequences
\* (by the least number for which there were none).
LEMMA KeptExists ==
    ASSUME NEW S, NEW refs \in Seq(S), NEW used, NEW m \in 0 .. Len(refs)
    PROVE  \E kept : KeepsUpTo(refs, used, kept, m)
  <1> DEFINE none == {n \in 0 .. Len(refs) : ~ \E kept : KeepsUpTo(refs, used, kept, n)}
  <1>1. CASE none = {}
    BY <1>1
  <1>2. CASE none # {}
    <2>1. PICK n \in none : \A j \in none : n <= j
      <3>1. none \subseteq Nat
        OBVIOUS
      <3> HIDE DEF none
      <3> QED
        BY <1>2, <3>1, LeastKey
    <2>3. n \in 0 .. Len(refs) /\ ~ \E kept : KeepsUpTo(refs, used, kept, n)
      OBVIOUS
    <2>4. CASE n = 0
      <3>1. KeepsUpTo(refs, used, [j \in 0 .. 0 |-> <<>>], 0)
        BY DEF KeepsUpTo
      <3> QED
        BY <2>3, <2>4, <3>1
    <2>5. CASE n # 0
      <3>1. n - 1 \in 0 .. Len(refs) /\ n - 1 \notin none
        <4>1. n - 1 \in 0 .. Len(refs) /\ ~(n <= n - 1)
          BY <2>3, <2>5
        <4> HIDE DEF none
        <4> QED
          BY <2>1, <4>1
      <3>2. PICK kept : KeepsUpTo(refs, used, kept, n - 1)
        BY <3>1
      <3> DEFINE last == IF refs[n].used = used THEN Append(kept[n - 1], refs[n]) ELSE kept[n - 1]
                 more == [j \in 0 .. n |-> IF j = n THEN last ELSE kept[j]]
      <3> HIDE DEF last
      <3>3. /\ \A j \in 0 .. n - 1 : more[j] = kept[j]
            /\ more[n] = last
        BY <2>3
      <3>4. ASSUME NEW j \in 0 .. n
            PROVE  more[j] = IF j = 0 THEN <<>>
                             ELSE IF refs[j].used = used THEN Append(more[j - 1], refs[j])
                             ELSE more[j - 1]
        <4>1. CASE j = n
          BY <2>3, <2>5, <3>3, <4>1 DEF last
        <4>2. CASE j # n
          <5>1. j \in 0 .. n - 1 /\ (j # 0 => j - 1 \in 0 .. n - 1)
            BY <2>3, <4>2
          <5>2. kept[j] = IF j = 0 THEN <<>>
                          ELSE IF refs[j].used = used THEN Append(kept[j - 1], refs[j])
                          ELSE kept[j - 1]
            BY <3>2, <5>1 DEF KeepsUpTo
          <5> HIDE DEF more
          <5> QED
            BY <3>3, <5>1, <5>2
        <4> QED
          BY <4>1, <4>2
      <3>5. KeepsUpTo(refs, used, more, n)
        BY <3>4 DEF KeepsUpTo, more
      <3> QED
        BY <2>3, <3>5
    <2> QED
      BY <2>4, <2>5
  <1> QED
    BY <1>1, <1>2

\* s runs through S in rising or in falling order.
Enumerates(s, S, up) ==
    /\ s \in Seq(S)
    /\ \A x \in S : \E i \in DOMAIN s : s[i] = x
    /\ \A i, j \in DOMAIN s : i < j => IF up THEN s[i] < s[j] ELSE s[i] > s[j]

\* One more at the end.
LEMMA EnumeratesMore ==
    ASSUME NEW e, NEW S, S \subseteq Int, NEW up, Enumerates(e, S, up), NEW n \in Int,
           \A x \in S : IF up THEN x < n ELSE x > n
    PROVE  Enumerates(Append(e, n), S \cup {n}, up)
  <1> DEFINE f == Append(e, n)
  <1>1. e \in Seq(S) /\ e \in Seq(S \cup {n})
    BY DEF Enumerates
  <1>2. /\ f \in Seq(S \cup {n})
        /\ Len(f) = Len(e) + 1 /\ Len(e) \in Nat
        /\ DOMAIN e = 1 .. Len(e) /\ DOMAIN f = 1 .. Len(e) + 1
        /\ \A i \in DOMAIN e : f[i] = e[i] /\ e[i] \in S
        /\ f[Len(e) + 1] = n
    BY <1>1
  <1>3. ASSUME NEW x \in S \cup {n}
        PROVE  \E i \in DOMAIN f : f[i] = x
    <2>1. CASE x = n
      BY <1>2, <2>1
    <2>2. CASE x \in S
      <3>1. PICK i \in DOMAIN e : e[i] = x
        BY <2>2 DEF Enumerates
      <3> QED
        BY <1>2, <3>1
    <2> QED
      BY <2>1, <2>2
  <1>4. ASSUME NEW i \in DOMAIN f, NEW j \in DOMAIN f, i < j
        PROVE  IF up THEN f[i] < f[j] ELSE f[i] > f[j]
    <2>1. i \in DOMAIN e
      BY <1>2, <1>4
    <2>2. CASE j \in DOMAIN e
      BY <1>2, <1>4, <2>1, <2>2 DEF Enumerates
    <2>3. CASE j \notin DOMAIN e
      <3>1. f[j] = n
        BY <1>2, <2>3
      <3> QED
        BY <1>2, <2>1, <3>1
    <2> QED
      BY <2>2, <2>3
  <1> QED
    BY <1>2, <1>3, <1>4 DEF Enumerates

\* A set of integers is run through in one way.
LEMMA EnumerationUnique ==
    ASSUME NEW S, S \subseteq Int, NEW up,
           NEW s, Enumerates(s, S, up), NEW t, Enumerates(t, S, up)
    PROVE  s = t
  <1>1. /\ s \in Seq(S) /\ t \in Seq(S)
        /\ Len(s) \in Nat /\ DOMAIN s = 1 .. Len(s) /\ Len(t) \in Nat /\ DOMAIN t = 1 .. Len(t)
        /\ \A i \in DOMAIN s : s[i] \in Int /\ s[i] \in S
        /\ \A i \in DOMAIN t : t[i] \in Int /\ t[i] \in S
    <2>1. s \in Seq(S) /\ t \in Seq(S)
      BY DEF Enumerates
    <2>2. Len(s) \in Nat /\ DOMAIN s = 1 .. Len(s) /\ \A i \in DOMAIN s : s[i] \in S
      BY <2>1
    <2>3. Len(t) \in Nat /\ DOMAIN t = 1 .. Len(t) /\ \A i \in DOMAIN t : t[i] \in S
      BY <2>1
    <2>4. \A x \in S : x \in Int
      OBVIOUS
    <2> QED
      BY <2>1, <2>2, <2>3, <2>4
  <1>2. /\ \A i, j \in DOMAIN s : i < j => IF up THEN s[i] < s[j] ELSE s[i] > s[j]
        /\ \A i, j \in DOMAIN t : i < j => IF up THEN t[i] < t[j] ELSE t[i] > t[j]
        /\ \A x \in S : \E i \in DOMAIN s : s[i] = x
        /\ \A x \in S : \E i \in DOMAIN t : t[i] = x
    BY DEF Enumerates
  <1> DEFINE apart == {i \in DOMAIN s \cap DOMAIN t : s[i] # t[i]}
  <1>3. CASE apart # {}
    <2>1. PICK i \in apart : \A j \in apart : i <= j
      <3>1. apart \subseteq Nat
        BY <1>1
      <3> HIDE DEF apart
      <3> QED
        BY <1>3, <3>1, LeastKey
    <2>2. i \in DOMAIN s /\ i \in DOMAIN t /\ s[i] # t[i] /\ i \in Nat
      BY <1>1
    <2>3. \A j \in DOMAIN s \cap DOMAIN t : j < i => s[j] = t[j]
      <3> SUFFICES ASSUME NEW j \in DOMAIN s \cap DOMAIN t, j < i  PROVE j \notin apart
        OBVIOUS
      <3>1. j \in Nat
        BY <1>1
      <3>2. ~(i <= j)
        BY <2>2, <3>1
      <3> HIDE DEF apart
      <3> QED
        BY <2>1, <3>2
    <2>4. PICK j \in DOMAIN t : t[j] = s[i]
      BY <1>1, <1>2, <2>2
    <2>5. PICK k \in DOMAIN s : s[k] = t[i]
      BY <1>1, <1>2, <2>2
    <2>6. j > i
      <3>1. CASE j < i
        <4>1. j \in DOMAIN s /\ s[j] = t[j]
          BY <1>1, <2>2, <2>3, <3>1
        <4>2. IF up THEN s[j] < s[i] ELSE s[j] > s[i]
          BY <1>2, <2>2, <3>1, <4>1
        <4> QED
          BY <1>1, <2>2, <2>4, <4>1, <4>2
      <3>2. j # i
        BY <2>2, <2>4
      <3> QED
        BY <1>1, <2>2, <3>1, <3>2
    <2>7. k > i
      <3>1. CASE k < i
        <4>1. k \in DOMAIN t /\ s[k] = t[k]
          BY <1>1, <2>2, <2>3, <3>1
        <4>2. IF up THEN t[k] < t[i] ELSE t[k] > t[i]
          BY <1>2, <2>2, <3>1, <4>1
        <4> QED
          BY <1>1, <2>2, <2>5, <4>1, <4>2
      <3>2. k # i
        BY <2>2, <2>5
      <3> QED
        BY <1>1, <2>2, <3>1, <3>2
    <2>8. /\ IF up THEN t[i] < t[j] ELSE t[i] > t[j]
          /\ IF up THEN s[i] < s[k] ELSE s[i] > s[k]
      BY <1>2, <2>2, <2>6, <2>7
    <2> QED
      BY <1>1, <2>2, <2>4, <2>5, <2>8
  <1>4. CASE apart = {}
    <2>1. \A i \in DOMAIN s \cap DOMAIN t : s[i] = t[i]
      BY <1>4
    <2>2. ~(Len(s) < Len(t))
      <3> SUFFICES ASSUME Len(s) < Len(t)  PROVE FALSE
        OBVIOUS
      <3> DEFINE n == Len(s) + 1
      <3>1. n \in DOMAIN t
        BY <1>1
      <3>2. PICK j \in DOMAIN s : s[j] = t[n]
        BY <1>1, <1>2, <3>1
      <3>3. j \in DOMAIN t /\ j < n /\ t[j] = t[n]
        BY <1>1, <2>1, <3>2
      <3>4. IF up THEN t[j] < t[n] ELSE t[j] > t[n]
        BY <1>2, <3>1, <3>3
      <3>5. t[j] \in Int /\ t[n] \in Int
        BY <1>1, <3>1, <3>3
      <3> QED
        BY <3>3, <3>4, <3>5
    <2>3. ~(Len(t) < Len(s))
      <3> SUFFICES ASSUME Len(t) < Len(s)  PROVE FALSE
        OBVIOUS
      <3> DEFINE n == Len(t) + 1
      <3>1. n \in DOMAIN s
        BY <1>1
      <3>2. PICK j \in DOMAIN t : t[j] = s[n]
        BY <1>1, <1>2, <3>1
      <3>3. j \in DOMAIN s /\ j < n /\ s[j] = s[n]
        BY <1>1, <2>1, <3>2
      <3>4. IF up THEN s[j] < s[n] ELSE s[j] > s[n]
        BY <1>2, <3>1, <3>3
      <3>5. s[j] \in Int /\ s[n] \in Int
        BY <1>1, <3>1, <3>3
      <3> QED
        BY <3>3, <3>4, <3>5
    <2>4. Len(s) = Len(t)
      <3>1. Len(s) \in Nat /\ Len(t) \in Nat
        BY <1>1
      <3> QED
        BY <2>2, <2>3, <3>1
    <2>5. \A i \in 1 .. Len(s) : s[i] = t[i]
      BY <1>1, <2>1, <2>4
    <2> QED
      BY <1>1, <2>4, <2>5
  <1> QED
    BY <1>3, <1>4

\* A finite set of integers has a greatest and a least element.
LEMMA LastOf ==
    ASSUME NEW S, S \subseteq Int, IsFiniteSet(S), S # {}, NEW up
    PROVE  \E x \in S : \A y \in S : y = x \/ IF up THEN y < x ELSE y > x
  <1> DEFINE Beyond(x) == {y \in S : IF up THEN y > x ELSE y < x}
             ranks == {Cardinality(Beyond(x)) : x \in S}
  <1>1. \A x \in S : IsFiniteSet(Beyond(x)) /\ Cardinality(Beyond(x)) \in Nat
    BY FS_Subset, FS_CardinalityType
  <1>2. PICK n \in ranks : \A j \in ranks : n <= j
    <2>1. ranks \subseteq Nat
      <3> HIDE DEF Beyond
      <3> QED
        BY <1>1
    <2>2. ranks # {}
      OBVIOUS
    <2> HIDE DEF ranks
    <2> QED
      BY <2>1, <2>2, LeastKey
  <1>3. PICK x \in S : n = Cardinality(Beyond(x))
    BY <1>2
  <1>4. ASSUME NEW y \in S, IF up THEN y > x ELSE y < x
        PROVE  FALSE
    <2>1. Beyond(y) \subseteq Beyond(x)
      <3> SUFFICES ASSUME NEW z \in Beyond(y)  PROVE z \in Beyond(x)
        OBVIOUS
      <3>1. x \in Int /\ y \in Int /\ z \in Int /\ z \in S
        OBVIOUS
      <3>2. IF up THEN z > y ELSE z < y
        OBVIOUS
      <3>3. IF up THEN z > x ELSE z < x
        BY <1>4, <3>1, <3>2
      <3> QED
        BY <3>1, <3>3
    <2>2. y \in Beyond(x) /\ y \notin Beyond(y)
      BY <1>4
    <2>3. n <= Cardinality(Beyond(y))
      BY <1>2
    <2> HIDE DEF Beyond
    <2>4. /\ Cardinality(Beyond(y)) <= Cardinality(Beyond(x))
          /\ Cardinality(Beyond(x)) = Cardinality(Beyond(y)) => Beyond(x) = Beyond(y)
      BY <1>1, <2>1, FS_Subset
    <2> QED
      BY <1>1, <1>3, <2>2, <2>3, <2>4
  <1>5. \A y \in S : y = x \/ IF up THEN y < x ELSE y > x
    BY <1>4
  <1> QED
    BY <1>5

\* A finite set of integers can be run through (by the least size of one that could not).
LEMMA EnumerationExists ==
    ASSUME NEW S, S \subseteq Int, IsFiniteSet(S), NEW up
    PROVE  \E s : Enumerates(s, S, up) /\ Len(s) = Cardinality(S)
  <1> DEFINE Runs(T) == \E s : Enumerates(s, T, up) /\ Len(s) = Cardinality(T)
             Fails(T) == T \subseteq Int /\ IsFiniteSet(T) /\ ~Runs(T)
             bad == {n \in Nat : \E T : Fails(T) /\ Cardinality(T) = n}
  <1>1. CASE bad = {}
    <2>1. Cardinality(S) \in Nat
      BY FS_CardinalityType
    <2>2. ~Fails(S)
      <3> HIDE DEF Fails
      <3> QED
        BY <1>1, <2>1
    <2> QED
      BY <2>2
  <1>2. CASE bad # {}
    <2>1. PICK n \in bad : \A j \in bad : n <= j
      <3>1. bad \subseteq Nat
        <4> HIDE DEF Fails
        <4> QED
          OBVIOUS
      <3> HIDE DEF bad
      <3> QED
        BY <1>2, <3>1, LeastKey
    <2>2. PICK T : Fails(T) /\ Cardinality(T) = n
      <3> HIDE DEF Fails
      <3> QED
        OBVIOUS
    <2>3. T \subseteq Int /\ IsFiniteSet(T) /\ ~Runs(T) /\ n \in Nat
      BY <2>2
    <2>4. T # {}
      <3> SUFFICES ASSUME T = {}  PROVE FALSE
        OBVIOUS
      <3>1. Enumerates(<<>>, T, up) /\ Len(<<>>) = 0 /\ Cardinality(T) = 0
        BY FS_EmptySet DEF Enumerates
      <3> QED
        BY <2>3, <3>1
    <2>5. PICK x \in T : \A y \in T : y = x \/ IF up THEN y < x ELSE y > x
      BY <2>3, <2>4, LastOf
    <2> DEFINE U == T \ {x}
    <2>6. IsFiniteSet(U) /\ Cardinality(U) = n - 1 /\ U \subseteq Int /\ n - 1 \in Nat
      <3>1. IsFiniteSet(U) /\ Cardinality(U) = n - 1 /\ Cardinality(U) \in Nat
        BY <2>2, <2>3, FS_RemoveElement, FS_CardinalityType
      <3> QED
        BY <2>3, <3>1
    <2>7. Runs(U)
      <3>1. n - 1 \notin bad
        <4>1. ~(n <= n - 1)
          BY <2>3
        <4> HIDE DEF bad
        <4> QED
          BY <2>1, <4>1
      <3>2. ~Fails(U)
        <4> HIDE DEF Fails, U
        <4> QED
          BY <2>6, <3>1
      <3> QED
        BY <2>6, <3>2
    <2>8. PICK s : Enumerates(s, U, up) /\ Len(s) = Cardinality(U)
      BY <2>7
    <2>9. x \in Int /\ \A y \in U : IF up THEN y < x ELSE y > x
      BY <2>3, <2>5
    <2>10. U \cup {x} = T
      BY <2>5
    <2> HIDE DEF U
    <2>11. Enumerates(Append(s, x), T, up)
      <3>1. Enumerates(Append(s, x), U \cup {x}, up)
        BY <2>6, <2>8, <2>9, EnumeratesMore
      <3> QED
        BY <2>10, <3>1
    <2>12. Len(Append(s, x)) = n
      <3>1. s \in Seq(U)
        BY <2>8 DEF Enumerates
      <3> QED
        BY <2>3, <2>6, <2>8, <3>1
    <2> QED
      BY <2>2, <2>3, <2>11, <2>12
  <1> QED
    BY <1>1, <1>2

\* The positions of s with a member of U, and s at the positions e.
Hits(s, U) == {j \in DOMAIN s : s[j] \in U}
Through(s, e) == [i \in DOMAIN e |-> s[e[i]]]

\* The part of an enumeration that lies in a set is an enumeration of that part.
LEMMA EnumerationPart ==
    ASSUME NEW X, NEW up, NEW s, Enumerates(s, X, up), NEW U,
           NEW e, Enumerates(e, Hits(s, U), TRUE)
    PROVE  Enumerates(Through(s, e), X \cap U, up)
  <1> DEFINE J == Hits(s, U)
             t == Through(s, e)
  <1>1. e \in Seq(J) /\ s \in Seq(X)
    BY DEF Enumerates
  <1>2. /\ Len(e) \in Nat /\ DOMAIN e = 1 .. Len(e)
        /\ \A i \in DOMAIN e : e[i] \in DOMAIN s /\ s[e[i]] \in U /\ s[e[i]] \in X
    BY <1>1 DEF Hits
  <1>3. t \in Seq(X \cap U) /\ DOMAIN t = DOMAIN e /\ \A i \in DOMAIN e : t[i] = s[e[i]]
    BY <1>2 DEF Through
  <1> HIDE DEF t
  <1>4. ASSUME NEW x \in X \cap U
        PROVE  \E i \in DOMAIN t : t[i] = x
    <2>1. PICK j \in DOMAIN s : s[j] = x
      BY DEF Enumerates
    <2>2. PICK i \in DOMAIN e : e[i] = j
      BY <2>1 DEF Enumerates, Hits
    <2> QED
      BY <1>3, <2>1, <2>2
  <1>5. ASSUME NEW i \in DOMAIN t, NEW j \in DOMAIN t, i < j
        PROVE  IF up THEN t[i] < t[j] ELSE t[i] > t[j]
    <2>1. i \in DOMAIN e /\ j \in DOMAIN e /\ e[i] < e[j]
      BY <1>3, <1>5 DEF Enumerates
    <2>2. e[i] \in DOMAIN s /\ e[j] \in DOMAIN s
      BY <1>2, <2>1
    <2>3. \A h, k \in DOMAIN s : h < k => IF up THEN s[h] < s[k] ELSE s[h] > s[k]
      BY DEF Enumerates
    <2>4. IF up THEN s[e[i]] < s[e[j]] ELSE s[e[i]] > s[e[j]]
      BY <2>1, <2>2, <2>3
    <2> QED
      BY <1>3, <2>1, <2>4
  <1> QED
    BY <1>3, <1>4, <1>5 DEF Enumerates, t

\* list is the part of refs with the flag, in its order.
IsSelection(list, refs, used) ==
    \E e : /\ Enumerates(e, {j \in DOMAIN refs : refs[j].used = used}, TRUE)
           /\ list = [i \in DOMAIN e |-> refs[e[i]]]

\* What a flag selects of a list is the part of the list with the flag, in its order.
LEMMA FlaggedAre ==
    ASSUME NEW S, NEW refs \in Seq(S), NEW used
    PROVE  IsSelection(Flagged(refs, used), refs, used)
  <1> DEFINE m == Len(refs)
             kept == CHOOSE kept : kept = [n \in 0 .. m |->
                        IF n = 0 THEN <<>>
                        ELSE IF refs[n].used = used THEN Append(kept[n - 1], refs[n])
                        ELSE kept[n - 1]]
             Chosen(n) == {j \in 1 .. n : refs[j].used = used}
             Selects(e, n) == Enumerates(e, Chosen(n), TRUE) /\ kept[n] = [i \in DOMAIN e |-> refs[e[i]]]
  <1>1. KeepsUpTo(refs, used, kept, m)
    <2>1. \E f : f = [n \in 0 .. m |->
                        IF n = 0 THEN <<>>
                        ELSE IF refs[n].used = used THEN Append(f[n - 1], refs[n])
                        ELSE f[n - 1]]
      <3>1. \E f : KeepsUpTo(refs, used, f, m)
        <4>1. m \in 0 .. Len(refs)
          OBVIOUS
        <4> HIDE DEF m
        <4> QED
          BY <4>1, KeptExists
      <3> QED
        BY <3>1, Zenon DEF KeepsUpTo
    <2> QED
      BY <2>1, Zenon DEF KeepsUpTo
  <1>2. Flagged(refs, used) = kept[m]
    BY Zenon DEF Flagged
  <1> HIDE DEF kept
  <1> DEFINE bad == {n \in 0 .. m : ~ \E e : Selects(e, n)}
  <1>3. m \in Nat /\ DOMAIN refs = 1 .. m
    OBVIOUS
  <1>4. CASE bad = {}
    <2>1. PICK e : Selects(e, m)
      <3> HIDE DEF Selects
      <3> QED
        BY <1>3, <1>4
    <2>2. Chosen(m) = {j \in DOMAIN refs : refs[j].used = used}
      BY <1>3
    <2> QED
      BY <1>2, <2>1, <2>2 DEF IsSelection
  <1>5. CASE bad # {}
    <2>1. PICK n \in bad : \A j \in bad : n <= j
      <3>1. bad \subseteq Nat
        <4> HIDE DEF Selects
        <4> QED
          OBVIOUS
      <3> HIDE DEF bad
      <3> QED
        BY <1>5, <3>1, LeastKey
    <2>2. n \in 0 .. m /\ ~ \E e : Selects(e, n)
      OBVIOUS
    <2>3. CASE n = 0
      <3>1. kept[0] = <<>> /\ Chosen(0) = {}
        BY <1>1, <1>3 DEF KeepsUpTo
      <3>2. Enumerates(<<>>, {}, TRUE)
        BY DEF Enumerates
      <3>3. <<>> = [i \in DOMAIN <<>> |-> refs[<<>>[i]]]
        OBVIOUS
      <3>4. Selects(<<>>, 0)
        BY <3>1, <3>2, <3>3
      <3> QED
        BY <2>2, <2>3, <3>4
    <2>4. CASE n # 0
      <3>1. n - 1 \in 0 .. m /\ n - 1 \notin bad
        <4>1. n - 1 \in 0 .. m /\ ~(n <= n - 1)
          BY <1>3, <2>2, <2>4
        <4> HIDE DEF bad
        <4> QED
          BY <2>1, <4>1
      <3>2. PICK e : Selects(e, n - 1)
        BY <3>1
      <3>3. kept[n] = IF refs[n].used = used THEN Append(kept[n - 1], refs[n]) ELSE kept[n - 1]
        BY <1>1, <1>3, <2>2, <2>4 DEF KeepsUpTo
      <3>4. n \in Nat \ {0} /\ n \in 1 .. m
        BY <1>3, <2>2, <2>4
      <3>5. Chosen(n - 1) \subseteq Int /\ \A x \in Chosen(n - 1) : x < n
        BY <3>4
      <3>6. e \in Seq(Chosen(n - 1)) /\ Enumerates(e, Chosen(n - 1), TRUE)
        BY <3>2 DEF Enumerates
      <3>7. kept[n - 1] = [i \in DOMAIN e |-> refs[e[i]]]
        BY <3>2
      <3>8. CASE refs[n].used = used
        <4> DEFINE f == Append(e, n)
        <4>1. Chosen(n) = Chosen(n - 1) \cup {n}
          BY <3>4, <3>8
        <4>2. Enumerates(f, Chosen(n), TRUE)
          <5> DEFINE before == Chosen(n - 1)
          <5>1. before \subseteq Int /\ (\A x \in before : x < n) /\ Enumerates(e, before, TRUE)
            BY <3>5, <3>6
          <5>2. n \in Int
            BY <3>4
          <5> HIDE DEF before, Chosen
          <5>3. \A x \in before : IF TRUE THEN x < n ELSE x > n
            BY <5>1
          <5>4. Enumerates(Append(e, n), before \cup {n}, TRUE)
            BY <5>1, <5>2, <5>3, EnumeratesMore
          <5> QED
            BY <4>1, <5>4 DEF before
        <4>3. Append(kept[n - 1], refs[n]) = [i \in DOMAIN f |-> refs[f[i]]]
          <5> HIDE DEF Chosen
          <5>1. kept[n - 1] \in Seq(S) /\ Len(kept[n - 1]) = Len(e)
            <6>1. e \in Seq(1 .. m)
              <7>1. Chosen(n - 1) \subseteq 1 .. m
                BY <3>4 DEF Chosen
              <7> QED
                BY <3>6, <7>1
            <6>2. \A i \in DOMAIN e : refs[e[i]] \in S
              BY <1>3, <6>1
            <6>3. DOMAIN e = 1 .. Len(e) /\ Len(e) \in Nat
              BY <6>1
            <6> HIDE DEF f
            <6> QED
              BY <3>7, <6>2, <6>3
          <5>2. f \in Seq(Int) /\ DOMAIN f = 1 .. Len(e) + 1 /\ Len(e) \in Nat /\ DOMAIN e = 1 .. Len(e)
                /\ f[Len(e) + 1] = n /\ \A i \in 1 .. Len(e) : f[i] = e[i]
            BY <3>4, <3>5, <3>6
          <5> HIDE DEF f
          <5> QED
            BY <1>3, <3>4, <3>7, <5>1, <5>2
        <4> HIDE DEF Chosen, f
        <4>4. Selects(f, n)
          BY <3>3, <3>8, <4>2, <4>3
        <4> QED
          BY <2>2, <4>4
      <3>9. CASE refs[n].used # used
        <4>1. Chosen(n) = Chosen(n - 1)
          BY <3>4, <3>9
        <4> HIDE DEF Chosen
        <4>2. Selects(e, n)
          BY <3>3, <3>6, <3>7, <3>9, <4>1
        <4> QED
          BY <2>2, <4>2
      <3> QED
        BY <3>8, <3>9
    <2> QED
      BY <2>3, <2>4
  <1> QED
    BY <1>4, <1>5

\* What is kept is a sequence.
LEMMA FlaggedType ==
    ASSUME NEW S, NEW refs \in Seq(S), NEW used
    PROVE  Flagged(refs, used) \in Seq(S)
  <1> DEFINE list == Flagged(refs, used)
  <1>0. IsSelection(list, refs, used)
    BY FlaggedAre
  <1> HIDE DEF list
  <1>1. PICK e : /\ Enumerates(e, {j \in DOMAIN refs : refs[j].used = used}, TRUE)
                 /\ list = [i \in DOMAIN e |-> refs[e[i]]]
    BY <1>0, Zenon DEF IsSelection
  <1>2. e \in Seq({j \in DOMAIN refs : refs[j].used = used})
    BY <1>1 DEF Enumerates
  <1>3. /\ DOMAIN e = 1 .. Len(e) /\ Len(e) \in Nat
        /\ \A i \in DOMAIN e : e[i] \in DOMAIN refs
    BY <1>2
  <1>4. \A i \in DOMAIN e : refs[e[i]] \in S
    BY <1>3
  <1> QED
    BY <1>1, <1>3, <1>4 DEF list

\* Truncation yields an i32.
LEMMA WrapType ==
    ASSUME NEW v \in Int
    PROVE  Wrap(v) \in PocRange
  <1> DEFINE n == 2 * PocLimit
  <1>1. n \in Nat \ {0} /\ (v + PocLimit) \in Int
    BY RpsAssumption
  <1>2. (v + PocLimit) % n \in 0 .. n - 1
    BY <1>1
  <1> QED
    BY <1>2, RpsAssumption DEF Wrap, PocRange

\* Marking keeps keys and counts.
LEMMA MarkLongTermType ==
    ASSUME NEW pics, pics \in [DOMAIN pics -> Picture], NEW keys
    PROVE  /\ MarkLongTerm(pics, keys) \in [DOMAIN pics -> Picture]
           /\ DOMAIN MarkLongTerm(pics, keys) = DOMAIN pics
           /\ \A k \in DOMAIN pics :
                /\ MarkLongTerm(pics, keys)[k].poc = pics[k].poc
                /\ k \in keys => MarkLongTerm(pics, keys)[k].marking = "LongTerm"
                /\ k \notin keys => MarkLongTerm(pics, keys)[k] = pics[k]
  <1>1. \A k \in DOMAIN pics : [pics[k] EXCEPT !.marking = "LongTerm"] \in Picture
    BY DEF Picture, Marking
  <1>2. \A k \in DOMAIN pics : [pics[k] EXCEPT !.marking = "LongTerm"].poc = pics[k].poc
    BY DEF Picture
  <1>3. \A k \in DOMAIN pics : [pics[k] EXCEPT !.marking = "LongTerm"].marking = "LongTerm"
    BY DEF Picture
  <1> QED
    BY <1>1, <1>2, <1>3 DEF MarkLongTerm

\* What the lookups return is in the buffer.
LEMMA LongTermKeysIn ==
    ASSUME NEW pics, DOMAIN pics \subseteq Nat, NEW sps, NEW poc, NEW refs
    PROVE  Keys(LongTermKeys(pics, sps, poc, refs)) \subseteq DOMAIN pics
  <1>1. \A r : FindLongTerm(pics, sps, poc, r) \in DOMAIN pics \cup {None}
    <2> TAKE r
    <2> DEFINE S == {k \in DOMAIN pics :
                IF r.cycle = None THEN pics[k].poc % sps.maxLsb = r.lsb
                ELSE pics[k].poc = r.lsb + poc - r.cycle * sps.maxLsb - (poc % sps.maxLsb)}
    <2>1. S \subseteq Nat
      OBVIOUS
    <2>2. FirstKey(S) \in S \cup {None}
      BY <2>1, FirstKeyIn
    <2> QED
      BY <2>2 DEF FindLongTerm
  <1> QED
    BY <1>1 DEF Keys, LongTermKeys, ToSet

\* A short-term lookup returns pictures that are short-term.
LEMMA ShortTermKeysIn ==
    ASSUME NEW pics, DOMAIN pics \subseteq Nat, NEW poc, NEW refs
    PROVE  Keys(ShortTermKeys(pics, poc, refs))
             \subseteq {k \in DOMAIN pics : pics[k].marking = "ShortTerm"}
  <1>1. \A r : FindShortTerm(pics, poc, r)
                 \in {k \in DOMAIN pics : pics[k].marking = "ShortTerm"} \cup {None}
    <2> TAKE r
    <2> DEFINE S == {k \in DOMAIN pics : pics[k].marking = "ShortTerm" /\ pics[k].poc = poc + r.delta}
    <2>1. S \subseteq Nat
      OBVIOUS
    <2>2. FirstKey(S) \in S \cup {None}
      BY <2>1, FirstKeyIn
    <2> QED
      BY <2>2 DEF FindShortTerm
  <1> QED
    BY <1>1 DEF Keys, ShortTermKeys, ToSet

\* The empty buffer.
LEMMA NoPictures ==
    /\ DOMAIN <<>> = {}
    /\ <<>> \in [{} -> Picture]
  OBVIOUS

\* The five lists name pictures of the buffer; what a short-term list names is
\* short-term before and after the long-term ones are marked.
LEMMA RpsListsIn ==
    ASSUME NEW pics, pics \in [DOMAIN pics -> Picture], DOMAIN pics \subseteq Nat,
           NEW sps, NEW h, NEW poc, NEW rps, rps = RpsLists(pics, sps, h, poc)
    PROVE  /\ \A l \in Lists : Keys(rps[l]) \subseteq DOMAIN pics
           /\ \A l \in ShortLists : \A k \in Keys(rps[l]) :
                /\ pics[k].marking = "ShortTerm"
                /\ k \notin Keys(rps["ltCurr"]) \cup Keys(rps["ltFoll"])
  <1> DEFINE ltCurr == LongTermKeys(pics, sps, poc, Used(h.longTerm))
             ltFoll == LongTermKeys(pics, sps, poc, Unused(h.longTerm))
             long == Keys(ltCurr) \cup Keys(ltFoll)
             marked == MarkLongTerm(pics, long)
             before == ShortTermKeys(marked, poc, Used(h.s0))
             after == ShortTermKeys(marked, poc, Used(h.s1))
             foll == ShortTermKeys(marked, poc, Unused(h.s0) \o Unused(h.s1))
  <1>1. rps = [stCurrBefore |-> before, stCurrAfter |-> after, stFoll |-> foll,
               ltCurr |-> ltCurr, ltFoll |-> ltFoll]
    BY DEF RpsLists
  <1>2. Keys(ltCurr) \subseteq DOMAIN pics /\ Keys(ltFoll) \subseteq DOMAIN pics
    BY LongTermKeysIn
  <1>3. /\ DOMAIN marked = DOMAIN pics
        /\ \A k \in DOMAIN pics : k \in long => marked[k].marking = "LongTerm"
        /\ \A k \in DOMAIN pics : k \notin long => marked[k] = pics[k]
    BY MarkLongTermType
  <1> HIDE DEF marked, ltCurr, ltFoll
  <1>4. /\ Keys(before) \subseteq {k \in DOMAIN marked : marked[k].marking = "ShortTerm"}
        /\ Keys(after) \subseteq {k \in DOMAIN marked : marked[k].marking = "ShortTerm"}
        /\ Keys(foll) \subseteq {k \in DOMAIN marked : marked[k].marking = "ShortTerm"}
    BY <1>3, ShortTermKeysIn
  <1> HIDE DEF before, after, foll
  <1>5. \A k \in DOMAIN marked : marked[k].marking = "ShortTerm" =>
           k \in DOMAIN pics /\ k \notin long /\ pics[k].marking = "ShortTerm"
    <2> HIDE DEF long
    <2> SUFFICES ASSUME NEW k \in DOMAIN marked, marked[k].marking = "ShortTerm"
                 PROVE  k \in DOMAIN pics /\ k \notin long /\ pics[k].marking = "ShortTerm"
      OBVIOUS
    <2>1. k \in DOMAIN pics
      BY <1>3
    <2>2. k \notin long
      BY <1>3, <2>1
    <2> QED
      BY <1>3, <2>1, <2>2
  <1>6. /\ rps["stCurrBefore"] = before /\ rps["stCurrAfter"] = after /\ rps["stFoll"] = foll
        /\ rps["ltCurr"] = ltCurr /\ rps["ltFoll"] = ltFoll
    BY <1>1
  <1>7. \A l \in ShortLists : \A k \in Keys(rps[l]) :
           k \in DOMAIN pics /\ k \notin long /\ pics[k].marking = "ShortTerm"
    BY <1>4, <1>5, <1>6 DEF ShortLists
  <1>8. \A l \in Lists : Keys(rps[l]) \subseteq DOMAIN pics
    BY <1>2, <1>6, <1>7 DEF Lists, ShortLists
  <1>9. long = Keys(rps["ltCurr"]) \cup Keys(rps["ltFoll"])
    BY <1>6
  <1> QED
    BY <1>7, <1>8, <1>9

\* kept is the part of pics that rps names, long-term if among long.
KeepsAsNamed(pics, rps, long, kept) ==
    /\ kept \in [DOMAIN kept -> Picture]
    /\ DOMAIN kept = DOMAIN pics \cap InRps(rps)
    /\ \A k \in DOMAIN kept : kept[k].poc = pics[k].poc
    /\ \A k \in DOMAIN kept \cap long : kept[k].marking = "LongTerm"
    /\ \A k \in DOMAIN kept \ long : kept[k] = pics[k]

\* What is retained is what the lists name, marked as they call it.
LEMMA RetainedParts ==
    ASSUME NEW pics, pics \in [DOMAIN pics -> Picture], NEW rps,
           NEW long, long = Keys(rps["ltCurr"]) \cup Keys(rps["ltFoll"]),
           NEW kept, kept = Retained(pics, rps)
    PROVE  KeepsAsNamed(pics, rps, long, kept)
  <1> DEFINE marked == MarkLongTerm(pics, long)
  <1>1. /\ marked \in [DOMAIN pics -> Picture]
        /\ DOMAIN marked = DOMAIN pics
        /\ \A k \in DOMAIN pics : marked[k].poc = pics[k].poc
        /\ \A k \in DOMAIN pics : k \in long => marked[k].marking = "LongTerm"
        /\ \A k \in DOMAIN pics : k \notin long => marked[k] = pics[k]
    BY MarkLongTermType
  <1>2. kept = [k \in DOMAIN pics \cap InRps(rps) |-> marked[k]]
    BY DEF Retained
  <1> HIDE DEF marked
  <1>3. /\ DOMAIN kept = DOMAIN pics \cap InRps(rps)
        /\ \A k \in DOMAIN kept : k \in DOMAIN pics /\ kept[k] = marked[k]
    BY <1>2
  <1>4. kept \in [DOMAIN kept -> Picture]
    BY <1>1, <1>2, <1>3
  <1> QED
    BY <1>1, <1>3, <1>4 DEF KeepsAsNamed

\* Eviction leaves room for one picture.
LEMMA EvictedLeavesRoom ==
    ASSUME NEW d, DOMAIN d.pics \subseteq Nat, IsFiniteSet(DOMAIN d.pics)
    PROVE  /\ IsFiniteSet(DOMAIN d.pics \ Evicted(d))
           /\ Cardinality(DOMAIN d.pics \ Evicted(d)) <= MaxPics - 1
  <1> DEFINE kept == DOMAIN d.pics \ Evicted(d)
             from(k) == {j \in DOMAIN d.pics : j >= k}
  <1>1. IsFiniteSet(kept) /\ Cardinality(kept) \in Nat
    BY FS_Subset, FS_CardinalityType
  <1>2. CASE kept = {}
    BY <1>2, FS_EmptySet, RpsAssumption
  <1>3. CASE kept # {}
    <2>1. PICK k \in kept : \A j \in kept : k <= j
      BY <1>3, LeastKey
    <2>2. kept \subseteq from(k)
      BY <2>1
    <2>3. IsFiniteSet(from(k)) /\ Cardinality(from(k)) \in Nat
      BY FS_Subset, FS_CardinalityType
    <2>4. ~(Cardinality(from(k)) >= MaxPics)
      BY <2>1 DEF Evicted
    <2>5. Cardinality(kept) <= Cardinality(from(k))
      BY <2>2, <2>3, FS_Subset
    <2> QED
      BY <1>1, <2>3, <2>4, <2>5, RpsAssumption
  <1> QED
    BY <1>1, <1>2, <1>3

-----------------------------------------------------------------------------
(* Calls on a state record *)

\* The fields of a state, and what they are.
LEMMA StateParts ==
    ASSUME NEW d, IsState(d)
    PROVE  /\ d.pics \in [DOMAIN d.pics -> Picture]
           /\ DOMAIN d.pics \subseteq Nat /\ IsFiniteSet(DOMAIN d.pics)
           /\ d.prevLsb \in Nat /\ d.prevMsb \in PocRange /\ d.prevMsb \in Int
           /\ d.afterEos \in BOOLEAN /\ d.started \in BOOLEAN /\ d.irapNoRaslOutput \in BOOLEAN
           /\ d.nextKey \in Nat
           /\ d.pending # NoPicture => IsPending(d.pending)
  BY RpsAssumption DEF IsState, PocRange

\* A fresh state is a state.
LEMMA FreshState ==
    ASSUME NEW n \in Nat
    PROVE  IsState(Fresh(n)) /\ Fresh(n).pics = <<>> /\ Fresh(n).pending = NoPicture
             /\ Fresh(n).nextKey = n
  BY NoPictures, FS_EmptySet, RpsAssumption DEF Fresh, IsState, PocRange

\* The flag is a flag.
LEMMA NoRaslOutputType ==
    ASSUME NEW d, IsState(d), NEW h
    PROVE  NoRaslOutput(d, h) \in BOOLEAN
  BY DEF NoRaslOutput, IsIrap, IsIdr, IsBla

\* What every picture does first leaves the buffer and the keys alone.
LEMMA AnnouncedState ==
    ASSUME NEW d, IsState(d), NEW h, NEW e, e = Announced(d, h)
    PROVE  /\ IsState(e)
           /\ e.pics = d.pics /\ e.pending = NoPicture /\ e.nextKey = d.nextKey
           /\ e = [pics |-> d.pics, prevLsb |-> d.prevLsb, prevMsb |-> d.prevMsb,
                   afterEos |-> FALSE, started |-> TRUE,
                   irapNoRaslOutput |-> e.irapNoRaslOutput, nextKey |-> d.nextKey,
                   pending |-> NoPicture]
           /\ e.irapNoRaslOutput \in BOOLEAN
  <1> DEFINE flag == IF IsIrap(h.type) THEN NoRaslOutput(d, h) ELSE d.irapNoRaslOutput
  <1>1. flag \in BOOLEAN
    BY NoRaslOutputType, StateParts
  <1> HIDE DEF flag
  <1>2. d = [pics |-> d.pics, prevLsb |-> d.prevLsb, prevMsb |-> d.prevMsb,
             afterEos |-> d.afterEos, started |-> d.started,
             irapNoRaslOutput |-> d.irapNoRaslOutput, nextKey |-> d.nextKey,
             pending |-> d.pending]
    BY DEF IsState
  <1>3. e = [d EXCEPT !.pending = NoPicture, !.irapNoRaslOutput = flag, !.started = TRUE,
                      !.afterEos = FALSE]
    BY DEF Announced, flag
  <1>4. e = [pics |-> d.pics, prevLsb |-> d.prevLsb, prevMsb |-> d.prevMsb,
             afterEos |-> FALSE, started |-> TRUE, irapNoRaslOutput |-> flag,
             nextKey |-> d.nextKey, pending |-> NoPicture]
    BY <1>2, <1>3
  <1>5. IsState(e)
    BY <1>1, <1>4, StateParts DEF IsState
  <1> QED
    BY <1>1, <1>4, <1>5

\* The pictures a set is looked up in are pictures of the buffer.
LEMMA AvailableIn ==
    ASSUME NEW d, IsState(d), NEW h, NEW pics, pics = Available(d, h)
    PROVE  /\ pics \in [DOMAIN pics -> Picture]
           /\ DOMAIN pics \subseteq DOMAIN d.pics
           /\ \A k \in DOMAIN pics : pics[k] = d.pics[k]
  BY NoPictures, StateParts DEF Available

\* The same for the lists of any picture, an IDR picture included.
LEMMA RpsOfIn ==
    ASSUME NEW d, IsState(d), NEW sps, NEW h, NEW rps, rps = RpsOf(d, sps, h),
           NEW pics, pics = Available(d, h)
    PROVE  /\ \A l \in Lists : Keys(rps[l]) \subseteq DOMAIN pics
           /\ \A l \in ShortLists : \A k \in Keys(rps[l]) :
                /\ pics[k].marking = "ShortTerm"
                /\ k \notin Keys(rps["ltCurr"]) \cup Keys(rps["ltFoll"])
  <1>1. pics \in [DOMAIN pics -> Picture] /\ DOMAIN pics \subseteq Nat
    BY AvailableIn, StateParts
  <1>2. CASE IsIdr(h.type)
    <2>1. \A l \in Lists : Keys(rps[l]) = {}
      BY <1>2, NoPictures DEF RpsOf, NoLists, Lists, ShortLists, Keys, ToSet
    <2> QED
      BY <2>1 DEF Lists, ShortLists
  <1>3. CASE ~IsIdr(h.type)
    BY <1>1, <1>3, RpsListsIn DEF RpsOf
  <1> QED
    BY <1>2, <1>3

\* The lookup of a list of references is a list of keys, with holes.
LEMMA LookupsType ==
    ASSUME NEW pics, DOMAIN pics \subseteq Nat, NEW sps, NEW poc, NEW S, NEW refs \in Seq(S)
    PROVE  /\ LongTermKeys(pics, sps, poc, refs) \in Seq(Nat \cup {None})
           /\ ShortTermKeys(pics, poc, refs) \in Seq(Nat \cup {None})
  <1>1. \A r : FindLongTerm(pics, sps, poc, r) \in Nat \cup {None}
    <2> TAKE r
    <2> DEFINE found == {k \in DOMAIN pics :
                IF r.cycle = None THEN pics[k].poc % sps.maxLsb = r.lsb
                ELSE pics[k].poc = r.lsb + poc - r.cycle * sps.maxLsb - (poc % sps.maxLsb)}
    <2>1. found \subseteq Nat
      OBVIOUS
    <2> QED
      BY <2>1, FirstKeyIn DEF FindLongTerm
  <1>2. \A r : FindShortTerm(pics, poc, r) \in Nat \cup {None}
    <2> TAKE r
    <2> DEFINE found == {k \in DOMAIN pics :
                           pics[k].marking = "ShortTerm" /\ pics[k].poc = poc + r.delta}
    <2>1. found \subseteq Nat
      OBVIOUS
    <2> QED
      BY <2>1, FirstKeyIn DEF FindShortTerm
  <1>3. DOMAIN refs = 1 .. Len(refs) /\ Len(refs) \in Nat
    OBVIOUS
  <1> QED
    BY <1>1, <1>2, <1>3 DEF LongTermKeys, ShortTermKeys

\* The five lists of any picture are lists of keys, with holes.
LEMMA RpsOfType ==
    ASSUME NEW d, IsState(d), NEW sps, NEW h \in Header, NEW rps, rps = RpsOf(d, sps, h)
    PROVE  \A l \in Lists : rps[l] \in Seq(Nat \cup {None})
  <1>1. CASE IsIdr(h.type)
    BY <1>1 DEF RpsOf, NoLists
  <1>2. CASE ~IsIdr(h.type)
    <2> DEFINE pics == Available(d, h)
               poc == PocOf(d, sps, h)
               ltCurr == LongTermKeys(pics, sps, poc, Used(h.longTerm))
               ltFoll == LongTermKeys(pics, sps, poc, Unused(h.longTerm))
               marked == MarkLongTerm(pics, Keys(ltCurr) \cup Keys(ltFoll))
    <2>1. /\ h.s0 \in Seq(ShortTermRef) /\ h.s1 \in Seq(ShortTermRef)
          /\ h.longTerm \in Seq(LongTermRef)
      BY DEF Header
    <2>2. /\ Used(h.s0) \in Seq(ShortTermRef) /\ Unused(h.s0) \in Seq(ShortTermRef)
          /\ Used(h.s1) \in Seq(ShortTermRef) /\ Unused(h.s1) \in Seq(ShortTermRef)
          /\ Used(h.longTerm) \in Seq(LongTermRef) /\ Unused(h.longTerm) \in Seq(LongTermRef)
      BY <2>1, FlaggedType DEF Used, Unused
    <2>3. Unused(h.s0) \o Unused(h.s1) \in Seq(ShortTermRef)
      BY <2>2
    <2>4. pics \in [DOMAIN pics -> Picture] /\ DOMAIN pics \subseteq Nat
      BY AvailableIn, StateParts
    <2>5. DOMAIN marked = DOMAIN pics
      BY DEF MarkLongTerm
    <2> DEFINE before == ShortTermKeys(marked, poc, Used(h.s0))
               after == ShortTermKeys(marked, poc, Used(h.s1))
               foll == ShortTermKeys(marked, poc, Unused(h.s0) \o Unused(h.s1))
    <2>6. rps = [stCurrBefore |-> before, stCurrAfter |-> after, stFoll |-> foll,
                 ltCurr |-> ltCurr, ltFoll |-> ltFoll]
      BY <1>2 DEF RpsOf, RpsLists
    <2> HIDE DEF pics, poc, marked
    <2>7. ltCurr \in Seq(Nat \cup {None}) /\ ltFoll \in Seq(Nat \cup {None})
      BY <2>2, <2>4, LookupsType
    <2>8. before \in Seq(Nat \cup {None}) /\ after \in Seq(Nat \cup {None})
      BY <2>2, <2>4, <2>5, LookupsType
    <2>9. foll \in Seq(Nat \cup {None})
      BY <2>3, <2>4, <2>5, LookupsType
    <2> HIDE DEF ltCurr, ltFoll, before, after, foll
    <2> QED
      BY <2>6, <2>7, <2>8, <2>9 DEF Lists, ShortLists
  <1> QED
    BY <1>1, <1>2

\* No short-term list names what a long-term list names.
ApartFromLong(rps) ==
    \A l \in ShortLists : Keys(rps[l]) \cap (Keys(rps["ltCurr"]) \cup Keys(rps["ltFoll"])) = {}

\* A picture begins: the buffer holds what its lists name, marked as they say.
LEMMA BegunState ==
    ASSUME NEW d, IsState(d), NEW sps \in Sps, NEW h \in Header,
           PocOf(d, sps, h) \in PocRange,
           NEW e, e = Begun(d, sps, h)
    PROVE  /\ IsState(e)
           /\ e.nextKey = d.nextKey + 1
           /\ e.pending # NoPicture /\ e.pending.key = d.nextKey
           /\ DOMAIN e.pics \subseteq DOMAIN d.pics
           /\ InRps(e.pending.rps) = DOMAIN e.pics
           /\ \A k \in DOMAIN e.pics :
                /\ e.pics[k].poc = d.pics[k].poc
                /\ d.pics[k].marking = "LongTerm" => e.pics[k].marking = "LongTerm"
                /\ e.pics[k].marking = "LongTerm" <=>
                     k \in Keys(e.pending.rps["ltCurr"]) \cup Keys(e.pending.rps["ltFoll"])
           /\ ApartFromLong(e.pending.rps)
  <1> DEFINE pics == Available(d, h)
             rps == RpsOf(d, sps, h)
             kept == Retained(pics, rps)
             msb == Wrap(PocMsb(d, sps, h))
             long == Keys(rps["ltCurr"]) \cup Keys(rps["ltFoll"])
             p == [key |-> d.nextKey, poc |-> PocOf(d, sps, h), msb |-> msb,
                   irap |-> IsIrap(h.type), noRaslOutput |-> NoRaslOutput(d, h),
                   rps |-> rps, temporalId |-> h.temporalId,
                   referenceable |-> sps.maxDecPicBufferingMinus1 > 0]
             a == Announced(d, h)
  <1>1. /\ h.temporalId \in Nat /\ h.lsb \in Nat /\ sps.maxLsb \in Nat \ {0}
        /\ sps.maxDecPicBufferingMinus1 \in Nat
    BY DEF Header, Sps
  <1>2. PocMsb(d, sps, h) \in Int
    BY <1>1, StateParts DEF PocMsb
  <1>3. msb \in PocRange
    BY <1>2, WrapType
  <1>4. /\ pics \in [DOMAIN pics -> Picture]
        /\ DOMAIN pics \subseteq DOMAIN d.pics
        /\ \A k \in DOMAIN pics : pics[k] = d.pics[k]
    BY AvailableIn
  <1>5. /\ \A l \in Lists : Keys(rps[l]) \subseteq DOMAIN pics
        /\ \A l \in ShortLists : \A k \in Keys(rps[l]) :
             pics[k].marking = "ShortTerm" /\ k \notin long
    BY RpsOfIn
  <1> HIDE DEF pics, rps, msb, long
  <1>6. /\ kept \in [DOMAIN kept -> Picture]
        /\ DOMAIN kept = DOMAIN pics \cap InRps(rps)
        /\ \A k \in DOMAIN kept : kept[k].poc = pics[k].poc
        /\ \A k \in DOMAIN kept \cap long : kept[k].marking = "LongTerm"
        /\ \A k \in DOMAIN kept \ long : kept[k] = pics[k]
    <2>1. long = Keys(rps["ltCurr"]) \cup Keys(rps["ltFoll"]) /\ kept = Retained(pics, rps)
      BY DEF long
    <2>2. pics \in [DOMAIN pics -> Picture]
      BY <1>4
    <2> HIDE DEF kept, p, a
    <2>3. KeepsAsNamed(pics, rps, long, kept)
      BY <2>1, <2>2, RetainedParts
    <2> QED
      BY <2>3 DEF KeepsAsNamed
  <1> HIDE DEF kept
  <1>7. DOMAIN kept = InRps(rps)
    BY <1>5, <1>6 DEF InRps
  <1>8. \A k \in DOMAIN kept \ long : pics[k].marking = "ShortTerm"
    <2> SUFFICES ASSUME NEW k \in DOMAIN kept, k \notin long
                 PROVE  pics[k].marking = "ShortTerm"
      OBVIOUS
    <2>1. PICK l \in Lists : k \in Keys(rps[l])
      BY <1>7 DEF InRps
    <2>2. l \in ShortLists
      BY <2>1 DEF Lists, long
    <2> QED
      BY <1>5, <2>1, <2>2
  <1>9. \A k \in DOMAIN kept : kept[k].marking = "LongTerm" <=> k \in long
    BY <1>6, <1>8
  <1>10. \A k \in DOMAIN kept : pics[k].marking = "LongTerm" => kept[k].marking = "LongTerm"
    BY <1>6
  <1>11. IsPending(p)
    <2>1. \A l \in Lists : rps[l] \in Seq(Nat \cup {None})
      BY RpsOfType DEF rps
    <2>2. (sps.maxDecPicBufferingMinus1 > 0) \in BOOLEAN /\ IsIrap(h.type) \in BOOLEAN
      BY <1>1 DEF IsIrap
    <2> QED
      BY <1>1, <1>3, <2>1, <2>2, StateParts, NoRaslOutputType DEF IsPending
  <1>12. p # NoPicture
    <2>1. p.key \in Nat /\ NoPicture.key = None
      BY StateParts DEF NoPicture
    <2> QED
      BY <2>1, RpsAssumption
  <1>13. e = [pics |-> kept, prevLsb |-> e.prevLsb, prevMsb |-> e.prevMsb, afterEos |-> FALSE,
              started |-> TRUE, irapNoRaslOutput |-> a.irapNoRaslOutput,
              nextKey |-> d.nextKey + 1, pending |-> p]
         /\ e.prevLsb \in Nat /\ e.prevMsb \in PocRange
    <2> DEFINE lsb2 == IF IsTid0Anchor(h) THEN h.lsb ELSE a.prevLsb
               msb2 == IF IsTid0Anchor(h) THEN msb ELSE a.prevMsb
    <2>1. e = [a EXCEPT !.prevLsb = lsb2, !.prevMsb = msb2, !.pics = kept,
                        !.nextKey = a.nextKey + 1, !.pending = p]
      BY DEF Begun, pics, rps, msb, kept
    <2>2. a = [pics |-> d.pics, prevLsb |-> d.prevLsb, prevMsb |-> d.prevMsb,
               afterEos |-> FALSE, started |-> TRUE, irapNoRaslOutput |-> a.irapNoRaslOutput,
               nextKey |-> d.nextKey, pending |-> NoPicture]
      BY AnnouncedState
    <2>3. lsb2 \in Nat /\ msb2 \in PocRange
      BY <1>1, <1>3, <2>2, StateParts
    <2> HIDE DEF lsb2, msb2, p, a
    <2>4. e = [pics |-> kept, prevLsb |-> lsb2, prevMsb |-> msb2, afterEos |-> FALSE,
               started |-> TRUE, irapNoRaslOutput |-> a.irapNoRaslOutput,
               nextKey |-> d.nextKey + 1, pending |-> p]
      <3>1. a.nextKey = d.nextKey
        BY <2>2
      <3> DEFINE flag == a.irapNoRaslOutput
      <3>2. a = [pics |-> d.pics, prevLsb |-> d.prevLsb, prevMsb |-> d.prevMsb,
                 afterEos |-> FALSE, started |-> TRUE, irapNoRaslOutput |-> flag,
                 nextKey |-> d.nextKey, pending |-> NoPicture]
        BY <2>2
      <3> HIDE DEF flag
      <3>3. e = [pics |-> kept, prevLsb |-> lsb2, prevMsb |-> msb2, afterEos |-> FALSE,
                 started |-> TRUE, irapNoRaslOutput |-> flag,
                 nextKey |-> d.nextKey + 1, pending |-> p]
        BY <2>1, <3>1, <3>2
      <3> QED
        BY <3>3 DEF flag
    <2>5. e.prevLsb = lsb2 /\ e.prevMsb = msb2
      BY <2>4
    <2> QED
      BY <2>3, <2>4, <2>5
  <1>14. a.irapNoRaslOutput \in BOOLEAN
    BY AnnouncedState
  <1>15. IsFiniteSet(DOMAIN kept) /\ DOMAIN kept \subseteq DOMAIN d.pics /\ DOMAIN kept \subseteq Nat
    BY <1>4, <1>6, StateParts, FS_Subset
  <1>16. IsState(e)
    <2> HIDE DEF p, a
    <2>1. /\ e.pics = kept /\ e.afterEos = FALSE /\ e.started = TRUE
          /\ e.irapNoRaslOutput = a.irapNoRaslOutput
          /\ e.nextKey = d.nextKey + 1 /\ e.pending = p
      BY <1>13
    <2>2. e = [pics |-> e.pics, prevLsb |-> e.prevLsb, prevMsb |-> e.prevMsb,
               afterEos |-> e.afterEos, started |-> e.started,
               irapNoRaslOutput |-> e.irapNoRaslOutput, nextKey |-> e.nextKey,
               pending |-> e.pending]
      BY <1>13, <2>1
    <2>3. e.nextKey \in Nat
      BY <2>1, StateParts
    <2> QED
      BY <1>6, <1>11, <1>13, <1>14, <1>15, <2>1, <2>2, <2>3 DEF IsState
  <1>17. e.pending.key = d.nextKey /\ e.pending.rps = rps
    BY <1>13
  <1>18. e.pics = kept /\ e.pending = p /\ e.nextKey = d.nextKey + 1
    <2> HIDE DEF p, a
    <2> QED
      BY <1>13
  <1>19. ApartFromLong(e.pending.rps)
    <2> HIDE DEF p, a
    <2>1. long = Keys(e.pending.rps["ltCurr"]) \cup Keys(e.pending.rps["ltFoll"])
      BY <1>17 DEF long
    <2>2. \A l \in ShortLists : Keys(e.pending.rps[l]) \cap long = {}
      BY <1>5, <1>17
    <2> QED
      BY <2>1, <2>2 DEF ApartFromLong
  <1> HIDE DEF p, a
  <1>20. /\ IsState(e)
         /\ e.nextKey = d.nextKey + 1
         /\ e.pending # NoPicture /\ e.pending.key = d.nextKey
         /\ DOMAIN e.pics \subseteq DOMAIN d.pics
         /\ InRps(e.pending.rps) = DOMAIN e.pics
         /\ \A k \in DOMAIN e.pics :
              /\ e.pics[k].poc = d.pics[k].poc
              /\ d.pics[k].marking = "LongTerm" => e.pics[k].marking = "LongTerm"
              /\ e.pics[k].marking = "LongTerm" <=>
                   k \in Keys(e.pending.rps["ltCurr"]) \cup Keys(e.pending.rps["ltFoll"])
    BY <1>4, <1>6, <1>7, <1>9, <1>10, <1>12, <1>15, <1>16, <1>17, <1>18 DEF long
  <1> QED
    BY <1>19, <1>20

\* A picture is finished: the oldest may leave, the picture may enter.
LEMMA FinishedState ==
    ASSUME NEW d, IsState(d), d.pending # NoPicture, d.pending.key \notin DOMAIN d.pics,
           NEW e, e = Finished(d),
           NEW added, added = IF d.pending.referenceable THEN {d.pending.key} ELSE {}
    PROVE  /\ IsState(e)
           /\ e.pending = NoPicture /\ e.nextKey = d.nextKey
           /\ DOMAIN e.pics = (DOMAIN d.pics \ Evicted(d)) \cup added
           /\ Cardinality(DOMAIN e.pics) <= MaxPics
           /\ \A k \in DOMAIN e.pics \cap DOMAIN d.pics : e.pics[k] = d.pics[k]
  <1> DEFINE kept == DOMAIN d.pics \ Evicted(d)
             new == [poc |-> d.pending.poc, marking |-> "ShortTerm",
                     temporalId |-> d.pending.temporalId]
             pics == [k \in kept \cup added |-> IF k \in added THEN new ELSE d.pics[k]]
  <1>1. IsPending(d.pending)
    BY StateParts
  <1>2. new \in Picture
    BY <1>1 DEF IsPending, Picture, Marking
  <1>3. added \subseteq Nat /\ added \cap DOMAIN d.pics = {}
    BY <1>1 DEF IsPending
  <1>4. /\ IsFiniteSet(kept) /\ Cardinality(kept) \in Nat
        /\ Cardinality(kept) <= MaxPics - 1
    BY StateParts, EvictedLeavesRoom, FS_CardinalityType
  <1>5. IsFiniteSet(kept \cup added) /\ Cardinality(kept \cup added) <= MaxPics
    <2>1. CASE d.pending.referenceable
      <3>1. added = {d.pending.key} /\ d.pending.key \notin kept
        BY <2>1, <1>3
      <3>2. /\ IsFiniteSet(kept \cup {d.pending.key})
            /\ Cardinality(kept \cup {d.pending.key}) = Cardinality(kept) + 1
        BY <1>4, <3>1, FS_AddElement
      <3>3. IsFiniteSet(kept \cup added) /\ Cardinality(kept \cup added) = Cardinality(kept) + 1
        BY <3>1, <3>2
      <3> HIDE DEF kept
      <3> QED
        BY <1>4, <3>3, RpsAssumption
    <2>2. CASE ~d.pending.referenceable
      <3>1. kept \cup added = kept
        BY <2>2
      <3> QED
        BY <1>4, <3>1, RpsAssumption
    <2> QED
      BY <2>1, <2>2
  <1>6. pics \in [kept \cup added -> Picture]
    BY <1>2, StateParts
  <1>7. \A k \in kept : k \notin added /\ pics[k] = d.pics[k]
    BY <1>3
  <1>8. DOMAIN pics = kept \cup added
    OBVIOUS
  <1>9. e = [d EXCEPT !.pending = NoPicture, !.pics = pics]
    BY DEF Finished
  <1>10. d = [pics |-> d.pics, prevLsb |-> d.prevLsb, prevMsb |-> d.prevMsb,
              afterEos |-> d.afterEos, started |-> d.started,
              irapNoRaslOutput |-> d.irapNoRaslOutput, nextKey |-> d.nextKey,
              pending |-> d.pending]
    BY DEF IsState
  <1> HIDE DEF pics, kept
  <1>11. e = [pics |-> pics, prevLsb |-> d.prevLsb, prevMsb |-> d.prevMsb,
              afterEos |-> d.afterEos, started |-> d.started,
              irapNoRaslOutput |-> d.irapNoRaslOutput, nextKey |-> d.nextKey,
              pending |-> NoPicture]
    BY <1>9, <1>10
  <1>12. kept \cup added \subseteq Nat
    BY <1>3, StateParts DEF kept
  <1>13. IsState(e)
    BY <1>5, <1>6, <1>8, <1>11, <1>12, StateParts DEF IsState
  <1>14. e.pics = pics /\ e.pending = NoPicture /\ e.nextKey = d.nextKey
    BY <1>11
  <1>15. \A k \in DOMAIN e.pics \cap DOMAIN d.pics : e.pics[k] = d.pics[k]
    BY <1>3, <1>7, <1>8, <1>14
  <1> QED
    BY <1>5, <1>8, <1>13, <1>14, <1>15 DEF kept

=============================================================================
