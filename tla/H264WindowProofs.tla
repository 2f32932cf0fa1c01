--------------------------- MODULE H264WindowProofs ---------------------------
(***************************************************************************)
(* The proof that H264Dpb implements H264Window: lemmas about the newest   *)
(* keys of a set and about frame_num, what the sliding window and the      *)
(* safety net do to the references, then the invariant WindowInv and the   *)
(* step of the window that each action of H264Dpb is.                      *)
(***************************************************************************)
EXTENDS H264WindowRefinement, H264DpbProofs

-----------------------------------------------------------------------------
(* The one sequence parameter set *)

\* There is one sequence parameter set, and its capacity is below its cycle.
LEMMA TheSpsIs ==
    /\ SpsSet = {TheSps} /\ TheSps \in SpsSet /\ TheSps \in Sps
    /\ RefCap(TheSps) \in Nat \ {0}
    /\ TheSps.maxFrameNum \in Nat \ {0}
    /\ RefCap(TheSps) < TheSps.maxFrameNum
  <1>1. PICK sps \in SpsSet : SpsSet = {sps} /\ RefCap(sps) < sps.maxFrameNum
    BY OneWindow
  <1>2. TheSps \in SpsSet
    BY <1>1 DEF TheSps
  <1>3. TheSps = sps
    BY <1>1, <1>2
  <1>4. sps \in Sps
    BY InputsAssumption
  <1> QED
    BY <1>1, <1>2, <1>3, <1>4 DEF Sps, RefCap

-----------------------------------------------------------------------------
(* The newest keys of a set *)

\* The window counts as everyone does.
LEMMA WindowCounts ==
    ASSUME NEW s
    PROVE  Window!Cardinality(s) = Cardinality(s)
  BY DEF Window!Cardinality, Cardinality

\* What is newer, and which keys are the newest.
LEMMA NewestIs ==
    ASSUME NEW s
    PROVE  /\ \A j, k : j \in Window!Newer(s, k) <=> j \in s /\ j > k
           /\ \A n, k : k \in Window!Newest(s, n) <=> k \in s /\ Cardinality(Window!Newer(s, k)) < n
  BY WindowCounts DEF Window!Newer, Window!Newest

Lower(s, k) == {j \in s : j < k}

\* Every other key of a set is lower or newer.
LEMMA RankSplit ==
    ASSUME NEW s \in SUBSET Nat, IsFiniteSet(s), NEW k \in s
    PROVE  /\ Cardinality(Lower(s, k)) \in Nat /\ Cardinality(Window!Newer(s, k)) \in Nat
           /\ Cardinality(s) \in Nat
           /\ Cardinality(Lower(s, k)) + Cardinality(Window!Newer(s, k)) + 1 = Cardinality(s)
  <1> DEFINE L == Lower(s, k)
             N == Window!Newer(s, k)
  <1>1. L \subseteq s /\ N \subseteq s /\ L \cap N = {} /\ k \notin L \cup N /\ s = (L \cup N) \cup {k}
    <2>1. \A j : j \in N <=> j \in s /\ j > k
      BY NewestIs
    <2>2. \A j : j \in L <=> j \in s /\ j < k
      BY DEF Lower
    <2> HIDE DEF L, N
    <2>3. \A j \in s : j \in Nat /\ k \in Nat
      OBVIOUS
    <2>4. \A j \in s : /\ ~(j \in L /\ j \in N)
                       /\ j \in L \/ j \in N \/ j = k
      BY <2>1, <2>2, <2>3
    <2>5. k \notin L /\ k \notin N
      BY <2>1, <2>2, <2>3
    <2>6. L \subseteq s /\ N \subseteq s
      BY <2>1, <2>2
    <2>7. L \cap N = {}
      <3>1. \A j : ~(j \in L /\ j \in N)
        BY <2>4, <2>6
      <3> QED
        BY <3>1
    <2>8. s = (L \cup N) \cup {k}
      BY <2>4, <2>6
    <2> QED
      BY <2>5, <2>6, <2>7, <2>8
  <1> HIDE DEF L, N
  <1>2. /\ IsFiniteSet(L) /\ IsFiniteSet(N) /\ Cardinality(L) \in Nat /\ Cardinality(N) \in Nat
        /\ Cardinality(s) \in Nat
    BY <1>1, FS_Subset, FS_CardinalityType
  <1>3. /\ IsFiniteSet(L \cup N)
        /\ Cardinality(L \cup N) = Cardinality(L) + Cardinality(N) - Cardinality(L \cap N)
    BY <1>2, FS_Union
  <1>4. Cardinality(L \cap N) = 0
    BY <1>1, FS_EmptySet
  <1>5. Cardinality((L \cup N) \cup {k}) = Cardinality(L \cup N) + 1
    BY <1>1, <1>3, FS_AddElement
  <1>6. Cardinality(s) = Cardinality(L) + Cardinality(N) + 1
    BY <1>1, <1>2, <1>3, <1>4, <1>5
  <1> QED
    BY <1>2, <1>6 DEF L, N

\* The n newest keys are at most n.
LEMMA NewestFew ==
    ASSUME NEW s \in SUBSET Nat, IsFiniteSet(s), NEW n \in Nat
    PROVE  /\ Window!Newest(s, n) \in SUBSET s /\ IsFiniteSet(Window!Newest(s, n))
           /\ Cardinality(Window!Newest(s, n)) \in Nat
           /\ Cardinality(Window!Newest(s, n)) <= n
  <1> DEFINE R == {e \in Nat \X Nat : e[1] < e[2]}
             e0 == Cardinality(s) - n
             left == s \ {k \in s : Cardinality(Before(s, R, k)) < e0}
  <1>1. Cardinality(s) \in Nat /\ e0 \in Int
    BY FS_CardinalityType
  <1>2. /\ \A j \in s : <<j, j>> \notin R
        /\ \A i, j, k \in s : <<i, j>> \in R /\ <<j, k>> \in R => <<i, k>> \in R
    OBVIOUS
  <1>3. \A k \in s : Before(s, R, k) = Lower(s, k)
    BY DEF Before, Lower
  <1>4. left = Window!Newest(s, n)
    <2>1. \A k \in s : k \in left <=> ~(Cardinality(Lower(s, k)) < e0)
      BY <1>3
    <2> HIDE DEF left
    <2>2. \A k \in s : k \in left <=> Cardinality(Window!Newer(s, k)) < n
      BY <1>1, <2>1, RankSplit
    <2>3. left \subseteq s
      BY DEF left
    <2> QED
      BY <2>2, <2>3, NewestIs
  <1> HIDE DEF R, e0
  <1>5. /\ left \in SUBSET s /\ IsFiniteSet(left)
        /\ left = {} \/ Cardinality(left) <= Cardinality(s) - e0
    BY <1>1, <1>2, RankedFew
  <1> HIDE DEF left
  <1>6. Cardinality(left) \in Nat /\ (left = {} => Cardinality(left) = 0)
    BY <1>5, FS_CardinalityType, FS_EmptySet
  <1>7. Cardinality(left) <= n
    BY <1>1, <1>5, <1>6 DEF e0
  <1> QED
    BY <1>4, <1>5, <1>6, <1>7

\* A key above all others is the newest: it takes one of the places.
LEMMA NewestAdd ==
    ASSUME NEW s \in SUBSET Nat, IsFiniteSet(s), NEW n \in Nat \ {0},
           NEW k0 \in Nat, \A k \in s : k < k0
    PROVE  Window!Newest(s \cup {k0}, n) = Window!Newest(s, n - 1) \cup {k0}
  <1> DEFINE t == s \cup {k0}
  <1>1. Window!Newer(t, k0) = {}
    <2>1. \A j \in t : ~(j > k0)
      OBVIOUS
    <2> HIDE DEF t
    <2> QED
      BY <2>1, NewestIs
  <1>2. ASSUME NEW k \in s
        PROVE  /\ Cardinality(Window!Newer(s, k)) \in Nat
               /\ Cardinality(Window!Newer(t, k)) = Cardinality(Window!Newer(s, k)) + 1
    <2>1. Window!Newer(t, k) = Window!Newer(s, k) \cup {k0} /\ k0 \notin Window!Newer(s, k)
          /\ Window!Newer(s, k) \subseteq s
      <3>1. k0 > k /\ k0 \notin s
        BY <1>2
      <3>2. /\ \A j : j \in Window!Newer(s, k) <=> j \in s /\ j > k
            /\ \A j : j \in Window!Newer(t, k) <=> j \in t /\ j > k
        BY NewestIs
      <3> QED
        BY <3>1, <3>2
    <2>2. IsFiniteSet(Window!Newer(s, k)) /\ Cardinality(Window!Newer(s, k)) \in Nat
      BY <2>1, FS_Subset, FS_CardinalityType
    <2> QED
      BY <2>1, <2>2, FS_AddElement
  <1>3. k0 \in Window!Newest(t, n)
    BY <1>1, FS_EmptySet, NewestIs
  <1>4. \A k \in s : k \in Window!Newest(t, n) <=> k \in Window!Newest(s, n - 1)
    BY <1>2, NewestIs
  <1>5. Window!Newest(t, n) \subseteq t /\ Window!Newest(s, n - 1) \subseteq s
    BY NewestIs
  <1> QED
    BY <1>3, <1>4, <1>5

\* What is newer than one of the newest is one of the newest.
LEMMA NewestNewer ==
    ASSUME NEW s \in SUBSET Nat, IsFiniteSet(s), NEW n \in Nat,
           NEW k \in Window!Newest(s, n)
    PROVE  Window!Newer(Window!Newest(s, n), k) = Window!Newer(s, k)
  <1>1. k \in s /\ Cardinality(Window!Newer(s, k)) < n
    BY NewestIs
  <1>2. ASSUME NEW j \in s, j > k
        PROVE  j \in Window!Newest(s, n)
    <2>1. Window!Newer(s, j) \subseteq Window!Newer(s, k) /\ Window!Newer(s, k) \subseteq s
      <3>1. /\ \A i : i \in Window!Newer(s, j) <=> i \in s /\ i > j
            /\ \A i : i \in Window!Newer(s, k) <=> i \in s /\ i > k
        BY NewestIs
      <3>2. \A i \in s : i > j => i > k
        BY <1>1, <1>2
      <3> QED
        BY <3>1, <3>2
    <2>2. IsFiniteSet(Window!Newer(s, k)) /\ Cardinality(Window!Newer(s, k)) \in Nat
      BY <2>1, FS_Subset, FS_CardinalityType
    <2>3. /\ IsFiniteSet(Window!Newer(s, j)) /\ Cardinality(Window!Newer(s, j)) \in Nat
          /\ Cardinality(Window!Newer(s, j)) <= Cardinality(Window!Newer(s, k))
      BY <2>1, <2>2, FS_Subset, FS_CardinalityType
    <2> QED
      BY <1>1, <2>2, <2>3, NewestIs
  <1> DEFINE n0 == Window!Newest(s, n)
  <1>3. /\ \A j : j \in Window!Newer(n0, k) <=> j \in n0 /\ j > k
        /\ \A j : j \in Window!Newer(s, k) <=> j \in s /\ j > k
        /\ n0 \subseteq s
    BY NewestIs
  <1>4. \A j \in s : j > k => j \in n0
    BY <1>2
  <1> HIDE DEF n0
  <1>5. Window!Newer(n0, k) = Window!Newer(s, k)
    BY <1>3, <1>4
  <1> QED
    BY <1>5 DEF n0

-----------------------------------------------------------------------------
(* frame_num *)

\* Stores whose references are in step at frame_num n; a picture of m goes on.
Going(st, n, m) ==
    /\ AreStores(st) /\ IsFiniteSet(DOMAIN st)
    /\ n \in Nat /\ n < TheSps.maxFrameNum
    /\ m \in Nat /\ m < TheSps.maxFrameNum
    /\ InStep(st, n, TheSps)
    /\ References(st) # {} => m \in {n, FrameNumAfter(n, TheSps)}

\* References are counted keys, and what is newer than one of them leaves it out.
LEMMA GoingParts ==
    ASSUME NEW st, AreStores(st), IsFiniteSet(DOMAIN st)
    PROVE  /\ References(st) \in SUBSET Nat /\ IsFiniteSet(References(st))
           /\ Cardinality(References(st)) \in Nat
           /\ \A k \in References(st) :
                /\ k \in DOMAIN st /\ k \in Nat /\ st[k].frameNum \in Nat
                /\ Cardinality(Window!Newer(References(st), k)) \in Nat
                /\ Cardinality(Window!Newer(References(st), k)) < Cardinality(References(st))
  <1>1. References(st) \subseteq DOMAIN st /\ DOMAIN st \subseteq Nat
    BY DEF References, AreStores
  <1>2. IsFiniteSet(References(st)) /\ Cardinality(References(st)) \in Nat
    BY Counted
  <1>3. ASSUME NEW k \in References(st)
        PROVE  /\ k \in DOMAIN st /\ k \in Nat /\ st[k].frameNum \in Nat
               /\ Cardinality(Window!Newer(References(st), k)) \in Nat
               /\ Cardinality(Window!Newer(References(st), k)) < Cardinality(References(st))
    <2>1. k \in DOMAIN st /\ k \in Nat /\ st[k].frameNum \in Nat
      BY <1>1, <1>3, StoreParts
    <2> DEFINE s == References(st)
    <2>2. s \in SUBSET Nat /\ IsFiniteSet(s) /\ k \in s
      BY <1>1, <1>2, <1>3
    <2> HIDE DEF s
    <2>3. /\ Cardinality(Lower(s, k)) \in Nat /\ Cardinality(Window!Newer(s, k)) \in Nat
          /\ Cardinality(Lower(s, k)) + Cardinality(Window!Newer(s, k)) + 1 = Cardinality(s)
      BY <2>2, RankSplit
    <2> QED
      BY <2>1, <2>3 DEF s
  <1> QED
    BY <1>1, <1>2, <1>3

\* The next frame_num is one further from a picture that is not a whole cycle behind.
LEMMA BehindAfter ==
    ASSUME NEW st, NEW k, NEW n \in Nat, n < TheSps.maxFrameNum,
           st[k].frameNum \in Nat, st[k].frameNum < TheSps.maxFrameNum,
           Behind(st, k, n, TheSps.maxFrameNum) < TheSps.maxFrameNum - 1
    PROVE  Behind(st, k, FrameNumAfter(n, TheSps), TheSps.maxFrameNum)
             = Behind(st, k, n, TheSps.maxFrameNum) + 1
  <1>1. TheSps.maxFrameNum \in Nat \ {0}
    BY TheSpsIs
  <1> QED
    BY <1>1 DEF Behind, FrameNumAfter

\* References in step stay so, all of them none or one further behind.
LEMMA GoingShift ==
    ASSUME NEW st, NEW n, NEW m, Going(st, n, m)
    PROVE  \E e \in {0, 1} : \A k \in References(st) :
             /\ Behind(st, k, n, TheSps.maxFrameNum) \in Nat
             /\ Behind(st, k, m, TheSps.maxFrameNum) = Behind(st, k, n, TheSps.maxFrameNum) + e
  <1> DEFINE max == TheSps.maxFrameNum
             refs == References(st)
  <1>1. max \in Nat \ {0} /\ RefCap(TheSps) \in Nat \ {0} /\ RefCap(TheSps) < max
    BY TheSpsIs
  <1>2. ASSUME NEW k \in refs
        PROVE  /\ st[k].frameNum \in Nat /\ st[k].frameNum < max
               /\ Behind(st, k, n, max) \in Nat
               /\ Behind(st, k, n, max) < max - 1
    <2>1. /\ st[k].frameNum \in Nat
          /\ Cardinality(Window!Newer(refs, k)) \in Nat /\ Cardinality(refs) \in Nat
          /\ Cardinality(Window!Newer(refs, k)) < Cardinality(refs)
      BY <1>2, GoingParts DEF Going
    <2>2. /\ st[k].frameNum < max /\ Behind(st, k, n, max) <= Cardinality(Window!Newer(refs, k))
          /\ Cardinality(refs) <= RefCap(TheSps)
      BY <1>2 DEF Going, InStep
    <2>3. n \in Nat
      BY DEF Going
    <2>4. Behind(st, k, n, max) \in Nat
      BY <1>1, <2>1, <2>2, <2>3 DEF Behind
    <2> HIDE DEF refs, max
    <2> QED
      BY <1>1, <2>1, <2>2, <2>4
  <1>3. CASE refs = {}
    BY <1>3
  <1>4. CASE refs # {} /\ m = n
    <2>1. \A k \in refs : /\ Behind(st, k, n, max) \in Nat
                          /\ Behind(st, k, m, max) = Behind(st, k, n, max) + 0
      BY <1>2, <1>4
    <2> QED
      BY <2>1
  <1>5. CASE refs # {} /\ m = FrameNumAfter(n, TheSps)
    <2>1. \A k \in refs : /\ Behind(st, k, n, max) \in Nat
                          /\ Behind(st, k, m, max) = Behind(st, k, n, max) + 1
      BY <1>2, <1>5, BehindAfter DEF Going
    <2> QED
      BY <2>1
  <1> QED
    BY <1>3, <1>4, <1>5 DEF Going

\* The order by FrameNumWrap that the window takes its victims in is that of decoding.
LEMMA OlderByKey ==
    ASSUME NEW st, NEW n, NEW m, Going(st, n, m),
           NEW j \in References(st), NEW k \in References(st)
    PROVE  Older(st, m, TheSps.maxFrameNum, j, k) <=> j < k
  <1> DEFINE max == TheSps.maxFrameNum
             refs == References(st)
             B(i) == Behind(st, i, m, max)
             A(i) == Behind(st, i, n, max)
             W(i) == FrameNumWrap(st[i], m, max)
  <1>1. max \in Nat /\ m \in Nat
    BY TheSpsIs DEF Going
  <1>2. PICK e \in {0, 1} : \A i \in refs : A(i) \in Nat /\ B(i) = A(i) + e
    BY GoingShift
  <1>3. \A i \in refs : i \in Nat /\ st[i].frameNum \in Nat
    BY GoingParts DEF Going
  <1>4. \A i \in refs : W(i) = m - B(i)
    BY <1>1, <1>3 DEF FrameNumWrap, Behind
  <1>5. \A i, l \in refs : i < l => A(i) >= A(l)
    BY DEF Going, InStep
  <1>6. Older(st, m, max, j, k) <=> W(j) < W(k) \/ (W(j) = W(k) /\ j < k)
    BY DEF Older
  <1>7. j \in refs /\ k \in refs
    OBVIOUS
  <1> HIDE DEF refs, B, A, W
  <1>8. /\ W(j) = m - B(j) /\ W(k) = m - B(k) /\ B(j) = A(j) + e /\ B(k) = A(k) + e
        /\ A(j) \in Nat /\ A(k) \in Nat /\ j \in Nat /\ k \in Nat
        /\ j < k => A(j) >= A(k)
        /\ k < j => A(k) >= A(j)
    BY <1>2, <1>3, <1>4, <1>5, <1>7
  <1> QED
    BY <1>1, <1>6, <1>8

\* Without long-term pictures the references are the holders of short-term fields.
LEMMA ShortAreReferences ==
    ASSUME NEW st, AreStores(st), Holders(st, "LongTerm") = {}
    PROVE  /\ Holders(st, "ShortTerm") = References(st)
           /\ \A k \in DOMAIN st, p \in Parities :
                st[k].fields[p].decoded => st[k].fields[p].marking # "LongTerm"
  <1>1. \A k \in DOMAIN st, p \in Parities :
          st[k].fields[p].marking \in Markings
          /\ (st[k].fields[p].decoded => st[k].fields[p].marking # "LongTerm")
    BY StoreParts DEF FieldState, Holders, AnyMarked, IsMarked
  <1> QED
    BY <1>1 DEF Holders, References, AnyMarked, IsMarked, IsReference, Markings

\* Unmarking, field by field.
LEMMA UnmarkFields ==
    ASSUME NEW st, AreStores(st), NEW dropped, NEW new, new = Unmark(st, dropped)
    PROVE  /\ DOMAIN new = DOMAIN st
           /\ \A k \in DOMAIN st, p \in Parities :
                new[k].fields[p] = IF <<k, p>> \in dropped THEN AsUnused(st[k].fields[p])
                                   ELSE st[k].fields[p]
  <1>1. /\ DOMAIN Unmark(st, dropped) = DOMAIN st
        /\ \A k \in DOMAIN st : \A p \in Parities :
             Unmark(st, dropped)[k].fields[p] =
               IF <<k, p>> \in dropped THEN AsUnused(st[k].fields[p]) ELSE st[k].fields[p]
    BY UnmarkType
  <1> QED
    BY <1>1

\* The window drops all but the newest, and makes room for one more: the victims are
\* the lowest keys.
LEMMA SlideStep ==
    ASSUME NEW st, NEW n, NEW m, Going(st, n, m), Holders(st, "LongTerm") = {},
           NEW second, second = None \/ second \notin References(st)
    PROVE  LET new == SlidingWindow(st, TheSps, m, TheSps.maxFrameNum, second)
           IN  /\ Unmarks(st, new)
               /\ References(new) = Window!Newest(References(st), RefCap(TheSps) - 1)
  <1> DEFINE max     == TheSps.maxFrameNum
             cap     == RefCap(TheSps)
             refs    == References(st)
             short   == Holders(st, "ShortTerm")
             excess  == Cardinality(short) + Cardinality(Holders(st, "LongTerm")) - cap + 1
             victims == {k \in short :
                           Cardinality({j \in short : Older(st, m, max, j, k)}) < excess}
             dropped == SlidOut(st, TheSps, m, max)
             new     == SlidingWindow(st, TheSps, m, max, second)
  <1>1. AreStores(st) /\ IsFiniteSet(DOMAIN st) /\ cap \in Nat \ {0}
    BY TheSpsIs DEF Going
  <1>2. /\ short = refs
        /\ \A k \in DOMAIN st, p \in Parities :
             st[k].fields[p].decoded => st[k].fields[p].marking # "LongTerm"
    BY <1>1, ShortAreReferences
  <1>3. /\ refs \in SUBSET Nat /\ IsFiniteSet(refs) /\ Cardinality(refs) \in Nat
        /\ refs \subseteq DOMAIN st
    BY <1>1, GoingParts
  <1>4. excess = Cardinality(refs) - cap + 1
    <2>1. Cardinality(Holders(st, "LongTerm")) = 0
      BY FS_EmptySet
    <2>2. excess = Cardinality(refs) + 0 - cap + 1
      BY <1>2, <2>1
    <2> HIDE DEF excess, cap, refs
    <2> QED
      BY <1>1, <1>3, <2>2
  <1>0. new = Unmark(st, dropped)
    BY <1>2 DEF SlidingWindow
  <1>5. new = Unmark(st, dropped) /\ dropped = {e \in FieldsMarked(st, "ShortTerm") : e[1] \in victims}
    BY <1>2 DEF SlidingWindow, SlidOut
  <1>6. \A k \in refs : k \in victims <=> k \notin Window!Newest(refs, cap - 1)
    <2> SUFFICES ASSUME NEW k \in refs
                 PROVE  k \in victims <=> k \notin Window!Newest(refs, cap - 1)
      OBVIOUS
    <2>1. {j \in short : Older(st, m, max, j, k)} = Lower(refs, k)
      BY <1>2, OlderByKey DEF Lower
    <2>2. k \in victims <=> Cardinality(Lower(refs, k)) < excess
      BY <1>2, <2>1
    <2> HIDE DEF victims, excess, cap, refs
    <2>3. k \in Window!Newest(refs, cap - 1) <=> Cardinality(Window!Newer(refs, k)) < cap - 1
      BY NewestIs
    <2>4. /\ Cardinality(Lower(refs, k)) \in Nat /\ Cardinality(Window!Newer(refs, k)) \in Nat
          /\ Cardinality(Lower(refs, k)) + Cardinality(Window!Newer(refs, k)) + 1 = Cardinality(refs)
      BY <1>3, RankSplit
    <2> QED
      BY <1>1, <1>3, <1>4, <2>2, <2>3, <2>4
  <1>7. DOMAIN new = DOMAIN st /\ Unmarks(st, new)
    BY <1>1, <1>5, UnmarkType, SlidingWindowUnmarks
  <1>8. ASSUME NEW k \in DOMAIN st, NEW p \in Parities
        PROVE  new[k].fields[p] = IF <<k, p>> \in dropped THEN AsUnused(st[k].fields[p])
                                  ELSE st[k].fields[p]
    <2> HIDE DEF new, dropped
    <2> QED
      BY <1>0, <1>1, UnmarkFields
  <1>9. ASSUME NEW k \in DOMAIN st, NEW p \in Parities
        PROVE  /\ AsUnused(st[k].fields[p]).marking = "Unused"
               /\ st[k].fields[p].marking \in Markings
               /\ <<k, p>> \in dropped <=> k \in victims /\ st[k].fields[p].marking = "ShortTerm"
    <2>1. AsUnused(st[k].fields[p]).marking = "Unused" /\ st[k].fields[p].marking \in Markings
      BY <1>1, StoreParts, AsUnusedField DEF FieldState
    <2>2. <<k, p>> \in dropped <=> k \in victims /\ st[k].fields[p].marking = "ShortTerm"
      <3> HIDE DEF victims, dropped
      <3> QED
        BY <1>5 DEF FieldsMarked, AllFields
    <2> QED
      BY <2>1, <2>2
  <1> HIDE DEF new, dropped, victims
  <1>10. ASSUME NEW k \in DOMAIN st
         PROVE  k \in References(new) <=> k \in refs /\ k \notin victims
    <2>1. k \in References(new) <=> \E p \in Parities : /\ new[k].fields[p].decoded
                                                         /\ new[k].fields[p].marking # "Unused"
      BY <1>7 DEF References, IsReference
    <2>2. k \in refs <=> \E p \in Parities : /\ st[k].fields[p].decoded
                                              /\ st[k].fields[p].marking # "Unused"
      BY DEF References, IsReference
    <2> HIDE DEF refs
    <2>3. CASE k \in victims
      <3>1. \A p \in Parities : new[k].fields[p].decoded => new[k].fields[p].marking = "Unused"
        <4> SUFFICES ASSUME NEW p \in Parities, new[k].fields[p].decoded, new[k].fields[p].marking # "Unused"
                     PROVE  FALSE
          OBVIOUS
        <4>1. <<k, p>> \notin dropped /\ new[k].fields[p] = st[k].fields[p]
          BY <1>8, <1>9
        <4> QED
          BY <1>2, <1>9, <2>3, <4>1 DEF Markings
      <3> QED
        BY <2>1, <2>3, <3>1
    <2>4. CASE k \notin victims
      <3>1. \A p \in Parities : new[k].fields[p] = st[k].fields[p]
        BY <1>8, <1>9, <2>4
      <3> QED
        BY <2>1, <2>2, <2>4, <3>1
    <2> QED
      BY <2>3, <2>4
  <1>11. References(new) \subseteq DOMAIN st /\ Window!Newest(refs, cap - 1) \subseteq refs
    BY <1>7, NewestIs DEF References
  <1>12. References(new) = Window!Newest(refs, cap - 1)
    <2> HIDE DEF refs, cap
    <2> QED
      BY <1>3, <1>6, <1>10, <1>11
  <1> QED
    BY <1>7, <1>12 DEF new

-----------------------------------------------------------------------------
(* Storing a picture *)

\* The safety net finds nothing to drop within the capacity.
LEMMA CapacityKept ==
    ASSUME NEW st, AreStores(st), IsFiniteSet(DOMAIN st), NEW frameNum, NEW max,
           Cardinality(References(st)) <= RefCap(TheSps)
    PROVE  LET full == EnforceCapacity(st, TheSps, frameNum, max)
           IN  /\ Unmarks(st, full)
               /\ References(full) = References(st)
               /\ \A k \in DOMAIN st, p \in Parities : full[k].fields[p] = st[k].fields[p]
  <1> DEFINE refs    == References(st)
             excess  == Cardinality(refs) - RefCap(TheSps)
             B(k)    == {j \in refs : DropsBefore(st, frameNum, max, j, k)}
             victims == {k \in refs : Cardinality(B(k)) < excess}
             full    == EnforceCapacity(st, TheSps, frameNum, max)
             dropped == OverCapacity(st, TheSps, frameNum, max)
  <1>1. RefCap(TheSps) \in Nat /\ Cardinality(refs) \in Nat /\ IsFiniteSet(refs)
    BY TheSpsIs, Counted
  <1>2. \A k : Cardinality(B(k)) \in Nat
    <2> HIDE DEF refs
    <2>1. \A k : B(k) \in SUBSET refs
      OBVIOUS
    <2> HIDE DEF B
    <2> QED
      BY <1>1, <2>1, FS_Subset, FS_CardinalityType
  <1>3. excess <= 0 /\ excess \in Int
    BY <1>1
  <1>4. victims = {}
    <2> HIDE DEF B, excess
    <2>1. \A k \in refs : ~(Cardinality(B(k)) < excess)
      BY <1>2, <1>3
    <2> QED
      BY <2>1
  <1>5. dropped = {e \in AllFields(st) : e[1] \in victims}
    BY DEF OverCapacity
  <1>6. dropped = {} /\ full = Unmark(st, dropped)
    <2> HIDE DEF victims
    <2>1. dropped = {}
      BY <1>4, <1>5
    <2> QED
      BY <2>1 DEF EnforceCapacity
  <1> HIDE DEF full, dropped
  <1>7. /\ DOMAIN full = DOMAIN st
        /\ \A k \in DOMAIN st, p \in Parities : full[k].fields[p] = st[k].fields[p]
    <2>1. full = Unmark(st, dropped) /\ \A e : e \notin dropped
      BY <1>6
    <2>2. /\ DOMAIN full = DOMAIN st
          /\ \A k \in DOMAIN st, p \in Parities :
               full[k].fields[p] = IF <<k, p>> \in dropped THEN AsUnused(st[k].fields[p])
                                   ELSE st[k].fields[p]
      BY <2>1, UnmarkFields
    <2> QED
      BY <2>1, <2>2
  <1>8. References(full) = refs
    BY <1>7 DEF References, IsReference
  <1> QED
    BY <1>7, <1>8, EnforceCapacityUnmarks DEF full

\* A reference picture of this stream joins the references, short-term, with its own
\* frame_num or that of its first field.
LEMMA InsertEnters ==
    ASSUME NEW st, AreStores(st), Holders(st, "LongTerm") = {},
           NEW cur \in CurrentPicture, cur.header.reference,
           cur.secondField => IsField(cur.header.structure)
    PROVE  LET ins == Insert(st, cur, cur.poc, None, FALSE)
           IN  /\ AreStores(ins) /\ DOMAIN ins = DOMAIN st \cup {cur.key}
               /\ References(ins) = References(st) \cup {cur.key}
               /\ Holders(ins, "LongTerm") = {}
               /\ \A k \in DOMAIN st : ins[k].frameNum = IF k = cur.key /\ ~cur.secondField
                                                         THEN cur.header.frameNum
                                                         ELSE st[k].frameNum
               /\ cur.key \notin DOMAIN st => ins[cur.key].frameNum = cur.header.frameNum
  <1> DEFINE h   == cur.header
             key == cur.key
             p0  == ParityOf(h.structure)
             own(p) == OwnField(h, p, cur.poc, None)
             ins == Insert(st, cur, cur.poc, None, FALSE)
             joins == key \in DOMAIN st /\ cur.secondField
  <1>1. cur.poc \in Poc /\ h \in Headers /\ FALSE \in BOOLEAN /\ None \in Nat \cup {None}
    BY CurrentParts
  <1>2. /\ AreStores(ins) /\ DOMAIN ins = DOMAIN st \cup {key}
        /\ \A k \in DOMAIN st : k # key => ins[k] = st[k]
        /\ joins => ins[key] = JoinFields(st[key], p0, own(p0), None)
        /\ ~joins => ins[key] = NewStore(h, cur.poc, None, FALSE)
    <2>1. h.reference
      OBVIOUS
    <2> DEFINE c == cur.poc
               n0 == None
               b0 == FALSE
    <2>2. c \in Poc /\ n0 \in Nat \cup {None} /\ b0 \in BOOLEAN
      BY <1>1
    <2> HIDE DEF c, n0, b0, own
    <2>3. /\ AreStores(Insert(st, cur, c, n0, b0))
          /\ DOMAIN Insert(st, cur, c, n0, b0)
               = (IF cur.header.reference THEN DOMAIN st \cup {cur.key} ELSE DOMAIN st)
          /\ \A k \in DOMAIN st : k # cur.key \/ ~cur.header.reference =>
               Insert(st, cur, c, n0, b0)[k] = st[k]
          /\ cur.header.reference /\ cur.key \in DOMAIN st /\ cur.secondField =>
               Insert(st, cur, c, n0, b0)[cur.key] =
                 JoinFields(st[cur.key], ParityOf(cur.header.structure),
                            OwnField(cur.header, ParityOf(cur.header.structure), c, n0), n0)
          /\ cur.header.reference /\ ~(cur.key \in DOMAIN st /\ cur.secondField) =>
               Insert(st, cur, c, n0, b0)[cur.key] = NewStore(cur.header, c, n0, b0)
      BY <2>2, InsertType
    <2> QED
      BY <2>1, <2>3 DEF c, n0, b0, own
  <1>3. \A p \in Parities : own(p) \in FieldState /\ own(p).decoded /\ own(p).marking = "ShortTerm"
    BY <1>1, OwnFieldType
  <1> HIDE DEF ins, own
  <1>4. ASSUME joins
        PROVE  /\ \E p \in Parities : ins[key].fields[p].decoded /\ ins[key].fields[p].marking = "ShortTerm"
               /\ \A p \in Parities : ~IsMarked(ins[key].fields[p], "LongTerm")
               /\ ins[key].frameNum = st[key].frameNum
    <2>1. st[key] \in FrameStore /\ p0 \in Parities
      BY <1>1, <1>4, StoreParts, HeaderParts
    <2>2. /\ ins[key].frameNum = st[key].frameNum
          /\ \A q \in Parities : ins[key].fields[q] = IF q = p0 THEN own(p0) ELSE st[key].fields[q]
      <3> DEFINE s == st[key]
                 f == own(p0)
                 n0 == None
      <3>1. s \in FrameStore /\ f \in FieldState /\ n0 \in Nat \cup {None}
        BY <1>3, <2>1
      <3> HIDE DEF s, f, n0, p0
      <3>2. /\ JoinFields(s, p0, f, n0).frameNum = s.frameNum
            /\ \A q \in Parities : JoinFields(s, p0, f, n0).fields[q]
                 = (IF q = p0 THEN f
                    ELSE IF n0 # None /\ IsMarked(s.fields[q], "LongTerm")
                         THEN AsLongTerm(s.fields[q], n0)
                         ELSE s.fields[q])
        BY <2>1, <3>1, JoinFieldsType
      <3>3. ins[key] = JoinFields(s, p0, f, n0)
        BY <1>2, <1>4 DEF s, f, n0
      <3> QED
        BY <3>2, <3>3 DEF s, f, n0
    <2>3. \A q \in Parities : ~IsMarked(st[key].fields[q], "LongTerm")
      BY <1>4 DEF Holders, AnyMarked
    <2> QED
      BY <1>3, <2>1, <2>2, <2>3 DEF IsMarked
  <1>5. ASSUME ~joins
        PROVE  /\ \E p \in Parities : ins[key].fields[p].decoded /\ ins[key].fields[p].marking = "ShortTerm"
               /\ \A p \in Parities : ~IsMarked(ins[key].fields[p], "LongTerm")
               /\ ins[key].frameNum = h.frameNum
    <2>1. \A p \in Parities : ins[key].fields[p] = IF IsField(h.structure) /\ p # p0
                                                   THEN EmptyField ELSE own(p)
      <3> DEFINE c == cur.poc
                 n0 == None
                 b0 == FALSE
      <3>1. c \in Poc /\ n0 \in Nat \cup {None} /\ b0 \in BOOLEAN
        BY <1>1
      <3>2. ins[key] = NewStore(h, c, n0, b0)
        BY <1>2, <1>5
      <3> HIDE DEF c, n0, b0, h
      <3>3. \A p \in Parities : NewStore(h, c, n0, b0).fields[p]
              = (IF IsField(h.structure) /\ p # ParityOf(h.structure)
                 THEN EmptyField ELSE OwnField(h, p, c, n0))
        <4>1. h \in Headers
          BY <1>1
        <4>2. LET s == NewStore(h, c, n0, b0)
              IN  /\ s \in FrameStore
                  /\ \A p \in Parities :
                       s.fields[p] = (IF IsField(h.structure) /\ p # ParityOf(h.structure)
                                      THEN EmptyField ELSE OwnField(h, p, c, n0))
                  /\ s.codedFrame = ~IsField(h.structure)
                  /\ ~s.nonExisting
          BY <3>1, <4>1, NewStoreType
        <4> QED
          BY <4>2
      <3>4. \A p \in Parities : own(p) = OwnField(h, p, c, n0)
        BY DEF own, c, n0
      <3> QED
        BY <3>2, <3>3, <3>4
    <2>2. ins[key].frameNum = h.frameNum
      BY <1>2, <1>5 DEF NewStore
    <2>3. \E p \in Parities : ~(IsField(h.structure) /\ p # p0)
      BY <1>1, HeaderParts DEF Parities
    <2>4. ~EmptyField.decoded
      BY DEF EmptyField
    <2> QED
      BY <1>3, <2>1, <2>2, <2>3, <2>4 DEF IsMarked
  <1>6. /\ \E p \in Parities : ins[key].fields[p].decoded /\ ins[key].fields[p].marking = "ShortTerm"
        /\ \A p \in Parities : ~IsMarked(ins[key].fields[p], "LongTerm")
    BY <1>4, <1>5
  <1>7. References(ins) = References(st) \cup {key}
    <2>1. key \in References(ins)
      BY <1>2, <1>6 DEF References, IsReference
    <2>2. \A k \in DOMAIN st : k # key => (k \in References(ins) <=> k \in References(st))
      BY <1>2 DEF References
    <2>3. References(st) \subseteq DOMAIN st /\ References(ins) \subseteq DOMAIN st \cup {key}
      BY <1>2 DEF References
    <2> QED
      BY <2>1, <2>2, <2>3
  <1>8. Holders(ins, "LongTerm") = {}
    BY <1>2, <1>6 DEF Holders, AnyMarked
  <1>9. \A k \in DOMAIN st : ins[k].frameNum = IF k = key /\ ~cur.secondField
                                               THEN h.frameNum ELSE st[k].frameNum
    BY <1>2, <1>4, <1>5
  <1>10. key \notin DOMAIN st => ins[key].frameNum = h.frameNum
    BY <1>5
  <1> QED
    BY <1>2, <1>7, <1>8, <1>9, <1>10 DEF ins

\* What a reference picture leaves: st, the picture, and nothing that is unused.
LEMMA FinishedStores ==
    ASSUME NEW st, AreStores(st), IsFiniteSet(DOMAIN st), Holders(st, "LongTerm") = {},
           NEW cur \in CurrentPicture, cur.header.reference,
           cur.secondField => IsField(cur.header.structure),
           Cardinality(References(st) \cup {cur.key}) <= RefCap(TheSps),
           Complete(TheSps, cur, st, None, FALSE)
    PROVE  /\ DOMAIN stores' = References(st) \cup {cur.key}
           /\ References(stores') = References(st) \cup {cur.key}
           /\ Holders(stores', "LongTerm") = {}
           /\ \A k \in References(st) :
                stores'[k].frameNum = IF k = cur.key /\ ~cur.secondField
                                      THEN cur.header.frameNum ELSE st[k].frameNum
           /\ cur.key \notin DOMAIN st => stores'[cur.key].frameNum = cur.header.frameNum
  <1> DEFINE ins  == Insert(st, cur, cur.poc, None, FALSE)
             full == EnforceCapacity(ins, TheSps, cur.header.frameNum, cur.maxFrameNum)
             refs == References(st) \cup {cur.key}
  <1>1. stores' = EvictUnused(full)
    BY DEF Complete
  <1>2. /\ AreStores(ins) /\ DOMAIN ins = DOMAIN st \cup {cur.key}
        /\ References(ins) = refs
        /\ Holders(ins, "LongTerm") = {}
        /\ \A k \in DOMAIN st : ins[k].frameNum = IF k = cur.key /\ ~cur.secondField
                                                  THEN cur.header.frameNum
                                                  ELSE st[k].frameNum
        /\ cur.key \notin DOMAIN st => ins[cur.key].frameNum = cur.header.frameNum
    BY InsertEnters
  <1> HIDE DEF ins
  <1>3. IsFiniteSet(DOMAIN ins)
    BY <1>2, FS_AddElement
  <1>4. /\ Unmarks(ins, full) /\ References(full) = refs
        /\ \A k \in DOMAIN ins, p \in Parities : full[k].fields[p] = ins[k].fields[p]
    <2> DEFINE f == cur.header.frameNum
               max == cur.maxFrameNum
    <2>1. full = EnforceCapacity(ins, TheSps, f, max)
      OBVIOUS
    <2>2. AreStores(ins) /\ Cardinality(References(ins)) <= RefCap(TheSps)
      BY <1>2
    <2> HIDE DEF f, max, full
    <2>3. /\ Unmarks(ins, full) /\ References(full) = References(ins)
          /\ \A k \in DOMAIN ins, p \in Parities : full[k].fields[p] = ins[k].fields[p]
      BY <1>3, <2>1, <2>2, CapacityKept
    <2> QED
      BY <1>2, <2>3
  <1> HIDE DEF full
  <1>5. /\ AreStores(full) /\ DOMAIN full = DOMAIN ins
        /\ \A k \in DOMAIN ins : full[k].frameNum = ins[k].frameNum
    BY <1>4 DEF Unmarks
  <1>6. /\ DOMAIN stores' = refs /\ \A k \in refs : stores'[k] = full[k]
    BY <1>1, <1>4, <1>5, EvictUnusedType
  <1>7. refs \subseteq DOMAIN full
    BY <1>4 DEF References
  <1>8. References(stores') = refs
    BY <1>4, <1>6 DEF References
  <1>9. Holders(stores', "LongTerm") = {}
    <2> SUFFICES ASSUME NEW k \in Holders(stores', "LongTerm")  PROVE FALSE
      OBVIOUS
    <2>1. k \in refs /\ AnyMarked(full[k], "LongTerm")
      BY <1>6 DEF Holders
    <2>2. k \in DOMAIN ins /\ AnyMarked(ins[k], "LongTerm")
      BY <1>4, <1>5, <1>7, <2>1 DEF AnyMarked
    <2> QED
      BY <1>2, <2>2 DEF Holders
  <1>10. \A k \in refs : k \in DOMAIN ins /\ stores'[k].frameNum = ins[k].frameNum
    BY <1>5, <1>6, <1>7
  <1>11. References(st) \subseteq DOMAIN st
    BY DEF References
  <1> QED
    BY <1>2, <1>6, <1>8, <1>9, <1>10, <1>11

\* What a picture that is no reference leaves: the references.
LEMMA KeptStores ==
    ASSUME NEW st, AreStores(st), IsFiniteSet(DOMAIN st), Holders(st, "LongTerm") = {},
           NEW cur, ~cur.header.reference,
           Cardinality(References(st)) <= RefCap(TheSps),
           Complete(TheSps, cur, st, None, FALSE)
    PROVE  /\ DOMAIN stores' = References(st)
           /\ References(stores') = References(st)
           /\ Holders(stores', "LongTerm") = {}
           /\ \A k \in References(st) : stores'[k].frameNum = st[k].frameNum
  <1> DEFINE full == EnforceCapacity(st, TheSps, cur.header.frameNum, cur.maxFrameNum)
             refs == References(st)
  <1>1. stores' = EvictUnused(full)
    BY DEF Complete, Insert
  <1>2. /\ Unmarks(st, full) /\ References(full) = refs
        /\ \A k \in DOMAIN st, p \in Parities : full[k].fields[p] = st[k].fields[p]
    BY CapacityKept
  <1> HIDE DEF full
  <1>3. /\ AreStores(full) /\ DOMAIN full = DOMAIN st
        /\ \A k \in DOMAIN st : full[k].frameNum = st[k].frameNum
    BY <1>2 DEF Unmarks
  <1>4. /\ DOMAIN stores' = refs /\ \A k \in refs : stores'[k] = full[k]
    BY <1>1, <1>2, <1>3, EvictUnusedType
  <1>5. refs \subseteq DOMAIN st
    BY DEF References
  <1>6. References(stores') = refs
    BY <1>2, <1>4 DEF References
  <1>7. Holders(stores', "LongTerm") = {}
    BY <1>2, <1>4, <1>5 DEF Holders, AnyMarked
  <1> QED
    BY <1>3, <1>4, <1>5, <1>6, <1>7

-----------------------------------------------------------------------------
(* In step *)

\* Stores that agree on the references and their frame_num are in step alike.
LEMMA InStepKept ==
    ASSUME NEW st, NEW st2, NEW n, InStep(st, n, TheSps),
           References(st2) = References(st),
           \A k \in References(st) : st2[k].frameNum = st[k].frameNum
    PROVE  InStep(st2, n, TheSps)
  BY DEF InStep, Behind

\* The newest of the references are in step.
LEMMA InStepNewest ==
    ASSUME NEW st, AreStores(st), IsFiniteSet(DOMAIN st), NEW n, InStep(st, n, TheSps),
           NEW c \in Nat, c <= RefCap(TheSps),
           NEW st2, References(st2) = Window!Newest(References(st), c),
           \A k \in References(st2) : st2[k].frameNum = st[k].frameNum
    PROVE  InStep(st2, n, TheSps)
  <1> DEFINE refs == References(st)
             kept == References(st2)
             max  == TheSps.maxFrameNum
             B(k) == Behind(st, k, n, max)
  <1>1. refs \in SUBSET Nat /\ IsFiniteSet(refs)
    BY GoingParts
  <1>2. /\ kept \in SUBSET refs /\ Cardinality(kept) \in Nat /\ Cardinality(kept) <= c
    BY <1>1, NewestFew
  <1>3. \A k \in kept : Window!Newer(kept, k) = Window!Newer(refs, k)
    BY <1>1, NewestNewer
  <1>4. \A k \in kept : Behind(st2, k, n, max) = B(k)
    BY DEF Behind
  <1>5. Cardinality(kept) <= RefCap(TheSps)
    BY <1>2, TheSpsIs
  <1>6. /\ \A k \in refs : /\ st[k].frameNum < max
                           /\ B(k) <= Cardinality(Window!Newer(refs, k))
        /\ \A j, k \in refs : j < k => B(j) >= B(k)
    BY DEF InStep
  <1> HIDE DEF refs, B, max
  <1>7. /\ \A k \in kept : /\ st2[k].frameNum < max
                           /\ Behind(st2, k, n, max) <= Cardinality(Window!Newer(kept, k))
        /\ \A j, k \in kept : j < k => Behind(st2, j, n, max) >= Behind(st2, k, n, max)
    BY <1>2, <1>3, <1>4, <1>6
  <1> QED
    BY <1>5, <1>7 DEF InStep, max

\* A reference that goes on from the others enters the window in step.
LEMMA InStepEnter ==
    ASSUME NEW st, NEW n, NEW m, Going(st, n, m),
           NEW key \in Nat, \A k \in References(st) : k < key,
           NEW st2,
           References(st2) = Window!Newest(References(st), RefCap(TheSps) - 1) \cup {key},
           \A k \in References(st2) :
             st2[k].frameNum = IF k = key THEN m ELSE st[k].frameNum
    PROVE  /\ InStep(st2, m, TheSps)
           /\ References(st2) = Window!Newest(References(st) \cup {key}, RefCap(TheSps))
  <1> DEFINE refs == References(st)
             cap  == RefCap(TheSps)
             kept == Window!Newest(refs, cap - 1)
             new  == References(st2)
             max  == TheSps.maxFrameNum
             A(k) == Behind(st, k, n, max)
             B(k) == Behind(st2, k, m, max)
  <1>1. AreStores(st) /\ IsFiniteSet(DOMAIN st) /\ m \in Nat /\ m < max
    BY DEF Going
  <1>2. refs \in SUBSET Nat /\ IsFiniteSet(refs)
    BY <1>1, GoingParts
  <1>3. cap \in Nat \ {0} /\ cap - 1 \in Nat /\ max \in Nat
    BY TheSpsIs
  <1>4. /\ kept \in SUBSET refs /\ IsFiniteSet(kept)
        /\ Cardinality(kept) \in Nat /\ Cardinality(kept) <= cap - 1
    BY <1>2, <1>3, NewestFew
  <1>5. new = kept \cup {key} /\ key \notin kept
    BY <1>2, <1>4
  <1>6. Cardinality(new) = Cardinality(kept) + 1
    BY <1>4, <1>5, FS_AddElement
  <1>7. PICK e \in {0, 1} : \A k \in refs : A(k) \in Nat /\ Behind(st, k, m, max) = A(k) + e
    BY GoingShift
  <1>8. \A k \in kept : st2[k].frameNum = st[k].frameNum /\ B(k) = A(k) + e
    <2>1. \A k \in kept : st2[k].frameNum = st[k].frameNum
      BY <1>5
    <2>2. \A k \in kept : B(k) = Behind(st, k, m, max)
      BY <2>1 DEF Behind
    <2> HIDE DEF A, B, kept, max
    <2> QED
      BY <1>4, <1>7, <2>1, <2>2
  <1>9. st2[key].frameNum = m /\ B(key) = 0
    BY <1>1, <1>5 DEF Behind
  <1>10. ASSUME NEW k \in kept
         PROVE  /\ Cardinality(Window!Newer(refs, k)) \in Nat
                /\ Cardinality(Window!Newer(new, k)) = Cardinality(Window!Newer(refs, k)) + 1
    <2>1. Window!Newer(kept, k) = Window!Newer(refs, k)
      BY <1>2, <1>3, NewestNewer
    <2>2. Cardinality(Window!Newer(refs, k)) \in Nat
      BY <1>1, <1>4, GoingParts
    <2> HIDE DEF kept, refs, new
    <2>3. Window!Newer(new, k) = Window!Newer(kept, k) \cup {key} /\ key \notin Window!Newer(kept, k)
          /\ Window!Newer(kept, k) \subseteq kept
      <3>1. /\ \A j : j \in Window!Newer(new, k) <=> j \in new /\ j > k
            /\ \A j : j \in Window!Newer(kept, k) <=> j \in kept /\ j > k
        BY NewestIs
      <3>2. key > k
        BY <1>2, <1>4, <1>10 DEF refs
      <3> QED
        BY <1>5, <3>1, <3>2
    <2>4. IsFiniteSet(Window!Newer(kept, k))
      BY <1>4, <2>3, FS_Subset
    <2>5. Cardinality(Window!Newer(new, k)) = Cardinality(Window!Newer(kept, k)) + 1
      BY <2>1, <2>2, <2>3, <2>4, FS_AddElement
    <2> QED
      BY <2>1, <2>2, <2>5
  <1>11. Cardinality(Window!Newer(new, key)) \in Nat
    <2>1. IsFiniteSet(new)
      BY <1>4, <1>5, FS_AddElement
    <2> HIDE DEF new
    <2>2. Window!Newer(new, key) \subseteq new
      BY NewestIs
    <2> QED
      BY <2>1, <2>2, FS_Subset, FS_CardinalityType
  <1>12. /\ \A k \in refs : st[k].frameNum < max /\ A(k) <= Cardinality(Window!Newer(refs, k))
         /\ \A j, k \in refs : j < k => A(j) >= A(k)
    BY DEF Going, InStep
  <1>13. \A k \in refs : k < key /\ k \in Nat
    BY <1>2
  <1>14. References(st2) = Window!Newest(refs \cup {key}, cap)
    BY <1>2, <1>3, <1>13, NewestAdd
  <1> HIDE DEF refs, A, B, max, kept, new, cap
  <1>15. Cardinality(new) <= cap
    BY <1>3, <1>4, <1>6
  <1>16. \A k \in new : st2[k].frameNum < max /\ B(k) <= Cardinality(Window!Newer(new, k))
    <2> SUFFICES ASSUME NEW k \in new
                 PROVE  st2[k].frameNum < max /\ B(k) <= Cardinality(Window!Newer(new, k))
      OBVIOUS
    <2>1. CASE k = key
      BY <1>1, <1>9, <1>11, <2>1
    <2>2. CASE k \in kept
      <3>1. k \in refs
        BY <1>4, <2>2
      <3> QED
        BY <1>7, <1>8, <1>10, <1>12, <2>2, <3>1
    <2> QED
      BY <1>5, <2>1, <2>2
  <1>17. \A j, k \in new : j < k => B(j) >= B(k)
    <2> SUFFICES ASSUME NEW j \in new, NEW k \in new, j < k
                 PROVE  B(j) >= B(k)
      OBVIOUS
    <2>1. j \in kept
      BY <1>4, <1>5, <1>13
    <2>2. j \in refs /\ A(j) \in Nat /\ B(j) = A(j) + e
      BY <1>4, <1>7, <1>8, <2>1
    <2>3. CASE k = key
      BY <1>9, <2>2, <2>3
    <2>4. CASE k \in kept
      <3>1. k \in refs /\ A(k) \in Nat /\ B(k) = A(k) + e
        BY <1>4, <1>7, <1>8, <2>4
      <3>2. A(j) >= A(k)
        BY <1>12, <2>2, <3>1
      <3> QED
        BY <2>2, <3>1, <3>2
    <2> QED
      BY <1>5, <2>3, <2>4
  <1>18. InStep(st2, m, TheSps)
    BY <1>15, <1>16, <1>17 DEF InStep, new, B, max, cap
  <1> QED
    BY <1>14, <1>18 DEF refs, cap

-----------------------------------------------------------------------------
(* One lemma per action *)

WindowStep == Window!Next \/ References(stores') = References(stores)

\* The steps of the window, told by what they leave.
LEMMA WindowSteps ==
    /\ \A key \in Nat :
         /\ \A k \in References(stores) : k < key
         /\ key \in References(stores')
         /\ \/ References(stores') = Window!Newest(References(stores) \cup {key}, RefCap(TheSps))
            \/ References(stores') = {key}
         => WindowStep
    /\ References(stores') = {} => WindowStep
    /\ References(stores') = Window!Newest(References(stores), RefCap(TheSps) - 1) => WindowStep
  <1>1. ASSUME NEW key \in Nat, \A k \in References(stores) : k < key, key \in References(stores'),
               References(stores') = Window!Newest(References(stores) \cup {key}, RefCap(TheSps))
        PROVE  Window!Enter
    BY <1>1 DEF Window!Enter, Window!IsNewest
  <1>2. ASSUME NEW key \in Nat, \A k \in References(stores) : k < key, key \in References(stores'),
               References(stores') = {key}
        PROVE  Window!Refresh
    BY <1>2 DEF Window!Refresh, Window!IsNewest
  <1>3. ASSUME References(stores') = {}  PROVE Window!Flush
    BY <1>3 DEF Window!Flush
  <1>4. ASSUME References(stores') = Window!Newest(References(stores), RefCap(TheSps) - 1)
        PROVE  Window!MakeRoom
    BY <1>4 DEF Window!MakeRoom
  <1> QED
    BY <1>1, <1>2, <1>3, <1>4 DEF WindowStep, Window!Next

\* frame_num counts modulo its cycle.
LEMMA AfterIsNext ==
    ASSUME NEW n \in Nat, n < TheSps.maxFrameNum
    PROVE  /\ (n + 1) % TheSps.maxFrameNum = FrameNumAfter(n, TheSps)
           /\ FrameNumAfter(n, TheSps) \in Nat
           /\ FrameNumAfter(n, TheSps) < TheSps.maxFrameNum
  <1> DEFINE m == TheSps.maxFrameNum
  <1>1. m \in Nat \ {0}
    BY TheSpsIs
  <1> HIDE DEF m
  <1>2. CASE n + 1 < m
    <2>1. (n + 1) % m = n + 1
      BY <1>1, <1>2
    <2> QED
      BY <1>1, <1>2, <2>1 DEF FrameNumAfter, m
  <1>3. CASE n + 1 = m
    <2>1. m % m = 0
      BY <1>1
    <2>2. (n + 1) % m = 0
      BY <1>3, <2>1
    <2> QED
      BY <1>1, <1>3, <2>2 DEF FrameNumAfter, m
  <1>4. n + 1 < m \/ n + 1 = m
    BY <1>1 DEF m
  <1> QED
    BY <1>2, <1>3, <1>4

\* What the invariants say of the state between the actions.
LEMMA WindowFacts ==
    ASSUME IInv, WindowInv
    PROVE  /\ AreStores(stores) /\ IsFiniteSet(DOMAIN stores)
           /\ Holders(stores, "LongTerm") = {}
           /\ marking = None
           /\ prevRefFrameNum \in Nat /\ prevRefFrameNum < TheSps.maxFrameNum
           /\ nextKey \in Nat /\ \A k \in DOMAIN stores : k < nextKey
           /\ References(stores) \subseteq DOMAIN stores
           /\ TheSps.maxFrameNum \in Nat \ {0}
  BY StoresFinite, TheSpsIs DEF IInv, TypeOK, KeysInv, WindowInv, References

\* Stores in step and a picture that goes on.
LEMMA WindowGoing ==
    ASSUME IInv, WindowInv, ~(pending # None /\ pending.header.idr),
           NEW m \in Nat, m < TheSps.maxFrameNum, GoesOn(m, TheSps)
    PROVE  Going(stores, prevRefFrameNum, m)
  BY WindowFacts DEF WindowInv, RefsInStep, Going, GoesOn

\* How a picture starts.
LEMMA Started ==
    ASSUME NEW sps, NEW h, NEW firstKey, NEW abandoned, NEW nonExisting,
           StartPicture(sps, h, firstKey, abandoned, nonExisting)
    PROVE  \/ pending' = pending /\ Derive(poc, sps, h) = None
           \/ /\ pending'.key = IF firstKey = None THEN nextKey ELSE firstKey
              /\ pending'.secondField = (firstKey # None)
              /\ pending'.header = h
              /\ pending'.maxFrameNum = sps.maxFrameNum
  BY DEF StartPicture

\* A picture whose counts are in range does start.
LEMMA StartedIs ==
    ASSUME TypeOK, NEW sps \in SpsSet, NEW h \in Headers,
           NEW firstKey \in Nat \cup {None}, NEW abandoned \in Nat \cup {None},
           StartPicture(sps, h, firstKey, abandoned, {}),
           Derive(poc, sps, h) # None
    PROVE  pending' # None
  <1> DEFINE counts == Derive(poc, sps, h)
             key == IF firstKey = None THEN nextKey ELSE firstKey
             cur == [key |-> key, poc |-> counts, secondField |-> firstKey # None,
                     nonExisting |-> {}, abandonedFirstField |-> abandoned,
                     header |-> h, maxFrameNum |-> sps.maxFrameNum]
  <1>1. nextKey \in Nat /\ poc \in PocState
    BY DEF TypeOK
  <1>2. sps.maxFrameNum \in Nat \ {0} /\ h.structure \in Structures
    BY InputsAssumption, HeaderParts DEF Sps
  <1>3. counts \in Poc
    BY <1>1, <1>2, DeriveType
  <1>4. pending' = cur
    BY DEF StartPicture
  <1>5. key \in Nat /\ (firstKey # None) \in BOOLEAN
    BY <1>1
  <1> HIDE DEF counts, key
  <1>6. cur \in CurrentPicture
    BY <1>2, <1>3, <1>5 DEF CurrentPicture
  <1> QED
    BY <1>4, <1>6, PictureAssumption

\* The counts of an IDR picture owe nothing to the pictures before it.
LEMMA IdrCounts ==
    ASSUME NEW ps, NEW sps, NEW h, h.idr
    PROVE  Derive(ps, sps, h) = Derive(InitPocState, sps, h)
  BY DEF Derive, Type0, Type1, Type2, FrameNumOffset

\* A picture begins: the references wait for its end.
LEMMA BeginPictureWindow ==
    ASSUME IInv, WindowInv, NEW h \in Headers, BeginPicture(TheSps, h)
    PROVE  WindowInv' /\ WindowStep
  <1> DEFINE key == IF Pairs(h) THEN lastField.key ELSE None
  <1>1. /\ pending = None /\ gap = None /\ marking = None
        /\ h.frameNum < TheSps.maxFrameNum /\ ParsedAgainst(TheSps, h)
        /\ ~SkipsFrameNum(TheSps, h)
        /\ prevRefFrameNum' = IF h.idr THEN 0 ELSE prevRefFrameNum
        /\ StartPicture(TheSps, h, key, AbandonedFirstField(h), {})
        /\ lastField' = None
        /\ stores' = stores /\ gap' = gap /\ marking' = marking
    BY DEF BeginPicture, Idle, ParsedAgainst
  <1>2. /\ h.frameNum \in Nat /\ h.idr \in BOOLEAN /\ (h.idr => h.reference)
    BY HeaderParts
  <1>3. ASSUME Pairs(h)
        PROVE  /\ lastField # None /\ lastField.key \in Nat /\ lastField.key # None
               /\ h.frameNum = lastField.frameNum /\ ~h.idr
               /\ h.reference => lastField.reference
    BY <1>2, <1>3, NoneAssumption DEF Pairs, IInv, TypeOK, LastField
  <1> HIDE DEF key
  <1>4. \/ pending' = None /\ Derive(poc, TheSps, h) = None
        \/ /\ pending'.key = IF key = None THEN nextKey ELSE key
           /\ pending'.secondField = (key # None)
           /\ pending'.header = h
           /\ pending'.maxFrameNum = TheSps.maxFrameNum
    BY <1>1, Started
  <1>5. /\ Holders(stores, "LongTerm") = {} /\ \A k \in DOMAIN stores : k < nextKey /\ k \in Nat
        /\ nextKey \in Nat
        /\ prevRefFrameNum \in Nat /\ prevRefFrameNum < TheSps.maxFrameNum /\ TheSps.maxFrameNum \in Nat \ {0}
    BY WindowFacts DEF AreStores
  <1>6. CASE h.idr
    <2>1. Derive(poc, TheSps, h) # None
      BY <1>1, <1>6, TheSpsIs, IdrCounted, IdrCounts
    <2>2. key = None
      BY <1>3, <1>6 DEF key
    <2>3. /\ pending'.key = nextKey /\ ~pending'.secondField /\ pending'.header = h
          /\ pending'.maxFrameNum = TheSps.maxFrameNum
      BY <1>4, <2>1, <2>2
    <2>4. PictureInStep(pending.key, pending.header.frameNum, TheSps)'
      BY <1>1, <1>5, <2>3 DEF PictureInStep
    <2>5. PendingInStep'
      BY <1>6, <2>3, <2>4 DEF PendingInStep
    <2>6. pending' # None
      <3>1. AbandonedFirstField(h) \in Nat \cup {None}
        BY DEF IInv, TypeOK, LastField, AbandonedFirstField
      <3>2. TypeOK /\ TheSps \in SpsSet
        BY TheSpsIs DEF IInv
      <3> QED
        BY <1>1, <2>1, <2>2, <3>1, <3>2, StartedIs
    <2>7. RefsInStep'
      BY <1>6, <2>3, <2>6 DEF RefsInStep
    <2>8. GapInStep' /\ LastFieldInStep'
      BY <1>1 DEF GapInStep, LastFieldInStep
    <2> QED
      BY <1>1, <1>5, <1>6, <2>5, <2>7, <2>8 DEF WindowInv, WindowStep
  <1>7. CASE ~h.idr
    <2>1. prevRefFrameNum' = prevRefFrameNum
      BY <1>1, <1>7
    <2>2. RefsInStep'
      BY <1>1, <2>1 DEF RefsInStep, WindowInv, InStep, Behind
    <2>3. GapInStep' /\ LastFieldInStep'
      BY <1>1 DEF GapInStep, LastFieldInStep
    <2>4. ASSUME pending' # None
          PROVE  PendingInStep'
      <3>1. /\ pending'.key = IF key = None THEN nextKey ELSE key
            /\ pending'.secondField = (key # None)
            /\ pending'.header = h
            /\ pending'.maxFrameNum = TheSps.maxFrameNum
        BY <1>4, <2>4
      <3>2. CASE Pairs(h)
        <4>1. /\ \A k \in DOMAIN stores : k <= lastField.key
              /\ GoesOn(lastField.frameNum, TheSps)
              /\ SecondFieldInStep(lastField.reference, lastField.frameNum)
          BY <1>3, <3>2 DEF WindowInv, LastFieldInStep, PictureInStep
        <4>2. pending'.key = lastField.key /\ h.frameNum = lastField.frameNum
              /\ (h.reference => lastField.reference)
          BY <1>3, <3>1, <3>2 DEF key
        <4>3. PictureInStep(pending.key, pending.header.frameNum, TheSps)'
          BY <1>1, <3>1, <4>1, <4>2 DEF PictureInStep
        <4>4. GoesOn(pending.header.frameNum, TheSps)'
          BY <1>1, <2>1, <3>1, <4>1, <4>2 DEF GoesOn
        <4>5. SecondFieldInStep(pending.header.reference, pending.header.frameNum)'
          BY <1>1, <2>1, <3>1, <4>1, <4>2 DEF SecondFieldInStep
        <4> QED
          BY <1>7, <3>1, <4>3, <4>4, <4>5 DEF PendingInStep
      <3>3. CASE ~Pairs(h)
        <4>1. key = None
          BY <3>3 DEF key
        <4>2. PictureInStep(pending.key, pending.header.frameNum, TheSps)'
          BY <1>1, <1>5, <3>1, <4>1 DEF PictureInStep
        <4>3. h.frameNum \in {prevRefFrameNum, FrameNumAfter(prevRefFrameNum, TheSps)}
          BY <1>1, <1>5, <1>7, <3>3, AfterIsNext DEF SkipsFrameNum
        <4>4. GoesOn(pending.header.frameNum, TheSps)'
          BY <2>1, <3>1, <4>3 DEF GoesOn
        <4> QED
          BY <1>7, <3>1, <4>1, <4>2, <4>4 DEF PendingInStep
      <3> QED
        BY <3>2, <3>3
    <2>5. PendingInStep'
      BY <2>4 DEF PendingInStep
    <2> QED
      BY <1>1, <1>5, <2>1, <2>2, <2>3, <2>5 DEF WindowInv, WindowStep
  <1> QED
    BY <1>2, <1>6, <1>7

\* A gap the stream does not allow: the first field can no longer be paired.
LEMMA BeginAfterLossWindow ==
    ASSUME IInv, WindowInv, NEW h \in Headers, BeginAfterLoss(TheSps, h)
    PROVE  WindowInv' /\ WindowStep
  <1>1. /\ lastField' = None
        /\ UNCHANGED <<stores, prevRefFrameNum, pending, gap, marking>>
    BY DEF BeginAfterLoss
  <1>2. LastFieldInStep'
    BY <1>1 DEF LastFieldInStep
  <1> QED
    BY <1>1, <1>2 DEF WindowInv, WindowStep, RefsInStep, InStep, Behind, GapInStep, PendingInStep,
                      PictureInStep, GoesOn, SecondFieldInStep

\* No reference is left when every short-term field is dropped.
LEMMA FlushStep ==
    ASSUME NEW st, AreStores(st), Holders(st, "LongTerm") = {}
    PROVE  LET new == Unmark(st, FieldsMarked(st, "ShortTerm"))
           IN  References(new) = {} /\ Holders(new, "LongTerm") = {}
  <1> DEFINE dropped == FieldsMarked(st, "ShortTerm")
             new == Unmark(st, dropped)
  <1>1. /\ DOMAIN new = DOMAIN st
        /\ \A k \in DOMAIN st, p \in Parities :
             new[k].fields[p] = IF <<k, p>> \in dropped THEN AsUnused(st[k].fields[p])
                                ELSE st[k].fields[p]
    BY UnmarkFields
  <1>2. \A k \in DOMAIN st, p \in Parities :
          /\ AsUnused(st[k].fields[p]).marking = "Unused"
          /\ AsUnused(st[k].fields[p]).decoded = st[k].fields[p].decoded
          /\ st[k].fields[p].marking \in Markings
          /\ st[k].fields[p].decoded => st[k].fields[p].marking # "LongTerm"
          /\ <<k, p>> \in dropped <=> st[k].fields[p].marking = "ShortTerm"
    <2>1. \A k \in DOMAIN st, p \in Parities :
            /\ AsUnused(st[k].fields[p]).marking = "Unused"
            /\ AsUnused(st[k].fields[p]).decoded = st[k].fields[p].decoded
            /\ st[k].fields[p].marking \in Markings
      BY StoreParts, AsUnusedField DEF FieldState
    <2>2. \A k \in DOMAIN st, p \in Parities : <<k, p>> \in dropped <=> st[k].fields[p].marking = "ShortTerm"
      BY DEF FieldsMarked, AllFields
    <2> HIDE DEF dropped
    <2> QED
      BY <2>1, <2>2, ShortAreReferences
  <1> HIDE DEF new, dropped
  <1>3. \A k \in DOMAIN st, p \in Parities :
          new[k].fields[p].decoded => new[k].fields[p].marking = "Unused"
    <2> SUFFICES ASSUME NEW k \in DOMAIN st, NEW p \in Parities
                 PROVE  new[k].fields[p].decoded => new[k].fields[p].marking = "Unused"
      OBVIOUS
    <2>1. CASE <<k, p>> \in dropped
      <3>1. new[k].fields[p] = AsUnused(st[k].fields[p])
        BY <1>1, <2>1
      <3> QED
        BY <1>2, <3>1
    <2>2. CASE <<k, p>> \notin dropped
      <3>1. new[k].fields[p] = st[k].fields[p]
        BY <1>1, <2>2
      <3>2. st[k].fields[p].marking \in Markings /\ st[k].fields[p].marking # "ShortTerm"
        BY <1>2, <2>2
      <3>3. st[k].fields[p].decoded => st[k].fields[p].marking # "LongTerm"
        BY <1>2
      <3> QED
        BY <3>1, <3>2, <3>3 DEF Markings
    <2> QED
      BY <2>1, <2>2
  <1> QED
    BY <1>1, <1>3 DEF References, Holders, AnyMarked, IsMarked, IsReference, new, dropped

\* A gap begins; one that is wide drops every reference.
LEMMA BeginWithGapWindow ==
    ASSUME IInv, WindowInv, NEW h \in Headers, BeginWithGap(TheSps, h)
    PROVE  WindowInv' /\ WindowStep
  <1> DEFINE unused == (prevRefFrameNum + 1) % TheSps.maxFrameNum
             missing == (h.frameNum + TheSps.maxFrameNum - unused) % TheSps.maxFrameNum
             wide == missing > RefCap(TheSps)
             flushed == Unmark(stores, FieldsMarked(stores, "ShortTerm"))
  <1>1. /\ pending = None /\ gap = None /\ marking = None
        /\ h.frameNum < TheSps.maxFrameNum /\ ~h.idr
        /\ stores' = IF wide THEN flushed ELSE stores
        /\ gap' = [sps |-> TheSps, header |-> h,
                   abandonedFirstField |-> AbandonedFirstField(h),
                   unused |-> unused,
                   skip |-> IF wide THEN missing - RefCap(TheSps) ELSE 0,
                   nonExisting |-> {}]
        /\ lastField' = None
        /\ UNCHANGED <<prevRefFrameNum, pending, marking>>
    BY DEF BeginWithGap, Idle, ParsedAgainst, SkipsFrameNum
  <1>2. /\ prevRefFrameNum \in Nat /\ prevRefFrameNum < TheSps.maxFrameNum /\ AreStores(stores)
        /\ Holders(stores, "LongTerm") = {}
    BY WindowFacts
  <1>3. unused = FrameNumAfter(prevRefFrameNum, TheSps) /\ unused < TheSps.maxFrameNum
    BY <1>2, AfterIsNext
  <1>4. References(flushed) = {} /\ Holders(flushed, "LongTerm") = {}
    BY <1>2, FlushStep
  <1>5. InStep(stores, prevRefFrameNum, TheSps)
    BY <1>1 DEF WindowInv, RefsInStep
  <1>6. RefCap(TheSps) \in Nat
    BY TheSpsIs
  <1> HIDE DEF flushed, unused, missing, wide
  <1>7. /\ gap'.header = h /\ gap'.unused = unused /\ (~wide => gap'.skip = 0)
    BY <1>1
  <1>8. PendingInStep' /\ LastFieldInStep'
    BY <1>1 DEF PendingInStep, LastFieldInStep
  <1>9. CASE wide
    <2>1. References(stores') = {} /\ Holders(stores', "LongTerm") = {}
      BY <1>1, <1>4, <1>9
    <2>2. WindowStep
      BY <2>1, WindowSteps
    <2>3. GapInStep'
      BY <1>1, <1>3, <1>7, <2>1 DEF GapInStep
    <2>4. RefsInStep'
      BY <1>6, <2>1, FS_EmptySet DEF RefsInStep, InStep
    <2> QED
      BY <1>1, <1>2, <1>8, <2>1, <2>2, <2>3, <2>4 DEF WindowInv
  <1>10. CASE ~wide
    <2>1. stores' = stores
      BY <1>1, <1>10
    <2>2. GapInStep'
      BY <1>1, <1>3, <1>7, <1>10 DEF GapInStep
    <2>3. RefsInStep'
      BY <1>1, <1>5, <2>1 DEF RefsInStep, InStep, Behind
    <2> QED
      BY <1>1, <1>2, <1>8, <2>1, <2>2, <2>3 DEF WindowInv, WindowStep
  <1> QED
    BY <1>9, <1>10

\* The gap that is being filled.
LEMMA GapFacts ==
    ASSUME IInv, WindowInv, gap # None
    PROVE  /\ gap \in GapLoop /\ gap.sps = TheSps
           /\ gap.unused \in Nat /\ gap.unused < TheSps.maxFrameNum
           /\ gap.skip \in Nat /\ gap.header \in Headers
           /\ pending = None /\ marking = None /\ lastField = None
           /\ InStep(stores, prevRefFrameNum, TheSps)
           /\ Going(stores, prevRefFrameNum, gap.unused)
  <1>1. gap \in GapLoop /\ pending = None /\ marking = None /\ lastField = None
    BY DEF IInv, TypeOK, ControlInv
  <1>2. gap.sps = TheSps /\ gap.unused \in Nat /\ gap.skip \in Nat /\ gap.header \in Headers
    BY <1>1, TheSpsIs DEF GapLoop
  <1>3. /\ gap.unused < TheSps.maxFrameNum
        /\ References(stores) # {} => gap.unused = FrameNumAfter(prevRefFrameNum, TheSps)
    BY DEF WindowInv, GapInStep
  <1>4. InStep(stores, prevRefFrameNum, TheSps)
    BY <1>1 DEF WindowInv, RefsInStep
  <1>5. Going(stores, prevRefFrameNum, gap.unused)
    BY <1>1, <1>2, <1>3, WindowGoing DEF GoesOn
  <1> QED
    BY <1>1, <1>2, <1>3, <1>4, <1>5

\* Frames are skipped only when no reference is left.
LEMMA SkipFrameWindow ==
    ASSUME IInv, WindowInv, SkipFrame
    PROVE  WindowInv' /\ WindowStep
  <1> DEFINE next == (gap.unused + 1) % gap.sps.maxFrameNum
             loop == [gap EXCEPT !.unused = (@ + 1) % gap.sps.maxFrameNum, !.skip = @ - 1]
  <1>1. /\ gap # None /\ gap.skip > 0 /\ gap' = loop
        /\ UNCHANGED <<stores, prevRefFrameNum, pending, lastField, marking>>
    BY DEF SkipFrame
  <1>2. gap \in GapLoop /\ gap.sps = TheSps /\ gap.unused \in Nat /\ gap.unused < TheSps.maxFrameNum
        /\ gap.skip \in Nat
    BY <1>1, GapFacts
  <1>3. References(stores) = {}
    BY <1>1, <1>2 DEF WindowInv, GapInStep
  <1>4. next < TheSps.maxFrameNum
    BY <1>2, AfterIsNext
  <1>5. gap'.unused = next /\ gap'.header = gap.header
    BY <1>1, <1>2 DEF GapLoop
  <1> HIDE DEF next, loop
  <1>6. GapInStep'
    BY <1>1, <1>3, <1>4, <1>5 DEF GapInStep, WindowInv
  <1> QED
    BY <1>1, <1>6 DEF WindowInv, WindowStep, RefsInStep, InStep, Behind, PendingInStep,
                      LastFieldInStep, PictureInStep, GoesOn, SecondFieldInStep

\* An inferred frame enters; one whose counts overflow has made room for itself.
LEMMA FillFrameWindow ==
    ASSUME IInv, WindowInv, FillFrame
    PROVE  WindowInv' /\ WindowStep
  <1> DEFINE max == TheSps.maxFrameNum
             cap == RefCap(TheSps)
             refs == References(stores)
             slid == SlidingWindow(stores, TheSps, gap.unused, max, None)
             counts == DeriveNonExisting(poc, TheSps, gap.unused)
             new == NonExistingStore(gap.unused, counts)
  <1>1. gap # None /\ gap.skip = 0 /\ UNCHANGED <<pending, lastField, marking>>
    BY DEF FillFrame
  <1>2. /\ gap \in GapLoop /\ gap.sps = TheSps
        /\ gap.unused \in Nat /\ gap.unused < max
        /\ pending = None /\ marking = None /\ lastField = None
        /\ InStep(stores, prevRefFrameNum, TheSps)
        /\ Going(stores, prevRefFrameNum, gap.unused)
    BY <1>1, GapFacts
  <1>3. /\ AreStores(stores) /\ IsFiniteSet(DOMAIN stores)
        /\ Holders(stores, "LongTerm") = {}
        /\ prevRefFrameNum < max
        /\ nextKey \in Nat /\ \A k \in refs : k < nextKey
        /\ refs \subseteq DOMAIN stores
        /\ poc \in PocState
    BY WindowFacts DEF IInv, TypeOK
  <1>4. Unmarks(stores, slid) /\ References(slid) = Window!Newest(refs, cap - 1)
    BY <1>2, <1>3, SlideStep
  <1>5. cap \in Nat \ {0} /\ cap - 1 \in Nat /\ cap - 1 <= cap
    BY TheSpsIs
  <1>6. /\ AreStores(slid) /\ DOMAIN slid = DOMAIN stores
        /\ \A k \in DOMAIN stores : slid[k].frameNum = stores[k].frameNum
    BY <1>4 DEF Unmarks
  <1>7. Holders(slid, "LongTerm") = {}
    <2> HIDE DEF slid
    <2>1. \A k \in DOMAIN stores, p \in Parities :
            IsMarked(slid[k].fields[p], "LongTerm") => IsMarked(stores[k].fields[p], "LongTerm")
      BY <1>4 DEF Unmarks, IsMarked
    <2> QED
      BY <1>3, <1>6, <2>1 DEF Holders, AnyMarked
  <1>8. References(slid) \subseteq refs
    BY <1>4, NewestIs
  <1>9. PendingInStep' /\ LastFieldInStep'
    BY <1>1, <1>2 DEF PendingInStep, LastFieldInStep
  <1>10. CASE counts = None
    <2>1. stores' = slid /\ gap' = None /\ prevRefFrameNum' = prevRefFrameNum
      BY <1>2, <1>10 DEF FillFrame
    <2> HIDE DEF slid, counts
    <2>2. WindowStep
      BY <1>4, <2>1, WindowSteps
    <2>3. InStep(slid, prevRefFrameNum, TheSps)
      BY <1>2, <1>3, <1>4, <1>5, <1>6, <1>8, InStepNewest
    <2>4. RefsInStep'
      BY <2>1, <2>3 DEF RefsInStep, InStep, Behind
    <2>5. GapInStep'
      BY <2>1 DEF GapInStep
    <2> QED
      BY <1>1, <1>2, <1>3, <1>7, <1>9, <2>1, <2>2, <2>4, <2>5 DEF WindowInv
  <1>11. CASE counts # None
    <2>1. /\ stores' = [k \in DOMAIN slid \cup {nextKey} |-> IF k = nextKey THEN new ELSE slid[k]]
          /\ prevRefFrameNum' = gap.unused
          /\ gap' = [gap EXCEPT !.unused = (@ + 1) % max,
                                !.nonExisting = @ \cup {nextKey}]
      BY <1>2, <1>11 DEF FillFrame
    <2>2. counts \in Poc
      BY <1>3, <1>11, NonExistingPoc
    <2>3. /\ \A p \in Parities : new.fields[p].marking = "ShortTerm"
      <3> HIDE DEF counts
      <3> QED
        BY <1>2, <2>2, NonExistingStoreType
    <2>4. /\ new.frameNum = gap.unused /\ \A p \in Parities : new.fields[p].decoded
      BY DEF NonExistingStore
    <2>5. gap'.unused = (gap.unused + 1) % max /\ gap'.skip = 0 /\ gap'.header = gap.header
      BY <1>1, <1>2, <2>1 DEF GapLoop
    <2> HIDE DEF slid, new, counts
    <2>6. nextKey \notin DOMAIN slid
      BY <1>6, WindowFacts DEF AreStores
    <2>7. /\ DOMAIN stores' = DOMAIN slid \cup {nextKey}
          /\ stores'[nextKey] = new
          /\ \A k \in DOMAIN slid : stores'[k] = slid[k]
      BY <2>1, <2>6
    <2>8. References(stores') = References(slid) \cup {nextKey}
      <3>1. nextKey \in References(stores')
        BY <2>3, <2>4, <2>7 DEF References, IsReference, Parities
      <3>2. \A k \in DOMAIN slid : k \in References(stores') <=> k \in References(slid)
        BY <2>7 DEF References
      <3>3. References(slid) \subseteq DOMAIN slid /\ References(stores') \subseteq DOMAIN slid \cup {nextKey}
        BY <2>7 DEF References
      <3> QED
        BY <3>1, <3>2, <3>3
    <2>9. Holders(stores', "LongTerm") = {}
      <3>1. ~AnyMarked(new, "LongTerm")
        BY <2>3 DEF AnyMarked, IsMarked
      <3> QED
        BY <1>7, <2>7, <3>1 DEF Holders
    <2>10. \A k \in References(stores') :
             stores'[k].frameNum = IF k = nextKey THEN gap.unused ELSE stores[k].frameNum
      <3>1. \A k \in References(slid) : k \in DOMAIN slid
        BY DEF References
      <3> QED
        BY <1>6, <2>4, <2>6, <2>7, <2>8, <3>1
    <2> DEFINE n == prevRefFrameNum
               m == gap.unused
               st2 == stores'
    <2>11. /\ InStep(st2, m, TheSps)
           /\ References(st2) = Window!Newest(refs \cup {nextKey}, cap)
      <3>1. Going(stores, n, m) /\ \A k \in References(stores) : k < nextKey
        BY <1>2, <1>3
      <3>2. References(st2) = Window!Newest(References(stores), RefCap(TheSps) - 1) \cup {nextKey}
        BY <1>4, <2>8
      <3>3. \A k \in References(st2) : st2[k].frameNum = IF k = nextKey THEN m ELSE stores[k].frameNum
        BY <2>10
      <3> HIDE DEF n, m, st2
      <3> QED
        BY <1>3, <3>1, <3>2, <3>3, InStepEnter
    <2>12. WindowStep
      BY <1>3, <2>8, <2>11, WindowSteps
    <2>13. RefsInStep'
      BY <2>1, <2>11 DEF RefsInStep, InStep, Behind
    <2>14. gap'.unused = FrameNumAfter(gap.unused, TheSps) /\ gap'.unused < max
      BY <1>2, <2>5, AfterIsNext
    <2>15. GapInStep'
      BY <1>1, <2>1, <2>5, <2>14 DEF GapInStep, WindowInv, FrameNumAfter
    <2> QED
      BY <1>1, <1>2, <1>9, <2>1, <2>9, <2>12, <2>13, <2>15 DEF WindowInv
  <1> QED
    BY <1>10, <1>11

\* The gap is filled: a picture starts that goes on from its last frame.
LEMMA EndGapWindow ==
    ASSUME IInv, WindowInv, EndGap
    PROVE  WindowInv' /\ WindowStep
  <1>1. /\ gap # None /\ gap.unused = gap.header.frameNum /\ gap.skip = 0
        /\ stores' = EvictUnused(stores)
        /\ StartPicture(gap.sps, gap.header, None, gap.abandonedFirstField, gap.nonExisting)
        /\ gap' = None
        /\ UNCHANGED <<prevRefFrameNum, lastField, marking>>
    BY DEF EndGap
  <1>2. /\ gap.sps = TheSps /\ gap.unused \in Nat /\ gap.unused < TheSps.maxFrameNum
        /\ pending = None /\ marking = None /\ lastField = None
        /\ InStep(stores, prevRefFrameNum, TheSps)
    BY <1>1, GapFacts
  <1>3. /\ AreStores(stores) /\ Holders(stores, "LongTerm") = {}
        /\ prevRefFrameNum < TheSps.maxFrameNum
        /\ nextKey \in Nat /\ \A k \in DOMAIN stores : k < nextKey
        /\ References(stores) \subseteq DOMAIN stores
        /\ DOMAIN stores \subseteq Nat
    BY WindowFacts DEF AreStores
  <1>4. /\ ~gap.header.idr
        /\ References(stores) # {} => gap.unused = FrameNumAfter(prevRefFrameNum, TheSps)
    BY <1>1 DEF WindowInv, GapInStep
  <1>5. DOMAIN stores' = References(stores) /\ \A k \in References(stores) : stores'[k] = stores[k]
    BY <1>1, <1>3, EvictUnusedType
  <1>6. References(stores') = References(stores)
    BY <1>5 DEF References
  <1>7. Holders(stores', "LongTerm") = {}
    BY <1>3, <1>5 DEF Holders
  <1>8. InStep(stores, prevRefFrameNum, TheSps)'
    BY <1>1, <1>2, <1>5, <1>6 DEF InStep, Behind
  <1>9. \/ pending' = None
        \/ /\ pending'.key = nextKey
           /\ ~pending'.secondField
           /\ pending'.header = gap.header
           /\ pending'.maxFrameNum = TheSps.maxFrameNum
    BY <1>1, <1>2, Started
  <1>10. ASSUME pending' # None
         PROVE  PendingInStep'
    <2>1. /\ pending'.key = nextKey /\ ~pending'.secondField
          /\ pending'.header = gap.header /\ pending'.maxFrameNum = TheSps.maxFrameNum
      BY <1>9, <1>10
    <2>2. PictureInStep(pending.key, pending.header.frameNum, TheSps)'
      <3>1. \A k \in DOMAIN stores' : k <= nextKey
        BY <1>3, <1>5
      <3> QED
        BY <1>1, <1>2, <2>1, <3>1 DEF PictureInStep
    <2>3. GoesOn(pending.header.frameNum, TheSps)'
      BY <1>1, <1>4, <1>6, <2>1 DEF GoesOn
    <2> QED
      BY <1>4, <2>1, <2>2, <2>3 DEF PendingInStep
  <1>11. PendingInStep'
    BY <1>10 DEF PendingInStep
  <1>12. RefsInStep' /\ GapInStep' /\ LastFieldInStep'
    BY <1>1, <1>2, <1>8 DEF RefsInStep, GapInStep, LastFieldInStep
  <1> QED
    BY <1>1, <1>2, <1>3, <1>6, <1>7, <1>11, <1>12 DEF WindowInv, WindowStep

\* The picture in progress.
LEMMA PendingFacts ==
    ASSUME IInv, WindowInv, Idle, pending # None
    PROVE  /\ pending \in CurrentPicture /\ PictureInv(pending)
           /\ pending.key \in Nat /\ pending.secondField \in BOOLEAN
           /\ pending.header \in Headers
           /\ pending.header.idr \in BOOLEAN /\ pending.header.reference \in BOOLEAN
           /\ pending.header.idr => pending.header.reference
           /\ pending.header.frameNum \in Nat
           /\ ~pending.header.adaptive /\ ~pending.header.longTermReference
           /\ gap = None /\ marking = None /\ lastField = None
           /\ pending.maxFrameNum = TheSps.maxFrameNum
           /\ pending.header.frameNum < TheSps.maxFrameNum
           /\ \A k \in DOMAIN stores : k <= pending.key
           /\ pending.header.idr => ~pending.secondField
           /\ ~pending.header.idr => GoesOn(pending.header.frameNum, TheSps)
           /\ pending.secondField =>
                SecondFieldInStep(pending.header.reference, pending.header.frameNum)
  <1>1. /\ pending \in CurrentPicture /\ PictureInv(pending)
        /\ gap = None /\ marking = None /\ lastField = None
    BY PendingParts
  <1>2. /\ pending.key \in Nat /\ pending.secondField \in BOOLEAN /\ pending.header \in Headers
    BY <1>1, CurrentParts
  <1>3. /\ pending.header.idr \in BOOLEAN /\ pending.header.reference \in BOOLEAN
        /\ pending.header.idr => pending.header.reference
        /\ pending.header.frameNum \in Nat
    BY <1>2, HeaderParts
  <1>4. ~pending.header.adaptive /\ ~pending.header.longTermReference
    BY <1>2, SlidingOnly
  <1>5. PendingInStep
    BY DEF WindowInv
  <1> QED
    BY <1>1, <1>2, <1>3, <1>4, <1>5 DEF PendingInStep, PictureInStep

\* What a finished picture leaves besides the stores.
LEMMA FinishRest ==
    ASSUME IInv, WindowInv, Idle, pending # None, NEW st,
           Complete(TheSps, pending, st, None, FALSE),
           DOMAIN stores' = References(stores'),
           Holders(stores', "LongTerm") = {},
           \A k \in DOMAIN stores' : k <= pending.key,
           InStep(stores', prevRefFrameNum', TheSps),
           References(stores') # {} =>
             pending.header.frameNum \in {prevRefFrameNum', FrameNumAfter(prevRefFrameNum', TheSps)}
    PROVE  WindowInv'
  <1> DEFINE h == pending.header
             awaiting == IsField(h.structure) /\ ~pending.secondField
  <1>1. /\ pending' = None /\ marking' = None /\ gap' = gap
        /\ prevRefFrameNum' = IF ~h.reference THEN prevRefFrameNum ELSE h.frameNum
        /\ lastField' = IF awaiting
                        THEN [key |-> pending.key, parity |-> ParityOf(h.structure),
                              frameNum |-> h.frameNum, reference |-> h.reference,
                              idr |-> h.idr]
                        ELSE lastField
    BY DEF Complete
  <1>2. /\ gap = None /\ lastField = None /\ h.frameNum < TheSps.maxFrameNum
        /\ h.reference \in BOOLEAN /\ prevRefFrameNum < TheSps.maxFrameNum
    BY PendingFacts DEF WindowInv
  <1>3. \/ lastField' = None
        \/ /\ lastField'.key = pending.key /\ lastField'.frameNum = h.frameNum
           /\ lastField'.reference = h.reference
    BY <1>1, <1>2
  <1>4. RefsInStep'
    BY DEF RefsInStep, InStep, Behind
  <1>5. GapInStep' /\ PendingInStep'
    BY <1>1, <1>2 DEF GapInStep, PendingInStep
  <1>6. ASSUME lastField' # None
        PROVE  LastFieldInStep'
    <2>1. /\ lastField'.key = pending.key /\ lastField'.frameNum = h.frameNum
          /\ lastField'.reference = h.reference
      BY <1>3, <1>6
    <2>2. PictureInStep(lastField.key, lastField.frameNum, TheSps)'
      BY <1>2, <2>1 DEF PictureInStep
    <2>3. GoesOn(lastField.frameNum, TheSps)'
      BY <2>1 DEF GoesOn
    <2>4. SecondFieldInStep(lastField.reference, lastField.frameNum)'
      BY <1>1, <2>1 DEF SecondFieldInStep
    <2> QED
      BY <2>2, <2>3, <2>4 DEF LastFieldInStep
  <1>7. LastFieldInStep'
    BY <1>6 DEF LastFieldInStep
  <1> QED
    BY <1>1, <1>2, <1>4, <1>5, <1>7 DEF WindowInv

\* A picture that is no reference leaves the window alone.
LEMMA FinishNonReferenceWindow ==
    ASSUME IInv, WindowInv, FinishNonReference(TheSps)
    PROVE  WindowInv' /\ WindowStep
  <1>1. /\ Idle /\ pending # None /\ ~pending.header.reference
        /\ Complete(TheSps, pending, stores, None, FALSE)
    BY DEF FinishNonReference
  <1>2. /\ ~pending.header.idr
        /\ \A k \in DOMAIN stores : k <= pending.key
        /\ GoesOn(pending.header.frameNum, TheSps)
    BY <1>1, PendingFacts
  <1>3. InStep(stores, prevRefFrameNum, TheSps)
    BY <1>2 DEF WindowInv, RefsInStep
  <1>4. /\ AreStores(stores) /\ IsFiniteSet(DOMAIN stores) /\ Holders(stores, "LongTerm") = {}
        /\ References(stores) \subseteq DOMAIN stores
    BY WindowFacts
  <1>5. Cardinality(References(stores)) <= RefCap(TheSps)
    BY <1>3 DEF InStep
  <1>6. /\ DOMAIN stores' = References(stores) /\ References(stores') = References(stores)
        /\ Holders(stores', "LongTerm") = {}
        /\ \A k \in References(stores) : stores'[k].frameNum = stores[k].frameNum
    BY <1>1, <1>4, <1>5, KeptStores
  <1>7. prevRefFrameNum' = prevRefFrameNum
    BY <1>1 DEF Complete
  <1>8. InStep(stores', prevRefFrameNum', TheSps)
    <2> DEFINE st2 == stores'
               n == prevRefFrameNum
    <2>1. /\ InStep(stores, n, TheSps) /\ References(st2) = References(stores)
          /\ \A k \in References(stores) : st2[k].frameNum = stores[k].frameNum
      BY <1>3, <1>6
    <2> HIDE DEF st2, n
    <2>2. InStep(st2, n, TheSps)
      BY <2>1, InStepKept
    <2> QED
      BY <1>7, <2>2 DEF st2, n
  <1>9. WindowInv'
    BY <1>1, <1>2, <1>4, <1>6, <1>7, <1>8, FinishRest DEF GoesOn
  <1> QED
    BY <1>6, <1>9 DEF WindowStep

\* An IDR picture is the only reference it leaves.
LEMMA FinishIdrWindow ==
    ASSUME IInv, WindowInv, FinishIdr(TheSps)
    PROVE  WindowInv' /\ WindowStep
  <1> DEFINE st == Unmark(stores, AllFields(stores))
             key == pending.key
             h == pending.header
  <1>1. Idle /\ pending # None /\ h.idr
    BY DEF FinishIdr
  <1>2. /\ pending \in CurrentPicture /\ PictureInv(pending) /\ key \in Nat
        /\ h.reference /\ ~h.longTermReference /\ ~pending.secondField
        /\ h.frameNum \in Nat /\ h.frameNum < TheSps.maxFrameNum
        /\ \A k \in DOMAIN stores : k <= key
    BY <1>1, PendingFacts
  <1>3. Complete(TheSps, pending, st, None, FALSE)
    BY <1>2 DEF FinishIdr
  <1>4. /\ AreStores(stores) /\ IsFiniteSet(DOMAIN stores) /\ DOMAIN stores \subseteq Nat
        /\ References(stores) \subseteq DOMAIN stores
    BY WindowFacts DEF AreStores
  <1>5. Unmarks(stores, st) /\ References(st) = {}
    BY <1>4, UnmarkAll
  <1> HIDE DEF st
  <1>6. AreStores(st) /\ DOMAIN st = DOMAIN stores /\ Holders(st, "LongTerm") = {}
    BY <1>5, LongAreReferences DEF Unmarks
  <1>7. Cardinality({key}) = 1 /\ RefCap(TheSps) \in Nat \ {0} /\ TheSps.maxFrameNum \in Nat
    BY FS_Singleton, TheSpsIs
  <1>8. References(st) \cup {key} = {key} /\ Cardinality(References(st) \cup {key}) <= RefCap(TheSps)
    BY <1>5, <1>7
  <1>9. key \notin DOMAIN stores
    BY <1>2 DEF PictureInv
  <1>10. /\ DOMAIN stores' = {key} /\ References(stores') = {key}
         /\ Holders(stores', "LongTerm") = {}
         /\ stores'[key].frameNum = h.frameNum
    BY <1>2, <1>3, <1>4, <1>6, <1>8, <1>9, FinishedStores
  <1>11. prevRefFrameNum' = h.frameNum
    BY <1>2, <1>3 DEF Complete
  <1>12. InStep(stores', prevRefFrameNum', TheSps)
    <2>1. Cardinality(Window!Newer({key}, key)) \in Nat
      <3>1. Window!Newer({key}, key) \subseteq {key} /\ IsFiniteSet({key})
        BY NewestIs, FS_Singleton
      <3> QED
        BY <3>1, FS_Subset, FS_CardinalityType
    <2>2. Behind(stores', key, h.frameNum, TheSps.maxFrameNum) = 0
      BY <1>2, <1>10 DEF Behind
    <2>3. \A j, k \in {key} : ~(j < k)
      BY <1>2
    <2> HIDE DEF key, h
    <2> QED
      BY <1>2, <1>7, <1>10, <1>11, <2>1, <2>2, <2>3 DEF InStep
  <1>13. \A k \in References(stores) : k < key
    BY <1>2, <1>4, <1>9
  <1>14. WindowStep
    BY <1>2, <1>10, <1>13, WindowSteps
  <1>15. WindowInv'
    <2>1. DOMAIN stores' = References(stores') /\ \A k \in DOMAIN stores' : k <= pending.key
      BY <1>2, <1>10
    <2>2. pending.header.frameNum \in {prevRefFrameNum', FrameNumAfter(prevRefFrameNum', TheSps)}
      BY <1>11
    <2> HIDE DEF key, h
    <2> QED
      BY <1>1, <1>3, <1>10, <1>12, <2>1, <2>2, FinishRest
  <1> QED
    BY <1>14, <1>15

\* A reference picture enters the window, or is the second field of one that is there.
LEMMA FinishSlidingWindow ==
    ASSUME IInv, WindowInv, FinishSliding(TheSps)
    PROVE  WindowInv' /\ WindowStep
  <1> DEFINE h == pending.header
             key == pending.key
             n == prevRefFrameNum
             m == h.frameNum
             max == TheSps.maxFrameNum
             cap == RefCap(TheSps)
             refs == References(stores)
             second == IF pending.secondField THEN key ELSE None
             st == SlidingWindow(stores, TheSps, m, max, second)
  <1>1. Idle /\ pending # None /\ h.reference /\ ~h.idr
    BY DEF FinishSliding
  <1>2. /\ pending \in CurrentPicture /\ PictureInv(pending) /\ key \in Nat
        /\ pending.secondField \in BOOLEAN
        /\ m \in Nat /\ m < max /\ pending.maxFrameNum = max
        /\ \A k \in DOMAIN stores : k <= key
        /\ GoesOn(m, TheSps)
        /\ pending.secondField => SecondFieldInStep(h.reference, m)
    BY <1>1, PendingFacts
  <1>3. Complete(TheSps, pending, st, None, FALSE)
    BY <1>2 DEF FinishSliding
  <1>4. /\ AreStores(stores) /\ IsFiniteSet(DOMAIN stores) /\ DOMAIN stores \subseteq Nat
        /\ Holders(stores, "LongTerm") = {} /\ refs \subseteq DOMAIN stores
    BY WindowFacts DEF AreStores
  <1>5. InStep(stores, n, TheSps) /\ Going(stores, n, m)
    BY <1>1, <1>2, WindowGoing DEF WindowInv, RefsInStep
  <1>6. prevRefFrameNum' = m
    BY <1>1, <1>3 DEF Complete
  <1>7. /\ ~pending.secondField => key \notin DOMAIN stores
        /\ pending.secondField => IsField(h.structure) /\ DOMAIN stores = refs /\ m = n
    BY <1>1, <1>2 DEF PictureInv, SecondFieldInStep
  <1>8. Holders(stores, "ShortTerm") = refs
    BY <1>4, ShortAreReferences
  <1>9. cap \in Nat \ {0} /\ cap - 1 \in Nat
    BY TheSpsIs
  <1>10. ASSUME InStep(stores', m, TheSps), DOMAIN stores' = References(stores'),
                Holders(stores', "LongTerm") = {},
                References(stores') \subseteq refs \cup {key}
         PROVE  WindowInv'
    <2>1. \A k \in DOMAIN stores' : k <= pending.key
      BY <1>2, <1>4, <1>10
    <2>2. pending.header.frameNum \in {prevRefFrameNum', FrameNumAfter(prevRefFrameNum', TheSps)}
      BY <1>6
    <2>3. InStep(stores', prevRefFrameNum', TheSps)
      BY <1>6, <1>10
    <2> HIDE DEF st, h, key, refs, m
    <2> QED
      BY <1>1, <1>3, <1>10, <2>1, <2>2, <2>3, FinishRest
  <1>11. CASE pending.secondField /\ key \in refs
    <2>1. st = stores
      BY <1>2, <1>8, <1>11, NoneAssumption DEF SlidingWindow
    <2>2. refs \cup {key} = refs /\ Cardinality(refs) <= cap
      BY <1>5, <1>11 DEF InStep
    <2> HIDE DEF refs, st
    <2>3. /\ DOMAIN stores' = refs /\ References(stores') = refs
          /\ Holders(stores', "LongTerm") = {}
          /\ \A k \in refs : stores'[k].frameNum = stores[k].frameNum
      <3>1. Complete(TheSps, pending, stores, None, FALSE)
        BY <1>3, <2>1
      <3>2. Cardinality(References(stores) \cup {pending.key}) <= RefCap(TheSps)
        BY <2>2 DEF refs
      <3>3. /\ DOMAIN stores' = References(stores) \cup {key}
            /\ References(stores') = References(stores) \cup {key}
            /\ Holders(stores', "LongTerm") = {}
            /\ \A k \in References(stores) :
                 stores'[k].frameNum = IF k = key /\ ~pending.secondField
                                       THEN m ELSE stores[k].frameNum
        BY <1>1, <1>2, <1>4, <1>7, <3>1, <3>2, FinishedStores
      <3> QED
        BY <1>11, <2>2, <3>3 DEF refs
    <2>4. InStep(stores', m, TheSps)
      <3> DEFINE st2 == stores'
      <3>1. /\ InStep(stores, n, TheSps) /\ References(st2) = References(stores)
            /\ \A k \in References(stores) : st2[k].frameNum = stores[k].frameNum
        BY <1>5, <2>3 DEF refs
      <3> HIDE DEF st2, n
      <3>2. InStep(st2, n, TheSps)
        BY <3>1, InStepKept
      <3> QED
        BY <1>7, <1>11, <3>2 DEF st2
    <2>5. WindowInv'
      BY <1>10, <2>3, <2>4
    <2> QED
      BY <2>3, <2>5 DEF WindowStep, refs
  <1>12. CASE ~(pending.secondField /\ key \in refs)
    <2>1. second = None \/ second \notin refs
      BY <1>12
    <2>2. key \notin DOMAIN stores
      BY <1>7, <1>12
    <2>3. \A k \in refs : k < key
      BY <1>2, <1>4, <2>2
    <2>4. Unmarks(stores, st) /\ References(st) = Window!Newest(refs, cap - 1)
      <3> HIDE DEF second, m, n
      <3> QED
        BY <1>4, <1>5, <2>1, SlideStep
    <2> DEFINE kept == Window!Newest(refs, cap - 1)
    <2> HIDE DEF st
    <2>5. /\ AreStores(st) /\ DOMAIN st = DOMAIN stores
          /\ \A k \in DOMAIN stores : st[k].frameNum = stores[k].frameNum
      BY <2>4 DEF Unmarks
    <2>6. Holders(st, "LongTerm") = {}
      <3>1. \A k \in DOMAIN stores, p \in Parities :
              IsMarked(st[k].fields[p], "LongTerm") => IsMarked(stores[k].fields[p], "LongTerm")
        BY <2>4 DEF Unmarks, IsMarked
      <3> QED
        BY <1>4, <2>5, <3>1 DEF Holders, AnyMarked
    <2>7. /\ kept \in SUBSET refs /\ IsFiniteSet(kept) /\ Cardinality(kept) \in Nat
          /\ Cardinality(kept) <= cap - 1
      <3>1. refs \in SUBSET Nat /\ IsFiniteSet(refs)
        BY <1>4, GoingParts
      <3> HIDE DEF refs, cap
      <3> QED
        BY <1>9, <3>1, NewestFew
    <2>8. key \notin kept /\ Cardinality(kept \cup {key}) <= cap
      <3>1. key \notin kept
        BY <1>4, <2>2, <2>7
      <3>2. Cardinality(kept \cup {key}) = Cardinality(kept) + 1
        BY <2>7, <3>1, FS_AddElement
      <3> HIDE DEF kept, cap
      <3> QED
        BY <1>9, <2>7, <3>1, <3>2
    <2>9. Cardinality(References(st) \cup {pending.key}) <= RefCap(TheSps)
      BY <2>4, <2>8
    <2>10. /\ DOMAIN stores' = References(st) \cup {key}
           /\ References(stores') = References(st) \cup {key}
           /\ Holders(stores', "LongTerm") = {}
           /\ \A k \in References(st) :
                stores'[k].frameNum = IF k = key /\ ~pending.secondField
                                      THEN m ELSE st[k].frameNum
           /\ key \notin DOMAIN st => stores'[key].frameNum = m
      BY <1>1, <1>2, <1>3, <1>4, <1>7, <2>5, <2>6, <2>9, FinishedStores
    <2>11. \A k \in References(stores') :
             stores'[k].frameNum = IF k = key THEN m ELSE stores[k].frameNum
      <3>1. \A k \in References(st) : k \in DOMAIN stores /\ k # key
        BY <1>4, <2>2, <2>4, <2>7
      <3> HIDE DEF key, m
      <3> QED
        BY <2>2, <2>5, <2>10, <3>1
    <2>12. /\ InStep(stores', m, TheSps)
           /\ References(stores') = Window!Newest(refs \cup {key}, cap)
      <3> DEFINE st2 == stores'
      <3>1. References(st2) = Window!Newest(References(stores), RefCap(TheSps) - 1) \cup {key}
        BY <2>4, <2>10
      <3>2. /\ Going(stores, n, m) /\ \A k \in References(stores) : k < key
            /\ \A k \in References(st2) : st2[k].frameNum = IF k = key THEN m ELSE stores[k].frameNum
            /\ key \in Nat
        BY <1>2, <1>5, <2>3, <2>11
      <3> HIDE DEF st2, key, m, n
      <3>3. /\ InStep(st2, m, TheSps)
            /\ References(st2) = Window!Newest(References(stores) \cup {key}, RefCap(TheSps))
        BY <3>1, <3>2, InStepEnter
      <3> QED
        BY <3>3 DEF st2
    <2>13. WindowStep
      BY <1>2, <2>3, <2>10, <2>12, WindowSteps
    <2>14. References(stores') \subseteq refs \cup {key}
      BY <2>4, <2>7, <2>10
    <2>15. WindowInv'
      BY <1>10, <2>10, <2>12, <2>14
    <2> QED
      BY <2>13, <2>15
  <1> QED
    BY <1>11, <1>12

\* A restart: the window is empty.
LEMMA ClearWindow ==
    ASSUME IInv, WindowInv, Clear
    PROVE  WindowInv' /\ WindowStep
  <1>1. /\ stores' = <<>> /\ prevRefFrameNum' = 0 /\ pending' = None /\ lastField' = None
        /\ gap = None /\ gap' = gap /\ marking' = marking
    BY DEF Clear, Idle
  <1>2. References(stores') = {} /\ Holders(stores', "LongTerm") = {}
    BY <1>1 DEF References, Holders
  <1>3. RefCap(TheSps) \in Nat /\ TheSps.maxFrameNum \in Nat \ {0}
    BY TheSpsIs
  <1>4. RefsInStep'
    BY <1>2, <1>3, FS_EmptySet DEF RefsInStep, InStep
  <1>5. GapInStep' /\ PendingInStep' /\ LastFieldInStep'
    BY <1>1 DEF GapInStep, PendingInStep, LastFieldInStep
  <1>6. WindowStep
    BY <1>2, WindowSteps
  <1> QED
    BY <1>1, <1>2, <1>3, <1>4, <1>5, <1>6 DEF WindowInv

\* Every step keeps the invariant and is a step of the window or none.
LEMMA WindowNext ==
    ASSUME IInv, WindowInv, [Next]_vars
    PROVE  WindowInv' /\ WindowStep
  <1>1. ASSUME UNCHANGED <<stores, prevRefFrameNum, pending, lastField, gap, marking>>
        PROVE  WindowInv' /\ WindowStep
    BY <1>1 DEF WindowInv, WindowStep, RefsInStep, InStep, Behind, GapInStep, PendingInStep,
                LastFieldInStep, PictureInStep, GoesOn, SecondFieldInStep
  <1>2. ASSUME NEW sps \in SpsSet, NEW h \in Headers, Begin(sps, h)
        PROVE  WindowInv' /\ WindowStep
    BY <1>2, TheSpsIs, BeginPictureWindow, BeginAfterLossWindow, BeginWithGapWindow DEF Begin
  <1>3. ASSUME NEW sps \in SpsSet, Finish(sps)
        PROVE  WindowInv' /\ WindowStep
    <2>1. sps = TheSps
      BY TheSpsIs
    <2>2. ~BeginMarking(sps)
      BY PendingFacts DEF BeginMarking
    <2> QED
      BY <1>3, <2>1, <2>2, FinishNonReferenceWindow, FinishIdrWindow, FinishSlidingWindow DEF Finish
  <1>4. CASE Continue
    <2>1. ~MarkNext /\ ~EndMarking
      BY DEF MarkNext, EndMarking, WindowInv
    <2> QED
      BY <1>4, <2>1, SkipFrameWindow, FillFrameWindow, EndGapWindow DEF Continue
  <1>5. CASE OutOfTurn
    BY <1>1, <1>5 DEF OutOfTurn
  <1>6. CASE UNCHANGED vars
    BY <1>1, <1>6 DEF vars
  <1> QED
    BY <1>2, <1>3, <1>4, <1>5, <1>6, ClearWindow DEF Next

\* H264Dpb keeps the promise of the sliding window, for every parameter set whose
\* capacity is below its MaxFrameNum and every header without memory management
\* commands: no frame is dropped before an older one, none outlives Cap newer ones,
\* over every wrap of frame_num, gap, pair of fields and failed call.
THEOREM WindowImplemented == Spec => ImplementsWindow
  <1>1. Init => WindowInv
    <2> SUFFICES ASSUME Init  PROVE WindowInv
      OBVIOUS
    <2>1. /\ stores = <<>> /\ prevRefFrameNum = 0 /\ pending = None /\ lastField = None
          /\ gap = None /\ marking = None
      BY DEF Init
    <2>2. References(stores) = {} /\ Holders(stores, "LongTerm") = {}
      BY <2>1 DEF References, Holders
    <2>3. RefCap(TheSps) \in Nat /\ TheSps.maxFrameNum \in Nat \ {0}
      BY TheSpsIs
    <2>4. RefsInStep
      BY <2>1, <2>2, <2>3, FS_EmptySet DEF RefsInStep, InStep
    <2>5. GapInStep /\ PendingInStep /\ LastFieldInStep
      BY <2>1 DEF GapInStep, PendingInStep, LastFieldInStep
    <2> QED
      BY <2>1, <2>2, <2>3, <2>4, <2>5 DEF WindowInv
  <1>2. Init => Window!Init
    BY DEF Init, Window!Init, References
  <1>3. IInv /\ WindowInv /\ [Next]_vars => WindowInv'
    BY WindowNext
  <1>4. IInv /\ WindowInv /\ [Next]_vars => [Window!Next]_(References(stores))
    BY WindowNext DEF WindowStep
  <1> QED
    BY <1>1, <1>2, <1>3, <1>4, Invariance, PTL DEF Spec, ImplementsWindow, Window!Spec

=============================================================================
