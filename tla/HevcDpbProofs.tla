----------------------------- MODULE HevcDpbProofs -----------------------------
(***************************************************************************)
(* IInv of HevcDpb is inductive, and what follows from it: the bound of    *)
(* the buffer for any headers, exact accounting of surfaces, lists that    *)
(* agree with the marking, and markings that only weaken.                  *)
(***************************************************************************)
EXTENDS HevcDpb, HevcRpsProofs

-----------------------------------------------------------------------------
(* Reference lists *)

\* The lists a slice may draw on.
CurrLists == {"stCurrBefore", "stCurrAfter", "ltCurr"}

\* The candidates are the entries of the three lists, one by one and no others.
LEMMA CandidatesAre ==
    ASSUME NEW d, \A l \in Lists : d.pending.rps[l] \in Seq(Nat \cup {None}),
           NEW first, NEW second,
           <<first, second>> \in {<<"stCurrBefore", "stCurrAfter">>, <<"stCurrAfter", "stCurrBefore">>},
           NEW all, all = Candidates(d, first, second)
    PROVE  /\ Len(all) = NumPicTotalCurr(d) /\ DOMAIN all = 1 .. Len(all) /\ Len(all) \in Nat
           /\ \A i \in DOMAIN all : \E l \in CurrLists : \E j \in DOMAIN d.pending.rps[l] :
                all[i] = Entry(d, d.pending.rps[l][j], l = "ltCurr")
           /\ \A l \in CurrLists : \A j \in DOMAIN d.pending.rps[l] : \E i \in DOMAIN all :
                all[i] = Entry(d, d.pending.rps[l][j], l = "ltCurr")
  <1> DEFINE r == d.pending.rps
             one == [i \in DOMAIN r[first] |-> Entry(d, r[first][i], FALSE)]
             two == [i \in DOMAIN r[second] |-> Entry(d, r[second][i], FALSE)]
             lt == [i \in DOMAIN r["ltCurr"] |-> Entry(d, r["ltCurr"][i], TRUE)]
             a == Len(r[first])
             b == Len(r[second])
             c == Len(r["ltCurr"])
  <1>1. /\ {first, second} = {"stCurrBefore", "stCurrAfter"}
        /\ first # second /\ first # "ltCurr" /\ second # "ltCurr"
        /\ CurrLists = {first, second, "ltCurr"}
    BY DEF CurrLists
  <1>2. /\ DOMAIN r[first] = 1 .. a /\ a \in Nat
        /\ DOMAIN r[second] = 1 .. b /\ b \in Nat
        /\ DOMAIN r["ltCurr"] = 1 .. c /\ c \in Nat
    <2>1. first \in Lists /\ second \in Lists /\ "ltCurr" \in Lists
      BY DEF Lists, ShortLists
    <2>2. /\ r[first] \in Seq(Nat \cup {None}) /\ r[second] \in Seq(Nat \cup {None})
          /\ r["ltCurr"] \in Seq(Nat \cup {None})
      BY <2>1
    <2> HIDE DEF r
    <2> QED
      BY <2>2, LenProperties
  <1>3. NumPicTotalCurr(d) = a + b + c
    <2>1. NumPicTotalCurr(d) = Len(r["stCurrBefore"]) + Len(r["stCurrAfter"]) + c
      BY DEF NumPicTotalCurr
    <2>2. CASE first = "stCurrBefore" /\ second = "stCurrAfter"
      BY <2>1, <2>2
    <2>3. CASE first = "stCurrAfter" /\ second = "stCurrBefore"
      <3>1. Len(r["stCurrBefore"]) = b /\ Len(r["stCurrAfter"]) = a
        BY <2>3
      <3>2. a \in Nat /\ b \in Nat /\ c \in Nat
        BY <1>2
      <3> HIDE DEF a, b, c, r
      <3>3. Len(r["stCurrBefore"]) + Len(r["stCurrAfter"]) = a + b
        BY <3>1, <3>2
      <3> QED
        BY <2>1, <3>3
    <2> QED
      BY <2>2, <2>3
  <1>4. all = one \o two \o lt
    BY DEF Candidates
  <1> DEFINE E == {one[i] : i \in 1 .. a} \cup {two[i] : i \in 1 .. b} \cup {lt[i] : i \in 1 .. c}
  <1>5. one \in Seq(E) /\ two \in Seq(E) /\ lt \in Seq(E)
        /\ Len(one) = a /\ Len(two) = b /\ Len(lt) = c
    <2> HIDE DEF r, a, b, c
    <2>1. DOMAIN one = 1 .. a /\ DOMAIN two = 1 .. b /\ DOMAIN lt = 1 .. c
      BY <1>2
    <2>2. one = [i \in 1 .. a |-> one[i]] /\ two = [i \in 1 .. b |-> two[i]]
          /\ lt = [i \in 1 .. c |-> lt[i]]
      BY <1>2, <2>1
    <2>3. /\ \A i \in 1 .. a : one[i] \in E
          /\ \A i \in 1 .. b : two[i] \in E
          /\ \A i \in 1 .. c : lt[i] \in E
      OBVIOUS
    <2> HIDE DEF one, two, lt, E
    <2>4. one \in [1 .. a -> E] /\ two \in [1 .. b -> E] /\ lt \in [1 .. c -> E]
      BY <2>2, <2>3
    <2> QED
      BY <1>2, <2>1, <2>4
  <1>6. /\ \A i \in 1 .. a : one[i] = Entry(d, r[first][i], FALSE)
        /\ \A i \in 1 .. b : two[i] = Entry(d, r[second][i], FALSE)
        /\ \A i \in 1 .. c : lt[i] = Entry(d, r["ltCurr"][i], TRUE)
    BY <1>2
  <1> HIDE DEF r, one, two, lt, E, a, b, c
  <1>7. /\ all \in Seq(E) /\ Len(all) = a + b + c /\ DOMAIN all = 1 .. a + b + c
        /\ \A i \in 1 .. a : all[i] = one[i]
        /\ \A i \in 1 .. b : all[a + i] = two[i]
        /\ \A i \in 1 .. c : all[a + b + i] = lt[i]
    <2> DEFINE ab == one \o two
    <2>1. /\ ab \in Seq(E) /\ Len(ab) = a + b
          /\ \A i \in 1 .. a : ab[i] = one[i]
          /\ \A i \in 1 .. b : ab[a + i] = two[i]
      BY <1>2, <1>5
    <2> HIDE DEF ab
    <2>2. all = ab \o lt
      BY <1>4 DEF ab
    <2>3. /\ all \in Seq(E) /\ Len(all) = a + b + c /\ DOMAIN all = 1 .. a + b + c
          /\ \A i \in 1 .. a + b : all[i] = ab[i]
          /\ \A i \in 1 .. c : all[a + b + i] = lt[i]
      <3> DEFINE n == a + b
      <3>1. n \in Nat /\ Len(ab) = n /\ a + b + c = n + c
        BY <1>2, <2>1
      <3>2. \A i : a + b + i = n + i
        OBVIOUS
      <3> HIDE DEF n
      <3>3. /\ all \in Seq(E) /\ Len(all) = n + c
            /\ \A i \in 1 .. n + c : all[i] = IF i <= n THEN ab[i] ELSE lt[i - n]
        <4>1. ab \in Seq(E) /\ lt \in Seq(E) /\ Len(ab) = n /\ Len(lt) = c
          BY <1>5, <2>1, <3>1
        <4>2. /\ ab \o lt \in Seq(E)
              /\ Len(ab \o lt) = Len(ab) + Len(lt)
              /\ \A i \in 1 .. Len(ab) + Len(lt) :
                    (ab \o lt)[i] = IF i <= Len(ab) THEN ab[i] ELSE lt[i - Len(ab)]
          BY <4>1, ConcatProperties
        <4> QED
          BY <2>2, <4>1, <4>2
      <3>4. \A i \in 1 .. n : all[i] = ab[i]
        <4>1. \A i \in 1 .. n : i \in 1 .. n + c /\ i <= n
          BY <1>2, <3>1
        <4> QED
          BY <3>3, <4>1
      <3>5. \A i \in 1 .. c : n + i \in 1 .. n + c /\ ~(n + i <= n) /\ (n + i) - n = i
        BY <1>2, <3>1
      <3>6. \A i \in 1 .. c : all[n + i] = lt[i]
        BY <3>3, <3>5
      <3> QED
        BY <1>2, <3>1, <3>2, <3>3, <3>4, <3>6 DEF n
    <2>4. \A i \in 1 .. a : i \in 1 .. a + b
      BY <1>2
    <2>5. \A i \in 1 .. b : a + i \in 1 .. a + b
      BY <1>2
    <2> QED
      BY <2>1, <2>3, <2>4, <2>5
  <1>8. ASSUME NEW i \in DOMAIN all
        PROVE  \E l \in CurrLists : \E j \in DOMAIN r[l] : all[i] = Entry(d, r[l][j], l = "ltCurr")
    <2>1. i \in 1 .. a \/ i - a \in 1 .. b \/ i - (a + b) \in 1 .. c
      BY <1>2, <1>7
    <2>2. i \in Int /\ a + (i - a) = i /\ a + b + (i - (a + b)) = i
      BY <1>2, <1>7
    <2>3. CASE i \in 1 .. a
      <3>1. all[i] = Entry(d, r[first][i], first = "ltCurr")
        BY <1>1, <1>6, <1>7, <2>3
      <3> QED
        BY <1>1, <1>2, <2>3, <3>1
    <2>4. CASE i - a \in 1 .. b
      <3>1. all[i] = Entry(d, r[second][i - a], second = "ltCurr")
        BY <1>1, <1>6, <1>7, <2>2, <2>4
      <3> QED
        BY <1>1, <1>2, <2>4, <3>1
    <2>5. CASE i - (a + b) \in 1 .. c
      <3>1. all[i] = Entry(d, r["ltCurr"][i - (a + b)], "ltCurr" = "ltCurr")
        BY <1>6, <1>7, <2>2, <2>5
      <3> QED
        BY <1>1, <1>2, <2>5, <3>1
    <2> QED
      BY <2>1, <2>3, <2>4, <2>5
  <1>9. ASSUME NEW l \in CurrLists, NEW j \in DOMAIN r[l]
        PROVE  \E i \in DOMAIN all : all[i] = Entry(d, r[l][j], l = "ltCurr")
    <2>1. CASE l = first
      <3>1. j \in 1 .. a /\ (l = "ltCurr") = FALSE
        BY <1>1, <1>2, <1>9, <2>1
      <3>2. j \in DOMAIN all
        BY <1>2, <1>7, <3>1
      <3>3. all[j] = Entry(d, r[l][j], FALSE)
        BY <1>6, <1>7, <2>1, <3>1
      <3> QED
        BY <3>1, <3>2, <3>3
    <2>2. CASE l = second
      <3>1. j \in 1 .. b /\ (l = "ltCurr") = FALSE
        BY <1>1, <1>2, <1>9, <2>2
      <3>2. a + j \in DOMAIN all
        BY <1>2, <1>7, <3>1
      <3>3. all[a + j] = Entry(d, r[l][j], FALSE)
        BY <1>6, <1>7, <2>2, <3>1
      <3> QED
        BY <3>1, <3>2, <3>3
    <2>3. CASE l = "ltCurr"
      <3>1. j \in 1 .. c /\ (l = "ltCurr") = TRUE
        BY <1>2, <1>9, <2>3
      <3>2. a + b + j \in DOMAIN all
        BY <1>2, <1>7, <3>1
      <3>3. all[a + b + j] = Entry(d, r[l][j], TRUE)
        BY <1>6, <1>7, <2>3, <3>1
      <3> QED
        BY <3>1, <3>2, <3>3
    <2> QED
      BY <1>1, <2>1, <2>2, <2>3
  <1> QED
    BY <1>2, <1>3, <1>7, <1>8, <1>9 DEF r

\* A list is made of candidates, and of all of them where it is long enough and
\* not modified.
LEMMA BuildListFrom ==
    ASSUME NEW d, NEW first, NEW second, NEW all, all = Candidates(d, first, second),
           DOMAIN all = 1 .. Len(all), Len(all) \in Nat \ {0},
           NEW active \in 1 .. MaxActive, NEW picks, picks = <<>> \/ picks = <<Len(all) - 1>>,
           NEW list, list = BuildList(d, first, second, active, picks)
    PROVE  /\ ToSet(list) \subseteq ToSet(all)
           /\ active >= Len(all) /\ picks = <<>> => ToSet(all) \subseteq ToSet(list)
  <1> DEFINE n == Len(all)
             size == IF active > n THEN active ELSE n
             temp == [i \in 1 .. size |-> all[((i - 1) % n) + 1]]
             idx(i) == IF i \in DOMAIN picks THEN picks[i] + 1 ELSE i
  <1>1. list = [i \in 1 .. active |-> IF idx(i) <= size THEN temp[idx(i)] ELSE None]
    BY DEF BuildList
  <1>2. active \in Nat \ {0} /\ n \in Nat \ {0} /\ size \in Nat /\ size >= active /\ size >= n
    BY DEF MaxActive
  <1>3. \A i \in 1 .. active : idx(i) \in 1 .. size
    <2> TAKE i \in 1 .. active
    <2>1. CASE picks = <<>>
      <3>1. idx(i) = i
        BY <2>1
      <3> QED
        BY <1>2, <3>1
    <2>2. CASE picks = <<n - 1>>
      <3>1. DOMAIN picks = {1} /\ picks[1] = n - 1
        BY <2>2
      <3>2. idx(i) = i \/ idx(i) = n
        BY <1>2, <3>1
      <3> HIDE DEF idx, size
      <3> QED
        BY <1>2, <3>2
    <2> QED
      BY <2>1, <2>2
  <1>4. \A i \in 1 .. size : temp[i] \in ToSet(all) /\ (i <= n => temp[i] = all[i])
    <2> TAKE i \in 1 .. size
    <2>1. i - 1 \in Nat /\ ((i - 1) % n) \in 0 .. n - 1
      BY <1>2
    <2>2. ((i - 1) % n) + 1 \in DOMAIN all
      BY <1>2, <2>1
    <2>3. i <= n => (i - 1) % n = i - 1
      BY <1>2, <2>1
    <2>4. temp[i] = all[((i - 1) % n) + 1]
      OBVIOUS
    <2>5. i <= n => ((i - 1) % n) + 1 = i
      BY <1>2, <2>1, <2>3
    <2> HIDE DEF temp
    <2> QED
      BY <2>2, <2>4, <2>5 DEF ToSet
  <1> HIDE DEF size, temp
  <1>5. \A i \in 1 .. active : list[i] = temp[idx(i)]
    BY <1>1, <1>3
  <1>6. DOMAIN list = 1 .. active
    BY <1>1
  <1>7. ToSet(list) \subseteq ToSet(all)
    <2> HIDE DEF idx
    <2> QED
      BY <1>3, <1>4, <1>5, <1>6 DEF ToSet
  <1>8. ASSUME active >= n, picks = <<>>
        PROVE  ToSet(all) \subseteq ToSet(list)
    <2>1. \A i \in 1 .. n : i \in 1 .. active /\ i \in 1 .. size /\ i <= n /\ idx(i) = i
      BY <1>2, <1>8
    <2> HIDE DEF idx
    <2>2. \A i \in 1 .. n : i \in DOMAIN list /\ list[i] = all[i]
      BY <1>4, <1>5, <1>6, <2>1
    <2> QED
      BY <2>2 DEF ToSet
  <1> QED
    BY <1>7, <1>8

\* The lists of any picture in progress serve it.
LEMMA ListsServe ==
    ASSUME IInv
    PROVE  RefListsServe
  <1> SUFFICES ASSUME dpb.pending # NoPicture, NumPicTotalCurr(dpb) > 0
               PROVE  RefListsServe
    BY DEF RefListsServe
  <1> DEFINE rps == dpb.pending.rps
             total == NumPicTotalCurr(dpb)
             usable == UNION {Keys(rps[l]) : l \in CurrLists}
             complete == \A l \in CurrLists : None \notin ToSet(rps[l])
             long == Keys(rps["ltCurr"]) \cup Keys(rps["ltFoll"])
             Serves(list, active, picks) ==
                /\ \A e \in ToSet(list) \ {None} :
                      /\ e.key \in usable
                      /\ e.poc = dpb.pics[e.key].poc
                      /\ e.longTerm <=> dpb.pics[e.key].marking = "LongTerm"
                /\ complete => None \notin ToSet(list)
                /\ active >= total /\ picks = <<>> =>
                      {e.key : e \in ToSet(list) \ {None}} = usable
  <1>1. /\ \A l \in Lists : rps[l] \in Seq(Nat \cup {None})
        /\ dpb.pics \in [DOMAIN dpb.pics -> Picture] /\ DOMAIN dpb.pics \subseteq Nat
    BY StateParts DEF IInv, TypeOK, IsPending
  <1>2. /\ InRps(rps) = DOMAIN dpb.pics
        /\ \A k \in DOMAIN dpb.pics : dpb.pics[k].marking = "LongTerm" <=> k \in long
        /\ \A l \in ShortLists : Keys(rps[l]) \cap long = {}
    BY DEF IInv, ListsMatchMarking
  <1>3. usable \subseteq DOMAIN dpb.pics
    BY <1>2 DEF InRps, CurrLists, Lists, ShortLists
  <1>4. ASSUME NEW l \in CurrLists, NEW j \in DOMAIN rps[l], NEW e,
               e = Entry(dpb, rps[l][j], l = "ltCurr")
        PROVE  /\ rps[l][j] = None => e = None
               /\ rps[l][j] # None =>
                     /\ e # None /\ e.key = rps[l][j]
                     /\ e.key \in usable
                     /\ e.poc = dpb.pics[e.key].poc
                     /\ e.longTerm <=> dpb.pics[e.key].marking = "LongTerm"
    <2>1. CASE rps[l][j] = None
      BY <1>4, <2>1 DEF Entry
    <2>2. CASE rps[l][j] # None
      <3> DEFINE k == rps[l][j]
                 flag == (l = "ltCurr")
      <3>1. k \in Keys(rps[l]) /\ k \in usable /\ k \in DOMAIN dpb.pics
        BY <1>3, <2>2 DEF Keys, ToSet
      <3>2. dpb.pics[k].marking = "LongTerm" <=> flag
        BY <1>2, <3>1 DEF CurrLists, ShortLists
      <3>3. k \in Nat /\ dpb.pics[k].poc \in PocRange
        BY <1>1, <3>1 DEF Picture
      <3>4. flag \in BOOLEAN
        OBVIOUS
      <3> HIDE DEF flag, k
      <3>5. e = [key |-> k, poc |-> dpb.pics[k].poc, longTerm |-> flag]
        BY <1>4, <2>2, <3>1 DEF Entry, k, flag
      <3>6. e \in RefListEntry
        BY <3>3, <3>4, <3>5 DEF RefListEntry
      <3>7. e.key = k /\ e.poc = dpb.pics[k].poc /\ e.longTerm = flag
        BY <3>5
      <3>8. e # None
        BY <3>6, EntryAssumption
      <3>9. e.longTerm <=> dpb.pics[k].marking = "LongTerm"
        BY <3>2, <3>7
      <3>10. e.key \in usable /\ e.poc = dpb.pics[e.key].poc
             /\ (e.longTerm <=> dpb.pics[e.key].marking = "LongTerm")
        BY <3>1, <3>7, <3>9
      <3>11. e.key = rps[l][j]
        BY <3>7 DEF k
      <3> QED
        BY <2>2, <3>8, <3>10, <3>11
    <2> QED
      BY <2>1, <2>2
  <1>5. ASSUME NEW first, NEW second,
               <<first, second>> \in {<<"stCurrBefore", "stCurrAfter">>,
                                      <<"stCurrAfter", "stCurrBefore">>},
               NEW active \in 1 .. MaxActive, NEW picks \in {<<>>, <<total - 1>>},
               NEW list, list = BuildList(dpb, first, second, active, picks)
        PROVE  Serves(list, active, picks)
    <2> DEFINE all == Candidates(dpb, first, second)
    <2>1. /\ Len(all) = total /\ DOMAIN all = 1 .. Len(all) /\ Len(all) \in Nat
          /\ \A i \in DOMAIN all : \E l \in CurrLists : \E j \in DOMAIN rps[l] :
                all[i] = Entry(dpb, rps[l][j], l = "ltCurr")
          /\ \A l \in CurrLists : \A j \in DOMAIN rps[l] : \E i \in DOMAIN all :
                all[i] = Entry(dpb, rps[l][j], l = "ltCurr")
      BY <1>1, <1>5, CandidatesAre
    <2> HIDE DEF all, rps, usable
    <2>2. /\ ToSet(list) \subseteq ToSet(all)
          /\ active >= total /\ picks = <<>> => ToSet(all) \subseteq ToSet(list)
      <3>1. all = Candidates(dpb, first, second) /\ Len(all) \in Nat \ {0}
        BY <2>1 DEF all
      <3>2. picks = <<>> \/ picks = <<Len(all) - 1>>
        BY <1>5, <2>1
      <3>3. DOMAIN all = 1 .. Len(all)
        BY <2>1
      <3> HIDE DEF total
      <3>4. /\ ToSet(list) \subseteq ToSet(all)
            /\ active >= Len(all) /\ picks = <<>> => ToSet(all) \subseteq ToSet(list)
        BY <1>5, <3>1, <3>2, <3>3, BuildListFrom
      <3> QED
        BY <2>1, <3>4
    <2>3. ASSUME NEW e \in ToSet(all)
          PROVE  \E l \in CurrLists : \E j \in DOMAIN rps[l] :
                    e = Entry(dpb, rps[l][j], l = "ltCurr")
      BY <2>1, <2>3 DEF ToSet
    <2>4. ASSUME NEW e \in ToSet(all), e # None
          PROVE  /\ e.key \in usable
                 /\ e.poc = dpb.pics[e.key].poc
                 /\ e.longTerm <=> dpb.pics[e.key].marking = "LongTerm"
      BY <1>4, <2>3, <2>4
    <2>5. complete => None \notin ToSet(all)
      BY <1>4, <2>3 DEF ToSet
    <2>6. ASSUME NEW k \in usable
          PROVE  \E e \in ToSet(all) \ {None} : e.key = k
      <3>1. PICK l \in CurrLists : k \in Keys(rps[l])
        BY <2>6 DEF usable
      <3>2. PICK j \in DOMAIN rps[l] : rps[l][j] = k /\ k # None
        BY <3>1 DEF Keys, ToSet
      <3>3. PICK i \in DOMAIN all : all[i] = Entry(dpb, rps[l][j], l = "ltCurr")
        BY <2>1
      <3>4. all[i] # None /\ all[i].key = k
        BY <1>4, <3>2, <3>3
      <3> QED
        BY <3>4 DEF ToSet
    <2>7. complete => None \notin ToSet(list)
      BY <2>2, <2>5
    <2>8. \A e \in ToSet(list) \ {None} :
            /\ e.key \in usable
            /\ e.poc = dpb.pics[e.key].poc
            /\ e.longTerm <=> dpb.pics[e.key].marking = "LongTerm"
      BY <2>2, <2>4
    <2>9. ASSUME active >= total, picks = <<>>
          PROVE  {e.key : e \in ToSet(list) \ {None}} = usable
      BY <2>2, <2>6, <2>8, <2>9
    <2> QED
      BY <2>7, <2>8, <2>9
  <1> HIDE DEF Serves
  <1>6. ASSUME NEW active \in 1 .. MaxActive, NEW picks \in {<<>>, <<total - 1>>},
               NEW list \in ToSet(RefPicLists(dpb, active, picks))
        PROVE  Serves(list, active, picks)
    <2> DEFINE l0 == BuildList(dpb, "stCurrBefore", "stCurrAfter", active, picks)
               l1 == BuildList(dpb, "stCurrAfter", "stCurrBefore", active, picks)
    <2>1. RefPicLists(dpb, active, picks) = <<l0, l1>>
      BY DEF RefPicLists
    <2>2. list = l0 \/ list = l1
      <3> HIDE DEF l0, l1
      <3> QED
        BY <2>1 DEF ToSet
    <2> QED
      BY <1>5, <2>2
  <1> QED
    BY <1>6 DEF RefListsServe, Serves, CurrLists

-----------------------------------------------------------------------------
(* The invariant *)

\* The start.
LEMMA InitInv ==
    ASSUME Init
    PROVE  IInv
  <1>1. /\ IsState(dpb) /\ dpb.pics = <<>> /\ dpb.pending = NoPicture /\ dpb.nextKey = 0
    BY FreshState DEF Init
  <1>2. DOMAIN dpb.pics = {} /\ InProgress(dpb) = {}
    BY <1>1, NoPictures DEF InProgress, NoPicture
  <1>3. TypeOK
    <2>1. dpb.nextKey = 0
      BY <1>1
    <2>2. dpb.nextKey \in 0 .. MaxKey
      BY <2>1, InputsAssumption
    <2> QED
      BY <1>1, <2>2 DEF Init, TypeOK
  <1>4. BoundHolds
    BY <1>2, FS_EmptySet, RpsAssumption DEF BoundHolds
  <1> QED
    BY <1>1, <1>2, <1>3, <1>4 DEF Init, IInv, KeysFresh, SurfacesExact, ListsMatchMarking

\* A call that leaves no picture in progress and the buffer as it was, its
\* picture's surface freed: errors and skipped pictures.
LEMMA AnnouncedInv ==
    ASSUME IInv, NEW h, dpb' = Announced(dpb, h), surfaces' = surfaces \ Abandoned
    PROVE  IInv'
  <1>1. /\ IsState(dpb') /\ dpb'.pics = dpb.pics /\ dpb'.pending = NoPicture
        /\ dpb'.nextKey = dpb.nextKey
    BY AnnouncedState DEF IInv, TypeOK
  <1>2. InProgress(dpb') = {}
    BY <1>1 DEF InProgress, NoPicture
  <1>3. InProgress(dpb) \cap DOMAIN dpb.pics = {}
    BY DEF IInv, KeysFresh, InProgress, NoPicture
  <1>4. SurfacesExact'
    BY <1>1, <1>2, <1>3 DEF IInv, SurfacesExact, Abandoned
  <1> QED
    BY <1>1, <1>4 DEF IInv, TypeOK, KeysFresh, BoundHolds, ListsMatchMarking

\* A picture begins.
LEMMA BeginPictureInv ==
    ASSUME IInv, NEW sps \in SpsSet, NEW h \in Headers, BeginPicture(sps, h)
    PROVE  IInv'
  <1>1. sps \in Sps /\ h \in Header
    BY InputsAssumption
  <1>2. /\ IsState(dpb') /\ dpb'.nextKey = dpb.nextKey + 1
        /\ dpb'.pending # NoPicture /\ dpb'.pending.key = dpb.nextKey
        /\ DOMAIN dpb'.pics \subseteq DOMAIN dpb.pics
        /\ InRps(dpb'.pending.rps) = DOMAIN dpb'.pics
        /\ \A k \in DOMAIN dpb'.pics : dpb'.pics[k].marking = "LongTerm" <=>
              k \in Keys(dpb'.pending.rps["ltCurr"]) \cup Keys(dpb'.pending.rps["ltFoll"])
        /\ ApartFromLong(dpb'.pending.rps)
    <2>1. IsState(dpb)
      BY DEF IInv, TypeOK
    <2>2. PocOf(dpb, sps, h) \in PocRange /\ dpb' = Begun(dpb, sps, h)
      BY DEF BeginPicture
    <2> QED
      BY <1>1, <2>1, <2>2, BegunState
  <1>3. dpb.nextKey \in Nat /\ dpb'.nextKey \in 0 .. MaxKey
    BY <1>2, InputsAssumption DEF BeginPicture, IInv, TypeOK
  <1>4. TypeOK'
    BY <1>2, <1>3 DEF BeginPicture, IInv, TypeOK
  <1>5. KeysFresh'
    BY <1>2, <1>3, StateParts DEF IInv, TypeOK, KeysFresh
  <1>6. BoundHolds'
    <2>1. IsFiniteSet(DOMAIN dpb.pics) /\ Cardinality(DOMAIN dpb.pics) \in Nat
      BY StateParts, FS_CardinalityType DEF IInv, TypeOK
    <2>2. /\ Cardinality(DOMAIN dpb'.pics) <= Cardinality(DOMAIN dpb.pics)
          /\ Cardinality(DOMAIN dpb'.pics) \in Nat
      BY <1>2, <2>1, FS_Subset, FS_CardinalityType
    <2> QED
      BY <2>1, <2>2, RpsAssumption DEF IInv, BoundHolds
  <1>7. SurfacesExact'
    <2>1. InProgress(dpb') = {dpb'.pending.key}
      BY <1>2, <1>3, RpsAssumption DEF InProgress
    <2>2. surfaces' = ((surfaces \ InProgress(dpb)) \ (DOMAIN dpb.pics \ DOMAIN dpb'.pics))
                        \cup {dpb'.pending.key}
      BY DEF BeginPicture, Abandoned, Released
    <2>3. InProgress(dpb) \cap DOMAIN dpb.pics = {}
      BY DEF IInv, KeysFresh, InProgress, NoPicture
    <2>4. surfaces = DOMAIN dpb.pics \cup InProgress(dpb)
      BY DEF IInv, SurfacesExact
    <2> QED
      BY <1>2, <2>1, <2>2, <2>3, <2>4 DEF SurfacesExact
  <1>8. ListsMatchMarking'
    BY <1>2 DEF ListsMatchMarking, ApartFromLong
  <1> QED
    BY <1>4, <1>5, <1>6, <1>7, <1>8 DEF IInv

\* A picture is finished.
LEMMA FinishPictureInv ==
    ASSUME IInv, FinishPicture
    PROVE  IInv'
  <1> DEFINE key == dpb.pending.key
             added == IF dpb.pending.referenceable THEN {key} ELSE {}
  <1>1. /\ IsState(dpb) /\ dpb.pending # NoPicture
        /\ key \notin DOMAIN dpb.pics /\ key < dpb.nextKey
    BY DEF IInv, TypeOK, KeysFresh, FinishPicture
  <1>2. /\ IsState(dpb') /\ dpb'.pending = NoPicture /\ dpb'.nextKey = dpb.nextKey
        /\ DOMAIN dpb'.pics = (DOMAIN dpb.pics \ Evicted(dpb)) \cup added
        /\ Cardinality(DOMAIN dpb'.pics) <= MaxPics
    BY <1>1, FinishedState DEF FinishPicture
  <1>3. key \in Nat /\ InProgress(dpb) = {key}
    BY <1>1, StateParts, RpsAssumption DEF InProgress, IsPending
  <1>4. InProgress(dpb') = {}
    BY <1>2 DEF InProgress, NoPicture
  <1>5. SurfacesExact'
    <2>1. surfaces = DOMAIN dpb.pics \cup {key}
      BY <1>3 DEF IInv, SurfacesExact
    <2>2. surfaces' = (surfaces \ Evicted(dpb)) \ {k \in {key} : ~dpb.pending.referenceable}
      BY <1>3 DEF FinishPicture
    <2>3. Evicted(dpb) \subseteq DOMAIN dpb.pics
      BY DEF Evicted
    <2> QED
      BY <1>1, <1>2, <1>4, <2>1, <2>2, <2>3 DEF SurfacesExact
  <1>6. TypeOK'
    BY <1>2 DEF IInv, TypeOK, FinishPicture
  <1>7. KeysFresh'
    BY <1>1, <1>2 DEF IInv, KeysFresh
  <1> QED
    BY <1>2, <1>5, <1>6, <1>7 DEF IInv, BoundHolds, ListsMatchMarking

\* An end of sequence raises a flag and nothing else.
LEMMA EndOfSequenceKeeps ==
    ASSUME IsState(dpb), EndOfSequence
    PROVE  /\ IsState(dpb')
           /\ dpb'.pics = dpb.pics /\ dpb'.nextKey = dpb.nextKey
           /\ dpb'.pending = dpb.pending
  <1>1. dpb' = [pics |-> dpb.pics, prevLsb |-> dpb.prevLsb, prevMsb |-> dpb.prevMsb,
                afterEos |-> TRUE, started |-> dpb.started,
                irapNoRaslOutput |-> dpb.irapNoRaslOutput, nextKey |-> dpb.nextKey,
                pending |-> dpb.pending]
    BY DEF EndOfSequence, IsState
  <1>2. IsState(dpb')
    BY <1>1, StateParts DEF IsState
  <1> QED
    BY <1>1, <1>2

\* An end of sequence.
LEMMA EndOfSequenceInv ==
    ASSUME IInv, EndOfSequence
    PROVE  IInv'
  <1>1. /\ IsState(dpb')
        /\ dpb'.pics = dpb.pics /\ dpb'.nextKey = dpb.nextKey /\ dpb'.pending = dpb.pending
    BY EndOfSequenceKeeps DEF IInv, TypeOK
  <1>2. surfaces' = surfaces
    BY DEF EndOfSequence
  <1> QED
    BY <1>1, <1>2
       DEF IInv, TypeOK, KeysFresh, BoundHolds, SurfacesExact, InProgress, ListsMatchMarking

\* A seek.
LEMMA ClearInv ==
    ASSUME IInv, Clear
    PROVE  IInv'
  <1>1. dpb.nextKey \in Nat
    BY StateParts DEF IInv, TypeOK
  <1>2. /\ IsState(dpb') /\ dpb'.pics = <<>> /\ dpb'.pending = NoPicture
        /\ dpb'.nextKey = dpb.nextKey /\ surfaces' = {}
    BY <1>1, FreshState DEF Clear
  <1>3. DOMAIN dpb'.pics = {} /\ InProgress(dpb') = {}
    BY <1>2, NoPictures DEF InProgress, NoPicture
  <1>4. BoundHolds'
    BY <1>3, FS_EmptySet, RpsAssumption DEF BoundHolds
  <1> QED
    BY <1>2, <1>3, <1>4
       DEF IInv, TypeOK, KeysFresh, SurfacesExact, ListsMatchMarking

\* Every step.
LEMMA NextInv == IInv /\ [Next]_vars => IInv'
  <1> SUFFICES ASSUME IInv, [Next]_vars  PROVE IInv'
    OBVIOUS
  <1>1. ASSUME NEW sps \in SpsSet, NEW h \in Headers,
               BeginOverflows(sps, h) \/ BeginSkipped(sps, h)
        PROVE  IInv'
    BY <1>1, AnnouncedInv DEF BeginOverflows, BeginSkipped
  <1>2. ASSUME NEW sps \in SpsSet, NEW h \in Headers, BeginPicture(sps, h)
        PROVE  IInv'
    BY <1>2, BeginPictureInv
  <1>3. CASE FinishPicture
    BY <1>3, FinishPictureInv
  <1>4. CASE EndOfSequence
    BY <1>4, EndOfSequenceInv
  <1>5. CASE Clear
    BY <1>5, ClearInv
  <1>6. CASE UNCHANGED <<dpb, surfaces>>
    BY <1>6 DEF IInv, TypeOK, KeysFresh, BoundHolds, SurfacesExact, InProgress,
                ListsMatchMarking
  <1> QED
    BY <1>1, <1>2, <1>3, <1>4, <1>5, <1>6 DEF Next, vars, BeginRefused, FinishOutOfTurn

\* IInv is an invariant for all headers and parameter sets.
THEOREM HevcInvariance == Spec => []IInv
  <1>1. Init => IInv
    BY InitInv
  <1> QED
    BY <1>1, NextInv, PTL DEF Spec

\* At most MaxPics pictures are held, whatever the headers say.
THEOREM HevcBoundAlways == Spec => []BoundHolds
  <1>1. IInv => BoundHolds
    BY DEF IInv
  <1> QED
    BY <1>1, HevcInvariance, PTL

\* A bridge that frees what replies name holds exactly the surfaces in use.
THEOREM HevcSurfacesAlways == Spec => []SurfacesExact
  <1>1. IInv => SurfacesExact
    BY DEF IInv
  <1> QED
    BY <1>1, HevcInvariance, PTL

\* The lists of the picture in progress are the buffer, as it is marked.
THEOREM HevcListsAlways == Spec => []ListsMatchMarking
  <1>1. IInv => ListsMatchMarking
    BY DEF IInv
  <1> QED
    BY <1>1, HevcInvariance, PTL

\* The reference lists of a slice name what its picture may use, as it is marked,
\* without holes where the set has none, however they are modified and repeated.
THEOREM HevcRefListsAlways == Spec => []RefListsServe
  BY HevcInvariance, ListsServe, PTL

\* Types, the range of counts among them.
THEOREM HevcTypeCorrect == Spec => []TypeOK
  <1>1. IInv => TypeOK
    BY DEF IInv
  <1> QED
    BY <1>1, HevcInvariance, PTL

\* No step changes a stored picture's count or makes it short-term again.
THEOREM HevcMarkingAlways == Spec => MarkingOnlyWeakens
  <1> DEFINE Step == \A k \in DOMAIN dpb.pics \cap DOMAIN dpb'.pics :
                       /\ dpb'.pics[k].poc = dpb.pics[k].poc
                       /\ dpb.pics[k].marking = "LongTerm" => dpb'.pics[k].marking = "LongTerm"
  <1>1. IInv /\ [Next]_vars => [Step]_vars
    <2> SUFFICES ASSUME IInv, Next  PROVE Step
      BY DEF vars
    <2>1. dpb'.pics = dpb.pics \/ DOMAIN dpb'.pics = {} => Step
      OBVIOUS
    <2>2. ASSUME NEW sps \in SpsSet, NEW h \in Headers,
                 BeginOverflows(sps, h) \/ BeginSkipped(sps, h)
          PROVE  Step
      <3>1. dpb'.pics = dpb.pics
        BY <2>2, AnnouncedState DEF BeginOverflows, BeginSkipped, IInv, TypeOK
      <3> QED
        BY <2>1, <3>1
    <2>3. ASSUME NEW sps \in SpsSet, NEW h \in Headers, BeginPicture(sps, h)
          PROVE  Step
      <3>1. sps \in Sps /\ h \in Header /\ IsState(dpb)
        BY InputsAssumption DEF IInv, TypeOK
      <3>2. PocOf(dpb, sps, h) \in PocRange /\ dpb' = Begun(dpb, sps, h)
        BY <2>3 DEF BeginPicture
      <3> QED
        BY <3>1, <3>2, BegunState
    <2>4. CASE FinishPicture
      <3>1. /\ IsState(dpb) /\ dpb.pending # NoPicture
            /\ dpb.pending.key \notin DOMAIN dpb.pics /\ dpb' = Finished(dpb)
        BY <2>4 DEF FinishPicture, IInv, TypeOK, KeysFresh
      <3>2. \A k \in DOMAIN dpb'.pics \cap DOMAIN dpb.pics : dpb'.pics[k] = dpb.pics[k]
        <4> DEFINE added == IF dpb.pending.referenceable THEN {dpb.pending.key} ELSE {}
        <4>1. \A k \in DOMAIN Finished(dpb).pics \cap DOMAIN dpb.pics :
                 Finished(dpb).pics[k] = dpb.pics[k]
          BY <3>1, FinishedState
        <4> QED
          BY <3>1, <4>1
      <3> QED
        BY <3>2
    <2>5. CASE EndOfSequence
      <3>1. dpb'.pics = dpb.pics
        BY <2>5, EndOfSequenceKeeps DEF IInv, TypeOK
      <3> QED
        BY <2>1, <3>1
    <2>6. CASE Clear
      <3>1. dpb.nextKey \in Nat
        BY StateParts DEF IInv, TypeOK
      <3>2. dpb'.pics = <<>>
        BY <2>6, <3>1, FreshState DEF Clear
      <3> QED
        BY <2>1, <3>2, NoPictures
    <2>7. CASE UNCHANGED dpb
      BY <2>1, <2>7
    <2> HIDE DEF Step
    <2> QED
      BY <2>2, <2>3, <2>4, <2>5, <2>6, <2>7 DEF Next, BeginRefused, FinishOutOfTurn
  <1> QED
    BY <1>1, HevcInvariance, PTL DEF Spec, MarkingOnlyWeakens

=============================================================================
