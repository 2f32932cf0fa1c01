------------------------------- MODULE HevcDpb -------------------------------
(***************************************************************************)
(* HevcDpb of src/hevc/dpb.rs as a state machine: any parsed header, any   *)
(* order of calls, with the bridge that keeps a surface per key.  The      *)
(* headers need not come from an encoder; HevcSync is about those that do. *)
(***************************************************************************)
EXTENDS HevcRps

CONSTANTS
    SpsSet,     \* the sequence parameter sets the caller passes
    Headers,    \* the first slice segment headers of pictures
    MaxKey      \* bound: no picture begins once MaxKey keys are handed out

ASSUME InputsAssumption ==
    /\ SpsSet \subseteq Sps
    /\ Headers \subseteq Header
    /\ MaxKey \in Nat

VARIABLES
    dpb,        \* HevcDpb
    surfaces,   \* bridge: the keys it holds a surface for
    reply       \* what the last call returned

vars == <<dpb, surfaces, reply>>

Init ==
    /\ dpb = Fresh(0)
    /\ surfaces = {}
    /\ reply = [result |-> "none"]

InProgress(d) == {d.pending.key} \ {None}

\* A bridge that goes on to the next picture without finishing this one frees
\* the surface itself: no reply names the key again.
Abandoned == InProgress(dpb)

-----------------------------------------------------------------------------
(* The calls *)

\* A dependent segment or another layer: refused, nothing changes.
BeginRefused(h) ==
    /\ ~Acceptable(h)
    /\ reply' = [result |-> "error"]
    /\ UNCHANGED <<dpb, surfaces>>

\* The count leaves 32 bits after the flags have changed.
BeginOverflows(sps, h) ==
    /\ Acceptable(h) /\ h.lsb < sps.maxLsb
    /\ PocOf(dpb, sps, h) \notin PocRange
    /\ dpb' = Announced(dpb, h)
    /\ surfaces' = surfaces \ Abandoned
    /\ reply' = [result |-> "error"]

\* A RASL picture to be skipped.
BeginSkipped(sps, h) ==
    /\ Acceptable(h) /\ h.lsb < sps.maxLsb
    /\ PocOf(dpb, sps, h) \in PocRange
    /\ Skips(dpb, h)
    /\ dpb' = Announced(dpb, h)
    /\ surfaces' = surfaces \ Abandoned
    /\ reply' = [result |-> "skipped"]

\* A picture begins.
BeginPicture(sps, h) ==
    /\ Acceptable(h) /\ h.lsb < sps.maxLsb
    /\ PocOf(dpb, sps, h) \in PocRange
    /\ ~Skips(dpb, h)
    /\ dpb.nextKey < MaxKey
    /\ dpb' = Begun(dpb, sps, h)
    /\ reply' = [result |-> "begun", released |-> Released(dpb, dpb')]
    /\ surfaces' = ((surfaces \ Abandoned) \ reply'.released) \cup {dpb'.pending.key}

\* finish_picture: the surface of a picture that is not stored is free.
FinishPicture ==
    /\ dpb.pending # NoPicture
    /\ dpb' = Finished(dpb)
    /\ reply' = [result |-> "finished", stored |-> dpb.pending.referenceable,
                 released |-> Evicted(dpb)]
    /\ surfaces' = (surfaces \ reply'.released)
                     \ {k \in InProgress(dpb) : ~reply'.stored}

EndOfSequence ==
    /\ dpb' = [dpb EXCEPT !.afterEos = TRUE]
    /\ reply' = [result |-> "none"]
    /\ UNCHANGED surfaces

Clear ==
    /\ dpb' = Fresh(dpb.nextKey)
    /\ surfaces' = {}
    /\ reply' = [result |-> "none"]

\* finish_picture without a picture in progress.
FinishOutOfTurn ==
    /\ dpb.pending = NoPicture
    /\ reply' = [result |-> "error"]
    /\ UNCHANGED <<dpb, surfaces>>

Next ==
    \/ \E sps \in SpsSet, h \in Headers :
         \/ BeginOverflows(sps, h)
         \/ BeginSkipped(sps, h)
         \/ BeginPicture(sps, h)
    \/ \E h \in Headers : BeginRefused(h)
    \/ FinishPicture
    \/ FinishOutOfTurn
    \/ EndOfSequence
    \/ Clear

Spec == Init /\ [][Next]_vars

-----------------------------------------------------------------------------
(* Safety *)

\* Bound: the longest reference list that is looked at.
MaxActive == 5

TypeOK ==
    /\ IsState(dpb)
    /\ dpb.nextKey \in 0 .. MaxKey

\* No key is in the buffer twice or ahead of the counter, and the picture in
\* progress is not a reference yet.
KeysFresh ==
    /\ \A k \in DOMAIN dpb.pics : k < dpb.nextKey
    /\ dpb.pending # NoPicture => /\ dpb.pending.key \notin DOMAIN dpb.pics
                             /\ dpb.pending.key < dpb.nextKey

\* At most MaxPics pictures are held whatever reference picture sets say: the
\* assertion of fuzz/fuzz_targets/streams.rs.
BoundHolds == Cardinality(DOMAIN dpb.pics) <= MaxPics

\* The bridge holds a surface for exactly the references and the picture in
\* progress: nothing is freed early, nothing leaks, over restarts, errors,
\* skipped pictures and forced evictions.
SurfacesExact == surfaces = DOMAIN dpb.pics \cup InProgress(dpb)

\* While a picture is in progress each picture its five lists name is held, and
\* nothing else is; what a list calls long-term is marked long-term and what it
\* calls short-term is not, even when a header names one picture both ways.
ListsMatchMarking ==
    dpb.pending # NoPicture =>
        LET rps == dpb.pending.rps
            long == Keys(rps["ltCurr"]) \cup Keys(rps["ltFoll"])
        IN  /\ InRps(rps) = DOMAIN dpb.pics
            /\ \A k \in DOMAIN dpb.pics : dpb.pics[k].marking = "LongTerm" <=> k \in long
            /\ \A l \in ShortLists : Keys(rps[l]) \cap long = {}

\* Both lists of a B slice, modified or not and however often they repeat, name
\* pictures of the set with the marking they have, have no hole where the set has
\* none, and name the whole set when they are long enough.
RefListsServe ==
    dpb.pending # NoPicture /\ NumPicTotalCurr(dpb) > 0 =>
        LET rps == dpb.pending.rps
            total == NumPicTotalCurr(dpb)
            curr == {"stCurrBefore", "stCurrAfter", "ltCurr"}
            usable == UNION {Keys(rps[l]) : l \in curr}
            complete == \A l \in curr : None \notin ToSet(rps[l])
        IN  \A active \in 1 .. MaxActive, picks \in {<<>>, <<total - 1>>} :
            \A list \in ToSet(RefPicLists(dpb, active, picks)) :
              LET entries == ToSet(list) \ {None}
              IN  /\ \A e \in entries :
                        /\ e.key \in usable
                        /\ e.poc = dpb.pics[e.key].poc
                        /\ e.longTerm <=> dpb.pics[e.key].marking = "LongTerm"
                  /\ complete => None \notin ToSet(list)
                  /\ active >= total /\ picks = <<>> => {e.key : e \in entries} = usable

\* The inductive invariant.
IInv == TypeOK /\ KeysFresh /\ BoundHolds /\ SurfacesExact /\ ListsMatchMarking

\* A stored picture never changes its count, and a long-term picture is never
\* a short-term one again.
MarkingOnlyWeakens ==
    [][\A k \in DOMAIN dpb.pics \cap DOMAIN dpb'.pics :
          /\ dpb'.pics[k].poc = dpb.pics[k].poc
          /\ dpb.pics[k].marking = "LongTerm" => dpb'.pics[k].marking = "LongTerm"]_vars

=============================================================================
