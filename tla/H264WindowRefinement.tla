------------------------- MODULE H264WindowRefinement -------------------------
(***************************************************************************)
(* H264Dpb implements H264Window for streams without memory management     *)
(* commands: the keys of the references are the window.                    *)
(***************************************************************************)
EXTENDS H264Dpb

\* The streams the refinement is about.
ASSUME SlidingOnly ==
    \A h \in Headers : ~h.adaptive /\ ~h.longTermReference

\* The window is read off one sequence parameter set, and is smaller than the
\* cycle of frame_num: the FrameNumWrap of two references never coincide.
ASSUME OneWindow ==
    \E sps \in SpsSet : SpsSet = {sps} /\ RefCap(sps) < sps.maxFrameNum

\* The counts of IDR pictures are in range.  begin_picture has set
\* prev_ref_frame_num to 0 when it refuses one, while the references stay.
ASSUME IdrCounted ==
    \A sps \in SpsSet, h \in Headers :
        h.idr /\ ParsedAgainst(sps, h) => Derive(InitPocState, sps, h) # None

\* A picture in progress is not the absence of one.
ASSUME PictureAssumption == None \notin CurrentPicture

TheSps == CHOOSE sps \in SpsSet : TRUE

Window == INSTANCE H264Window WITH
    window <- References(stores),
    Cap    <- RefCap(TheSps)

\* Every step of every call is a step of the window or leaves it alone: no
\* frame is dropped before an older one, whatever frame_num does (wraps, gaps,
\* fields and pairs, failures half way), and none outlives Cap newer ones.
ImplementsWindow == Window!Spec

-----------------------------------------------------------------------------
(* The inductive invariant behind it *)

\* How far the frame_num of store k is behind n.
Behind(st, k, n, max) ==
    IF st[k].frameNum <= n THEN n - st[k].frameNum ELSE n + max - st[k].frameNum

\* The references by frame_num, seen from n, are the references by key, and those
\* between a picture and n have all entered after it.
InStep(st, n, sps) ==
    LET refs == References(st)
        max  == sps.maxFrameNum
    IN  /\ Cardinality(refs) <= RefCap(sps)
        /\ \A k \in refs : /\ st[k].frameNum < max
                           /\ Behind(st, k, n, max) <= Cardinality(Window!Newer(refs, k))
        /\ \A j, k \in refs : j < k => Behind(st, j, n, max) >= Behind(st, k, n, max)

FrameNumAfter(n, sps) == IF n + 1 = sps.maxFrameNum THEN 0 ELSE n + 1

\* A picture with frame_num n goes on from the reference frame before it.
GoesOn(n, sps) ==
    References(stores) # {} => n \in {prevRefFrameNum, FrameNumAfter(prevRefFrameNum, sps)}

\* The picture in progress, or the field that may be paired: no store is newer.
PictureInStep(key, frameNum, sps) ==
    /\ frameNum < sps.maxFrameNum
    /\ \A k \in DOMAIN stores : k <= key

\* What a second field finds: its first field, while that is a reference, and no
\* reference frame since.
SecondFieldInStep(reference, frameNum) ==
    /\ DOMAIN stores = References(stores)
    /\ reference => frameNum = prevRefFrameNum

\* An IDR picture in progress has set prevRefFrameNum and replaces the references.
RefsInStep ==
    ~(pending # None /\ pending.header.idr) => InStep(stores, prevRefFrameNum, TheSps)

GapInStep ==
    gap # None =>
       /\ ~gap.header.idr /\ gap.header.frameNum < TheSps.maxFrameNum
       /\ gap.unused < TheSps.maxFrameNum
       /\ References(stores) # {} =>
            gap.skip = 0 /\ gap.unused = FrameNumAfter(prevRefFrameNum, TheSps)

PendingInStep ==
    pending # None =>
       LET h == pending.header
       IN  /\ pending.maxFrameNum = TheSps.maxFrameNum
           /\ PictureInStep(pending.key, h.frameNum, TheSps)
           /\ h.idr => ~pending.secondField
           /\ ~h.idr => GoesOn(h.frameNum, TheSps)
           /\ pending.secondField => SecondFieldInStep(h.reference, h.frameNum)

LastFieldInStep ==
    lastField # None =>
       /\ PictureInStep(lastField.key, lastField.frameNum, TheSps)
       /\ GoesOn(lastField.frameNum, TheSps)
       /\ SecondFieldInStep(lastField.reference, lastField.frameNum)

WindowInv ==
    /\ marking = None
    /\ Holders(stores, "LongTerm") = {}
    /\ prevRefFrameNum < TheSps.maxFrameNum
    /\ RefsInStep /\ GapInStep /\ PendingInStep /\ LastFieldInStep

=============================================================================
