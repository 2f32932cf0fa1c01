------------------------------ MODULE H264Bridge ------------------------------
(***************************************************************************)
(* A hardware bridge driving H264Dpb: it keeps one surface for every key   *)
(* it was told of and frees a surface when a reply says that nothing holds *)
(* the key any more.  The bridge is not part of the crate; what it does    *)
(* with a reply is what the documentation of CurrentPicture and            *)
(* FinishedPicture asks of it.                                             *)
(***************************************************************************)
EXTENDS H264Dpb

CONSTANT ClearsAfterError   \* does the bridge restart when begin_picture fails?

ASSUME ClearsAfterErrorAssumption == ClearsAfterError \in BOOLEAN

\* An absent value is none of the values that may stand in its place.
ASSUME AbsentAssumption ==
    /\ None \notin CurrentPicture /\ None \notin LastField /\ None \notin GapLoop
    /\ None # Failed /\ None \notin [result : {"begun", "cleared"}] \cup Finished

VARIABLES
    surfaces,   \* the keys the bridge holds a surface for
    lost        \* begin_picture failed and the bridge has not restarted yet

bridgeVars == <<vars, surfaces, lost>>

BridgeInit == Init /\ surfaces = {} /\ lost = FALSE

Replies(result) == reply' # None /\ reply'.result = result

\* A picture begins: its surface, and one for every frame inserted for a gap.
OnBegun ==
    /\ Replies("begun")
    /\ surfaces' = (surfaces \cup {pending'.key} \cup pending'.nonExisting)
                     \ {pending'.abandonedFirstField}
    /\ UNCHANGED lost

\* A picture is finished.  The surface of a picture that is neither stored nor
\* waiting for its second field goes to the display and is free.
OnFinished ==
    /\ Replies("finished")
    /\ surfaces' = surfaces \ (reply'.released
                     \cup {k \in {reply'.key} : ~reply'.stored
                                                 /\ ~reply'.awaitingSecondField})
    /\ UNCHANGED lost

OnCleared == Replies("cleared") /\ surfaces' = {} /\ lost' = FALSE

OnError == Replies("error") /\ lost' = ClearsAfterError /\ UNCHANGED surfaces

OnNothing == reply' = None /\ UNCHANGED <<surfaces, lost>>

React == OnBegun \/ OnFinished \/ OnCleared \/ OnError \/ OnNothing

BridgeNext ==
    \/ /\ ~lost
       /\ \/ \E sps \in SpsSet, h \in Headers : Begin(sps, h)
          \/ \E sps \in SpsSet : Finish(sps)
          \/ Continue
       /\ React
    \/ Clear /\ React

BridgeSpec == BridgeInit /\ [][BridgeNext]_bridgeVars

-----------------------------------------------------------------------------
(* Safety *)

Awaited == IF lastField = None THEN {} ELSE {lastField.key}

InProgress == IF pending = None THEN {} ELSE {pending.key}

Settles == Idle /\ ~lost

\* No key is used after its surface was freed: whatever the buffer may still
\* name, as a reference, as the picture in progress or as a first field whose
\* second may follow, has a surface.
NamedKeysHaveSurfaces ==
    Settles => DOMAIN stores \cup InProgress \cup Awaited \subseteq surfaces

\* No surface is kept for a key the buffer will never mention again: what is
\* not named any more has been reported, or is about to be with the picture in
\* progress.
NoSurfaceLeaks ==
    Settles => surfaces \subseteq
                 DOMAIN stores \cup InProgress \cup Awaited \cup releasedEarly

\* The pool a bridge must reserve: the references of the picture in progress,
\* those that a gap before it replaced, and its own surface.
PoolBound ==
    \A cap \in {RefCap(sps) : sps \in SpsSet} :
        Settles /\ (\A sps \in SpsSet : RefCap(sps) = cap) =>
            Cardinality(surfaces) <= 2 * cap + 1

\* The bridge holds exactly the surfaces the buffer can still name or report:
\* none is freed while it may be read or written, none is kept for ever, and a
\* pool of 2 * capacity + 1 is enough.
SurfacesAccounted == NamedKeysHaveSurfaces /\ NoSurfaceLeaks /\ PoolBound

\* The long-term pictures leave room for the reference picture that is about to be
\* stored (8.2.5.1: marked pictures, the current one included, are at most
\* max_num_ref_frames).  Nothing in the code checks it: with a buffer full of
\* long-term pictures the capacity takes the new picture out at once.
LeavesRoom(key) ==
    \A sps \in SpsSet : Cardinality(Holders(stores, "LongTerm") \ {key}) < RefCap(sps)

RoomForCurrent ==
    /\ pending # None /\ pending.header.reference /\ ~pending.header.idr
         /\ ~pending.header.adaptive => LeavesRoom(pending.key)
    /\ marking # None /\ marking.next > Len(marking.current.header.mmco)
         => LeavesRoom(marking.current.key)

\* The parameter sets of the stream count frame_num modulo the same MaxFrameNum,
\* as those of one coded video sequence do.
AgreeOnFrameNum == \A s, t \in SpsSet : s.maxFrameNum = t.maxFrameNum

-----------------------------------------------------------------------------
(* The inductive invariant behind them *)

\* The key of the picture in progress, its commands included.
Current == InProgress \cup (IF marking = None THEN {} ELSE {marking.current.key})

\* What begin_picture will report: frames it inserts, a first field it gives up.
Inserted == IF gap = None THEN {} ELSE gap.nonExisting

GivenUp == IF gap = None THEN {} ELSE {gap.abandonedFirstField} \ {None}

\* Surfaces and keys agree in the middle of a call as well.
KeysCovered ==
    /\ (DOMAIN stores \ Inserted) \cup Current \cup Awaited \subseteq surfaces
    /\ surfaces \subseteq DOMAIN stores \cup Current \cup Awaited \cup releasedEarly \cup GivenUp

\* What may be reported and what may not be any more.
KeysReported ==
    /\ Inserted \subseteq DOMAIN stores
    /\ GivenUp \cap DOMAIN stores = {} /\ \A k \in GivenUp : k < nextKey
    /\ Current = {} => releasedEarly = {}
    /\ lastField # None => (lastField.key \in DOMAIN stores <=> lastField.reference)
    /\ pending # None /\ ~pending.secondField => pending.key = nextKey - 1
    /\ marking # None /\ ~marking.current.secondField => marking.current.key = nextKey - 1

\* Frames of the gap that are still to come, those that will be skipped included.
Remaining(g) ==
    IF g.unused <= g.header.frameNum THEN g.header.frameNum - g.unused
    ELSE g.header.frameNum + g.sps.maxFrameNum - g.unused

\* What is stored and what a gap may still insert.
StoresBounded(cap) ==
    /\ gap = None /\ Current = {} => Cardinality(DOMAIN stores) <= cap
    /\ gap # None =>
         /\ gap.skip <= Remaining(gap)
         /\ \E n \in 0 .. cap : /\ n + Remaining(gap) - gap.skip <= cap
                                /\ Cardinality(DOMAIN stores) <= cap + n
    /\ pending # None => Cardinality(DOMAIN stores \cup releasedEarly) <= 2 * cap

\* Every frame_num is below the modulus.
FrameNumsBelow ==
    \A sps \in SpsSet :
        /\ \A k \in DOMAIN stores : stores[k].frameNum < sps.maxFrameNum
        /\ pending # None => pending.header.frameNum < sps.maxFrameNum
                             /\ pending.maxFrameNum = sps.maxFrameNum
        /\ marking # None => marking.current.header.frameNum < sps.maxFrameNum
                             /\ marking.current.maxFrameNum = sps.maxFrameNum
        /\ gap # None => gap.unused < sps.maxFrameNum /\ gap.header.frameNum < sps.maxFrameNum

SurfacesInv ==
    ~lost => /\ KeysCovered /\ KeysReported /\ FrameNumsBelow
             /\ \A cap \in {RefCap(sps) : sps \in SpsSet} :
                   (\A sps \in SpsSet : RefCap(sps) = cap) => StoresBounded(cap)

=============================================================================
