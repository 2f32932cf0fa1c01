---------------------------- MODULE H264GapShortcut ----------------------------
(***************************************************************************)
(* The wide-gap shortcut of begin_picture against clause 8.2.5.2.  The     *)
(* clause infers one frame after another, each through the sliding window; *)
(* the code drops every short-term field, steps the count state over the   *)
(* frames that cannot survive and inserts only the rest.                   *)
(***************************************************************************)
EXTENDS H264Dpb

VARIABLE entry      \* the state begin_picture met when it entered a gap, or None

shortcutVars == <<vars, entry>>

ShortcutInit == Init /\ entry = None

RecordEntry ==
    entry' = CASE gap = None /\ gap' # None ->
                    [stores |-> stores, poc |-> poc, unused |-> gap'.unused,
                     nextKey |-> nextKey]
               [] gap # None /\ gap' = None -> None
               [] OTHER -> entry

ShortcutNext == Next /\ RecordEntry

ShortcutSpec == ShortcutInit /\ [][ShortcutNext]_shortcutVars

-----------------------------------------------------------------------------
(* The clause: every frame of the gap is inferred *)

\* The frames between from and frameNum, and the i-th frame_num behind from.
Missing(sps, from, frameNum) == (frameNum + sps.maxFrameNum - from) % sps.maxFrameNum
FrameNumAt(sps, from, i) == (from + i) % sps.maxFrameNum

\* One inferred frame; None once a count has overflowed.
Infer(sps, walk, frameNum) ==
    LET counts == DeriveNonExisting(walk.poc, sps, frameNum)
        slid == SlidingWindow(walk.stores, sps, frameNum, sps.maxFrameNum, None)
    IN  IF counts = None THEN None
        ELSE [stores |-> [k \in DOMAIN slid \cup {walk.nextKey} |->
                            IF k = walk.nextKey THEN NonExistingStore(frameNum, counts)
                            ELSE slid[k]],
              poc |-> FinishNonExisting(walk.poc, frameNum, counts),
              nextKey |-> walk.nextKey + 1]

\* What the first m frames behind the state start leave.
Walk(sps, start, m) ==
    LET walk[n \in 0 .. m] ==
          IF n = 0 THEN [stores |-> start.stores, poc |-> start.poc, nextKey |-> start.nextKey]
          ELSE IF walk[n - 1] = None THEN None
          ELSE Infer(sps, walk[n - 1], FrameNumAt(sps, start.unused, n - 1))
    IN  walk[m]

-----------------------------------------------------------------------------
(* What 7.4.3 asks of a stream with gaps *)

\* No short-term picture has the frame_num of a frame that is missing, as one would
\* that has stayed since the numbers last wrapped.  The code does not ask for it.
Free(sps, frameNum, start) ==
    \A k \in Holders(start.stores, "ShortTerm") :
        LET n == start.stores[k].frameNum
        IN  /\ n < sps.maxFrameNum
            /\ \A i \in 0 .. Missing(sps, start.unused, frameNum) - 1 :
                  n # FrameNumAt(sps, start.unused, i)

NumbersFree == gap # None => Free(gap.sps, gap.header.frameNum, entry)

-----------------------------------------------------------------------------
(* Safety *)

\* At the end of a gap the references and the state of the counts are those
\* the frame-by-frame walk leaves, whatever the stores held (long-term fields
\* take part in the window and stay) and however often frame_num wrapped; only
\* the keys differ, of which the walk takes more.  The walk may overflow where
\* the shortcut, which saturates, goes on.
ShortcutEqualsWalk ==
    gap # None /\ gap.skip = 0 /\ gap.unused = gap.header.frameNum =>
        LET walk == Walk(gap.sps, entry, Missing(gap.sps, entry.unused, gap.header.frameNum))
            AsWalked(k) == IF k < entry.nextKey THEN k ELSE k + (walk.nextKey - nextKey)
        IN  walk # None =>
              /\ References(walk.stores) = {AsWalked(k) : k \in References(stores)}
              /\ \A k \in References(stores) : stores[k] = walk.stores[AsWalked(k)]
              /\ poc = walk.poc

-----------------------------------------------------------------------------
(* The inductive invariant behind it *)

\* The stores without their short-term fields.
Cleared(st) == Unmark(st, FieldsMarked(st, "ShortTerm"))

\* How many short-term pictures the capacity leaves beside the long-term ones, the
\* picture that is inferred included.
WindowSize(st, sps) ==
    LET long == Cardinality(Holders(st, "LongTerm"))
    IN  IF long < RefCap(sps) THEN RefCap(sps) - long ELSE 1

\* The stores of the frames the walk infers.
InferredStores(sps, start) ==
    [i \in 0 .. sps.maxFrameNum - 1 |->
       LET n == FrameNumAt(sps, start.unused, i)
       IN  NonExistingStore(n, DeriveNonExisting(Walk(sps, start, i).poc, sps, n))]

\* The buffer old once it holds the frames lo .. j - 1 of a gap, frame i under the key
\* base + i: the short-term pictures fit in the window, the newest of these frames are
\* among them, and a picture the window has dropped keeps no short-term field.
Filled(st, old, size, base, lo, j, inferred) ==
    LET short == Holders(st, "ShortTerm")
    IN  /\ AreStores(st)
        /\ DOMAIN st = DOMAIN old \cup {base + i : i \in lo .. j - 1}
        /\ lo < j => Cardinality(short) <= size
        /\ \A i \in lo .. j - 1 :
             /\ j - i <= size => base + i \in short
             /\ IF base + i \in short THEN st[base + i] = inferred[i]
                ELSE ~IsReference(st[base + i])
        /\ \A k \in DOMAIN old :
             st[k] = IF k \in short THEN old[k] ELSE Cleared(old)[k]

\* The state of the counts is the walk's; that of count type 0 has no offset, which
\* the frames of the gap reset and the skipped ones leave alone.
CountsFollow(p, q, skipping) ==
    /\ p.prevFrameNum = q.prevFrameNum
    /\ p.prevMsb = q.prevMsb /\ p.prevLsb = q.prevLsb
    /\ ~skipping => p.prevFrameNumOffset = q.prevFrameNumOffset

\* How many frames the loop skips before it inserts the rest.
Skipped(sps, start, frameNum) ==
    LET width == Missing(sps, start.unused, frameNum)
    IN  IF width > RefCap(sps) THEN width - RefCap(sps) ELSE 0

\* The loop and the walk side by side, i frames behind start.
Follows(sps, frameNum, start, i, loop) ==
    LET skip   == Skipped(sps, start, frameNum)
        size   == WindowSize(start.stores, sps)
        frames == InferredStores(sps, start)
        walk   == Walk(sps, start, i)
    IN  /\ i <= Missing(sps, start.unused, frameNum)
        /\ loop.unused = FrameNumAt(sps, start.unused, i)
        /\ loop.skip = IF i < skip THEN skip - i ELSE 0
        /\ loop.nextKey = start.nextKey + (IF i > skip THEN i - skip ELSE 0)
        /\ skip > 0 /\ i <= skip => loop.stores = Cleared(start.stores)
        /\ walk # None =>
             /\ walk.poc \in PocState
             /\ CountsFollow(loop.poc, walk.poc, i <= skip /\ sps.pocType = 0)
             /\ walk.nextKey = start.nextKey + i
             /\ skip = 0 => loop.stores = walk.stores /\ loop.poc = walk.poc
             /\ skip > 0 => Filled(walk.stores, start.stores, size, start.nextKey, 0, i, frames)
             /\ skip > 0 /\ i > skip =>
                  Filled(loop.stores, start.stores, size, start.nextKey - skip, skip, i, frames)

GapFollows(i) ==
    Follows(gap.sps, gap.header.frameNum, entry, i,
            [unused |-> gap.unused, skip |-> gap.skip, nextKey |-> nextKey,
             stores |-> stores, poc |-> poc])

\* A field that has not been decoded is not marked.
OnlyDecodedMarked(st) ==
    \A k \in DOMAIN st, p \in Parities :
        ~st[k].fields[p].decoded => st[k].fields[p].marking = "Unused"

\* The state a gap is met in, and the frame_num it ends before.
Entered(sps, frameNum, start) ==
    /\ AreStores(start.stores) /\ IsFiniteSet(DOMAIN start.stores)
    /\ start.nextKey \in Nat /\ \A k \in DOMAIN start.stores : k < start.nextKey
    /\ OnlyDecodedMarked(start.stores)
    /\ start.poc \in PocState
    /\ start.unused \in Nat /\ start.unused < sps.maxFrameNum
    /\ frameNum < sps.maxFrameNum

GapInv ==
    /\ OnlyDecodedMarked(stores)
    /\ gap # None =>
         /\ Entered(gap.sps, gap.header.frameNum, entry)
         /\ \E i \in 0 .. Missing(gap.sps, entry.unused, gap.header.frameNum) : GapFollows(i)

=============================================================================
