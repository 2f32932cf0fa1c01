------------------------------- MODULE Av1Frame -------------------------------
(***************************************************************************)
(* What the frame header of AV1 derives (src/av1/frame.rs): reference      *)
(* selection from order hints, the frame identifiers still valid, tiles    *)
(* and their data, and the code of the global motion parameters.           *)
(*                                                                         *)
(* hints is RefOrderHint of the slots, numbered from 0; names of the seven *)
(* references are numbers from 1 (LAST) to 7 (ALTREF).                     *)
(***************************************************************************)
LOCAL INSTANCE Integers
LOCAL INSTANCE Sequences
LOCAL INSTANCE SequencesExt
LOCAL INSTANCE FiniteSets

RefsPerFrame == 7

\* get_relative_dist: the distance from b to a, modulo 2^bits.
RelativeDist(bits, a, b) ==
    IF bits = 0 THEN 0
    ELSE LET m == 2^(bits - 1)
             d == (a - b) % (2 * m)
         IN  (d % m) - m * (d \div m)

-----------------------------------------------------------------------------
(* the set frame refs process *)

Least(S) == CHOOSE x \in S : \A y \in S : x <= y
Greatest(S) == CHOOSE x \in S : \A y \in S : y <= x

\* Slots among free on one side of the current frame: the last one that shows
\* latest, the first one that shows earliest; none is -1.
LatestOf(free, dist) ==
    IF free = {} THEN -1
    ELSE Greatest({i \in free : \A j \in free : dist[j] <= dist[i]})

\* Mutant: the first slot, whenever it shows.
EarliestAny(free, dist) == IF free = {} THEN -1 ELSE Least(free)

EarliestOf(free, dist) ==
    IF free = {} THEN -1
    ELSE Least({i \in free : \A j \in free : dist[i] <= dist[j]})

\* One more reference: its slot and the slots in use.
Assign(refs, name, slot) == IF slot < 0 THEN refs ELSE [refs EXCEPT ![name] = slot]

\* Slots not in use that show after the current frame, and before it.
InUse(refs) == {refs[n] : n \in DOMAIN refs}
After(dist, refs) == {i \in DOMAIN dist \ InUse(refs) : dist[i] >= 0}
Before(dist, refs) == {i \in DOMAIN dist \ InUse(refs) : dist[i] < 0}

Later(dist, refs, name) == Assign(refs, name, EarliestOf(After(dist, refs), dist))
Earlier(dist, refs, name) ==
    IF refs[name] < 0 THEN Assign(refs, name, LatestOf(Before(dist, refs), dist)) ELSE refs

SetFrameRefs(bits, hints, current, last, gold) ==
    LET dist     == [i \in DOMAIN hints |-> RelativeDist(bits, hints[i], current)]
        named    == [n \in 1 .. RefsPerFrame |-> IF n = 1 THEN last ELSE IF n = 4 THEN gold ELSE -1]
        altref   == Assign(named, 7, LatestOf(After(dist, named), dist))
        backward == Later(dist, Later(dist, altref, 5), 6)
        forward  == Earlier(dist, Earlier(dist, Earlier(dist, Earlier(dist, Earlier(dist, backward, 2), 3), 5), 6), 7)
        oldest   == EarliestOf(DOMAIN hints, dist)
    IN  [n \in 1 .. RefsPerFrame |-> IF forward[n] < 0 THEN oldest ELSE forward[n]]

\* skip_mode_frames over the hints of the references: the nearest before and the
\* nearest after the current frame, or the two nearest before it.
SkipModeFrames(bits, refHints, current) ==
    LET nearer(best, n, accept, better) ==
            IF accept /\ (best = 0 \/ better) THEN n ELSE best
        hint(n) == refHints[n]
        forward == FoldLeft(LAMBDA f, n : nearer(f, n, RelativeDist(bits, hint(n), current) < 0,
                                                 f # 0 /\ RelativeDist(bits, hint(n), hint(f)) > 0),
                            0, [n \in 1 .. RefsPerFrame |-> n])
        backward == FoldLeft(LAMBDA b, n : nearer(b, n, RelativeDist(bits, hint(n), current) > 0,
                                                  b # 0 /\ RelativeDist(bits, hint(n), hint(b)) < 0),
                             0, [n \in 1 .. RefsPerFrame |-> n])
        second == FoldLeft(LAMBDA s, n : nearer(s, n, RelativeDist(bits, hint(n), hint(forward)) < 0,
                                                s # 0 /\ RelativeDist(bits, hint(n), hint(s)) > 0),
                           0, [n \in 1 .. RefsPerFrame |-> n])
        pair(a, b) == IF a < b THEN <<a, b>> ELSE <<b, a>>
    IN  IF forward = 0 THEN <<>>
        ELSE IF backward # 0 THEN pair(forward, backward)
        ELSE IF second # 0 THEN pair(forward, second)
        ELSE <<>>

\* mark_ref_frames: does a slot keep its frame?
IdKept(idBits, diffBits, current, id) ==
    LET window == 2^diffBits
    IN  IF current > window THEN ~(id > current \/ id < current - window)
        ELSE ~(id > current /\ id < 2^idBits + current - window)

-----------------------------------------------------------------------------
(* tile_info, in superblocks; g holds the limits of the sequence, codes the   *)
(* numbers the bits give, none at their end                                    *)

TileLog2(blk, target) ==
    LET from[k \in Nat] == IF blk * 2^k >= target THEN k ELSE from[k + 1]
    IN  from[0]

CodeAt(codes, i) == IF i > Len(codes) THEN 0 ELSE codes[i]
Behind(codes, n) == SubSeq(codes, n + 1, Len(codes))

\* A log2 that grows by one bit of the code at a time up to its limit.
Increment(log2, limit, codes) ==
    LET ones[n \in Nat] == IF log2 + n < limit /\ CodeAt(codes, n + 1) = 1 THEN ones[n + 1] ELSE n
        grown == log2 + ones[0]
    IN  [log2 |-> grown, codes |-> Behind(codes, IF grown < limit THEN ones[0] + 1 ELSE ones[0])]

\* Starts of tiles of one size.
UniformStarts(total, log2) ==
    LET size == (total + 2^log2 - 1) \div 2^log2
    IN  [i \in 1 .. (total + size - 1) \div size |-> (i - 1) * size]

\* Starts of tiles of coded sizes, none of more than widest; ns(n) codes less
\* than n.
CodedStarts(total, limit, codes) ==
    LET from[start \in Nat, i \in Nat] ==
          IF start >= total THEN [starts |-> <<>>, widest |-> 0, codes |-> Behind(codes, i - 1)]
          ELSE LET bound == IF total - start < limit THEN total - start ELSE limit
                   size  == (CodeAt(codes, i) % bound) + 1
                   rest  == from[start + size, i + 1]
               IN  [starts |-> <<start>> \o rest.starts, codes |-> rest.codes,
                    widest |-> IF size > rest.widest THEN size ELSE rest.widest]
    IN  from[0, 1]

TileInfo(g, uniform, codes) ==
    LET minCols  == TileLog2(g.maxWidth, g.cols)
        maxCols  == TileLog2(1, IF g.cols < g.maxTiles THEN g.cols ELSE g.maxTiles)
        maxRows  == TileLog2(1, IF g.rows < g.maxTiles THEN g.rows ELSE g.maxTiles)
        byArea   == TileLog2(g.maxArea, g.rows * g.cols)
        minTiles == IF minCols > byArea THEN minCols ELSE byArea
    IN  IF uniform
          THEN LET c == Increment(minCols, maxCols, codes)
                   r == Increment(IF minTiles > c.log2 THEN minTiles - c.log2 ELSE 0, maxRows, c.codes)
               IN  [cols |-> UniformStarts(g.cols, c.log2), colsLog2 |-> c.log2,
                    rows |-> UniformStarts(g.rows, r.log2), rowsLog2 |-> r.log2]
          ELSE LET c     == CodedStarts(g.cols, g.maxWidth, codes)
                   area  == IF minTiles > 0 THEN (g.rows * g.cols) \div 2^(minTiles + 1) ELSE g.rows * g.cols
                   high  == area \div c.widest
                   r     == CodedStarts(g.rows, IF high > 1 THEN high ELSE 1, c.codes)
               IN  IF Len(c.starts) > g.maxTiles \/ Len(r.starts) > g.maxTiles THEN [cols |-> <<>>]
                   ELSE [cols |-> c.starts, colsLog2 |-> TileLog2(1, Len(c.starts)),
                         rows |-> r.starts, rowsLog2 |-> TileLog2(1, Len(r.starts))]

-----------------------------------------------------------------------------
(* parse_tile_group: layout of the tiles start .. end in length bytes behind  *)
(* the header, up to one that does not fit; sizes are the size fields met,    *)
(* each of fieldBytes                                                         *)

TilesOf(g, sizes) ==
    LET tiles[n \in Nat, at \in Nat] ==
          LET last == n = g.end
              from == IF last THEN at ELSE at + g.fieldBytes
              size == IF last THEN g.length - at ELSE CodeAt(sizes, n - g.start + 1) + 1
          IN  IF from > g.length \/ size <= 0 \/ from + size > g.length THEN <<>>
              ELSE LET tile == [num |-> n, row |-> n \div g.cols, col |-> n % g.cols, offset |-> from, size |-> size]
                   IN  <<tile>> \o (IF last THEN <<>> ELSE tiles[n + 1, from + size])
    IN  tiles[g.start, g.at]

\* Nothing is returned of a group that does not fit its g.cols * g.rows tiles or
\* its data.
TileGroup(g, sizes) ==
    LET tiles == IF g.start > g.end \/ g.end >= g.cols * g.rows THEN <<>> ELSE TilesOf(g, sizes)
    IN  IF Len(tiles) = g.end - g.start + 1 THEN tiles ELSE <<>>

-----------------------------------------------------------------------------
(* the code of global motion parameters *)

\* decode_subexp: a unary bucket, each as wide as all before it, and a number in
\* it; the last bucket is coded with ns.  codes are the bits and numbers met.
Subexp(symbols, codes) ==
    LET bucket[i \in Nat, mk \in Nat] ==
          LET a == 2^(IF i = 0 THEN 3 ELSE 3 + i - 1)
          IN  IF symbols <= mk + 3 * a THEN (CodeAt(codes, i + 1) % (symbols - mk)) + mk
              ELSE IF CodeAt(codes, i + 1) = 1 THEN bucket[i + 1, mk + a]
              ELSE (CodeAt(codes, i + 2) % a) + mk
    IN  bucket[0, 0]

\* inverse_recenter: codes alternate around r, then go on beyond 2r.
InverseRecenter(r, v) ==
    IF v > 2 * r THEN v ELSE IF v % 2 = 1 THEN r - (v + 1) \div 2 ELSE r + v \div 2

\* decode_signed_subexp_with_ref of the code v: a number in low .. high - 1.
WithRef(low, high, ref, v) ==
    LET mx == high - low
        r  == ref - low
    IN  IF 2 * r <= mx THEN InverseRecenter(r, v) + low
        ELSE mx - 1 - InverseRecenter(mx - 1 - r, v) + low

\* The width of a parameter and the bits of its fraction (read_global_param).
ParamBits(translation, index, precise) ==
    IF index >= 2 THEN [abs |-> 12, prec |-> 15]
    ELSE IF translation THEN [abs |-> IF precise THEN 9 ELSE 8, prec |-> IF precise THEN 3 ELSE 2]
    ELSE [abs |-> 12, prec |-> 6]

\* read_global_param from the code v against the previous value.
GlobalParam(translation, index, precise, prev, v) ==
    LET bits  == ParamBits(translation, index, precise)
        step  == 2^(16 - bits.prec)
        round == IF index % 3 = 2 THEN 2^16 ELSE 0
        sub   == IF index % 3 = 2 THEN 2^bits.prec ELSE 0
        mx    == 2^bits.abs
    IN  WithRef(-mx, mx + 1, (prev \div step) - sub, v) * step + round

=============================================================================
