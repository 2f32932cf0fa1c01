------------------------------- MODULE HevcSync -------------------------------
(***************************************************************************)
(* An HEVC encoder, a channel and HevcDpb (src/hevc/dpb.rs).  The encoder  *)
(* writes conforming reference picture sets for random access and temporal *)
(* sub-layers; a receiver may join at any CRA picture, drop the sub-layers *)
(* above its own, drop sub-layer non-reference pictures of its own, lose   *)
(* everything up to the next IRAP picture, or be given a spliced stream    *)
(* (BLA, or CRA behind an end of sequence).  Nothing else is lost.         *)
(*                                                                         *)
(* The encoder is not part of the crate: it is what clauses 7.4.2.2 and    *)
(* 7.4.7.1 ask of a stream.  The receiver makes the calls of drive_hevc in *)
(* fuzz/fuzz_targets/streams.rs: the picture in progress is finished when  *)
(* the next one starts, and a skipped one never.                           *)
(***************************************************************************)
EXTENDS HevcRps

CONSTANTS
    SyncSps,    \* the sequence parameter set
    Profiles,   \* the kinds of stream an encoder may choose to write
    EncoderRefs \* bound: pictures in a reference picture set

\* A kind of stream: its NAL unit types, its highest TemporalId, whether the
\* receiver may lose it; bounds: the long-term pictures of a set, counts in
\* -span..span, and the pictures received.
Profile == [types : SUBSET {0, 1, 7, 9, 19, 21}, topLayer : Nat, losses : BOOLEAN,
            maxLong : Nat, span : Nat, maxKey : Nat]

\* Counts fit in 32 bits on both sides, wherever the receiver joins, and a picture
\* and its set fit in the buffer (A.4.2); the absence of a cycle is no number.
ASSUME SyncAssumption ==
    /\ None \notin Int
    /\ SyncSps \in Sps /\ SyncSps.maxLsb % 2 = 0 /\ SyncSps.maxDecPicBufferingMinus1 > 0
    /\ Profiles \subseteq Profile
    /\ \A p \in Profiles : 2 * p.span + SyncSps.maxLsb <= PocLimit
    /\ EncoderRefs \in Nat /\ EncoderRefs < MaxPics

VARIABLES
    profile,    \* encoder: the kind of stream it writes
    held,       \* encoder: the pictures it may still refer to
    irap,       \* encoder: count of the last IRAP picture
    leading,    \* encoder: its leading pictures may still follow
    anchor,     \* encoder: count of the previous anchor (prevTid0Pic)
    nearby,     \* encoder: the anchor, its set and what followed (7.4.7.1)
    sent,       \* encoder: the picture it sent last
    layer,      \* receiver: the highest TemporalId it takes
    dec,        \* receiver: HevcDpb
    means,      \* for each key of the receiver, the encoder's count
    offset,     \* encoder counts minus receiver counts since the last restart
    tuned,      \* the receiver gets the stream
    restarted,  \* its last IRAP picture had NoRaslOutputFlag
    arrived     \* the picture sent last reached it

encoder == <<held, irap, leading, anchor, nearby, sent>>
receiver == <<dec, means, offset, tuned, restarted, arrived>>
syncVars == <<profile, encoder, layer, receiver>>

-----------------------------------------------------------------------------
(* The encoder *)

Roles == {"Before", "Irap", "Trail", "Radl", "Rasl"}

RoleOf(t) == CASE IsIrap(t) -> "Irap"
               [] IsRasl(t) -> "Rasl"
               [] IsRadl(t) -> "Radl"
               [] OTHER -> "Trail"

Counts(pics) == {p.poc : p \in pics}

\* The counts whose lsb names them for someone who knows the anchor.
InReach(v) == -(SyncSps.maxLsb \div 2) < v - anchor /\ v - anchor <= SyncSps.maxLsb \div 2

\* The pictures a picture may use, and those its set may keep for later ones.
MayUse(t, tid, p) ==
    /\ p.tid <= tid
    /\ p.discardable => p.tid < tid
    /\ CASE RoleOf(t) = "Irap"  -> FALSE
         [] RoleOf(t) = "Trail" -> p.role \in {"Irap", "Trail"}
         [] RoleOf(t) = "Radl"  -> p.role \in {"Irap", "Radl"}
         [] OTHER -> TRUE

MayKeep(t, p) == RoleOf(t) \in {"Irap", "Trail"} => p.role \in {"Irap", "Trail"}

\* Where a picture of the type may be in output order.
MayHaveCount(t, v) ==
    /\ t # 19 => InReach(v) /\ v \notin nearby
    /\ CASE RoleOf(t) = "Irap"  -> IF t = 19 THEN v = 0 ELSE \A c \in nearby : c < v
         [] RoleOf(t) = "Trail" -> v > irap
         [] OTHER -> leading /\ v < irap

\* The counts of a set in rising and in falling order.
Ascending(counts) ==
    CHOOSE s \in [1 .. Cardinality(counts) -> counts] : \A i, j \in DOMAIN s : i < j => s[i] < s[j]
Descending(counts) ==
    CHOOSE s \in [1 .. Cardinality(counts) -> counts] : \A i, j \in DOMAIN s : i < j => s[i] > s[j]

\* Nearest first, as delta_poc_s0 and delta_poc_s1 are coded.
Before(counts, v) == Descending({c \in counts : c < v})
After(counts, v) == Ascending({c \in counts : c > v})

\* A short-term reference at count c.
ShortRef(c, v, used) == [delta |-> c - v, used |-> c \in Counts(used)]

\* A long-term reference at count c: by its lsb alone when no other picture
\* nearby shares it.
LongRef(c, v, used) ==
    [lsb |-> c % SyncSps.maxLsb,
     cycle |-> IF \E b \in nearby \ {c} : (b - c) % SyncSps.maxLsb = 0
               THEN (v - (v % SyncSps.maxLsb) - (c - (c % SyncSps.maxLsb))) \div SyncSps.maxLsb
               ELSE None,
     used |-> c \in Counts(used)]

SliceHeader(t, v, tid, used, kept, long) ==
    LET short == Counts((used \cup kept) \ long)
        first == Descending(Counts(long))
        s0 == Before(short, v)
        s1 == After(short, v)
    IN  [type |-> t, layerId |-> 0, dependent |-> FALSE, temporalId |-> tid,
         lsb |-> v % SyncSps.maxLsb,
         s0 |-> [i \in DOMAIN s0 |-> ShortRef(s0[i], v, used)],
         s1 |-> [i \in DOMAIN s1 |-> ShortRef(s1[i], v, used)],
         longTerm |-> [i \in DOMAIN first |-> LongRef(first[i], v, used)]]

\* The cycles of delta_poc_msb_cycle_lt are not negative.
CanBeCoded(h) == \A i \in DOMAIN h.longTerm : h.longTerm[i].cycle # None => h.longTerm[i].cycle >= 0

\* The encoder writes a picture that uses used and keeps kept, those of long
\* as long-term references.
Encode(t, v, tid, used, kept, long) ==
    LET refs == IF t = 19 THEN {} ELSE used \cup kept
        now == [poc |-> v, tid |-> tid, role |-> RoleOf(t), discardable |-> t = 0, lt |-> FALSE]
        anchors == tid = 0 /\ t \notin {0, 7, 9}
    IN  /\ held' = {[p EXCEPT !.lt = p \in long,
                               !.role = IF IsIrap(t) THEN "Before" ELSE @] : p \in refs} \cup {now}
        /\ irap' = IF IsIrap(t) THEN v ELSE irap
        /\ leading' = CASE IsIrap(t) -> t = 21
                        [] RoleOf(t) = "Trail" -> FALSE
                        [] OTHER -> leading
        /\ anchor' = IF anchors THEN v ELSE anchor
        /\ nearby' = IF anchors THEN Counts(refs) \cup {v} ELSE nearby \cup {v}
        /\ sent' = [poc |-> v, role |-> RoleOf(t),
                    short |-> Counts(used \ long), long |-> Counts(used \cap long)]

-----------------------------------------------------------------------------
(* The receiver *)

\* The next picture has started: this one is finished.
Settled(d) == IF d.pending = NoPicture THEN d ELSE Finished(d)

\* The header h of a picture with the encoder's count v reaches the receiver.
Receive(d, h, v) ==
    /\ dec' = IF Skips(d, h) THEN Announced(d, h) ELSE Begun(d, SyncSps, h)
    /\ means' = [k \in DOMAIN dec'.pics \cup {j \in {dec'.nextKey - 1} : dec'.pending # NoPicture} |->
                   IF k \in DOMAIN means THEN means[k] ELSE v]
    /\ tuned' = TRUE
    /\ arrived' = TRUE

\* The picture follows the ones before it.
Deliver(h, v) ==
    /\ tuned
    /\ Receive(Settled(dec), h, v)
    /\ offset' = IF IsIdr(h.type) THEN 0 ELSE offset
    /\ restarted' = IF IsIrap(h.type) THEN IsIdr(h.type) ELSE restarted

\* The receiver starts here: after a seek, behind an end of sequence, or the
\* CRA picture was made a BLA picture; an IDR picture starts it anyway.
DeliverRestart(h, v) ==
    /\ IsIrap(h.type)
    /\ tuned => ~IsIdr(h.type)
    /\ \/ Receive(Fresh(dec.nextKey), h, v)
       \/ Receive([Settled(dec) EXCEPT !.afterEos = TRUE], h, v)
       \/ Receive(Settled(dec), [h EXCEPT !.type = IF h.type = 21 THEN 16 ELSE @], v)
    /\ offset' = v - h.lsb
    /\ restarted' = TRUE

\* The picture is dropped: above the layer, or no reference for it.
Drop(t, tid) ==
    /\ tuned
    /\ tid > layer \/ (tid = layer /\ t = 0)
    /\ arrived' = FALSE
    /\ UNCHANGED <<dec, means, offset, tuned, restarted>>

\* The receiver loses the stream.
Lose ==
    /\ profile.losses
    /\ tuned' = FALSE
    /\ arrived' = FALSE
    /\ UNCHANGED <<dec, means, offset, restarted>>

Init ==
    /\ held = {} /\ irap = 0 /\ leading = FALSE /\ anchor = 0 /\ nearby = {}
    /\ sent = [poc |-> 0, role |-> "Irap", short |-> {}, long |-> {}]
    /\ profile \in Profiles
    /\ layer \in 0 .. profile.topLayer
    /\ dec = Fresh(0) /\ means = <<>> /\ offset = 0
    /\ tuned = FALSE /\ restarted = FALSE /\ arrived = FALSE

\* The first picture of the stream is an IRAP picture.
StartsStream(t) == held = {} => IsIrap(t)

Code(t, v, tid, used, kept, long) ==
    LET h == SliceHeader(t, v, tid, used, kept, long)
    IN  /\ CanBeCoded(h)
        /\ Encode(t, v, tid, used, kept, long)
        /\ UNCHANGED <<profile, layer>>
        /\ \/ /\ dec.nextKey < profile.maxKey
              /\ tid <= layer /\ (Deliver(h, v) \/ DeliverRestart(h, v))
           \/ Drop(t, tid)
           \/ Lose

\* The stream ends at the bound.
End == dec.nextKey = profile.maxKey /\ UNCHANGED syncVars

Send ==
    \E t \in profile.types, v \in -profile.span .. profile.span, tid \in 0 .. profile.topLayer :
       /\ dec.nextKey < profile.maxKey
       /\ StartsStream(t) /\ MayHaveCount(t, v)
       /\ IsIrap(t) => tid = 0
       /\ \E used \in SUBSET {p \in held : t # 19 /\ MayUse(t, tid, p)} :
          \E kept \in SUBSET {p \in held \ used : t # 19 /\ MayKeep(t, p)} :
             /\ Cardinality(used \cup kept) <= EncoderRefs
             /\ \E long \in SUBSET (used \cup kept) :
                  /\ Cardinality(long) <= profile.maxLong
                  /\ {p \in used \cup kept : p.lt} \subseteq long
                  /\ Code(t, v, tid, used, kept, long)

Next == Send \/ End

Spec == Init /\ [][Next]_syncVars

-----------------------------------------------------------------------------
(* Safety *)

Decoding == arrived /\ dec.pending # NoPicture

Meaning(list) == [i \in DOMAIN list |-> IF list[i] = None THEN None ELSE means[list[i]]]

\* The receiver's counts are the encoder's up to the offset of the last restart,
\* whatever sub-layers, discardable pictures and RASL pictures it never saw.
CountsAgree == Decoding => dec.pending.poc = sent.poc - offset

\* A picture that is decoded refers to the pictures the encoder meant, all of
\* them and in its order: after joining at a CRA picture, after dropping what
\* may be dropped, and for long-term pictures named by their lsb alone.
ReferencesAgree ==
    Decoding => LET rps == dec.pending.rps
                IN  /\ Meaning(rps["stCurrBefore"]) = Before(sent.short, sent.poc)
                    /\ Meaning(rps["stCurrAfter"]) = After(sent.short, sent.poc)
                    /\ Meaning(rps["ltCurr"]) = Descending(sent.long)

\* Exactly the RASL pictures whose CRA picture restarted the receiver are
\* skipped (8.1.3), however the restart came about.
SkipsExactly ==
    arrived => (dec.pending = NoPicture <=> sent.role = "Rasl" /\ restarted)

=============================================================================
