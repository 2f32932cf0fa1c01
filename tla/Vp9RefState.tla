------------------------------ MODULE Vp9RefState ------------------------------
(***************************************************************************)
(* Vp9State (src/vp9/frame.rs): what a VP9 stream carries from frame to    *)
(* frame.  parse_frame reads a header against the state, commit records    *)
(* what the frame leaves behind.  An encoder keeps the same state and      *)
(* codes its frames by it; frames may be lost, from the first one on for a *)
(* decoder that joins late.                                                *)
(*                                                                         *)
(* Of a frame, size stands for its sizes (0: none), color for the colour   *)
(* configuration (1: the default one, 0: none), deltas for the loop filter *)
(* deltas of a reference and of a mode (0: the default), features for the  *)
(* segmentation features with their mode (0: none).  The probabilities are *)
(* written and never read.                                                 *)
(***************************************************************************)
EXTENDS Integers

CONSTANTS
    Vp9Slots,       \* 0 .. 7 in the code
    Vp9Profiles,    \* profiles a stream may have
    Vp9Frames,      \* what the encoder chooses of a frame
    MaxVp9Frames    \* bound on the frames coded

ASSUME Vp9Assumption ==
    /\ Vp9Slots \subseteq Nat /\ Vp9Profiles \subseteq 0 .. 3 /\ MaxVp9Frames \in Nat
    /\ \A c \in Vp9Frames :
          c.type \in {"key", "intra_only", "inter"} /\ c.size > 0 /\ c.color > 0 /\ c.last \in Vp9Slots

VARIABLES
    vp9Profile,  \* of the stream
    encoded,     \* the state the encoder means the decoder to have
    state,       \* Vp9State
    vp9Count,    \* frames coded
    stale,       \* parts of the state that lost frames would have changed, or that came from such
    vp9Header,   \* what the last header was read as, and whether it took from what is stale
    vp9Meant     \* and what the encoder meant by it
vp9Vars == <<vp9Profile, encoded, state, vp9Count, stale, vp9Header, vp9Meant>>

NoColor == 0
DefaultColor == 1
NoSlot == -1

\* The parts of the state; the slots are parts of their own.
SlotPart(s) == <<"slot", s>>
ColorPart == <<"color", 0>>
DeltaPart(d) == <<"delta", d>>
FeaturesPart == <<"features", 0>>

LoopDeltas == {"ref", "mode"}

NewState == [slots |-> [s \in Vp9Slots |-> [size |-> 0, color |-> NoColor]],
             color |-> NoColor, deltas |-> [d \in LoopDeltas |-> 0], features |-> 0]

IsVp9Intra(type) == type \in {"key", "intra_only"}
PastIndependence(f) == IsVp9Intra(f.type) \/ f.resilient
CarriesColor(f) == f.type = "key" \/ (f.type = "intra_only" /\ vp9Profile > 0)

-----------------------------------------------------------------------------
(* parse_frame and commit, of a decoder in state st *)

ColorOf(st, f) ==
    IF CarriesColor(f) THEN f.color ELSE IF IsVp9Intra(f.type) THEN DefaultColor ELSE st.color

SizeOf(st, f) == IF f.found = NoSlot THEN f.size ELSE st.slots[f.found].size

\* An inter frame before any intra frame, a size of an empty slot.
Unparsable(st, f) == ColorOf(st, f) = NoColor \/ SizeOf(st, f) = 0

ParsedFrame(st, f) ==
    [size     |-> SizeOf(st, f),
     color    |-> ColorOf(st, f),
     deltas   |-> [d \in LoopDeltas |-> IF d \in f.coded THEN f.deltas[d]
                                       ELSE IF PastIndependence(f) THEN 0 ELSE st.deltas[d]],
     features |-> IF f.updateData THEN f.features ELSE IF PastIndependence(f) THEN 0 ELSE st.features]

Committed(st, f, h) ==
    [slots    |-> [s \in Vp9Slots |-> IF s \in f.refresh THEN [size |-> h.size, color |-> h.color] ELSE st.slots[s]],
     color    |-> IF IsVp9Intra(f.type) THEN h.color ELSE st.color,
     deltas   |-> h.deltas,
     features |-> h.features]

\* The header of show_existing_frame; commit leaves the state alone.
ShownSlot(st, s) ==
    [size |-> st.slots[s].size,
     color |-> IF st.slots[s].color # NoColor THEN st.slots[s].color
               ELSE IF st.color # NoColor THEN st.color ELSE DefaultColor]

-----------------------------------------------------------------------------
(* The encoder refers to slots of the current colour configuration, leaves out
   what the decoder has already, and chooses what its profile can code. *)

Carried(c, value) == IF IsVp9Intra(c.type) \/ c.resilient THEN 0 ELSE value

MeantFrame(c) ==
    [size     |-> c.size,
     color    |-> IF IsVp9Intra(c.type) THEN c.color ELSE encoded.color,
     deltas   |-> [d \in LoopDeltas |-> IF c.filtered THEN c.deltas[d] ELSE Carried(c, encoded.deltas[d])],
     features |-> IF c.segmented THEN c.features ELSE Carried(c, encoded.features)]

CodedHeader(c) ==
    [type |-> c.type, resilient |-> c.resilient,
     refresh |-> IF c.type = "key" THEN Vp9Slots ELSE c.refresh,
     color |-> c.color, size |-> c.size,
     found |-> IF ~IsVp9Intra(c.type) /\ encoded.slots[c.last].size = c.size THEN c.last ELSE NoSlot,
     coded |-> {d \in LoopDeltas : MeantFrame(c).deltas[d] # Carried(c, encoded.deltas[d])}, deltas |-> c.deltas,
     updateData |-> MeantFrame(c).features # Carried(c, encoded.features), features |-> c.features]

MayCode(c) ==
    /\ vp9Count < MaxVp9Frames
    /\ c.type = "intra_only" /\ vp9Profile = 0 => c.color = DefaultColor
    /\ c.type = "inter" => encoded.color # NoColor /\ encoded.slots[c.last].color = encoded.color

EncodeFrame(c) ==
    /\ MayCode(c)
    /\ encoded' = Committed(encoded, CodedHeader(c), MeantFrame(c))
    /\ vp9Count' = vp9Count + 1
    /\ UNCHANGED vp9Profile

-----------------------------------------------------------------------------

Vp9Init ==
    /\ vp9Profile \in Vp9Profiles
    /\ encoded = NewState /\ state = NewState
    /\ vp9Count = 0 /\ stale = {}
    /\ vp9Meant = NewState /\ vp9Header = [taken |-> FALSE, read |-> vp9Meant]

\* What the header takes from the state.
TakenFrom(f) ==
    (IF IsVp9Intra(f.type) THEN {} ELSE {ColorPart})
      \cup (IF f.found = NoSlot THEN {} ELSE {SlotPart(f.found)})
      \cup (IF PastIndependence(f) THEN {} ELSE {DeltaPart(d) : d \in LoopDeltas \ f.coded})
      \cup (IF PastIndependence(f) \/ f.updateData THEN {} ELSE {FeaturesPart})

RefreshedParts(f) == {SlotPart(s) : s \in f.refresh}
CarriedParts == {DeltaPart(d) : d \in LoopDeltas} \cup {FeaturesPart}
ChangedBy(f) ==
    RefreshedParts(f) \cup CarriedParts \cup (IF IsVp9Intra(f.type) THEN {ColorPart} ELSE {})

\* A delta or the features left from stale ones are stale; so are the slots refreshed
\* with a size or a colour from a stale part.
LeavesStale(f) ==
    LET taken == stale \cap TakenFrom(f)
    IN  (taken \cap CarriedParts) \cup (IF taken \subseteq CarriedParts THEN {} ELSE RefreshedParts(f))

\* decode_frame_header of a frame that arrives.
DecodeFrame(c) ==
    LET f == CodedHeader(c)
        h == ParsedFrame(state, f)
    IN  /\ EncodeFrame(c)
        /\ ~Unparsable(state, f)
        /\ state' = Committed(state, f, h)
        /\ stale' = (stale \ ChangedBy(f)) \cup LeavesStale(f)
        /\ vp9Header' = [taken |-> TakenFrom(f) \cap stale # {}, read |-> h]
        /\ vp9Meant' = MeantFrame(c)

\* Its header is an error, and leaves the state as it was.
RefuseVp9Frame(c) ==
    LET f == CodedHeader(c)
    IN  /\ EncodeFrame(c)
        /\ Unparsable(state, f)
        /\ stale' = stale \cup ChangedBy(f)
        /\ UNCHANGED <<state, vp9Header, vp9Meant>>

LoseVp9Frame(c) ==
    /\ EncodeFrame(c)
    /\ stale' = stale \cup ChangedBy(CodedHeader(c))
    /\ UNCHANGED <<state, vp9Header, vp9Meant>>

ShowSlot(s) ==
    /\ encoded.slots[s].size # 0
    /\ vp9Header' = [taken |-> SlotPart(s) \in stale, read |-> ShownSlot(state, s)]
    /\ vp9Meant' = ShownSlot(encoded, s)
    /\ UNCHANGED <<vp9Profile, encoded, state, vp9Count, stale>>

Vp9Next ==
    \/ \E c \in Vp9Frames : DecodeFrame(c) \/ RefuseVp9Frame(c) \/ LoseVp9Frame(c)
    \/ \E s \in Vp9Slots : ShowSlot(s)

Vp9Spec == Vp9Init /\ [][Vp9Next]_vp9Vars

-----------------------------------------------------------------------------
(* Safety *)

\* What a lost or refused frame did not leave stale, the decoder has as the encoder
\* means it, and so it reads every header that takes nothing from what is stale.  A
\* header is refused only when it takes something from there.
Vp9StaysInStep ==
    /\ \A s \in Vp9Slots : SlotPart(s) \notin stale => state.slots[s] = encoded.slots[s]
    /\ ColorPart \notin stale => state.color = encoded.color
    /\ \A d \in LoopDeltas : DeltaPart(d) \notin stale => state.deltas[d] = encoded.deltas[d]
    /\ FeaturesPart \notin stale => state.features = encoded.features
    /\ ~vp9Header.taken => vp9Header.read = vp9Meant
    /\ \A c \in Vp9Frames : MayCode(c) /\ Unparsable(state, CodedHeader(c)) =>
            TakenFrom(CodedHeader(c)) \cap stale # {}

=============================================================================
