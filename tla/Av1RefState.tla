----------------------------- MODULE Av1RefState -----------------------------
(***************************************************************************)
(* The reference slots of an AV1 decoder (Av1RefState of                   *)
(* src/av1/frame.rs): every frame header is parsed against the slots       *)
(* (parse_frame_header) and then updates them (update).  An encoder keeps  *)
(* its own slots and codes each frame by what it believes the decoder to   *)
(* hold; between the two, frames may be lost, from the first one on for a  *)
(* decoder that joins late.                                                *)
(*                                                                         *)
(* Pictures are numbered in coding order.  Of a frame, deltas stands for   *)
(* the loop filter deltas (0: the defaults), features for the segmentation *)
(* features (0: none), grain for the film grain parameters (0: none), size *)
(* for the sizes (0: unknown).  The reference fields name one slot for all *)
(* seven references, or the slots of LAST and GOLDEN.                      *)
(***************************************************************************)
EXTENDS Integers, Sequences

Derived == INSTANCE Av1Frame

CONSTANTS
    Slots,         \* 0 .. NUM_REF_FRAMES - 1
    Av1Frames,     \* what the encoder chooses of a frame
    HintBits,      \* order_hint_bits
    IdBits,        \* idLen
    DeltaIdBits,   \* delta_frame_id_length_minus_2 + 2
    MaxAv1Frames   \* bound on the frames coded

\* What an encoder chooses: gold matters to short signaling, loads says whether it
\* names a primary reference.
Av1Choice ==
    [type : {"key", "intra_only", "inter", "switch"}, shown : BOOLEAN, resilient : BOOLEAN, refresh : SUBSET Slots,
     short : BOOLEAN, last : Slots, gold : Slots, loads : BOOLEAN, size : Nat, deltas : Nat, lossless : BOOLEAN,
     features : Nat, grain : Nat]

\* Lossless frames have no loop filter; order hints do not repeat.
ASSUME Av1Assumption ==
    /\ Slots \subseteq Nat /\ Av1Frames \subseteq Av1Choice
    /\ \A c \in Av1Frames : c.lossless => c.deltas = 0
    /\ HintBits \in Nat \ {0} /\ IdBits \in Nat /\ DeltaIdBits \in 0 .. IdBits - 1
    /\ MaxAv1Frames \in 1 .. 2^HintBits - 1

VARIABLES
    sent,        \* the encoder's slots
    slots,       \* the decoder's slots
    coded,       \* frames coded so far
    inStep,      \* no frame was lost since all slots were last refreshed
    vouched,     \* none since an error resilient frame named its order hints
    meant,       \* what the encoder chose for the last frame handled
    got          \* what the decoder made of it
av1Vars == <<sent, slots, coded, inStep, vouched, meant, got>>

PrimaryNone == 7
MaxSize == 2

NoFrame == [picture |-> 0, id |-> 0, hint |-> 0, type |-> "key", showable |-> FALSE,
            size |-> 0, deltas |-> 0, features |-> 0, grain |-> 0]
Empty == [valid |-> FALSE, frame |-> NoFrame]

IsIntra(type) == type \in {"key", "intra_only"}
RefreshesAll(f) == f.type = "switch" \/ (f.type = "key" /\ f.shown)
Resilient(f) == RefreshesAll(f) \/ f.resilient

-----------------------------------------------------------------------------
(* the encoder: what it codes of its choice c, external to the crate          *)

Hint(n) == n % 2^HintBits
Id(n) == n % 2^IdBits

SentHints == [s \in Slots |-> sent[s].frame.hint]

\* References it may name: what it holds, and identified.
Named(c) ==
    IF c.short THEN LET r == Derived!SetFrameRefs(HintBits, SentHints, Hint(coded + 1), c.last, c.gold)
                    IN  {r[n] : n \in DOMAIN r}
    ELSE {c.last}
Nameable(s) == sent[s].valid /\ Derived!IdKept(IdBits, DeltaIdBits, Id(coded + 1), sent[s].frame.id)

\* The frame header: whatever equals the primary reference is loaded from it.
Coded(c) ==
    LET primary  == IF IsIntra(c.type) \/ Resilient(c) \/ ~c.loads THEN PrimaryNone ELSE 0
        previous == IF primary = PrimaryNone THEN NoFrame ELSE sent[c.last].frame
        fromSlot == c.type = "inter" /\ c.grain # 0 /\ sent[c.last].frame.grain = c.grain
        sized    == ~IsIntra(c.type) /\ ~Resilient(c) /\ sent[c.last].frame.size = c.size
    IN  [type |-> c.type, shown |-> c.shown, resilient |-> Resilient(c), id |-> Id(coded + 1), hint |-> Hint(coded + 1),
         primary |-> primary, refresh |-> IF RefreshesAll(c) THEN Slots ELSE c.refresh,
         hints |-> IF Resilient(c) /\ (~IsIntra(c.type) \/ (~RefreshesAll(c) /\ c.refresh # Slots)) THEN SentHints ELSE <<>>,
         short |-> c.short, last |-> c.last, gold |-> c.gold,
         override |-> c.type = "switch" \/ c.size # MaxSize \/ sized, found |-> sized, size |-> c.size,
         lossless |-> c.lossless, updated |-> c.deltas # previous.deltas, deltas |-> c.deltas,
         segmentation |-> c.features # 0, data |-> c.features # previous.features, features |-> c.features,
         grain |-> c.grain, grainLoaded |-> fromSlot]

CodedFrame(c) == [picture |-> coded + 1, id |-> Id(coded + 1), hint |-> Hint(coded + 1), type |-> c.type,
             showable |-> IF c.shown THEN c.type # "key" ELSE TRUE,
             size |-> c.size, deltas |-> c.deltas, features |-> c.features, grain |-> c.grain]

Chosen(frame) == [size |-> frame.size, deltas |-> frame.deltas, features |-> frame.features, grain |-> frame.grain,
                  hint |-> frame.hint]

-----------------------------------------------------------------------------
(* the decoder *)

\* Mutant: the coded order hints are not compared.
RefValidWithoutHints(f) ==
    [s \in Slots |-> slots[s].valid /\ ~(f.type = "key" /\ f.shown)
                     /\ Derived!IdKept(IdBits, DeltaIdBits, f.id, slots[s].frame.id)]

\* RefValid of the slots: shown key frames start anew, identifiers expire, order
\* hints that differ from the coded ones are those of lost frames.
RefValid(f) ==
    [s \in Slots |->
       /\ slots[s].valid /\ ~(f.type = "key" /\ f.shown)
       /\ Derived!IdKept(IdBits, DeltaIdBits, f.id, slots[s].frame.id)
       /\ (f.hints = <<>> \/ f.hints[s] = slots[s].frame.hint)]

Refs(f) ==
    IF f.short THEN Derived!SetFrameRefs(HintBits, [s \in Slots |-> slots[s].frame.hint], f.hint, f.last, f.gold)
    ELSE [n \in 1 .. 7 |-> f.last]

\* Size of the frame: of the slot found_ref names, coded, or that of the sequence.
SizeRead(f) == IF ~f.override THEN MaxSize ELSE IF f.found THEN slots[Refs(f)[1]].frame.size ELSE f.size

FrameSizeKnown(f) == f.found => SizeRead(f) # 0

\* Mutant: what is not coded is loaded from the first reference in any case.
PreviousAlways(f) == slots[Refs(f)[1]].frame

\* setup_past_independence, or load_previous from the primary reference frame.
Previous(f) == IF f.primary = PrimaryNone THEN NoFrame ELSE slots[Refs(f)[f.primary + 1]].frame

DeltasRead(f) == IF f.lossless THEN 0 ELSE IF f.updated THEN f.deltas ELSE Previous(f).deltas

\* Mutant: features that are not coded are none, not those of the primary reference.
FeaturesReadForgotten(f) == IF f.segmentation /\ (f.primary = PrimaryNone \/ f.data) THEN f.features ELSE 0

FeaturesRead(f) ==
    IF ~f.segmentation THEN 0
    ELSE IF f.primary = PrimaryNone \/ f.data THEN f.features
    ELSE Previous(f).features

\* film_grain_params: update_grain is 0 when they are loaded from a slot.
GrainRead(f) == IF f.grainLoaded THEN slots[f.last].frame.grain ELSE f.grain

\* parse_frame_header.
Parsed(f) == [size |-> SizeRead(f), deltas |-> DeltasRead(f), features |-> FeaturesRead(f), grain |-> GrainRead(f),
              hint |-> f.hint]

\* update: the slots as the header found them, the refreshed ones take the frame.
Updated(f, picture, showable) ==
    LET parsed == Parsed(f)
        frame  == [picture |-> picture, id |-> f.id, hint |-> f.hint, type |-> f.type, showable |-> showable,
                   size |-> parsed.size, deltas |-> parsed.deltas, features |-> parsed.features, grain |-> parsed.grain]
    IN  [s \in Slots |-> IF s \in f.refresh THEN [valid |-> TRUE, frame |-> frame]
                         ELSE [slots[s] EXCEPT !.valid = RefValid(f)[s]]]

-----------------------------------------------------------------------------

Av1Init ==
    /\ sent = [s \in Slots |-> Empty] /\ slots = sent
    /\ coded = 0
    /\ inStep = FALSE /\ vouched = FALSE
    /\ meant = <<>> /\ got = <<>>

Encodable(c) ==
    /\ coded < MaxAv1Frames
    /\ IsIntra(c.type) \/ \A s \in Named(c) \union {c.last, c.gold} : Nameable(s)

\* Slots it can no longer identify are lost to the encoder too.
SendersStep(c) ==
    /\ coded' = coded + 1
    /\ sent' = [s \in Slots |-> IF s \in Coded(c).refresh THEN [valid |-> TRUE, frame |-> CodedFrame(c)]
                               ELSE [sent[s] EXCEPT !.valid = Nameable(s)]]

\* A frame whose header takes nothing from the slots.
Independent(f) == f.primary = PrimaryNone /\ ~f.found /\ ~f.grainLoaded

\* A frame reaches the decoder.
HandleFrame(c) ==
    LET f == Coded(c)
    IN  /\ Encodable(c) /\ FrameSizeKnown(f)
        /\ SendersStep(c)
        /\ slots' = Updated(f, coded + 1, CodedFrame(c).showable)
        /\ meant' = Chosen(CodedFrame(c)) /\ got' = Parsed(f)
        /\ inStep' = (inStep \/ (f.refresh = Slots /\ Independent(f)))
        /\ vouched' = (vouched \/ f.hints # <<>> \/ (f.type = "key" /\ f.shown))

\* The header is refused: the caller has no frame and the slots stay.
RefuseFrame(c) ==
    /\ Encodable(c) /\ ~FrameSizeKnown(Coded(c))
    /\ SendersStep(c)
    /\ inStep' = FALSE /\ vouched' = FALSE
    /\ UNCHANGED <<slots, meant, got>>

LoseFrame(c) ==
    /\ Encodable(c)
    /\ SendersStep(c)
    /\ inStep' = FALSE /\ vouched' = FALSE
    /\ UNCHANGED <<slots, meant, got>>

\* show_existing_frame: a key frame shown this way refreshes every slot, another
\* one leaves the slots as they are.
Shows(s) == coded > 0 /\ sent[s].valid /\ sent[s].frame.showable /\ Nameable(s)

ShownAgain(held, s) == IF held[s].frame.type = "key" THEN [t \in Slots |-> [valid |-> TRUE, frame |-> held[s].frame]] ELSE held

ShowExisting(s) ==
    /\ Shows(s) /\ slots[s].valid
    /\ sent' = ShownAgain(sent, s)
    /\ slots' = ShownAgain(slots, s)
    /\ meant' = Chosen(sent[s].frame) /\ got' = Chosen(slots[s].frame)
    /\ UNCHANGED <<coded, inStep, vouched>>

RefuseShown(s) ==
    /\ Shows(s) /\ ~slots[s].valid
    /\ sent' = ShownAgain(sent, s)
    /\ inStep' = FALSE /\ vouched' = FALSE
    /\ UNCHANGED <<slots, coded, meant, got>>

Av1Next ==
    \/ \E c \in Av1Frames : HandleFrame(c)
    \/ \E c \in Av1Frames : RefuseFrame(c)
    \/ \E c \in Av1Frames : LoseFrame(c)
    \/ \E s \in Slots : ShowExisting(s)
    \/ \E s \in Slots : RefuseShown(s)

Av1Spec == Av1Init /\ [][Av1Next]_av1Vars

-----------------------------------------------------------------------------
(* Safety *)

\* A decoder that lost nothing since a frame that refreshed every slot and took
\* nothing from them holds what the encoder holds, and every slot the encoder may
\* name; what the header loads, infers or derives is then what the encoder meant.
StaysInStep ==
    inStep =>
        /\ \A s \in Slots : /\ Nameable(s) => slots[s].valid
                            /\ slots[s].valid => slots[s].frame = sent[s].frame
        /\ got = meant

\* The order hints of an error resilient frame tell which slots survived what was
\* lost before: until something else is lost, every valid slot holds the picture the
\* encoder means by it.  Order hints must not repeat among the frames in question.
HintsVouch ==
    vouched => \A s \in Slots : slots[s].valid => slots[s].frame.picture = sent[s].frame.picture

\* Whatever was lost before, the parameters of a frame that takes nothing from the
\* slots are those the encoder meant.
IndependentFramesAsMeant ==
    [][coded' # coded =>
         \A c \in Av1Frames : HandleFrame(c) /\ Independent(Coded(c)) => got' = meant']_av1Vars

=============================================================================
