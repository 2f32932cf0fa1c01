------------------------------ MODULE HevcStream ------------------------------
(***************************************************************************)
(* HevcParser (src/hevc/stream.rs): the tables of parameter sets and the   *)
(* slice segments, of which a dependent one is completed from the          *)
(* independent one before it (last_independent).                           *)
(*                                                                         *)
(* The sender, not part of the crate, writes pictures of independent and   *)
(* dependent segments and ends sequences; the parser may join late, and a  *)
(* segment or an end of sequence may be lost or be too damaged to parse.   *)
(***************************************************************************)
EXTENDS Integers

CONSTANTS
    Missing,            \* an empty slot, no segment, no picture
    HevcPpsIds,         \* picture parameter set ids in use
    MaxHevcPictures,    \* bound: pictures sent
    MaxHevcSets,        \* bound: copies of parameter sets sent
    MaxSegments         \* bound: segments of a picture

ASSUME HevcStreamAssumption ==
    /\ MaxHevcPictures \in Nat /\ MaxHevcSets \in Nat /\ MaxSegments \in Nat
    /\ Missing \notin Nat

VARIABLES
    hevcSps,            \* HevcParser::sps, the slot in use: the copy
    hevcPps,            \* HevcParser::pps: the copies
    lastIndependent,    \* HevcParser::last_independent
    wroteSps,           \* sender: the copy of the SPS it wrote last
    wrotePps,           \* sender: the copies of the PPSs
    wroteCopies,        \* sender: copies written
    frame,              \* sender: the picture, counted from 1, and its PPS
    segments,           \* sender: segments written of it; 0 between pictures
    ended,              \* sender: pictures sent when a sequence end last arrived
    started,            \* the picture whose first segment was parsed last
    returned            \* the segment returned last

hevcSender == <<wroteSps, wrotePps, wroteCopies, frame, segments>>
hevcParser == <<hevcSps, hevcPps, lastIndependent>>
hevcHistory == <<ended, started, returned>>
hevcStreamVars == <<hevcSender, hevcParser, hevcHistory>>

-----------------------------------------------------------------------------
(* The parser *)

StoreHevcSps(copy) == hevcSps' = copy /\ UNCHANGED <<hevcPps, lastIndependent>>

StoreHevcPps(id, copy) ==
    /\ hevcPps' = [hevcPps EXCEPT ![id] = copy]
    /\ UNCHANGED <<hevcSps, lastIndependent>>

\* What a header says that a dependent segment takes over: its picture
\* parameter set id is the one of the independent segment too.
Completed(s) ==
    IF s.dependent THEN [pps |-> lastIndependent.pps, from |-> lastIndependent.from]
    ELSE [pps |-> s.pps, from |-> <<s.pic, s.number>>]

Refused(s) ==
    \/ hevcPps[s.pps] = Missing \/ hevcSps = Missing
    \/ s.dependent /\ lastIndependent = Missing

\* Mutant: the first independent segment stays the one that is inherited from.
ParseSegmentKeepsFirst(s) ==
    /\ ~Refused(s)
    /\ lastIndependent' = IF lastIndependent # Missing THEN lastIndependent ELSE Completed(s)
    /\ returned' = [segment |-> s, header |-> Completed(s),
                    sps |-> hevcSps, pps |-> hevcPps[s.pps]]
    /\ started' = IF s.number = 1 THEN s.pic ELSE started
    /\ UNCHANGED <<hevcSps, hevcPps, ended>>

\* first_slice_segment_in_pic_flag is set in the first segment alone; it hides
\* the segments before it from the parser of the header.
ParseSegment(s) ==
    /\ ~Refused(s)
    /\ lastIndependent' = IF s.dependent THEN lastIndependent ELSE Completed(s)
    /\ returned' = [segment |-> s, header |-> Completed(s),
                    sps |-> hevcSps, pps |-> hevcPps[s.pps]]
    /\ started' = IF s.number = 1 THEN s.pic ELSE started
    /\ UNCHANGED <<hevcSps, hevcPps, ended>>

RefuseSegment(s) == Refused(s) /\ UNCHANGED <<hevcParser, hevcHistory>>

ParseEndOfSequence ==
    /\ lastIndependent' = Missing
    /\ ended' = frame.pic
    /\ UNCHANGED <<hevcSps, hevcPps, started, returned>>

\* End of bitstream, delimiters, SEI, other layers: an event and no change.
PassOver == UNCHANGED <<hevcParser, hevcHistory>>

-----------------------------------------------------------------------------
(* The sender *)

WriteCopy == /\ wroteCopies < MaxHevcSets
             /\ wroteCopies' = wroteCopies + 1
             /\ segments' = 0
             /\ UNCHANGED <<frame, hevcHistory>>

\* A new sequence parameter set: the PPSs in use are written again.
SendHevcSps ==
    /\ WriteCopy
    /\ wroteSps' = wroteCopies + 1
    /\ wrotePps' = [id \in HevcPpsIds |-> Missing]
    /\ StoreHevcSps(wroteCopies + 1)

SendHevcPps ==
    \E id \in HevcPpsIds :
       /\ wroteSps # Missing
       /\ WriteCopy
       /\ wrotePps' = [wrotePps EXCEPT ![id] = wroteCopies + 1]
       /\ StoreHevcPps(id, wroteCopies + 1)
       /\ UNCHANGED wroteSps

\* insert_sps and insert_pps, before the first NAL unit.
ConfigureHevc ==
    /\ hevcSps = Missing /\ wroteSps # Missing /\ returned = Missing
    /\ hevcSps' = wroteSps
    /\ hevcPps' = wrotePps
    /\ UNCHANGED <<hevcSender, lastIndependent, hevcHistory>>

SendEnd ==
    /\ segments > 0
    /\ segments' = 0
    /\ UNCHANGED <<wroteSps, wrotePps, wroteCopies, frame>>
    /\ ParseEndOfSequence \/ PassOver

Carry(s) == ParseSegment(s) \/ RefuseSegment(s) \/ PassOver

\* A picture: its first segment is independent.
StartFrame ==
    /\ wroteSps # Missing /\ frame.pic < MaxHevcPictures
    /\ \E id \in HevcPpsIds :
         /\ wrotePps[id] # Missing
         /\ frame' = [pic |-> frame.pic + 1, pps |-> id]
         /\ Carry([pic |-> frame.pic + 1, pps |-> id, number |-> 1, dependent |-> FALSE])
    /\ segments' = 1
    /\ UNCHANGED <<wroteSps, wrotePps, wroteCopies>>

\* The next segment of the picture.
ContinueFrame ==
    /\ segments \in 1 .. MaxSegments - 1
    /\ \E dependent \in BOOLEAN :
         Carry([pic |-> frame.pic, pps |-> frame.pps, number |-> segments + 1,
                dependent |-> dependent])
    /\ segments' = segments + 1
    /\ UNCHANGED <<wroteSps, wrotePps, wroteCopies, frame>>

HevcStreamInit ==
    /\ hevcSps = Missing /\ hevcPps = [id \in HevcPpsIds |-> Missing]
    /\ lastIndependent = Missing
    /\ wroteSps \in {Missing, 0}
    /\ wrotePps = [id \in HevcPpsIds |-> wroteSps]
    /\ wroteCopies = 0 /\ segments = 0
    /\ \E id \in HevcPpsIds : frame = [pic |-> 0, pps |-> id]
    /\ ended = Missing /\ started = Missing /\ returned = Missing

HevcStreamNext ==
    \/ SendHevcSps \/ SendHevcPps \/ ConfigureHevc \/ SendEnd
    \/ StartFrame \/ ContinueFrame

HevcStreamSpec == HevcStreamInit /\ [][HevcStreamNext]_hevcStreamVars

-----------------------------------------------------------------------------
(* Safety *)

Segment == returned.segment
Source == returned.header.from

\* Dependent segments are completed from the preceding independent segment of the
\* picture, as the documentation of the parser says (src/hevc/stream.rs:7).
CompletedFromOwnPicture == returned # Missing => Source[1] = Segment.pic

\* They are when the first segment of the picture was parsed, whatever was lost
\* before it and in between; the header then names the parameter set it was parsed
\* with.
CompletedBehindFirst ==
    returned # Missing /\ started = Segment.pic =>
        /\ Source[1] = Segment.pic /\ Source[2] <= Segment.number
        /\ returned.header.pps = Segment.pps

\* Nothing is completed across an end of sequence that arrived, even when the
\* new sequence lost its first segments.
NothingAcrossSequences ==
    returned # Missing /\ ended # Missing /\ ended < Segment.pic => Source[1] > ended

\* Segments are parsed with the sets they were written with.
SegmentsWithTheirSets ==
    returned # Missing /\ segments > 0 /\ Segment.pic = frame.pic =>
        returned.sps = wroteSps /\ returned.pps = wrotePps[frame.pps]

=============================================================================
