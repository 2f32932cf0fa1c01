------------------------------ MODULE H264Stream ------------------------------
(***************************************************************************)
(* H264Parser (src/h264/stream.rs): the tables of parameter sets, the      *)
(* slice headers parsed against them and the first slice of each primary   *)
(* coded picture (7.4.1.2.4).                                              *)
(*                                                                         *)
(* The sender is not part of the crate: it writes pictures of primary and  *)
(* redundant slices as 7.4.1.2.3 and 7.4.1.2.4 ask, replaces parameter     *)
(* sets where 7.4.1.2.1 lets it, and puts delimiters before some pictures. *)
(* The parser may join late.  From then on a slice or a delimiter may be   *)
(* lost or be too damaged to parse; parameter sets arrive.                 *)
(***************************************************************************)
EXTENDS Integers, FiniteSets, Sequences

CONSTANTS
    NoSet,          \* an empty slot of a table; no slice yet
    SpsContents,    \* what a sequence parameter set may say
    PpsIds,         \* picture parameter set ids in use
    H264Headers,    \* header fields a sender chooses from
    MaxPictures,    \* bound: pictures sent
    MaxSets         \* bound: copies of parameter sets sent

\* pocType is pic_order_cnt_type, yuv444 whether chroma_format_idc is 3.
SpsContent == [pocType : 0 .. 2, yuv444 : BOOLEAN]

\* The fields of SliceHeader that tell pictures apart.
HeaderFields == [frameNum : Nat, field : {"Frame", "Top", "Bottom"}, reference : BOOLEAN,
                 lsb : Nat, deltaBottom : Int, delta : Int, idr : BOOLEAN, idrPicId : Nat]

\* With the parameter sets they are written against.
SentHeader == [frameNum : Nat, field : {"Frame", "Top", "Bottom"}, reference : BOOLEAN,
               lsb : Nat, deltaBottom : Int, delta : Int, idr : BOOLEAN, idrPicId : Nat,
               pps : PpsIds, sps : Nat]

ASSUME H264StreamAssumption ==
    /\ SpsContents \subseteq SpsContent
    /\ H264Headers \subseteq HeaderFields
    /\ NoSet \notin SentHeader /\ NoSet \notin [header : SentHeader, pic : Nat]
    /\ MaxPictures \in Nat /\ MaxSets \in Nat

VARIABLES
    spsSlot,    \* H264Parser::sps, the slot in use
    ppsSlots,   \* H264Parser::pps
    prev,       \* H264Parser::prev, with the sender's picture
    boundary,   \* H264Parser::boundary
    sentSps,    \* sender: the sequence parameter set it wrote last
    sentPps,    \* sender: the picture parameter sets it wrote last
    copies,     \* sender: copies of parameter sets written
    pic,        \* sender: the picture being written, counted from 1
    header,     \* sender: its header fields and PPS; NoSet between pictures
    before,     \* sender: those of the picture before
    delimited,  \* a delimiter reached the parser behind its last primary slice
    firsts,     \* the pictures of the slices flagged first_of_picture
    last        \* the slice returned last

h264Sender == <<sentSps, sentPps, copies, pic, header, before>>
h264Parser == <<spsSlot, ppsSlots, prev, boundary>>
h264History == <<delimited, firsts, last>>
h264StreamVars == <<h264Sender, h264Parser, h264History>>

-----------------------------------------------------------------------------
(* The parser *)

\* Mutant: idr_pic_id is not compared.
DiffersButId(p, h, sps) ==
    \/ p.frameNum # h.frameNum \/ p.pps # h.pps \/ p.reference # h.reference \/ p.idr # h.idr
    \/ p.field # h.field
    \/ sps.pocType = 0 /\ (p.lsb # h.lsb \/ p.deltaBottom # h.deltaBottom)
    \/ sps.pocType = 1 /\ p.delta # h.delta

\* Does slice h belong to another primary coded picture than slice p?
Differs(p, h, sps) ==
    \/ p.frameNum # h.frameNum
    \/ p.pps # h.pps
    \/ (p.field = "Frame") # (h.field = "Frame")
    \/ p.field # "Frame" /\ h.field # "Frame" /\ p.field # h.field
    \/ p.reference # h.reference
    \/ sps.pocType = 0 /\ (p.lsb # h.lsb \/ p.deltaBottom # h.deltaBottom)
    \/ sps.pocType = 1 /\ p.delta # h.delta
    \/ p.idr # h.idr
    \/ p.idr /\ h.idr /\ p.idrPicId # h.idrPicId

StoreSps(sps) ==
    /\ spsSlot' = sps
    /\ UNCHANGED <<ppsSlots, prev, boundary>>

\* Mutant: the scaling lists are counted without the SPS.
ReadPpsAlone(pps) == [pps EXCEPT !.as444 = FALSE]

\* Scaling lists can only be read with the SPS the PPS names in its slot: how
\* many there are depends on its chroma format.
ReadPps(pps) ==
    IF ~pps.lists THEN pps
    ELSE IF spsSlot = NoSet THEN NoSet
    ELSE [pps EXCEPT !.as444 = spsSlot.says.yuv444]

StorePps(id, pps) ==
    /\ ppsSlots' = [ppsSlots EXCEPT ![id] = IF pps = NoSet THEN @ ELSE pps]
    /\ UNCHANGED <<spsSlot, prev, boundary>>

\* Mutant: redundant slices may begin a picture.
IsFirstAnySlice(h, redundant) ==
    prev = NoSet \/ boundary \/ Differs(prev.header, h, spsSlot.says)

\* The first slice of a primary coded picture.
IsFirst(h, redundant) ==
    ~redundant /\ (prev = NoSet \/ boundary \/ Differs(prev.header, h, spsSlot.says))

\* A slice of the sender's picture p whose sets are stored.
ParseSlice(h, p, redundant) ==
    /\ ppsSlots[h.pps] # NoSet /\ spsSlot # NoSet
    /\ boundary' = (boundary /\ redundant)
    /\ prev' = IF redundant THEN prev ELSE [header |-> h, pic |-> p]
    /\ last' = [pic |-> p, primary |-> ~redundant, first |-> IsFirst(h, redundant),
                after |-> IF prev = NoSet THEN 0 ELSE prev.pic,
                delimited |-> delimited,
                sps |-> spsSlot, pps |-> ppsSlots[h.pps]]
    /\ firsts' = IF IsFirst(h, redundant) THEN Append(firsts, p) ELSE firsts
    /\ delimited' = (delimited /\ redundant)
    /\ UNCHANGED <<spsSlot, ppsSlots>>

\* A slice that names an empty slot is an error and changes nothing.
RefuseSlice(h) ==
    /\ ppsSlots[h.pps] = NoSet \/ spsSlot = NoSet
    /\ UNCHANGED <<h264Parser, h264History>>

\* Access unit delimiter, end of sequence, end of stream.
ParseDelimiter ==
    /\ boundary' = TRUE
    /\ delimited' = TRUE
    /\ UNCHANGED <<spsSlot, ppsSlots, prev, firsts, last>>

\* SEI, and the other types that only announce an access unit.
ParseOther == UNCHANGED <<h264Parser, h264History>>

-----------------------------------------------------------------------------
(* The sender *)

\* Between the pictures: the copies are numbered, the picture is complete.
WriteSet == /\ copies < MaxSets
            /\ copies' = copies + 1
            /\ before' = IF header = NoSet THEN before ELSE header
            /\ header' = NoSet
            /\ UNCHANGED pic

\* A new sequence parameter set; every PPS in use is written again behind it
\* and the next picture is an IDR picture (7.4.1.2.1).
SendSps ==
    \E says \in SpsContents :
       LET sps == [says |-> says, copy |-> copies + 1]
       IN  /\ WriteSet
           /\ sentSps' = sps
           /\ sentPps' = [id \in PpsIds |-> NoSet]
           /\ StoreSps(sps)
           /\ UNCHANGED h264History

\* A picture parameter set, with or without scaling lists.
SendPps ==
    \E id \in PpsIds, lists \in BOOLEAN :
       /\ sentSps # NoSet
       /\ WriteSet
       /\ LET pps == [lists |-> lists, copy |-> copies + 1,
                      as444 |-> lists /\ sentSps.says.yuv444]
          IN  /\ sentPps' = [sentPps EXCEPT ![id] = pps]
              /\ StorePps(id, ReadPps(pps))
       /\ UNCHANGED <<sentSps, h264History>>

\* Out-of-band configuration (insert_sps, insert_pps): the sets written so far
\* are stored before the first NAL unit.
Configure ==
    /\ spsSlot = NoSet /\ sentSps # NoSet /\ prev = NoSet
    /\ spsSlot' = sentSps
    /\ ppsSlots' = sentPps
    /\ UNCHANGED <<h264Sender, prev, boundary, h264History>>

SendDelimiter ==
    /\ header # NoSet
    /\ before' = header
    /\ header' = NoSet
    /\ UNCHANGED <<sentSps, sentPps, copies, pic>>
    /\ ParseDelimiter \/ ParseOther

Slice(h, p, redundant) ==
    ParseSlice(h, p, redundant) \/ RefuseSlice(h) \/ ParseOther

\* 7.4.1.2.4: the first slices of two consecutive pictures differ in one of the
\* elements the clause lists; a new sequence starts with an IDR picture.
MayFollow(h) ==
    before # NoSet =>
       \/ h.idr /\ (before.idr => h.idrPicId # before.idrPicId)
       \/ /\ ~h.idr /\ before.sps = sentSps.copy
          /\ \/ before.idr
             \/ <<h.frameNum, h.pps, h.field, h.reference>>
                  # <<before.frameNum, before.pps, before.field, before.reference>>
             \/ sentSps.says.pocType = 0
                   /\ <<h.lsb, h.deltaBottom>> # <<before.lsb, before.deltaBottom>>
             \/ sentSps.says.pocType = 1 /\ h.delta # before.delta

\* The parameter set a header is written with.
Written(h, id) ==
    [frameNum |-> h.frameNum, field |-> h.field, reference |-> h.reference, lsb |-> h.lsb,
     deltaBottom |-> h.deltaBottom, delta |-> h.delta, idr |-> h.idr, idrPicId |-> h.idrPicId,
     pps |-> id, sps |-> sentSps.copy]

StartPicture ==
    /\ header = NoSet /\ pic < MaxPictures /\ sentSps # NoSet
    /\ \E h \in H264Headers, id \in PpsIds :
         /\ sentPps[id] # NoSet
         /\ LET w == Written(h, id)
            IN  /\ MayFollow(w)
                /\ header' = w
                /\ pic' = pic + 1
                /\ Slice(w, pic + 1, FALSE)
    /\ UNCHANGED <<sentSps, sentPps, copies, before>>

\* Nothing lies between the pictures.
EndPicture ==
    /\ header # NoSet
    /\ before' = header /\ header' = NoSet
    /\ UNCHANGED <<sentSps, sentPps, copies, pic, h264Parser, h264History>>

ContinuePicture ==
    /\ header # NoSet
    /\ \E redundant \in BOOLEAN : Slice(header, pic, redundant)
    /\ UNCHANGED h264Sender

H264StreamInit ==
    /\ spsSlot = NoSet /\ ppsSlots = [id \in PpsIds |-> NoSet]
    /\ prev = NoSet /\ boundary = TRUE
    /\ sentSps \in {NoSet} \cup [says : SpsContents, copy : {0}]
    /\ sentPps = [id \in PpsIds |-> IF sentSps = NoSet THEN NoSet
                                    ELSE [lists |-> FALSE, copy |-> 0, as444 |-> FALSE]]
    /\ copies = 0 /\ pic = 0 /\ header = NoSet /\ before = NoSet
    /\ delimited = FALSE /\ firsts = <<>> /\ last = NoSet

H264StreamNext ==
    \/ SendSps \/ SendPps \/ Configure \/ SendDelimiter
    \/ StartPicture \/ ContinuePicture \/ EndPicture

H264StreamSpec == H264StreamInit /\ [][H264StreamNext]_h264StreamVars

-----------------------------------------------------------------------------
(* Safety *)

\* No picture is begun twice, whatever slices, redundant slices and delimiters
\* were lost or came back as errors.
NoPictureBeginsTwice ==
    \A i, j \in DOMAIN firsts : firsts[i] = firsts[j] => i = j

\* A primary slice of another picture than the primary slice before it begins a
\* picture, if the two pictures follow each other or a delimiter arrived between
\* them: also when only redundant slices of the new picture came first.
EveryPictureBegins ==
    last # NoSet /\ last.primary /\ last.pic # last.after =>
        (last.pic = last.after + 1 \/ last.delimited => last.first)

\* Every slice that parses was parsed with the sets it was written with, and the
\* scaling lists of its PPS were counted for the chroma format in force, however
\* often the sets were replaced.
ParsedWithItsSets ==
    last # NoSet /\ header # NoSet /\ last.pic = pic =>
        /\ last.sps = sentSps
        /\ last.pps = sentPps[header.pps]
        /\ last.pps.lists => last.pps.as444 = last.sps.says.yuv444

=============================================================================
