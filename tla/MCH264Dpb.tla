------------------------------ MODULE MCH264Dpb ------------------------------
(***************************************************************************)
(* Small instances of H264Dpb for TLC: the parameter sets and headers of   *)
(* the streams each run explores.                                          *)
(***************************************************************************)
EXTENDS H264Dpb

BaseSps == [maxNumRefFrames |-> 2, gapsAllowed |-> TRUE, maxFrameNum |-> 4,
            pocType |-> 2, maxLsb |-> 4, offsetsForRefFrame |-> <<>>,
            offsetForNonRefPic |-> 0, offsetTopToBottom |-> 0]

BaseHeader == [idr |-> FALSE, reference |-> TRUE, frameNum |-> 0,
               structure |-> "Frame", lsb |-> 0, deltaBottom |-> 0,
               delta |-> <<0, 0>>, longTermReference |-> FALSE,
               adaptive |-> FALSE, mmco |-> <<>>]

Idr == [BaseHeader EXCEPT !.idr = TRUE]
LongTermIdr == [Idr EXCEPT !.longTermReference = TRUE]

Coded(frameNum, structure, reference) ==
    [BaseHeader EXCEPT !.frameNum = frameNum, !.structure = structure,
                       !.reference = reference]

Adaptive(frameNum, structure, commands) ==
    [Coded(frameNum, structure, TRUE) EXCEPT !.adaptive = TRUE, !.mmco = commands]

Mmco(code, diff, idx) == [code |-> code, diff |-> diff, idx |-> idx]

\* Fields that pair, do not pair, or are abandoned.
FieldSps == {[BaseSps EXCEPT !.pocType = 0, !.gapsAllowed = g] : g \in BOOLEAN}
FieldHeaders ==
    {[Idr EXCEPT !.structure = s] : s \in {"Frame", "TopField"}}
      \cup {Coded(n, s, TRUE) : n \in 1 .. 2, s \in {"TopField", "BottomField"}}
      \cup {Coded(0, "BottomField", TRUE)}
      \cup {Coded(1, "BottomField", FALSE)}

\* Memory management on fields: indices shared by the fields of a pair.
FieldCommands ==
    {Mmco(1, d, 0) : d \in 0 .. 1} \cup {Mmco(2, 0, 1)}
      \cup {Mmco(3, d, 0) : d \in 0 .. 2} \cup {Mmco(3, 0, 1)}
      \cup {Mmco(5, 0, 0)} \cup {Mmco(6, 0, i) : i \in 0 .. 1}
FieldMmcoHeaders ==
    {[LongTermIdr EXCEPT !.structure = "TopField"]} \cup FieldHeaders
      \cup {Adaptive(n, "BottomField", <<c>>) : n \in 0 .. 1, c \in FieldCommands}
      \cup {Adaptive(1, "TopField", <<c>>) : c \in {Mmco(3, 1, 0), Mmco(5, 0, 0),
                                                     Mmco(6, 0, 0)}}
      \cup {Adaptive(1, s, <<Mmco(1, 0, 0), Mmco(6, 0, 1)>>) :
              s \in {"TopField", "BottomField"}}

\* Memory management on frames: single commands and the pairs that meet.
FrameCommands ==
    {Mmco(1, 0, 0), Mmco(2, 0, 0)}
      \cup {Mmco(3, 0, i) : i \in 0 .. 1}
      \cup {Mmco(4, 0, m) : m \in 0 .. 1}
      \cup {Mmco(5, 0, 0), Mmco(6, 0, 1)}
CommandPairs ==
    {<<Mmco(3, 0, 0), Mmco(6, 0, i)>> : i \in 0 .. 1}
      \cup {<<Mmco(6, 0, 0), Mmco(3, 0, 1)>>}
      \cup {<<Mmco(5, 0, 0), c>> : c \in {Mmco(3, 0, 0), Mmco(6, 0, 0)}}
      \cup {<<Mmco(3, 0, 1), Mmco(4, 0, 1)>>}
FrameMmcoHeaders ==
    {Adaptive(1, "Frame", <<c>>) : c \in FrameCommands}
      \cup {Adaptive(1, "Frame", cs) : cs \in CommandPairs}

MmcoHeaders == FieldMmcoHeaders \cup FrameMmcoHeaders

\* Operation 5 on a frame whose counts lie at the two ends of their range.
RefreshSps == {[BaseSps EXCEPT !.pocType = 1, !.offsetTopToBottom = -15]}
RefreshHeaders ==
    {Idr} \cup {[Adaptive(1, "Frame", <<Mmco(5, 0, 0)>>) EXCEPT !.delta = <<a, b>>] :
                  a, b \in {-15, 0, 15}}
=============================================================================
