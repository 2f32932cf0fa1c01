------------------------ MODULE MCH264WindowRefinement ------------------------
(* Frames, fields and gaps of a stream with a window of two frames and a      *)
(* frame_num that wraps after eight; gaps narrower and wider than the window.*)
EXTENDS H264WindowRefinement

WindowSps == {[maxNumRefFrames |-> 2, gapsAllowed |-> TRUE, maxFrameNum |-> 8,
               pocType |-> 2, maxLsb |-> 4, offsetsForRefFrame |-> <<>>,
               offsetForNonRefPic |-> 0, offsetTopToBottom |-> 0]}

BaseHeader == [idr |-> FALSE, reference |-> TRUE, frameNum |-> 0,
               structure |-> "Frame", lsb |-> 0, deltaBottom |-> 0,
               delta |-> <<0, 0>>, longTermReference |-> FALSE,
               adaptive |-> FALSE, mmco |-> <<>>]

WindowHeaders ==
    {[BaseHeader EXCEPT !.idr = TRUE]}
      \cup {[BaseHeader EXCEPT !.frameNum = n, !.structure = s] :
              n \in {0, 1, 2, 5}, s \in Structures}
      \cup {[BaseHeader EXCEPT !.frameNum = n, !.reference = FALSE] : n \in {0, 1, 5}}
=============================================================================
