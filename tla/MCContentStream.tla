--------------------------- MODULE MCContentStream ---------------------------
(* Two requests for a file of three positions in chunks of two: ranges of     *)
(* one and of two chunks, the end before, at and behind the end of the file,  *)
(* and one with the end before the start.                                     *)
EXTENDS ContentStream

CONSTANTS r1, r2

MCRequests == {r1, r2}

MCRanges ==
  {[start |-> p[1], end |-> p[2]] :
     p \in {<<0, 3>>, <<0, 2>>, <<1, 2>>, <<1, 4>>, <<2, 1>>}}
=============================================================================
