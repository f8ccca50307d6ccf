--------------------------- MODULE MCFilePipeline ---------------------------
(* Two files, of which one may be counted beyond its size, and a queue that *)
(* is full with two messages.                                               *)
EXTENDS FilePipeline

CONSTANTS f1, f2

FilesMC == {f1, f2}
BytesMC == [f \in FilesMC |-> IF f = f1 THEN 2 ELSE 1]
=============================================================================
