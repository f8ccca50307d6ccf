----------------------------- MODULE MCFileInfo -----------------------------
(* A tiny file, one of more than a range of ten pieces, the least that      *)
(* file_info_get_download_offset asks for, that shares a piece with it, and *)
(* a third one of more than two ranges.  The pieces of the first two come   *)
(* in every order, so that a scan meets every pattern of gaps in the first  *)
(* range of the second file; those of the third at most three ahead.        *)
EXTENDS FileInfo

MCFirst == <<0, 0, 13>>
MCLast == <<0, 13, 36>>
MCBytes == <<1, 27, 46>>
MCWindow == [p \in 0 .. 36 |-> IF p <= 13 THEN 13 ELSE 3]
=============================================================================
