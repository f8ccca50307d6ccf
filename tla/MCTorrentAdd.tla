---------------------------- MODULE MCTorrentAdd ----------------------------
(* Three calls of add_torrent over two .torrent files: a duplicate, a       *)
(* timeout and an unrelated torrent can meet in one behaviour.              *)
EXTENDS TorrentAdd

CONSTANTS p1, p2, p3, m1, m2

MCPaths == {p1, p2, p3}
MCMetas == {m1, m2}
=============================================================================
