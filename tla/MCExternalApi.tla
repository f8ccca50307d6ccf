---------------------------- MODULE MCExternalApi ----------------------------
(* Two good configurations on different ports, one that does not parse, one      *)
(* without a document root and one with chunks too small.                        *)
EXTENDS ExternalApi, TLC

CONSTANTS good, other, broken, rootless, small, t1, t2

MCConfigs == {good, other, broken, rootless, small}
MCParsable == MCConfigs \ {broken}

Least == [server_addr |-> "localhost", tc_port_start |-> 6881, tc_port_end |-> 6889]
Usual == Least @@ [doc_root |-> "films"]
MCGiven == [cfg \in MCParsable |->
              CASE cfg = good -> Usual
                [] cfg = other -> Usual @@ [server_port |-> 8081]
                [] cfg = small -> Usual @@ [hc_max_chunk_size |-> 999]
                [] cfg = rootless -> Least]
MCDirectories == {"films"}

MCUses == {"files", "start", "pause", "resume", "stop"}
MCThreads == {t1, t2}
ThreadSymmetry == Permutations(MCThreads)
=============================================================================
