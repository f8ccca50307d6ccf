---------------------------- MODULE MCFileBuffer ----------------------------
(* file_info_buffer from its two sides: behaviours in which the messages of   *)
(* the core fill it (FilePipeline), and behaviours in which streams read from *)
(* it what update_info tells them (ContentStream).  What the second takes     *)
(* for granted of the first is that the numbers never fall (BufferGrows).     *)
EXTENDS MCFilePipeline, MCContentStream

VARIABLE side  \* "filled" or "read"

bufferRunVars == <<side, vars, streamVars>>

\* The ranges asked for make no difference to the side that is filled.
RunInit ==
  /\ Init /\ StreamInit
  /\ \/ side = "read"
     \/ side = "filled" /\ range = [r \in Requests |-> [start |-> 0, end |-> FileSize]]

RunNext ==
  /\ \/ side = "filled" /\ Next /\ UNCHANGED streamVars
     \/ side = "read" /\ StreamNext /\ UNCHANGED vars
  /\ UNCHANGED side

\* The updater's thread and the workers run; the notification alone, without its
\* deadline, has to wake a stream.
RunSpec == RunInit /\ [][RunNext]_bufferRunVars /\ WF_vars(OnNotify) /\ Running
=============================================================================
