--------------------------- MODULE MCHttpTransport ---------------------------
(* Two workers, a ring of two sockets and three connections: the ring is full  *)
(* while the master has one more, and its indices wrap.                        *)
EXTENDS HttpTransport

CONSTANTS w1, w2, t1

MCWorkers == {w1, w2}
MCWaiters == {t1}
=============================================================================
