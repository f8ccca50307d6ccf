------------------------ MODULE MCNotificationCenter ------------------------
(* Two receivers, queues of at most two (max = 1), three messages: a queue  *)
(* can overflow, and a batch be in delivery while the next one queues up.   *)
EXTENDS NotificationCenter

CONSTANTS r1, r2

MCReceivers == {r1, r2}
=============================================================================
