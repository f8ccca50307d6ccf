------------------------------ MODULE Mailboxes ------------------------------
(***************************************************************************)
(* What the notification center promises: a receiver, while it is          *)
(* registered, gets one at a time and in order the messages that were      *)
(* accepted for it; a bounded number of them waits; closing may drop what  *)
(* is left, and nothing arrives afterwards.  Nothing is said of threads,   *)
(* locks or batches.                                                       *)
(***************************************************************************)
EXTENDS Naturals, Sequences

CONSTANTS Receivers,  \* who may receive
          Messages,   \* what may be sent
          Capacity    \* how many accepted messages may wait for a receiver

VARIABLES open,   \* the receivers that are registered
          queue,  \* accepted for each and not handed over yet
          got     \* handed over to each since its registration, in order

mailVars == <<open, queue, got>>

MailInit == /\ open = {}
            /\ queue = [r \in Receivers |-> <<>>]
            /\ got = [r \in Receivers |-> <<>>]

Open(r) == /\ r \notin open
           /\ open' = open \cup {r}
           /\ got' = [got EXCEPT ![r] = <<>>]
           /\ UNCHANGED queue

Put(r, m) == /\ r \in open /\ Len(queue[r]) < Capacity
             /\ queue' = [queue EXCEPT ![r] = Append(@, m)]
             /\ UNCHANGED <<open, got>>

Get(r) == /\ r \in open /\ queue[r] # <<>>
          /\ got' = [got EXCEPT ![r] = Append(@, Head(queue[r]))]
          /\ queue' = [queue EXCEPT ![r] = Tail(@)]
          /\ UNCHANGED open

Close(r) == /\ r \in open
            /\ open' = open \ {r}
            /\ queue' = [queue EXCEPT ![r] = <<>>]
            /\ UNCHANGED got

MailNext == \E r \in Receivers : \/ Open(r) \/ Get(r) \/ Close(r)
                                 \/ \E m \in Messages : Put(r, m)

MailSpec == MailInit /\ [][MailNext]_mailVars
=============================================================================
