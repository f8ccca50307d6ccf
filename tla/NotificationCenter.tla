------------------------- MODULE NotificationCenter -------------------------
(***************************************************************************)
(* common/notification_model: the center, which owns one unit per          *)
(* registered receiver, and the units, each a queue with a thread that     *)
(* calls the receiver.  Senders and removers take the center's lock_; a    *)
(* remover keeps it while it joins the unit's thread.                      *)
(*                                                                         *)
(* The notification loop sleeps with a timeout and under another mutex     *)
(* than the one its notifier holds, so a wakeup may be lost; the timeout   *)
(* replaces it, and in the model the sleep may end at any time.            *)
(***************************************************************************)
EXTENDS Naturals, Sequences

CONSTANTS
  Receivers,         \* the receivers, named by their unique name
  NoRecv,            \* nobody is being removed
  MaxNotifications,  \* max_notifications_per_recv
  MaxSent            \* bound: how many messages are sent in a behaviour

ASSUME CenterAssumption == /\ NoRecv \notin Receivers
                           /\ MaxNotifications \in Nat
                           /\ MaxSent \in Nat

VARIABLES
  registered,  \* the names in receivers_
  removing,    \* whose removal holds the center's lock_, or NoRecv
  atGone,      \* config_.execute_notification_at_recv_gone
  executeAll,  \* execute_all_notification_at_exit of each unit
  stopWork,    \* stop_work_ of each unit
  loop,        \* where the thread of each unit is
  pending,     \* pending_notifications_ of each unit
  taken,       \* notifications_ of each unit: the batch the thread works on
  accepted,    \* history: what add_notification queued since the registration
  delivered,   \* history: what on_notify was called with since then
  sent         \* how many messages were sent; the last one's identity

unitVars == <<executeAll, stopWork, loop, pending, taken, accepted, delivered>>
vars == <<registered, removing, atGone, unitVars, sent>>

Messages == 1 .. MaxSent
Busy == {"test", "sleep", "copy", "notify", "exit", "drain", "done"}

TypeOK ==
  /\ registered \in SUBSET Receivers
  /\ removing \in Receivers \cup {NoRecv}
  /\ atGone \in BOOLEAN
  /\ executeAll \in [Receivers -> BOOLEAN]
  /\ stopWork \in [Receivers -> BOOLEAN]
  /\ loop \in [Receivers -> Busy \cup {"off"}]
  /\ pending \in [Receivers -> Seq(Messages)]
  /\ taken \in [Receivers -> Seq(Messages)]
  /\ accepted \in [Receivers -> Seq(Messages)]
  /\ delivered \in [Receivers -> Seq(Messages)]
  /\ sent \in 0 .. MaxSent

Init ==
  /\ registered = {} /\ removing = NoRecv
  /\ atGone = FALSE
  /\ executeAll = [r \in Receivers |-> FALSE]
  /\ stopWork = [r \in Receivers |-> TRUE]
  /\ loop = [r \in Receivers |-> "off"]
  /\ pending = [r \in Receivers |-> <<>>]
  /\ taken = [r \in Receivers |-> <<>>]
  /\ accepted = [r \in Receivers |-> <<>>]
  /\ delivered = [r \in Receivers |-> <<>>]
  /\ sent = 0

-----------------------------------------------------------------------------
(* notification_center: each operation under lock_.                        *)

LockFree == removing = NoRecv

ChangeConfiguration ==
  /\ LockFree
  /\ atGone' = ~atGone
  /\ UNCHANGED <<registered, removing, unitVars, sent>>

\* add_notification_receiver: a new unit, its thread started.
AddReceiver(r) ==
  /\ LockFree /\ r \notin registered
  /\ registered' = registered \cup {r}
  /\ executeAll' = [executeAll EXCEPT ![r] = atGone]
  /\ stopWork' = [stopWork EXCEPT ![r] = FALSE]
  /\ loop' = [loop EXCEPT ![r] = "test"]
  /\ pending' = [pending EXCEPT ![r] = <<>>]
  /\ taken' = [taken EXCEPT ![r] = <<>>]
  /\ accepted' = [accepted EXCEPT ![r] = <<>>]
  /\ delivered' = [delivered EXCEPT ![r] = <<>>]
  /\ UNCHANGED <<removing, atGone, sent>>

\* Variant of Room: the limit is forgotten.
RoomAlways(r) == ~stopWork[r]

\* add_notification takes a message while the queue holds no more than max.
Room(r) == ~stopWork[r] /\ Len(pending[r]) <= MaxNotifications

\* Variant of SendMessage: the pointer in the queue is null (0).
SendMessageNull(r) ==
  /\ LockFree /\ r \in registered /\ sent < MaxSent
  /\ sent' = sent + 1
  /\ IF Room(r)
     THEN /\ pending' = [pending EXCEPT ![r] = Append(@, 0)]
          /\ accepted' = [accepted EXCEPT ![r] = Append(@, sent + 1)]
     ELSE UNCHANGED <<pending, accepted>>
  /\ UNCHANGED <<registered, removing, atGone, executeAll, stopWork, loop, taken,
                 delivered>>

\* send_message, post_message: a message the unit has no room for is dropped.
SendMessage(r) ==
  /\ LockFree /\ r \in registered /\ sent < MaxSent
  /\ sent' = sent + 1
  /\ IF Room(r)
     THEN /\ pending' = [pending EXCEPT ![r] = Append(@, sent + 1)]
          /\ accepted' = [accepted EXCEPT ![r] = Append(@, sent + 1)]
     ELSE UNCHANGED <<pending, accepted>>
  /\ UNCHANGED <<registered, removing, atGone, executeAll, stopWork, loop, taken,
                 delivered>>

\* remove_notification_receiver up to the join in ~notification_unit.
RemoveReceiver(r) ==
  /\ LockFree /\ r \in registered
  /\ removing' = r
  /\ stopWork' = [stopWork EXCEPT ![r] = TRUE]
  /\ UNCHANGED <<registered, atGone, executeAll, loop, pending, taken, accepted,
                 delivered, sent>>

\* Variant of Removed: the unit is destroyed without the join.
RemovedUnjoined(r) ==
  /\ removing = r
  /\ removing' = NoRecv /\ registered' = registered \ {r}
  /\ UNCHANGED <<atGone, unitVars, sent>>

\* The thread is joined and the unit destroyed with what it still holds.
Removed(r) ==
  /\ removing = r /\ loop[r] = "done"
  /\ removing' = NoRecv /\ registered' = registered \ {r}
  /\ loop' = [loop EXCEPT ![r] = "off"]
  /\ UNCHANGED <<atGone, executeAll, stopWork, pending, taken, accepted, delivered,
                 sent>>

-----------------------------------------------------------------------------
(* notification_unit::execution_loop.                                      *)

Goto(r, here, there) == loop[r] = here /\ loop' = [loop EXCEPT ![r] = there]

centerFrame == <<registered, removing, atGone, executeAll, stopWork, accepted, sent>>

\* Variant of Test: a batch is worked on before stop_work_ is looked at, and the
\* thread sleeps otherwise.
TestNeverStops(r) ==
  /\ Goto(r, "test", IF taken[r] # <<>> THEN "notify" ELSE "sleep")
  /\ UNCHANGED <<centerFrame, pending, taken, delivered>>

\* The top of the loop: leave, work on the batch, or sleep.
Test(r) ==
  /\ Goto(r, "test", IF stopWork[r] THEN "exit"
                     ELSE IF taken[r] # <<>> THEN "notify" ELSE "sleep")
  /\ UNCHANGED <<centerFrame, pending, taken, delivered>>

\* Variant of Wake: after the sleep the queue is not looked at.
WakeWithoutCopy(r) ==
  /\ Goto(r, "sleep", "test")
  /\ UNCHANGED <<centerFrame, pending, taken, delivered>>

\* timed_wait returned: a notify, a spurious wakeup or the timeout.
Wake(r) ==
  /\ Goto(r, "sleep", "copy")
  /\ UNCHANGED <<centerFrame, pending, taken, delivered>>

\* Variant of TakePending: the batch is replaced, not extended.
TakePendingOverwrites(r) ==
  /\ taken' = [taken EXCEPT ![r] = pending[r]]
  /\ pending' = [pending EXCEPT ![r] = <<>>]

\* copy_pending_notifications_unsafe
TakePending(r) ==
  /\ taken' = [taken EXCEPT ![r] = @ \o pending[r]]
  /\ pending' = [pending EXCEPT ![r] = <<>>]

CopyPending(r) ==
  /\ Goto(r, "copy", "test")
  /\ TakePending(r)
  /\ UNCHANGED <<centerFrame, delivered>>

\* Variant of Deliver: the newest message of the batch goes first.
DeliverNewest(r) ==
  /\ taken[r] # <<>>
  /\ delivered' = [delivered EXCEPT ![r] = Append(@, taken[r][Len(taken[r])])]
  /\ taken' = [taken EXCEPT ![r] = SubSeq(@, 1, Len(@) - 1)]

\* One turn of notify_receiver.
Deliver(r) ==
  /\ taken[r] # <<>>
  /\ delivered' = [delivered EXCEPT ![r] = Append(@, Head(taken[r]))]
  /\ taken' = [taken EXCEPT ![r] = Tail(@)]

NotifyReceiver(r) ==
  /\ loop[r] = "notify" /\ Deliver(r)
  /\ UNCHANGED <<centerFrame, loop, pending>>

BatchDone(r) ==
  /\ taken[r] = <<>> /\ Goto(r, "notify", "copy")
  /\ UNCHANGED <<centerFrame, pending, taken, delivered>>

\* After the loop: with the option set, a last batch is taken, if there is one.
ExitDrain(r) ==
  /\ executeAll[r] /\ pending[r] # <<>>
  /\ Goto(r, "exit", "drain")
  /\ TakePending(r)
  /\ UNCHANGED <<centerFrame, delivered>>

ExitAtOnce(r) ==
  /\ ~executeAll[r] \/ pending[r] = <<>>
  /\ Goto(r, "exit", "done")
  /\ UNCHANGED <<centerFrame, pending, taken, delivered>>

DrainReceiver(r) ==
  /\ loop[r] = "drain" /\ Deliver(r)
  /\ UNCHANGED <<centerFrame, loop, pending>>

DrainDone(r) ==
  /\ taken[r] = <<>> /\ Goto(r, "drain", "done")
  /\ UNCHANGED <<centerFrame, pending, taken, delivered>>

Thread(r) ==
  \/ Test(r) \/ Wake(r) \/ CopyPending(r) \/ NotifyReceiver(r) \/ BatchDone(r)
  \/ ExitDrain(r) \/ ExitAtOnce(r) \/ DrainReceiver(r) \/ DrainDone(r)

-----------------------------------------------------------------------------
Next == \/ ChangeConfiguration
        \/ \E r \in Receivers : \/ AddReceiver(r) \/ SendMessage(r)
                                \/ RemoveReceiver(r) \/ Removed(r)
                                \/ Thread(r)

Spec == Init /\ [][Next]_vars

\* Every unit's thread runs (the sleep has a timeout), and a join returns when
\* the thread has ended.
Fairness == \A r \in Receivers : WF_vars(Thread(r)) /\ WF_vars(Removed(r))

FairSpec == Spec /\ Fairness

-----------------------------------------------------------------------------
\* Every message a unit accepted was delivered once, in the order of sending,
\* or is still held in that order: batches, wakeups, a stop in any place and
\* the drain at exit neither lose, repeat nor reorder one before the unit is
\* destroyed (add_notification, copy_pending_notifications_unsafe,
\* notify_receiver).
NothingLost ==
  \A r \in Receivers : accepted[r] = delivered[r] \o taken[r] \o pending[r]

\* A unit never holds more than two full queues, one with the senders and one
\* with the thread: a slow receiver costs bounded memory.
HeldBounded ==
  \A r \in Receivers : /\ Len(pending[r]) <= MaxNotifications + 1
                       /\ Len(taken[r]) + Len(pending[r]) <= 2 * (MaxNotifications + 1)

\* When remove_notification_receiver has returned no thread is left that could
\* call the receiver, which its owner may now destroy; and only the receiver
\* under removal has been told to stop.
NoThreadAfterRemoval ==
  \A r \in Receivers : /\ loop[r] # "off" <=> r \in registered
                       /\ r \in registered => (stopWork[r] <=> removing = r)
                       /\ loop[r] \in {"exit", "drain", "done"} => stopWork[r]

\* Why the memory is bounded: the thread takes the queue only with an empty
\* batch, except at exit, when nothing can be queued any more.
BatchBounded ==
  \A r \in Receivers :
     /\ loop[r] \in {"sleep", "copy"} => taken[r] = <<>>
     /\ loop[r] \in {"test", "notify", "exit"} => Len(taken[r]) <= MaxNotifications + 1

Inv == TypeOK /\ NothingLost /\ HeldBounded /\ NoThreadAfterRemoval /\ BatchBounded

\* What a unit accepted is delivered, unless its receiver is removed: the lost
\* wakeup only delays it.
AcceptedIsDelivered ==
  \A r \in Receivers, n \in Messages :
     Len(accepted[r]) >= n ~> (Len(delivered[r]) >= n \/ removing = r \/ r \notin registered)

\* remove_notification_receiver returns, although it joins the unit's thread
\* with the center's lock_ held and the thread may be in the middle of a batch.
RemovalReturns == \A r \in Receivers : removing = r ~> removing = NoRecv

\* The center and its units implement the mailboxes: what a mailbox holds is the
\* batch followed by the queue, and it is closed when the removal returns.
Held(r) == IF r \in registered THEN taken[r] \o pending[r] ELSE <<>>

Abstract == INSTANCE Mailboxes WITH
              Capacity <- 2 * (MaxNotifications + 1),
              open <- registered,
              queue <- [r \in Receivers |-> Held(r)],
              got <- delivered

ImplementsMailboxes == Abstract!MailSpec
=============================================================================
