----------------------------- MODULE TorrentAdd -----------------------------
(***************************************************************************)
(* Adding, removing and losing torrents: torrent_core (the API side, every *)
(* operation under core_lock_), its main loop thread, the controller's     *)
(* alert handlers, the shared_buffer and the add_torrent_future, composed  *)
(* with libtorrent's session as the code in src/ uses it.                  *)
(*                                                                         *)
(* A torrent object of the session and the torrent_ex_info of the buffer   *)
(* are both named by the sandbox directory (save_path) created for one     *)
(* call of add_torrent: prepare_sandbox refuses a directory that exists.   *)
(* What two calls for the same .torrent file share is the info-hash,       *)
(* meta[p].  A call that fails before the buffer (service not running, bad *)
(* file, no directory) changes nothing and has no action.                  *)
(***************************************************************************)
EXTENDS Naturals, Sequences

CONSTANTS
  Paths,      \* the sandbox directories, one per call of add_torrent
  Metas,      \* the info-hashes of the .torrent files given to add_torrent
  NoPath,     \* no sandbox: an empty torrent_handle
  NoMeta,     \* the sandbox is not used yet
  MaxBacklog  \* bound: no notice is raised over a longer backlog of work

ASSUME AddAssumption == /\ NoPath \notin Paths
                        /\ NoMeta \notin Metas
                        /\ MaxBacklog \in Nat

VARIABLES
  curState,  \* torrent_core::cur_state_
  session,   \* core_session_: "open", or "deleted" by stop_service
  holder,    \* what the owner of core_lock_ is doing: "none", "add" or "stop"
  adding,    \* the sandbox of the call inside add_torrent, or NoPath
  outcome,   \* what the caller of add_torrent was told of each sandbox
  meta,      \* the info-hash each sandbox was created for
  buffer,    \* shared_buffer::torrents_
  future,    \* torrent_ex_info::future: "none" (null), "pending", "ready"
  promised,  \* add_torrent_future::handle
  handle,    \* torrent_ex_info::handle
  live,      \* the torrents in the libtorrent session
  requests,  \* calls queued for the session's network thread, in order
  alerts,    \* alerts the session has raised, in order
  batch,     \* the alerts popped by handle_core_notifications, not handled yet
  loop,      \* where the main loop thread is
  current    \* the torrent on_add_torrent is working on, or NoPath

coreVars == <<curState, session, holder, adding, outcome, meta>>
infoVars == <<buffer, future, promised, handle>>
sessVars == <<live, requests, alerts>>
loopVars == <<batch, loop, current>>
vars == <<coreVars, infoVars, sessVars, loopVars>>

Elements(s) == {s[i] : i \in DOMAIN s}

Requests == [op : {"add", "remove"}, path : Paths]
Alerts == [type : {"added", "status"}, path : Paths]
            \cup [type : {"failed", "listen_failed"}, path : {NoPath}]

TypeOK ==
  /\ curState \in {"running", "stoped"}
  /\ session \in {"open", "deleted"}
  /\ holder \in {"none", "add", "stop"}
  /\ adding \in Paths \cup {NoPath}
  /\ outcome \in [Paths -> {"none", "ok", "failed", "removed"}]
  /\ meta \in [Paths -> Metas \cup {NoMeta}]
  /\ buffer \in SUBSET Paths
  /\ future \in [Paths -> {"none", "pending", "ready"}]
  /\ promised \in [Paths -> Paths \cup {NoPath}]
  /\ handle \in [Paths -> Paths \cup {NoPath}]
  /\ live \in SUBSET Paths
  /\ requests \in Seq(Requests)
  /\ alerts \in Seq(Alerts)
  /\ batch \in Seq(Alerts)
  /\ loop \in {"check", "wait", "dispatch", "publish", "release",
               "exited", "crashed"}
  /\ current \in Paths \cup {NoPath}

\* launch_service has just returned true.
Init ==
  /\ curState = "running" /\ session = "open"
  /\ holder = "none" /\ adding = NoPath
  /\ outcome = [p \in Paths |-> "none"]
  /\ meta = [p \in Paths |-> NoMeta]
  /\ buffer = {}
  /\ future = [p \in Paths |-> "none"]
  /\ promised = [p \in Paths |-> NoPath]
  /\ handle = [p \in Paths |-> NoPath]
  /\ live = {} /\ requests = <<>> /\ alerts = <<>>
  /\ batch = <<>> /\ loop = "check" /\ current = NoPath

-----------------------------------------------------------------------------
(* The API side.  A process that crashed takes no further step.            *)

Alive == loop # "crashed"

\* An operation of torrent_core may begin: core_lock_ is free, the service runs.
Enter == Alive /\ holder = "none" /\ curState = "running"

\* The name is random and must not exist yet; which unused one it is makes no
\* difference.
Fresh(p) == meta[p] = NoMeta /\ p = CHOOSE q \in Paths : meta[q] = NoMeta

\* Variant of AddTorrent: the session is asked before the buffer has the entry.
AddTorrentBufferLater(p, m) ==
  /\ Enter
  /\ Fresh(p)
  /\ meta' = [meta EXCEPT ![p] = m]
  /\ future' = [future EXCEPT ![p] = "pending"]
  /\ requests' = Append(requests, [op |-> "add", path |-> p])
  /\ holder' = "add" /\ adding' = p
  /\ UNCHANGED <<curState, session, outcome, buffer, promised, handle, live,
                 alerts, loopVars>>

\* add_torrent up to the wait: new sandbox, buffer entry, promise, async add.
AddTorrent(p, m) ==
  /\ Enter
  /\ Fresh(p)
  /\ meta' = [meta EXCEPT ![p] = m]
  /\ buffer' = buffer \cup {p}
  /\ future' = [future EXCEPT ![p] = "pending"]
  /\ requests' = Append(requests, [op |-> "add", path |-> p])
  /\ holder' = "add" /\ adding' = p
  /\ UNCHANGED <<curState, session, outcome, promised, handle, live, alerts,
                 loopVars>>

\* Variant of AddAnswered: the wait ends without a look at the status.
AddAnsweredUnchecked(p) ==
  /\ Alive /\ adding = p /\ future[p] # "none"
  /\ handle' = [handle EXCEPT ![p] = promised[p]]
  /\ future' = [future EXCEPT ![p] = "none"]
  /\ outcome' = [outcome EXCEPT ![p] = "ok"]
  /\ holder' = "none" /\ adding' = NoPath
  /\ UNCHANGED <<curState, session, meta, buffer, promised, sessVars, loopVars>>

\* timed_wait_result saw the status: the handle is copied, the promise reset.
AddAnswered(p) ==
  /\ Alive /\ adding = p /\ future[p] = "ready"
  /\ handle' = [handle EXCEPT ![p] = promised[p]]
  /\ future' = [future EXCEPT ![p] = "none"]
  /\ outcome' = [outcome EXCEPT ![p] = "ok"]
  /\ holder' = "none" /\ adding' = NoPath
  /\ UNCHANGED <<curState, session, meta, buffer, promised, sessVars, loopVars>>

\* The deadline passed without the status.  The clean-up removes the entry of
\* ex_info->handle, which was never assigned, so it removes nothing.
AddTimeout(p) ==
  /\ Alive /\ adding = p /\ future[p] = "pending"
  /\ future' = [future EXCEPT ![p] = "none"]
  /\ buffer' = buffer \ {handle[p]}
  /\ outcome' = [outcome EXCEPT ![p] = "failed"]
  /\ holder' = "none" /\ adding' = NoPath
  /\ UNCHANGED <<curState, session, meta, promised, handle, sessVars, loopVars>>

\* Variant of RemoveTorrent: the id of a failed call is accepted too.
RemoveTorrentAnyId(p) ==
  /\ Enter
  /\ p \in buffer
  /\ requests' = Append(requests, [op |-> "remove", path |-> handle[p]])
  /\ buffer' = buffer \ {p}
  /\ outcome' = [outcome EXCEPT ![p] = "removed"]
  /\ UNCHANGED <<curState, session, holder, adding, meta, future, promised,
                 handle, live, alerts, loopVars>>

\* Variant of RemoveTorrent: the session is not told.
RemoveTorrentBufferOnly(p) ==
  /\ Enter
  /\ outcome[p] = "ok" /\ p \in buffer
  /\ buffer' = buffer \ {p}
  /\ outcome' = [outcome EXCEPT ![p] = "removed"]
  /\ UNCHANGED <<curState, session, holder, adding, meta, future, promised,
                 handle, sessVars, loopVars>>

\* remove_torrent of an id add_torrent returned.  When the session lost the
\* torrent before, the call on its expired handle may throw, and the catch
\* clause skips the removal of the entry.
RemoveTorrent(p) ==
  /\ Enter
  /\ outcome[p] = "ok" /\ p \in buffer
  /\ \/ /\ requests' = Append(requests, [op |-> "remove", path |-> handle[p]])
        /\ buffer' = buffer \ {p}
        /\ outcome' = [outcome EXCEPT ![p] = "removed"]
     \/ /\ handle[p] \notin live
        /\ UNCHANGED <<requests, buffer, outcome>>
  /\ UNCHANGED <<curState, session, holder, adding, meta, future, promised,
                 handle, live, alerts, loopVars>>

\* stop_service up to the join of the main loop; it keeps core_lock_.
StopService ==
  /\ Enter
  /\ curState' = "stoped" /\ holder' = "stop"
  /\ UNCHANGED <<session, adding, outcome, meta, infoVars, sessVars, loopVars>>

\* Variant of StopJoined: the session is deleted without the join.
StopWithoutJoin ==
  /\ holder = "stop"
  /\ holder' = "none" /\ session' = "deleted"
  /\ live' = {} /\ requests' = <<>> /\ alerts' = <<>>
  /\ UNCHANGED <<curState, adding, outcome, meta, infoVars, loopVars>>

\* The loop has been joined: the session is deleted with all it holds.
StopJoined ==
  /\ holder = "stop" /\ loop = "exited"
  /\ holder' = "none" /\ session' = "deleted"
  /\ live' = {} /\ requests' = <<>> /\ alerts' = <<>>
  /\ UNCHANGED <<curState, adding, outcome, meta, infoVars, loopVars>>

-----------------------------------------------------------------------------
(* libtorrent's network thread.                                            *)

Raise(type, p) == alerts' = Append(alerts, [type |-> type, path |-> p])

\* A queued async_add_torrent.  flag_duplicate_is_error is cleared, so for an
\* info-hash already in the session the alert carries the EXISTING torrent.
SessionAdd ==
  /\ Alive /\ session = "open"
  /\ requests # <<>> /\ Head(requests).op = "add"
  /\ LET p == Head(requests).path
         same == {q \in live : meta[q] = meta[p]}
     IN  \/ /\ same # {}
            /\ \E q \in same : Raise("added", q)
            /\ UNCHANGED live
         \/ same = {} /\ live' = live \cup {p} /\ Raise("added", p)
         \/ same = {} /\ Raise("failed", NoPath) /\ UNCHANGED live
  /\ requests' = Tail(requests)
  /\ UNCHANGED <<coreVars, infoVars, loopVars>>

\* A queued remove_torrent (without delete_files: no torrent_deleted_alert).
SessionRemove ==
  /\ Alive /\ session = "open"
  /\ requests # <<>> /\ Head(requests).op = "remove"
  /\ live' = live \ {Head(requests).path}
  /\ requests' = Tail(requests)
  /\ UNCHANGED <<coreVars, infoVars, alerts, loopVars>>

\* A state_update or torrent_paused alert of a torrent, or a listen_failed one.
SessionNotify ==
  /\ Alive /\ session = "open"
  /\ Len(requests) + Len(alerts) + Len(batch) < MaxBacklog
  /\ \/ \E p \in live : Raise("status", p)
     \/ Raise("listen_failed", NoPath)
  /\ UNCHANGED <<coreVars, infoVars, live, requests, loopVars>>

-----------------------------------------------------------------------------
(* The main loop thread.  It never takes core_lock_.                       *)

\* Variant of LoopCheck: the service state is not tested.
LoopCheckForever ==
  /\ loop = "check"
  /\ loop' = "wait"
  /\ UNCHANGED <<coreVars, infoVars, sessVars, batch, current>>

LoopCheck ==
  /\ loop = "check"
  /\ loop' = IF curState = "running" THEN "wait" ELSE "exited"
  /\ UNCHANGED <<coreVars, infoVars, sessVars, batch, current>>

LoopWait ==
  /\ loop = "wait"
  /\ \/ alerts # <<>> /\ batch' = alerts /\ alerts' = <<>> /\ loop' = "dispatch"
     \/ alerts = <<>> /\ loop' = "check" /\ UNCHANGED <<batch, alerts>>
  /\ UNCHANGED <<coreVars, infoVars, live, requests, current>>

LoopBatchDone ==
  /\ loop = "dispatch" /\ batch = <<>>
  /\ loop' = "check"
  /\ UNCHANGED <<coreVars, infoVars, sessVars, batch, current>>

\* The alert the loop takes next from its batch.
Dispatch(type) == /\ loop = "dispatch" /\ batch # <<>>
                  /\ Head(batch).type = type
                  /\ batch' = Tail(batch)

\* torrent_remove, the controller's answer to a torrent nobody asked for.
TorrentRemove(p) == requests' = Append(requests, [op |-> "remove", path |-> p])

\* on_add_torrent with an error: it returns and leaves the caller waiting.
OnAddFailed ==
  /\ Dispatch("failed")
  /\ UNCHANGED <<coreVars, infoVars, sessVars, loop, current>>

\* Variant of OnAddTorrent: an answer nobody waits for is ignored.
OnAddTorrentIgnored ==
  /\ Dispatch("added")
  /\ LET p == Head(batch).path
     IN  IF p \in buffer /\ future[p] # "none"
         THEN loop' = "publish" /\ current' = p
         ELSE UNCHANGED <<loop, current>>
  /\ UNCHANGED <<coreVars, infoVars, sessVars>>

\* Variant of OnAddTorrent: with the torrent its extended info goes as well.
OnAddTorrentErases ==
  /\ Dispatch("added")
  /\ LET p == Head(batch).path
     IN  IF p \in buffer /\ future[p] # "none"
         THEN loop' = "publish" /\ current' = p /\ UNCHANGED <<requests, buffer>>
         ELSE /\ TorrentRemove(p) /\ buffer' = buffer \ {p}
              /\ UNCHANGED <<loop, current>>
  /\ UNCHANGED <<coreVars, future, promised, handle, live, alerts>>

\* on_add_torrent up to the test of ex_info->future.  The handle of a torrent the
\* session has lost may have expired, and then the handler only returns.
OnAddTorrent ==
  /\ Dispatch("added")
  /\ LET p == Head(batch).path
         awaited == p \in buffer /\ future[p] # "none"
     IN  \/ awaited /\ loop' = "publish" /\ current' = p /\ UNCHANGED requests
         \/ ~awaited /\ TorrentRemove(p) /\ UNCHANGED <<loop, current>>
         \/ p \notin live /\ UNCHANGED <<requests, loop, current>>
  /\ UNCHANGED <<coreVars, infoVars, live, alerts>>

\* The files are announced; then ex_info->future is read again, and a null
\* pointer is dereferenced if the caller reset it in the meantime.
OnAddPublish ==
  /\ loop = "publish"
  /\ loop' = IF future[current] = "none" THEN "crashed" ELSE "release"
  /\ UNCHANGED <<coreVars, infoVars, sessVars, batch, current>>

\* setup_torrent is done: the handle is stored and the status set, in a promise
\* the caller may have abandoned since.
OnAddRelease ==
  /\ loop = "release"
  /\ promised' = [promised EXCEPT ![current] = current]
  /\ future' = [future EXCEPT ![current] = IF @ = "pending" THEN "ready" ELSE @]
  /\ loop' = "dispatch" /\ current' = NoPath
  /\ UNCHANGED <<coreVars, buffer, handle, sessVars, batch>>

\* Variant of OnStatus: the promise is looked for, as in on_add_torrent.
OnStatusNeedsPromise ==
  /\ Dispatch("status")
  /\ LET p == Head(batch).path
     IN  IF p \in buffer /\ future[p] # "none" THEN UNCHANGED requests
         ELSE TorrentRemove(p)
  /\ UNCHANGED <<coreVars, infoVars, live, alerts, loop, current>>

\* on_update, on_pause: a torrent without extended info is removed; an expired
\* handle throws, and handle_core_notifications goes on with the next alert.
OnStatus ==
  /\ Dispatch("status")
  /\ LET p == Head(batch).path
     IN  \/ p \in buffer /\ UNCHANGED requests
         \/ p \notin buffer /\ TorrentRemove(p)
         \/ p \notin live /\ UNCHANGED requests
  /\ UNCHANGED <<coreVars, infoVars, live, alerts, loop, current>>

\* handle_critical_error_notification: the loop will leave by itself.
OnListenFailed ==
  /\ Dispatch("listen_failed")
  /\ curState' = "stoped"
  /\ UNCHANGED <<session, holder, adding, outcome, meta, infoVars, sessVars,
                 loop, current>>

-----------------------------------------------------------------------------
Return(p) == AddAnswered(p) \/ AddTimeout(p)

Session == SessionAdd \/ SessionRemove

Loop == \/ LoopCheck \/ LoopWait \/ LoopBatchDone
        \/ OnAddFailed \/ OnAddTorrent \/ OnAddPublish \/ OnAddRelease
        \/ OnStatus \/ OnListenFailed

Next == \/ \E p \in Paths, m \in Metas : AddTorrent(p, m)
        \/ \E p \in Paths : AddAnswered(p) \/ AddTimeout(p) \/ RemoveTorrent(p)
        \/ StopService \/ StopJoined
        \/ SessionAdd \/ SessionRemove \/ SessionNotify
        \/ Loop

Spec == Init /\ [][Next]_vars

\* The threads run: the caller's wait has a deadline, the loop's wait too, and
\* the session serves its queue.
Fairness == /\ \A p \in Paths : WF_vars(Return(p))
            /\ WF_vars(StopJoined) /\ WF_vars(Session) /\ WF_vars(Loop)

FairSpec == Spec /\ Fairness

-----------------------------------------------------------------------------
\* The handle a caller receives is that of the torrent it asked for: an answer
\* meant for another sandbox (the existing torrent of a duplicate, a late alert
\* of a call that timed out) never reaches it (sequential_torrent_controller
\* add_torrent and on_add_torrent).
OwnHandle ==
  \A p \in Paths : /\ handle[p] \in {NoPath, p}
                   /\ outcome[p] = "ok" => handle[p] = p

\* A torrent in the session always has extended info in the shared buffer, or
\* the request to remove it is queued: no torrent downloads unseen by the
\* buffer (torrent_core add_torrent, remove_torrent).
LiveTracked ==
  \A p \in live : \/ p \in buffer
                  \/ [op |-> "remove", path |-> p] \in Elements(requests)

\* A torrent whose add succeeded leaves the session only when its owner removes
\* it, or when a second call names the same info-hash: late alerts, timeouts
\* of other calls and status alerts never take it away.
LostOnlyToDuplicate ==
  \A p \in Paths :
     outcome[p] = "ok" /\ session = "open" /\ p \notin live
       => \E q \in Paths \ {p} : meta[q] = meta[p]

\* The id a caller holds keeps naming an entry of the buffer until the caller
\* removes it, whatever the loop does meanwhile.
AcknowledgedHasEntry == \A p \in Paths : outcome[p] = "ok" => p \in buffer

\* stop_service deletes the session only when the main loop can no longer
\* touch it, although the loop may be in the middle of a batch when it begins.
SessionOutlivesLoop == session = "deleted" => loop = "exited"

-----------------------------------------------------------------------------
(* Why the above holds: the life of a sandbox up to the answer.            *)

Queued(p) == [op |-> "add", path |-> p] \in Elements(requests)

\* Nothing outside the buffer knows the torrent yet.
Unborn(p) == /\ p \notin live /\ promised[p] = NoPath /\ current # p
             /\ [type |-> "added", path |-> p] \notin Elements(alerts) \cup Elements(batch)

QueuedOnce ==
  \A i, j \in DOMAIN requests :
     requests[i].op = "add" /\ requests[j] = requests[i] => i = j

\* The life of one sandbox: unused, queued in the session, answered, returned.
\* A handle is stored once, by the loop, for the torrent the call asked for,
\* and an add request is the only trace of a torrent the session has not added.
Life(p) ==
  /\ meta[p] = NoMeta => Unborn(p) /\ ~Queued(p) /\ future[p] = "none"
  /\ Queued(p) => Unborn(p) /\ p \in buffer
  /\ promised[p] \in {NoPath, p}
  /\ future[p] = "ready" => promised[p] = p
  /\ future[p] # "none" => handle[p] = NoPath
  /\ handle[p] \in {NoPath, promised[p]}

SandboxLife == \A p \in Paths : Life(p)

LockOwner ==
  /\ adding # NoPath => holder = "add" /\ adding \in buffer
  /\ loop \in {"publish", "release"} => current \in Paths

Inv == /\ TypeOK /\ OwnHandle /\ LiveTracked /\ AcknowledgedHasEntry
       /\ SessionOutlivesLoop /\ QueuedOnce /\ SandboxLife /\ LockOwner

\* No other sandbox was created for the same info-hash.
Alone(p) == meta[p] # NoMeta /\ \A q \in Paths \ {p} : meta[q] # meta[p]

Answer(p) == [type |-> "added", path |-> p]
Answered(p) == Answer(p) \in Elements(alerts) \cup Elements(batch)
Once(s, e) == \A i, j \in DOMAIN s : s[i] = e /\ s[j] = e => i = j

\* Such a torrent is answered once, so nobody finds its answer unawaited after it
\* was stored; and until its owner removes it no removal is queued.
Undisturbed(p) ==
  /\ Once(alerts, Answer(p)) /\ Once(batch, Answer(p))
  /\ Answer(p) \notin Elements(alerts) \cap Elements(batch)
  /\ Answered(p) => promised[p] = NoPath /\ current # p
  /\ outcome[p] # "removed" => p \in buffer
  /\ outcome[p] # "removed" /\ (Answered(p) \/ current = p \/ promised[p] = p) =>
       p \in live /\ [op |-> "remove", path |-> p] \notin Elements(requests)

AloneUndisturbed == session = "open" => \A p \in Paths : Alone(p) => Undisturbed(p)

\* Before the session has added a torrent nothing asks for its removal, and only
\* a call whose handle was stored can have been removed by its owner.
Untouched(p) == /\ [op |-> "remove", path |-> p] \notin Elements(requests)
                /\ [type |-> "status", path |-> p] \notin Elements(alerts) \cup Elements(batch)

UntouchedBefore ==
  \A p \in Paths : /\ meta[p] = NoMeta \/ Queued(p) => Untouched(p)
                   /\ outcome[p] = "removed" => handle[p] = p

LoneInv == Inv /\ UntouchedBefore /\ AloneUndisturbed

-----------------------------------------------------------------------------
\* stop_service, which joins the loop with core_lock_ held, returns.
StopReturns == holder = "stop" ~> (holder = "none" \/ loop = "crashed")

\* A torrent whose add was reported as failed does not stay in the session: the
\* late alert finds no promise and removes it.  (Excepted: the caller gave up
\* after on_add_torrent had read the promise, so the late answer was stored.)
AbandonedIsRemoved ==
  \A p \in Paths :
     outcome[p] = "failed" /\ p \in live
       ~> p \notin live \/ promised[p] = p \/ loop \in {"exited", "crashed"}

\* What the comment of add_torrent promises: a torrent that is already in the
\* session is not rewritten by another call for the same file; it stays.
DuplicateKeepsTorrent ==
  \A p \in Paths : outcome[p] = "ok" /\ session = "open" => p \in live
=============================================================================
