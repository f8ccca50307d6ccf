-------------------------- MODULE TorrentAddProofs --------------------------
(***************************************************************************)
(* The safety properties of TorrentAdd, for any number of calls, files and *)
(* alerts.  Inv is inductive: the lemma below has one step per action.     *)
(***************************************************************************)
EXTENDS TorrentAdd, TLAPS

\* What posting a request or an alert adds to a queue.
LEMMA AppendElements ==
  ASSUME NEW S, NEW s \in Seq(S), NEW e \in S
  PROVE  /\ Append(s, e) \in Seq(S)
         /\ Elements(Append(s, e)) = Elements(s) \cup {e}
  <1>1. /\ Append(s, e) \in Seq(S)
        /\ DOMAIN Append(s, e) = 1 .. Len(s) + 1
        /\ DOMAIN s = 1 .. Len(s) /\ Len(s) \in Nat
        /\ Append(s, e)[Len(s) + 1] = e
        /\ \A i \in 1 .. Len(s) : Append(s, e)[i] = s[i]
    OBVIOUS
  <1> QED  BY <1>1 DEF Elements

\* What asking the session for the removal of a torrent adds to the queue.
LEMMA AppendRemove ==
  ASSUME NEW p \in Paths, NEW s \in Seq(Requests)
  PROVE  /\ Append(s, [op |-> "remove", path |-> p]) \in Seq(Requests)
         /\ Elements(Append(s, [op |-> "remove", path |-> p]))
              = Elements(s) \cup {[op |-> "remove", path |-> p]}
  <1> DEFINE e == [op |-> "remove", path |-> p]
  <1>1. e \in Requests
    BY DEF Requests
  <1> HIDE DEF e
  <1>2. /\ Append(s, e) \in Seq(Requests)
        /\ DOMAIN Append(s, e) = 1 .. Len(s) + 1
        /\ DOMAIN s = 1 .. Len(s) /\ Len(s) \in Nat
        /\ Append(s, e)[Len(s) + 1] = e
        /\ \A i \in 1 .. Len(s) : Append(s, e)[i] = s[i]
    BY ONLY s \in Seq(Requests), <1>1
  <1>3. Elements(Append(s, e)) = Elements(s) \cup {e}
    BY ONLY <1>2 DEF Elements
  <1> QED  BY <1>2, <1>3 DEF e

\* What taking the head of a queue leaves.
LEMMA TailElements ==
  ASSUME NEW S, NEW s \in Seq(S), s # <<>>
  PROVE  /\ Head(s) \in S
         /\ Tail(s) \in Seq(S)
         /\ Elements(s) = {Head(s)} \cup Elements(Tail(s))
         /\ DOMAIN Tail(s) = 1 .. Len(s) - 1
         /\ \A i \in DOMAIN Tail(s) : Tail(s)[i] = s[i + 1]
  <1>1. /\ Head(s) = s[1] /\ Head(s) \in S /\ Tail(s) \in Seq(S)
        /\ DOMAIN Tail(s) = 1 .. Len(s) - 1
        /\ DOMAIN s = 1 .. Len(s) /\ Len(s) \in Nat /\ Len(s) >= 1
        /\ \A i \in 1 .. Len(s) - 1 : Tail(s)[i] = s[i + 1]
    OBVIOUS
  <1>2. \A i \in DOMAIN s : i = 1 \/ (i - 1 \in DOMAIN Tail(s) /\ s[i] = Tail(s)[i - 1])
    BY <1>1
  <1>3. \A i \in DOMAIN Tail(s) : i + 1 \in DOMAIN s
    BY <1>1
  <1>4. Elements(s) \subseteq {Head(s)} \cup Elements(Tail(s))
    <2> SUFFICES ASSUME NEW i \in DOMAIN s
                 PROVE  s[i] \in {Head(s)} \cup Elements(Tail(s))
      BY DEF Elements
    <2>1. CASE i = 1
      BY <2>1, <1>1
    <2>2. CASE i # 1
      BY <2>2, <1>2 DEF Elements
    <2> QED  BY <2>1, <2>2
  <1>5. Elements(Tail(s)) \subseteq Elements(s)
    BY <1>1, <1>3 DEF Elements
  <1>6. Head(s) \in Elements(s)
    BY <1>1 DEF Elements
  <1> QED  BY <1>1, <1>4, <1>5, <1>6

\* An empty queue has no elements.
LEMMA EmptyElements == Elements(<<>>) = {}
  BY DEF Elements

\* The freshly launched service satisfies the inductive invariant.
LEMMA InitInv == Init => Inv
  <1> SUFFICES ASSUME Init PROVE Inv
    OBVIOUS
  <1> USE EmptyElements, AddAssumption DEF Init
  <1>1. TypeOK
    BY DEF TypeOK
  <1>2. OwnHandle /\ LiveTracked /\ AcknowledgedHasEntry /\ SessionOutlivesLoop
    BY DEF OwnHandle, LiveTracked, AcknowledgedHasEntry, SessionOutlivesLoop
  <1>3. QueuedOnce
    BY DEF QueuedOnce
  <1>4. SandboxLife
    BY DEF SandboxLife, Life, Unborn, Queued
  <1>5. LockOwner
    BY DEF LockOwner
  <1> QED  BY <1>1, <1>2, <1>3, <1>4, <1>5 DEF Inv

\* No step of the API side, of the session or of the loop breaks it.
LEMMA StepInv == Inv /\ [Next]_vars => Inv'
  <1> SUFFICES ASSUME Inv, [Next]_vars PROVE Inv'
    OBVIOUS
  <1> USE AddAssumption DEF Inv
  <1> USE DEF coreVars, infoVars, sessVars, loopVars
  <1>1. ASSUME NEW p \in Paths, NEW m \in Metas, AddTorrent(p, m) PROVE Inv'
    <2> USE <1>1 DEF AddTorrent, Enter, Fresh
    <2>1. /\ requests' \in Seq(Requests)
          /\ Elements(requests') = Elements(requests) \cup {[op |-> "add", path |-> p]}
      <3>1. requests \in Seq(Requests) /\ [op |-> "add", path |-> p] \in Requests
        BY DEF TypeOK, Requests
      <3> DEFINE e == [op |-> "add", path |-> p]
      <3>2. e \in Requests
        BY <3>1
      <3> HIDE DEF e
      <3>3. /\ Append(requests, e) \in Seq(Requests)
            /\ Elements(Append(requests, e)) = Elements(requests) \cup {e}
        BY ONLY <3>1, <3>2, AppendElements
      <3> QED  BY <3>3 DEF e
    <2>2. ~Queued(p)
      BY DEF SandboxLife, Life
    <2>3. TypeOK'
      BY <2>1 DEF TypeOK
    <2>4. OwnHandle'
      BY DEF OwnHandle
    <2>5. LiveTracked'
      BY <2>1 DEF LiveTracked
    <2>6. QueuedOnce'
      BY <2>2 DEF QueuedOnce, TypeOK, Queued, Elements
    <2>7. SandboxLife'
      <3> SUFFICES ASSUME NEW q \in Paths PROVE Life(q)'
        BY DEF SandboxLife
      <3>1. Life(q)
        BY DEF SandboxLife
      <3>2. CASE q = p
        BY <2>1, <3>1, <3>2 DEF Life, TypeOK, Unborn, Queued
      <3>3. CASE q # p
        BY <2>1, <3>1, <3>3 DEF Life, TypeOK, Unborn, Queued
      <3> QED  BY <3>2, <3>3
    <2>8. AcknowledgedHasEntry' /\ SessionOutlivesLoop' /\ LockOwner'
      BY DEF AcknowledgedHasEntry, SessionOutlivesLoop, LockOwner
    <2> QED  BY <2>3, <2>4, <2>5, <2>6, <2>7, <2>8
  <1>2. ASSUME NEW p \in Paths, AddAnswered(p) PROVE Inv'
    <2> USE <1>2 DEF AddAnswered
    <2>1. TypeOK' /\ OwnHandle'
      BY DEF TypeOK, OwnHandle, SandboxLife, Life
    <2>2. LiveTracked' /\ QueuedOnce' /\ SessionOutlivesLoop' /\ LockOwner'
      BY DEF LiveTracked, QueuedOnce, SessionOutlivesLoop, LockOwner
    <2>3. AcknowledgedHasEntry'
      BY DEF AcknowledgedHasEntry, LockOwner, TypeOK
    <2>4. SandboxLife'
      <3> SUFFICES ASSUME NEW q \in Paths PROVE Life(q)'
        BY DEF SandboxLife
      <3>1. Life(q)
        BY DEF SandboxLife
      <3>2. CASE q = p
        BY <3>1, <3>2 DEF Life, TypeOK, Unborn, Queued
      <3>3. CASE q # p
        BY <3>1, <3>3 DEF Life, TypeOK, Unborn, Queued
      <3> QED  BY <3>2, <3>3
    <2> QED  BY <2>1, <2>2, <2>3, <2>4
  <1>3. ASSUME NEW p \in Paths, AddTimeout(p) PROVE Inv'
    <2> USE <1>3 DEF AddTimeout
    <2>1. buffer' = buffer
      BY DEF TypeOK, SandboxLife, Life
    <2>2. TypeOK' /\ OwnHandle'
      BY <2>1 DEF TypeOK, OwnHandle, SandboxLife, Life
    <2>3. LiveTracked' /\ QueuedOnce' /\ SessionOutlivesLoop' /\ LockOwner'
      BY <2>1 DEF LiveTracked, QueuedOnce, SessionOutlivesLoop, LockOwner
    <2>4. AcknowledgedHasEntry'
      BY <2>1 DEF AcknowledgedHasEntry, TypeOK
    <2>5. SandboxLife'
      <3> SUFFICES ASSUME NEW q \in Paths PROVE Life(q)'
        BY DEF SandboxLife
      <3>1. Life(q)
        BY DEF SandboxLife
      <3>2. CASE q = p
        BY <2>1, <3>1, <3>2 DEF Life, TypeOK, Unborn, Queued
      <3>3. CASE q # p
        BY <2>1, <3>1, <3>3 DEF Life, TypeOK, Unborn, Queued
      <3> QED  BY <3>2, <3>3
    <2> QED  BY <2>2, <2>3, <2>4, <2>5
  <1>4. ASSUME NEW p \in Paths, RemoveTorrent(p) PROVE Inv'
    <2> USE <1>4 DEF RemoveTorrent, Enter
    <2>1. handle[p] = p
      BY DEF OwnHandle
    <2>2. CASE UNCHANGED <<requests, buffer, outcome>>
      <3> USE <2>2
      <3>1. TypeOK' /\ OwnHandle'
        BY DEF TypeOK, OwnHandle
      <3>2. LiveTracked' /\ QueuedOnce' /\ SessionOutlivesLoop' /\ LockOwner'
            /\ AcknowledgedHasEntry'
        BY DEF LiveTracked, QueuedOnce, SessionOutlivesLoop, LockOwner, AcknowledgedHasEntry
      <3>3. SandboxLife'
        BY DEF SandboxLife, Life, Unborn, Queued
      <3> QED  BY <3>1, <3>2, <3>3
    <2>3. CASE /\ requests' = Append(requests, [op |-> "remove", path |-> handle[p]])
               /\ buffer' = buffer \ {p}
               /\ outcome' = [outcome EXCEPT ![p] = "removed"]
      <3> USE <2>3
      <3>1. /\ requests' \in Seq(Requests)
            /\ Elements(requests') = Elements(requests) \cup {[op |-> "remove", path |-> p]}
        <4>1. requests \in Seq(Requests)
          BY DEF TypeOK
        <4>2. requests' = Append(requests, [op |-> "remove", path |-> p])
          BY <2>1
        <4> QED  BY ONLY <4>1, <4>2, p \in Paths, AppendRemove, Zenon
      <3>2. ~Queued(p)
        BY <2>1 DEF SandboxLife, Life, Unborn
      <3>3. TypeOK' /\ OwnHandle'
        BY <3>1 DEF TypeOK, OwnHandle
      <3>4. LiveTracked'
        BY <3>1 DEF LiveTracked
      <3>5. QueuedOnce'
        BY <2>1 DEF QueuedOnce, TypeOK
      <3>6. SandboxLife'
        BY <3>1, <3>2 DEF SandboxLife, Life, Unborn, Queued
      <3>7. AcknowledgedHasEntry' /\ SessionOutlivesLoop' /\ LockOwner'
        BY DEF AcknowledgedHasEntry, SessionOutlivesLoop, LockOwner, TypeOK
      <3> QED  BY <3>3, <3>4, <3>5, <3>6, <3>7
    <2> QED  BY <2>2, <2>3
  <1>5. CASE StopService
    BY <1>5 DEF StopService, Enter, TypeOK, OwnHandle, LiveTracked, QueuedOnce,
       SandboxLife, Life, Unborn, Queued, AcknowledgedHasEntry, SessionOutlivesLoop, LockOwner
  <1>6. CASE StopJoined
    <2> USE <1>6, EmptyElements DEF StopJoined
    <2>1. TypeOK' /\ OwnHandle' /\ LiveTracked' /\ QueuedOnce'
      BY DEF TypeOK, OwnHandle, LiveTracked, QueuedOnce
    <2>2. SandboxLife'
      BY DEF SandboxLife, Life, Unborn, Queued
    <2>3. AcknowledgedHasEntry' /\ SessionOutlivesLoop' /\ LockOwner'
      BY DEF AcknowledgedHasEntry, SessionOutlivesLoop, LockOwner
    <2> QED  BY <2>1, <2>2, <2>3
  <1>7. CASE SessionAdd
    <2> USE <1>7 DEF SessionAdd
    <2>1. /\ requests \in Seq(Requests) /\ requests # <<>>
          /\ alerts \in Seq(Alerts)
      BY DEF TypeOK
    <2>2. /\ Head(requests) \in Requests
          /\ requests' \in Seq(Requests)
          /\ Elements(requests) = {Head(requests)} \cup Elements(requests')
          /\ DOMAIN requests' = 1 .. Len(requests) - 1
          /\ \A i \in DOMAIN requests' : requests'[i] = requests[i + 1]
      BY <2>1, TailElements, Zenon
    <2>3. PICK p \in Paths : Head(requests) = [op |-> "add", path |-> p]
      BY <2>2 DEF Requests
    <2>a. \A q : [op |-> "remove", path |-> q] # Head(requests)
      <3> SUFFICES ASSUME NEW q PROVE [op |-> "remove", path |-> q].op # Head(requests).op
        OBVIOUS
      <3> QED  OBVIOUS
    <2>4. QueuedOnce' /\ ~Queued(p)'
      <3>1. Len(requests) \in Nat /\ DOMAIN requests = 1 .. Len(requests)
            /\ requests[1] = Head(requests) /\ Len(requests) >= 1
        BY <2>1
      <3>2. QueuedOnce'
        BY <3>1, <2>2 DEF QueuedOnce
      <3>3. \A i \in DOMAIN requests' : requests'[i] # [op |-> "add", path |-> p]
        BY <3>1, <2>2, <2>3 DEF QueuedOnce
      <3>4. ~Queued(p)'
        BY <3>3 DEF Queued, Elements
      <3> QED  BY <3>2, <3>4
    <2>b. ASSUME NEW e \in Alerts, alerts' = Append(alerts, e)
          PROVE  Elements(alerts') = Elements(alerts) \cup {e} /\ alerts' \in Seq(Alerts)
      BY <2>1, <2>b, AppendElements, Zenon
    <2>5. Queued(p) /\ Unborn(p) /\ p \in buffer /\ meta[p] # NoMeta
      BY <2>2, <2>3 DEF SandboxLife, Life, Queued
    <2>6. \/ live' = live
          \/ live' = live \cup {p}
      BY <2>3
    <2>7. \/ /\ Elements(alerts') = Elements(alerts) \cup {[type |-> "failed", path |-> NoPath]}
             /\ alerts' \in Seq(Alerts) /\ live' = live
          \/ \E q \in live' :
               /\ Elements(alerts') = Elements(alerts) \cup {[type |-> "added", path |-> q]}
               /\ alerts' \in Seq(Alerts)
      <3>1. [type |-> "failed", path |-> NoPath] \in Alerts
        BY DEF Alerts
      <3>2. \A q \in Paths : [type |-> "added", path |-> q] \in Alerts
        BY DEF Alerts
      <3>3. live \subseteq Paths
        BY DEF TypeOK
      <3>4. \/ alerts' = Append(alerts, [type |-> "failed", path |-> NoPath]) /\ live' = live
            \/ \E q \in live : alerts' = Append(alerts, [type |-> "added", path |-> q]) /\ live' = live
            \/ alerts' = Append(alerts, [type |-> "added", path |-> p]) /\ live' = live \cup {p}
        <4>1. Head(requests).path = p
          BY <2>3
        <4>2. CASE Raise("failed", NoPath) /\ UNCHANGED live
          BY <4>2 DEF Raise
        <4>3. CASE live' = live \cup {p} /\ Raise("added", p)
          BY <4>3 DEF Raise
        <4>4. ASSUME NEW q \in live, Raise("added", q), UNCHANGED live
              PROVE  \E r \in live : alerts' = Append(alerts, [type |-> "added", path |-> r])
                                      /\ live' = live
          BY <4>4 DEF Raise
        <4> QED  BY <4>1, <4>2, <4>3, <4>4
      <3>5. CASE alerts' = Append(alerts, [type |-> "failed", path |-> NoPath]) /\ live' = live
        BY <3>1, <3>5, <2>b
      <3>6. ASSUME NEW q \in live,
                   alerts' = Append(alerts, [type |-> "added", path |-> q]), live' = live
            PROVE  \E r \in live' :
               /\ Elements(alerts') = Elements(alerts) \cup {[type |-> "added", path |-> r]}
               /\ alerts' \in Seq(Alerts)
        <4>1. [type |-> "added", path |-> q] \in Alerts /\ q \in live'
          BY <3>2, <3>3, <3>6
        <4>2. /\ Elements(alerts') = Elements(alerts) \cup {[type |-> "added", path |-> q]}
              /\ alerts' \in Seq(Alerts)
          BY <4>1, <3>6, <2>b, Zenon
        <4> QED  BY <4>1, <4>2
      <3>7. ASSUME alerts' = Append(alerts, [type |-> "added", path |-> p]),
                   live' = live \cup {p}
            PROVE  \E r \in live' :
               /\ Elements(alerts') = Elements(alerts) \cup {[type |-> "added", path |-> r]}
               /\ alerts' \in Seq(Alerts)
        <4>1. [type |-> "added", path |-> p] \in Alerts /\ p \in live'
          BY <3>2, <2>3, <3>7
        <4>2. /\ Elements(alerts') = Elements(alerts) \cup {[type |-> "added", path |-> p]}
              /\ alerts' \in Seq(Alerts)
          BY <4>1, <3>7, <2>b, Zenon
        <4> QED  BY <4>1, <4>2
      <3> QED  BY <3>4, <3>5, <3>6, <3>7
    <2>8. TypeOK'
      BY <2>2, <2>3, <2>6, <2>7 DEF TypeOK
    <2>9. OwnHandle' /\ AcknowledgedHasEntry' /\ SessionOutlivesLoop' /\ LockOwner'
      BY DEF OwnHandle, AcknowledgedHasEntry, SessionOutlivesLoop, LockOwner
    <2>10. LiveTracked'
      BY <2>2, <2>a, <2>5, <2>6 DEF LiveTracked
    <2>11. SandboxLife'
      <3> SUFFICES ASSUME NEW q \in Paths PROVE Life(q)'
        BY DEF SandboxLife
      <3>1. Life(q) /\ (Queued(q)' => Queued(q))
        BY <2>2 DEF SandboxLife, Queued
      <3>2. CASE q = p
        BY <3>1, <3>2, <2>4, <2>5 DEF Life
      <3>3. CASE q # p
        <4>1. Unborn(q) => Unborn(q)'
          BY <3>3, <2>6, <2>7 DEF Unborn
        <4> QED  BY <4>1, <3>1 DEF Life
      <3> QED  BY <3>2, <3>3
    <2> QED  BY <2>4, <2>8, <2>9, <2>10, <2>11
  <1>8. CASE SessionRemove
    <2> USE <1>8 DEF SessionRemove
    <2>1. requests \in Seq(Requests) /\ requests # <<>>
      BY DEF TypeOK
    <2>2. /\ Head(requests) \in Requests
          /\ requests' \in Seq(Requests)
          /\ Elements(requests) = {Head(requests)} \cup Elements(requests')
          /\ DOMAIN requests' = 1 .. Len(requests) - 1
          /\ \A i \in DOMAIN requests' : requests'[i] = requests[i + 1]
      BY <2>1, TailElements, Zenon
    <2>3. PICK p \in Paths : Head(requests) = [op |-> "remove", path |-> p]
      BY <2>2 DEF Requests
    <2>a. \A q : [op |-> "add", path |-> q] # Head(requests)
      <3> SUFFICES ASSUME NEW q PROVE [op |-> "add", path |-> q].op # Head(requests).op
        OBVIOUS
      <3> QED  OBVIOUS
    <2>4. QueuedOnce'
      <3>1. Len(requests) \in Nat /\ DOMAIN requests = 1 .. Len(requests)
        BY <2>1
      <3> QED  BY <3>1, <2>2 DEF QueuedOnce
    <2>5. TypeOK' /\ OwnHandle' /\ AcknowledgedHasEntry' /\ SessionOutlivesLoop'
          /\ LockOwner'
      BY <2>2 DEF TypeOK, OwnHandle, AcknowledgedHasEntry, SessionOutlivesLoop, LockOwner
    <2>6. LiveTracked'
      <3> SUFFICES ASSUME NEW q \in live'
                   PROVE  q \in buffer \/ [op |-> "remove", path |-> q] \in Elements(requests')
        BY DEF LiveTracked
      <3>1. q \in live /\ q # p
        BY <2>3
      <3>2. [op |-> "remove", path |-> q].path # Head(requests).path
        BY <3>1, <2>3
      <3> QED  BY <3>1, <3>2, <2>2 DEF LiveTracked
    <2>7. SandboxLife'
      <3> SUFFICES ASSUME NEW q \in Paths PROVE Life(q)'
        BY DEF SandboxLife
      <3>1. Life(q)
        BY DEF SandboxLife
      <3>2. Queued(q)' <=> Queued(q)
        BY <2>2, <2>a DEF Queued
      <3>3. Unborn(q) => Unborn(q)'
        BY DEF Unborn
      <3> QED  BY <3>1, <3>2, <3>3 DEF Life
    <2> QED  BY <2>4, <2>5, <2>6, <2>7
  <1>9. CASE LoopCheck \/ LoopBatchDone
    BY <1>9 DEF LoopCheck, LoopBatchDone, TypeOK, OwnHandle, LiveTracked, QueuedOnce,
       SandboxLife, Life, Unborn, Queued, AcknowledgedHasEntry, SessionOutlivesLoop, LockOwner
  <1>10. CASE LoopWait
    <2> USE <1>10 DEF LoopWait
    <2>a. <<>> \in Seq(Alerts)
      OBVIOUS
    <2>b. TypeOK'
      BY <2>a DEF TypeOK
    <2>1. OwnHandle' /\ LiveTracked' /\ QueuedOnce'
      BY DEF OwnHandle, LiveTracked, QueuedOnce
    <2>2. Elements(alerts') \cup Elements(batch') \subseteq Elements(alerts) \cup Elements(batch)
      BY EmptyElements
    <2>3. SandboxLife'
      BY <2>2 DEF SandboxLife, Life, Unborn, Queued
    <2>4. AcknowledgedHasEntry' /\ SessionOutlivesLoop' /\ LockOwner'
      BY DEF AcknowledgedHasEntry, SessionOutlivesLoop, LockOwner
    <2> QED  BY <2>b, <2>1, <2>3, <2>4
  <1>11. ASSUME NEW type, Dispatch(type)
         PROVE  /\ Head(batch) \in Alerts /\ Head(batch).type = type
                /\ batch' \in Seq(Alerts) /\ batch' = Tail(batch)
                /\ Elements(batch) = {Head(batch)} \cup Elements(batch')
                /\ loop = "dispatch"
    <2>1. batch \in Seq(Alerts) /\ batch # <<>>
      BY <1>11 DEF Dispatch, TypeOK
    <2>2. batch' = Tail(batch)
      BY <1>11 DEF Dispatch
    <2>3. /\ Head(batch) \in Alerts /\ Tail(batch) \in Seq(Alerts)
          /\ Elements(batch) = {Head(batch)} \cup Elements(Tail(batch))
      BY <2>1, TailElements, Zenon
    <2> QED  BY <1>11, <2>2, <2>3 DEF Dispatch
  <1>12. ASSUME NEW p \in Paths, TorrentRemove(p)
         PROVE  /\ requests' \in Seq(Requests)
                /\ Elements(requests') = Elements(requests) \cup {[op |-> "remove", path |-> p]}
                /\ QueuedOnce'
                /\ \A q \in Paths : Queued(q)' <=> Queued(q)
    <2>1. requests \in Seq(Requests)
      BY DEF TypeOK
    <2>2. requests' = Append(requests, [op |-> "remove", path |-> p])
      BY <1>12 DEF TorrentRemove
    <2>3. /\ requests' \in Seq(Requests)
          /\ Elements(requests') = Elements(requests) \cup {[op |-> "remove", path |-> p]}
      BY ONLY <2>1, <2>2, p \in Paths, AppendRemove, Zenon
    <2>4. QueuedOnce'
      BY <2>1, <2>2 DEF QueuedOnce
    <2>5. \A q \in Paths : [op |-> "add", path |-> q] # [op |-> "remove", path |-> p]
      OBVIOUS
    <2> QED  BY <2>3, <2>4, <2>5 DEF Queued
  <1>13. CASE OnAddFailed \/ OnListenFailed
    <2>1. /\ batch' \in Seq(Alerts)
          /\ Elements(batch') \subseteq Elements(batch)
      BY <1>11, <1>13 DEF OnAddFailed, OnListenFailed
    <2> USE <1>13, <2>1 DEF OnAddFailed, OnListenFailed
    <2>2. TypeOK' /\ OwnHandle' /\ LiveTracked' /\ QueuedOnce'
      BY DEF TypeOK, OwnHandle, LiveTracked, QueuedOnce
    <2>3. SandboxLife'
      BY DEF SandboxLife, Life, Unborn, Queued
    <2>4. AcknowledgedHasEntry' /\ SessionOutlivesLoop' /\ LockOwner'
      BY DEF AcknowledgedHasEntry, SessionOutlivesLoop, LockOwner
    <2> QED  BY <2>2, <2>3, <2>4
  <1>14. CASE OnAddTorrent
    <2> USE <1>14 DEF OnAddTorrent
    <2>1. /\ Head(batch) \in Alerts /\ Head(batch).type = "added"
          /\ batch' \in Seq(Alerts) /\ Elements(batch) = {Head(batch)} \cup Elements(batch')
          /\ loop = "dispatch"
      BY <1>11
    <2>2. PICK p \in Paths : Head(batch) = [type |-> "added", path |-> p]
      BY <2>1 DEF Alerts
    <2>3. ~Unborn(p)
      BY <2>1, <2>2 DEF Unborn
    <2>4. CASE loop' = "publish" /\ current' = p /\ UNCHANGED requests /\ p \in buffer
      <3>1. loop' = "publish" /\ current' = p /\ UNCHANGED requests
        BY <2>4
      <3> QED  BY <2>1, <2>3, <3>1 DEF TypeOK, OwnHandle, LiveTracked, QueuedOnce,
         SandboxLife, Life, Unborn, Queued, AcknowledgedHasEntry, SessionOutlivesLoop, LockOwner
    <2>5. CASE TorrentRemove(p) /\ UNCHANGED <<loop, current>>
      <3>1. TorrentRemove(p) /\ UNCHANGED <<loop, current>>
        BY <2>5
      <3>2. /\ requests' \in Seq(Requests) /\ QueuedOnce'
            /\ Elements(requests) \subseteq Elements(requests')
            /\ \A q \in Paths : Queued(q)' <=> Queued(q)
        BY <1>12, <3>1
      <3>3. TypeOK' /\ OwnHandle' /\ LiveTracked'
        BY <2>1, <3>1, <3>2 DEF TypeOK, OwnHandle, LiveTracked
      <3>4. SandboxLife'
        BY <2>1, <3>1, <3>2 DEF SandboxLife, Life, Unborn
      <3>5. AcknowledgedHasEntry' /\ SessionOutlivesLoop' /\ LockOwner'
        BY <3>1 DEF AcknowledgedHasEntry, SessionOutlivesLoop, LockOwner
      <3> QED  BY <3>2, <3>3, <3>4, <3>5
    <2>6. CASE UNCHANGED <<requests, loop, current>>
      BY <2>1, <2>6 DEF TypeOK, OwnHandle, LiveTracked, QueuedOnce,
         SandboxLife, Life, Unborn, Queued, AcknowledgedHasEntry, SessionOutlivesLoop, LockOwner
    <2> QED  BY <2>2, <2>4, <2>5, <2>6
  <1>15. CASE OnAddPublish
    BY <1>15 DEF OnAddPublish, TypeOK, OwnHandle, LiveTracked, QueuedOnce,
       SandboxLife, Life, Unborn, Queued, AcknowledgedHasEntry, SessionOutlivesLoop, LockOwner
  <1>16. CASE OnAddRelease
    <2> USE <1>16 DEF OnAddRelease
    <2>1. current \in Paths /\ ~Unborn(current)
      BY DEF LockOwner, Unborn
    <2>2. TypeOK' /\ OwnHandle' /\ LiveTracked' /\ QueuedOnce'
      BY <2>1 DEF TypeOK, OwnHandle, LiveTracked, QueuedOnce
    <2>3. SandboxLife'
      <3> SUFFICES ASSUME NEW q \in Paths PROVE Life(q)'
        BY DEF SandboxLife
      <3>1. Life(q)
        BY DEF SandboxLife
      <3>2. CASE q = current
        BY <2>1, <3>1, <3>2 DEF Life, TypeOK, Unborn, Queued
      <3>3. CASE q # current
        BY <2>1, <3>1, <3>3 DEF Life, TypeOK, Unborn, Queued
      <3> QED  BY <3>2, <3>3
    <2>4. AcknowledgedHasEntry' /\ SessionOutlivesLoop' /\ LockOwner'
      BY DEF AcknowledgedHasEntry, SessionOutlivesLoop, LockOwner
    <2> QED  BY <2>2, <2>3, <2>4
  <1>17. CASE OnStatus
    <2> USE <1>17 DEF OnStatus
    <2>1. /\ Head(batch) \in Alerts /\ Head(batch).type = "status"
          /\ batch' \in Seq(Alerts) /\ Elements(batch') \subseteq Elements(batch)
      BY <1>11
    <2>2. PICK p \in Paths : Head(batch) = [type |-> "status", path |-> p]
      BY <2>1 DEF Alerts
    <2>3. \/ UNCHANGED requests
          \/ TorrentRemove(p)
      BY <2>2
    <2>4. /\ requests' \in Seq(Requests) /\ QueuedOnce'
          /\ Elements(requests) \subseteq Elements(requests')
          /\ \A q \in Paths : Queued(q)' <=> Queued(q)
      BY <1>12, <2>3 DEF QueuedOnce, TypeOK, Queued
    <2>5. TypeOK' /\ OwnHandle' /\ LiveTracked'
      BY <2>1, <2>4 DEF TypeOK, OwnHandle, LiveTracked
    <2>6. SandboxLife'
      BY <2>1, <2>4 DEF SandboxLife, Life, Unborn
    <2>7. AcknowledgedHasEntry' /\ SessionOutlivesLoop' /\ LockOwner'
      BY DEF AcknowledgedHasEntry, SessionOutlivesLoop, LockOwner
    <2> QED  BY <2>4, <2>5, <2>6, <2>7
  <1>18. CASE SessionNotify
    <2> USE <1>18 DEF SessionNotify
    <2>1. PICK e \in Alerts : e.type # "added" /\ alerts' = Append(alerts, e)
      <3>1. \A p \in live : [type |-> "status", path |-> p] \in Alerts
        BY DEF TypeOK, Alerts
      <3>2. [type |-> "listen_failed", path |-> NoPath] \in Alerts
        BY DEF Alerts
      <3> QED  BY <3>1, <3>2 DEF Raise
    <2>2. /\ Elements(alerts') = Elements(alerts) \cup {e} /\ alerts' \in Seq(Alerts)
      <3>1. alerts \in Seq(Alerts)
        BY DEF TypeOK
      <3> QED  BY ONLY <2>1, <3>1, AppendElements
    <2>3. \A p : [type |-> "added", path |-> p] # e
      BY <2>1
    <2>4. TypeOK' /\ OwnHandle' /\ LiveTracked' /\ QueuedOnce'
      BY <2>2 DEF TypeOK, OwnHandle, LiveTracked, QueuedOnce
    <2>5. SandboxLife'
      BY <2>2, <2>3 DEF SandboxLife, Life, Unborn, Queued
    <2>6. AcknowledgedHasEntry' /\ SessionOutlivesLoop' /\ LockOwner'
      BY DEF AcknowledgedHasEntry, SessionOutlivesLoop, LockOwner
    <2> QED  BY <2>4, <2>5, <2>6
  <1>19. CASE UNCHANGED vars
    BY <1>19 DEF vars, TypeOK, OwnHandle, LiveTracked, QueuedOnce,
       SandboxLife, Life, Unborn, Queued, AcknowledgedHasEntry, SessionOutlivesLoop, LockOwner
  <1> QED
    BY <1>1, <1>2, <1>3, <1>4, <1>5, <1>6, <1>7, <1>8, <1>9, <1>10, <1>13, <1>14,
       <1>15, <1>16, <1>17, <1>18, <1>19 DEF Next, Loop

\* The life of every sandbox, from its creation to its removal, for any number
\* of calls of add_torrent.
THEOREM InvHolds == Spec => []Inv
  BY InitInv, StepInv, PTL DEF Spec

\* Type correctness of the add/remove machine, for every number of calls.
THEOREM TypeCorrect == Spec => []TypeOK
  <1>1. Inv => TypeOK
    BY DEF Inv
  <1> QED  BY <1>1, InvHolds, PTL

\* A caller is only ever handed the handle of the torrent it asked for.
THEOREM HandlesAreOwn == Spec => []OwnHandle
  <1>1. Inv => OwnHandle
    BY DEF Inv
  <1> QED  BY <1>1, InvHolds, PTL

\* No torrent of the session escapes the shared buffer.
THEOREM LiveIsTracked == Spec => []LiveTracked
  <1>1. Inv => LiveTracked
    BY DEF Inv
  <1> QED  BY <1>1, InvHolds, PTL

\* An id that add_torrent returned names an entry until remove_torrent.
THEOREM EntryPersists == Spec => []AcknowledgedHasEntry
  <1>1. Inv => AcknowledgedHasEntry
    BY DEF Inv
  <1> QED  BY <1>1, InvHolds, PTL

\* The session is deleted only after the main loop has left.
THEOREM NoLoopAfterDelete == Spec => []SessionOutlivesLoop
  <1>1. Inv => SessionOutlivesLoop
    BY DEF Inv
  <1> QED  BY <1>1, InvHolds, PTL

-----------------------------------------------------------------------------
(* What no other call names is lost to nobody but its owner                 *)

LEMMA OnceAbsent ==
  ASSUME NEW s, NEW a, a \notin Elements(s)
  PROVE  Once(s, a)
  BY DEF Once, Elements

LEMMA OnceAppend ==
  ASSUME NEW S, NEW s \in Seq(S), NEW e \in S, NEW a, Once(s, a),
         e # a \/ a \notin Elements(s)
  PROVE  Once(Append(s, e), a)
  <1>1. /\ DOMAIN Append(s, e) = 1 .. Len(s) + 1
        /\ DOMAIN s = 1 .. Len(s) /\ Len(s) \in Nat
        /\ Append(s, e)[Len(s) + 1] = e
        /\ \A i \in 1 .. Len(s) : Append(s, e)[i] = s[i]
    OBVIOUS
  <1>2. CASE e # a
    BY <1>1, <1>2 DEF Once
  <1>3. CASE a \notin Elements(s)
    BY <1>1, <1>3 DEF Once, Elements
  <1> QED  BY <1>2, <1>3

LEMMA OnceTail ==
  ASSUME NEW S, NEW s \in Seq(S), s # <<>>, NEW a, Once(s, a)
  PROVE  Once(Tail(s), a) /\ (Head(s) = a => a \notin Elements(Tail(s)))
  <1>1. /\ Head(s) = s[1] /\ DOMAIN Tail(s) = 1 .. Len(s) - 1
        /\ DOMAIN s = 1 .. Len(s) /\ Len(s) \in Nat /\ Len(s) >= 1
        /\ \A i \in 1 .. Len(s) - 1 : Tail(s)[i] = s[i + 1]
    OBVIOUS
  <1> QED  BY <1>1 DEF Once, Elements

\* A step that gives p no answer, no removal and no other fate.
LEMMA CalmStep ==
  ASSUME NEW p, Undisturbed(p),
         Once(alerts', Answer(p)), Once(batch', Answer(p)),
         Answer(p) \notin Elements(alerts') \cap Elements(batch'),
         Answer(p) \in Elements(alerts') \cup Elements(batch') => Answered(p),
         promised'[p] = promised[p], current' = p => current = p,
         outcome'[p] # "removed" => outcome[p] # "removed",
         outcome'[p] # "removed" /\ p \in buffer => p \in buffer',
         p \in live => p \in live',
         [op |-> "remove", path |-> p] \in Elements(requests') =>
           outcome'[p] = "removed" \/ [op |-> "remove", path |-> p] \in Elements(requests)
  PROVE  Undisturbed(p)'
  <1>1. Answered(p)' => Answered(p)
    BY DEF Answered, Answer
  <1> QED  BY <1>1 DEF Undisturbed, Answer

\* Neither part of UntouchedBefore is disturbed.
LEMMA StepUntouched == Inv /\ UntouchedBefore /\ [Next]_vars => UntouchedBefore'
  <1> SUFFICES ASSUME Inv, UntouchedBefore, [Next]_vars, NEW p \in Paths
               PROVE  /\ meta'[p] = NoMeta \/ Queued(p)' => Untouched(p)'
                      /\ outcome'[p] = "removed" => handle'[p] = p
    BY DEF UntouchedBefore
  <1> DEFINE early == meta[p] = NoMeta \/ Queued(p)
  <1>a. /\ early => Untouched(p) /\ Unborn(p)
        /\ outcome[p] = "removed" => handle[p] = p
    BY DEF UntouchedBefore, Inv, SandboxLife, Life
  <1>b. TypeOK /\ Life(p)
    BY DEF Inv, SandboxLife
  <1> USE AddAssumption DEF coreVars, infoVars, sessVars, loopVars
  <1>c. ASSUME UNCHANGED <<meta, requests, alerts, batch, outcome, handle>>
        PROVE  /\ meta'[p] = NoMeta \/ Queued(p)' => Untouched(p)'
               /\ outcome'[p] = "removed" => handle'[p] = p
    BY <1>a, <1>c DEF Queued, Untouched
  <1>d. ASSUME UNCHANGED <<meta, outcome, handle>>, Queued(p)' => Queued(p),
               Untouched(p) /\ early => Untouched(p)'
        PROVE  /\ meta'[p] = NoMeta \/ Queued(p)' => Untouched(p)'
               /\ outcome'[p] = "removed" => handle'[p] = p
    BY <1>a, <1>d
  <1>e. ASSUME NEW q \in Paths, TorrentRemove(q), q # p \/ ~early
        PROVE  /\ Queued(p)' <=> Queued(p)
               /\ early => /\ [op |-> "remove", path |-> p] \notin Elements(requests')
    <2>1. requests \in Seq(Requests)
      BY <1>b DEF TypeOK
    <2>2. requests' = Append(requests, [op |-> "remove", path |-> q])
      BY <1>e DEF TorrentRemove
    <2>3. Elements(requests') = Elements(requests) \cup {[op |-> "remove", path |-> q]}
      BY ONLY <2>1, <2>2, q \in Paths, AppendRemove, Zenon
    <2>4. /\ [op |-> "add", path |-> p] # [op |-> "remove", path |-> q]
          /\ q # p => [op |-> "remove", path |-> p] # [op |-> "remove", path |-> q]
      OBVIOUS
    <2> QED  BY <1>a, <1>e, <2>3, <2>4 DEF Queued, Untouched
  <1>f. ASSUME NEW type, Dispatch(type)
        PROVE  /\ Head(batch) \in Alerts /\ Head(batch).type = type
               /\ Elements(batch) = {Head(batch)} \cup Elements(batch')
    <2>1. batch \in Seq(Alerts) /\ batch # <<>> /\ batch' = Tail(batch)
      BY <1>f, <1>b DEF Dispatch, TypeOK
    <2> QED  BY <1>f, <2>1, TailElements DEF Dispatch
  <1>1. ASSUME NEW q \in Paths, NEW m \in Metas, AddTorrent(q, m)
        PROVE  /\ meta'[p] = NoMeta \/ Queued(p)' => Untouched(p)'
               /\ outcome'[p] = "removed" => handle'[p] = p
    <2>1. /\ meta' = [meta EXCEPT ![q] = m] /\ meta[q] = NoMeta
          /\ requests' = Append(requests, [op |-> "add", path |-> q])
          /\ UNCHANGED <<alerts, batch, outcome, handle>>
      BY <1>1 DEF AddTorrent, Fresh
    <2> DEFINE e == [op |-> "add", path |-> q]
    <2>2. e \in Requests /\ requests \in Seq(Requests)
      BY <1>b DEF TypeOK, Requests
    <2>3. [op |-> "remove", path |-> p] # e
      OBVIOUS
    <2>4. q # p => [op |-> "add", path |-> p] # e
      OBVIOUS
    <2>5. requests' = Append(requests, e)
      BY <2>1
    <2> HIDE DEF e
    <2>6. Elements(requests') = Elements(requests) \cup {e}
      BY ONLY <2>2, <2>5, AppendElements
    <2>7. meta'[p] = NoMeta \/ Queued(p)' => early
      BY <1>b, <2>1, <2>4, <2>6 DEF TypeOK, Queued
    <2>8. Untouched(p) => Untouched(p)'
      BY <2>1, <2>3, <2>6 DEF Untouched
    <2> QED  BY <1>a, <2>1, <2>7, <2>8
  <1>2. ASSUME NEW q \in Paths, AddAnswered(q) \/ AddTimeout(q)
        PROVE  /\ meta'[p] = NoMeta \/ Queued(p)' => Untouched(p)'
               /\ outcome'[p] = "removed" => handle'[p] = p
    <2>1. /\ UNCHANGED <<meta, requests, alerts, batch>>
          /\ outcome'[p] = "removed" => outcome[p] = "removed" /\ q # p
          /\ q # p => handle'[p] = handle[p]
      BY <1>2, <1>b DEF AddAnswered, AddTimeout, TypeOK
    <2> QED  BY <1>a, <2>1 DEF Queued, Untouched
  <1>3. ASSUME NEW q \in Paths, RemoveTorrent(q)
        PROVE  /\ meta'[p] = NoMeta \/ Queued(p)' => Untouched(p)'
               /\ outcome'[p] = "removed" => handle'[p] = p
    <2>1. handle[q] = q /\ UNCHANGED <<meta, handle, alerts, batch>> /\ ~(q = p /\ early)
      BY <1>3, <1>a, <1>b DEF Inv, OwnHandle, RemoveTorrent, Life, Unborn
    <2>2. outcome'[p] = "removed" => outcome[p] = "removed" \/ q = p
      BY <1>3, <1>b DEF RemoveTorrent, TypeOK
    <2>3. UNCHANGED requests \/ TorrentRemove(q)
      BY <1>3, <2>1 DEF RemoveTorrent, TorrentRemove
    <2>4. /\ Queued(p)' <=> Queued(p)
          /\ early => /\ [op |-> "remove", path |-> p] \notin Elements(requests')
      BY <1>a, <1>e, <2>1, <2>3 DEF Queued, Untouched
    <2> QED  BY <1>a, <2>1, <2>2, <2>4 DEF Untouched
  <1>4. CASE StopJoined
    BY <1>4, <1>d, EmptyElements DEF StopJoined, Queued, Untouched
  <1>5. CASE SessionAdd \/ SessionRemove
    <2>1. requests \in Seq(Requests) /\ requests # <<>> /\ requests' = Tail(requests)
      BY <1>5, <1>b DEF TypeOK, SessionAdd, SessionRemove
    <2>2. Elements(requests') \subseteq Elements(requests)
      BY <2>1, TailElements
    <2>3. UNCHANGED <<meta, outcome, handle, batch>>
      BY <1>5 DEF SessionAdd, SessionRemove
    <2>4. \/ alerts' = alerts
          \/ \E q \in Paths : alerts' = Append(alerts, [type |-> "added", path |-> q])
          \/ alerts' = Append(alerts, [type |-> "failed", path |-> NoPath])
      <3>1. CASE SessionRemove
        BY <3>1 DEF SessionRemove
      <3>2. CASE SessionAdd
        <4>1. Head(requests) \in Requests /\ live \subseteq Paths
          BY <1>b, <2>1, TailElements DEF TypeOK
        <4>2. Head(requests).path \in Paths
          BY <4>1 DEF Requests
        <4> QED  BY <3>2, <4>1, <4>2 DEF SessionAdd, Raise
      <3> QED  BY <1>5, <3>1, <3>2
    <2>5. [type |-> "status", path |-> p] \notin Elements(alerts)
            => [type |-> "status", path |-> p] \notin Elements(alerts')
      <3>1. ASSUME NEW e \in Alerts, e.type # "status", alerts' = Append(alerts, e)
            PROVE  [type |-> "status", path |-> p] \notin Elements(alerts)
                     => [type |-> "status", path |-> p] \notin Elements(alerts')
        <4>1. alerts \in Seq(Alerts)
          BY <1>b DEF TypeOK
        <4>2. Elements(alerts') = Elements(alerts) \cup {e}
          BY ONLY <4>1, <3>1, AppendElements
        <4> QED  BY <3>1, <4>2
      <3>2. /\ \A q \in Paths : [type |-> "added", path |-> q] \in Alerts
            /\ [type |-> "failed", path |-> NoPath] \in Alerts
        BY DEF Alerts
      <3>3. CASE alerts' = Append(alerts, [type |-> "failed", path |-> NoPath])
        BY <3>1, <3>2, <3>3
      <3>4. ASSUME NEW q \in Paths, alerts' = Append(alerts, [type |-> "added", path |-> q])
            PROVE  [type |-> "status", path |-> p] \notin Elements(alerts)
                     => [type |-> "status", path |-> p] \notin Elements(alerts')
        BY <3>1, <3>2, <3>4
      <3> QED  BY <2>4, <3>3, <3>4
    <2>6. Queued(p)' => Queued(p)
      BY <2>2 DEF Queued
    <2>7. Untouched(p) => Untouched(p)'
      BY <2>2, <2>3, <2>5 DEF Untouched
    <2> QED  BY <1>d, <2>3, <2>6, <2>7
  <1>6. CASE SessionNotify
    <2>1. UNCHANGED <<meta, outcome, handle, batch, requests>>
      BY <1>6 DEF SessionNotify
    <2>2. PICK e \in Alerts : /\ alerts' = Append(alerts, e)
                              /\ early => [type |-> "status", path |-> p] # e
      <3>1. \A q \in live : [type |-> "status", path |-> q] \in Alerts
        BY <1>b DEF TypeOK, Alerts
      <3>2. [type |-> "listen_failed", path |-> NoPath] \in Alerts
        BY DEF Alerts
      <3>3. \A q \in live : early => [type |-> "status", path |-> p] # [type |-> "status", path |-> q]
        BY <1>a DEF Unborn
      <3>4. [type |-> "status", path |-> p] # [type |-> "listen_failed", path |-> NoPath]
        OBVIOUS
      <3> QED  BY <1>6, <3>1, <3>2, <3>3, <3>4 DEF SessionNotify, Raise
    <2>3. Elements(alerts') = Elements(alerts) \cup {e}
      <3>1. alerts \in Seq(Alerts)
        BY <1>b DEF TypeOK
      <3> QED  BY ONLY <2>2, <3>1, AppendElements
    <2>4. Queued(p)' => Queued(p)
      BY <2>1 DEF Queued
    <2>5. Untouched(p) /\ early => Untouched(p)'
      BY <2>1, <2>2, <2>3 DEF Untouched
    <2> QED  BY <1>d, <2>1, <2>4, <2>5
  <1>7. CASE LoopWait
    <2>1. UNCHANGED <<meta, outcome, handle, requests>>
      BY <1>7 DEF LoopWait
    <2>2. Elements(alerts') \cup Elements(batch') \subseteq Elements(alerts) \cup Elements(batch)
      BY <1>7, EmptyElements DEF LoopWait
    <2> QED  BY <1>d, <2>1, <2>2 DEF Queued, Untouched
  <1>8. CASE OnAddFailed \/ OnListenFailed
    <2>1. UNCHANGED <<meta, outcome, handle, requests, alerts>>
      BY <1>8 DEF OnAddFailed, OnListenFailed
    <2>2. Elements(batch') \subseteq Elements(batch)
      BY <1>8, <1>f DEF OnAddFailed, OnListenFailed
    <2> QED  BY <1>d, <2>1, <2>2 DEF Queued, Untouched
  <1>9. CASE OnAddTorrent \/ OnStatus
    <2>1. UNCHANGED <<meta, outcome, handle, alerts>>
      BY <1>9 DEF OnAddTorrent, OnStatus
    <2>2. PICK q \in Paths, type \in {"added", "status"} :
             /\ Head(batch) = [type |-> type, path |-> q]
             /\ Elements(batch) = {Head(batch)} \cup Elements(batch')
      BY <1>9, <1>f DEF OnAddTorrent, OnStatus, Alerts
    <2>3. q # p \/ ~early
      BY <1>a, <2>2 DEF Unborn, Untouched
    <2>4. UNCHANGED requests \/ TorrentRemove(q)
      BY <1>9, <2>2 DEF OnAddTorrent, OnStatus
    <2>5. /\ Queued(p)' <=> Queued(p)
          /\ early => /\ [op |-> "remove", path |-> p] \notin Elements(requests')
      BY <1>a, <1>e, <2>3, <2>4 DEF Queued, Untouched
    <2>6. Untouched(p) /\ early => Untouched(p)'
      BY <2>1, <2>2, <2>5 DEF Untouched
    <2> QED  BY <1>d, <2>1, <2>5, <2>6
  <1>10. CASE StopService \/ LoopCheck \/ LoopBatchDone \/ OnAddPublish \/ OnAddRelease
              \/ UNCHANGED vars
    BY <1>10, <1>c DEF StopService, LoopCheck, LoopBatchDone, OnAddPublish, OnAddRelease, vars
  <1> QED  BY <1>1, <1>2, <1>3, <1>4, <1>5, <1>6, <1>7, <1>8, <1>9, <1>10 DEF Next, Loop

\* The steps that touch neither queue.
LEMMA CalmQueues ==
  ASSUME NEW p, Undisturbed(p), alerts' = alerts, batch' = batch,
         promised'[p] = promised[p], current' = p => current = p,
         outcome'[p] # "removed" => outcome[p] # "removed",
         outcome'[p] # "removed" /\ p \in buffer => p \in buffer',
         p \in live => p \in live',
         [op |-> "remove", path |-> p] \in Elements(requests') =>
           outcome'[p] = "removed" \/ [op |-> "remove", path |-> p] \in Elements(requests)
  PROVE  Undisturbed(p)'
  <1>1. /\ Once(alerts', Answer(p)) /\ Once(batch', Answer(p))
        /\ Answer(p) \notin Elements(alerts') \cap Elements(batch')
        /\ Answer(p) \in Elements(alerts') \cup Elements(batch') => Answered(p)
    BY DEF Undisturbed, Answered
  <1> QED  BY <1>1, CalmStep

\* While its info-hash is its own, no step disturbs a torrent.
LEMMA StepAlone == LoneInv /\ [Next]_vars => AloneUndisturbed'
  <1> SUFFICES ASSUME LoneInv, [Next]_vars, session' = "open",
                      NEW p \in Paths, Alone(p)'
               PROVE  Undisturbed(p)'
    BY DEF AloneUndisturbed
  <1> USE AddAssumption DEF coreVars, infoVars, sessVars, loopVars
  <1>a. TypeOK /\ Life(p) /\ OwnHandle /\ LockOwner
    BY DEF LoneInv, Inv, SandboxLife
  <1>b. /\ meta[p] = NoMeta \/ Queued(p) => Untouched(p) /\ Unborn(p)
        /\ outcome[p] = "removed" => handle[p] = p
    BY <1>a DEF LoneInv, UntouchedBefore, Life
  <1>c. ASSUME UNCHANGED <<session, meta>>
        PROVE  Alone(p) /\ Undisturbed(p)
    BY <1>c DEF LoneInv, AloneUndisturbed, Alone
  <1>d. /\ requests \in Seq(Requests) /\ alerts \in Seq(Alerts) /\ batch \in Seq(Alerts)
        /\ promised[p] \in {NoPath, p} /\ NoPath # p
    BY <1>a DEF TypeOK, Life
  <1>e. ASSUME NEW q \in Paths, TorrentRemove(q), q # p
        PROVE  [op |-> "remove", path |-> p] \in Elements(requests') =>
                 [op |-> "remove", path |-> p] \in Elements(requests)
    <2>1. requests' = Append(requests, [op |-> "remove", path |-> q])
      BY <1>e DEF TorrentRemove
    <2>2. Elements(requests') = Elements(requests) \cup {[op |-> "remove", path |-> q]}
      BY ONLY <1>d, <2>1, q \in Paths, AppendRemove, Zenon
    <2>3. [op |-> "remove", path |-> p] # [op |-> "remove", path |-> q]
      BY <1>e
    <2> QED  BY <2>2, <2>3
  <1>f. ASSUME NEW type, Dispatch(type), Undisturbed(p)
        PROVE  /\ Head(batch) \in Alerts /\ Head(batch).type = type
               /\ Once(batch', Answer(p))
               /\ Head(batch) = Answer(p) => Answer(p) \notin Elements(batch')
               /\ Elements(batch) = {Head(batch)} \cup Elements(batch')
    <2>1. batch \in Seq(Alerts) /\ batch # <<>> /\ batch' = Tail(batch)
      BY <1>f, <1>d DEF Dispatch
    <2>2. Once(batch, Answer(p))
      BY <1>f DEF Undisturbed
    <2> QED  BY <1>f, <2>1, <2>2, TailElements, OnceTail DEF Dispatch
  <1>g. ASSUME NEW e \in Alerts, alerts' = Append(alerts, e), Undisturbed(p),
               e # Answer(p) \/ Answer(p) \notin Elements(alerts)
        PROVE  Once(alerts', Answer(p)) /\ Elements(alerts') = Elements(alerts) \cup {e}
    <2>1. Once(alerts, Answer(p))
      BY <1>g DEF Undisturbed
    <2> QED  BY <1>d, <1>g, <2>1, AppendElements, OnceAppend
  <1>1. ASSUME NEW q \in Paths, NEW m \in Metas, AddTorrent(q, m)
        PROVE  Undisturbed(p)'
    <2>1. /\ meta' = [meta EXCEPT ![q] = m] /\ meta[q] = NoMeta
          /\ requests' = Append(requests, [op |-> "add", path |-> q])
          /\ buffer' = buffer \cup {q}
          /\ UNCHANGED <<session, outcome, promised, live, alerts, batch, current>>
      BY <1>1 DEF AddTorrent, Fresh
    <2>2. [op |-> "remove", path |-> p] \in Elements(requests') =>
            [op |-> "remove", path |-> p] \in Elements(requests)
      <3> DEFINE e == [op |-> "add", path |-> q]
      <3>1. e \in Requests /\ requests' = Append(requests, e)
        BY <2>1 DEF Requests
      <3>2. [op |-> "remove", path |-> p] # e
        OBVIOUS
      <3> HIDE DEF e
      <3>3. Elements(requests') = Elements(requests) \cup {e}
        BY ONLY <1>d, <3>1, AppendElements
      <3> QED  BY <3>2, <3>3
    <2>3. CASE q = p
      <3>1. Answer(p) \notin Elements(alerts) \cup Elements(batch)
            /\ promised[p] = NoPath /\ current # p
        BY <1>b, <2>1, <2>3 DEF Unborn, Answer
      <3>2. Once(alerts', Answer(p)) /\ Once(batch', Answer(p))
        BY <2>1, <3>1, OnceAbsent
      <3> QED  BY <1>d, <2>1, <2>3, <3>1, <3>2 DEF Undisturbed, Answered, Answer
    <2>4. CASE q # p
      <3>1. Alone(p)
        <4>1. meta[p] = meta'[p] /\ meta[p] # NoMeta
          BY <1>a, <2>1, <2>4 DEF TypeOK, Alone
        <4>2. \A r \in Paths \ {p} : meta[r] # meta[p]
          <5> SUFFICES ASSUME NEW r \in Paths \ {p} PROVE meta[r] # meta[p]
            OBVIOUS
          <5>1. CASE r = q
            BY <2>1, <4>1, <5>1
          <5>2. CASE r # q
            BY <1>a, <2>1, <4>1, <5>2 DEF TypeOK, Alone
          <5> QED  BY <5>1, <5>2
        <4> QED  BY <4>1, <4>2 DEF Alone
      <3>2. Undisturbed(p)
        BY <2>1, <3>1 DEF LoneInv, AloneUndisturbed
      <3> QED  BY <2>1, <2>2, <3>2, CalmQueues
    <2> QED  BY <2>3, <2>4
  <1>2. ASSUME NEW q \in Paths, AddAnswered(q) \/ AddTimeout(q)
        PROVE  Undisturbed(p)'
    <2>1. /\ UNCHANGED <<session, meta, promised, live, requests, alerts, batch, current>>
          /\ q # p => outcome'[p] = outcome[p]
      BY <1>2, <1>a DEF AddAnswered, AddTimeout, TypeOK
    <2>2. p \in buffer => p \in buffer'
      BY <1>2, <1>a, <1>d DEF AddAnswered, AddTimeout, OwnHandle, Life
    <2>3. q = p => outcome[p] # "removed"
      BY <1>2, <1>a, <1>b, <1>d DEF AddAnswered, AddTimeout, Life
    <2> QED  BY <1>c, <2>1, <2>2, <2>3, CalmQueues
  <1>3. ASSUME NEW q \in Paths, RemoveTorrent(q)
        PROVE  Undisturbed(p)'
    <2>1. /\ handle[q] = q
          /\ UNCHANGED <<session, meta, promised, live, alerts, batch, current>>
      BY <1>3, <1>a DEF OwnHandle, RemoveTorrent
    <2>2. CASE UNCHANGED <<requests, buffer, outcome>>
      BY <1>c, <2>1, <2>2, CalmQueues
    <2>3. CASE /\ requests' = Append(requests, [op |-> "remove", path |-> handle[q]])
               /\ buffer' = buffer \ {q}
               /\ outcome' = [outcome EXCEPT ![q] = "removed"]
      <3>1. CASE q = p
        <4>1. outcome'[p] = "removed"
          BY <1>a, <2>3, <3>1 DEF TypeOK
        <4> QED  BY <1>c, <2>1, <4>1, CalmQueues
      <3>2. CASE q # p
        <4>1. TorrentRemove(q) /\ outcome'[p] = outcome[p] /\ (p \in buffer => p \in buffer')
          BY <1>a, <2>1, <2>3, <3>2 DEF TypeOK, TorrentRemove
        <4>2. [op |-> "remove", path |-> p] \in Elements(requests') =>
                [op |-> "remove", path |-> p] \in Elements(requests)
          BY <1>e, <3>2, <4>1
        <4> QED  BY <1>c, <2>1, <4>1, <4>2, CalmQueues
      <3> QED  BY <3>1, <3>2
    <2> QED  BY <1>3, <2>2, <2>3 DEF RemoveTorrent
  <1>4. CASE StopJoined
    BY <1>4 DEF StopJoined
  <1>5. CASE SessionAdd
    <2>1. /\ requests # <<>> /\ Head(requests).op = "add" /\ requests' = Tail(requests)
          /\ UNCHANGED <<session, meta, promised, outcome, buffer, batch, current>>
      BY <1>5 DEF SessionAdd
    <2>2. Head(requests) \in Requests
          /\ Elements(requests) = {Head(requests)} \cup Elements(requests')
      BY <1>d, <2>1, TailElements
    <2>3. PICK q \in Paths : Head(requests) = [op |-> "add", path |-> q]
      BY <2>1, <2>2 DEF Requests
    <2>4. Queued(q) /\ Unborn(q)
      BY <2>2, <2>3 DEF LoneInv, Inv, SandboxLife, Life, Queued
    <2>5. Alone(p) /\ Undisturbed(p)
      BY <1>c, <2>1
    <2>6. [op |-> "remove", path |-> p] \in Elements(requests') =>
            [op |-> "remove", path |-> p] \in Elements(requests)
      BY <2>2
    <2>7. ASSUME NEW e \in Alerts, e # Answer(p), alerts' = Append(alerts, e),
                 p \in live => p \in live'
          PROVE  Undisturbed(p)'
      <3>1. Once(alerts', Answer(p)) /\ Elements(alerts') = Elements(alerts) \cup {e}
        BY <1>g, <2>5, <2>7
      <3>2. /\ Once(batch', Answer(p))
            /\ Answer(p) \notin Elements(alerts') \cap Elements(batch')
            /\ Answer(p) \in Elements(alerts') \cup Elements(batch') => Answered(p)
        BY <2>1, <2>5, <2>7, <3>1 DEF Undisturbed, Answered
      <3> QED  BY <2>1, <2>5, <2>6, <2>7, <3>1, <3>2, CalmStep
    <2>8. CASE alerts' = Append(alerts, [type |-> "failed", path |-> NoPath]) /\ live' = live
      <3>1. [type |-> "failed", path |-> NoPath] \in Alerts
            /\ [type |-> "failed", path |-> NoPath] # Answer(p)
        BY DEF Alerts, Answer
      <3> QED  BY <2>7, <2>8, <3>1
    <2>9. ASSUME NEW r \in live, meta[r] = meta[q],
                 alerts' = Append(alerts, [type |-> "added", path |-> r]), live' = live
          PROVE  Undisturbed(p)'
      <3>1. r \in Paths /\ r # q
        BY <1>a, <2>4, <2>9 DEF TypeOK, Unborn
      <3>2. r # p
        BY <2>5, <2>9, <3>1 DEF Alone
      <3>3. [type |-> "added", path |-> r] \in Alerts /\ [type |-> "added", path |-> r] # Answer(p)
        BY <3>1, <3>2 DEF Alerts, Answer
      <3> QED  BY <2>7, <2>9, <3>3
    <2>10. CASE alerts' = Append(alerts, [type |-> "added", path |-> q]) /\ live' = live \cup {q}
      <3>1. [type |-> "added", path |-> q] \in Alerts
        BY DEF Alerts
      <3>2. CASE q # p
        <4>1. [type |-> "added", path |-> q] # Answer(p)
          BY <3>2 DEF Answer
        <4> QED  BY <2>7, <2>10, <3>1, <4>1
      <3>3. CASE q = p
        <4>1. [type |-> "added", path |-> q] = Answer(p) /\ Untouched(p) /\ Unborn(p)
          BY <1>b, <2>4, <3>3 DEF Answer
        <4>2. Answer(p) \notin Elements(alerts) \cup Elements(batch)
          BY <4>1 DEF Unborn, Answer
        <4>3. Once(alerts', Answer(p))
          BY <1>g, <2>5, <2>10, <3>1, <4>1, <4>2
        <4>4. Once(batch', Answer(p)) /\ Answer(p) \notin Elements(batch')
          BY <2>1, <4>2, OnceAbsent
        <4>5. promised'[p] = NoPath /\ current' # p /\ p \in live'
              /\ [op |-> "remove", path |-> p] \notin Elements(requests')
          BY <2>1, <2>6, <2>10, <3>3, <4>1 DEF Unborn, Untouched
        <4>6. outcome'[p] # "removed" => p \in buffer'
          BY <2>1, <2>5 DEF Undisturbed
        <4> QED  BY <4>3, <4>4, <4>5, <4>6 DEF Undisturbed, Answered, Answer
      <3> QED  BY <3>2, <3>3
    <2>11. Head(requests).path = q
      BY <2>3
    <2>12. \/ alerts' = Append(alerts, [type |-> "failed", path |-> NoPath]) /\ live' = live
           \/ \E r \in live : /\ meta[r] = meta[q] /\ live' = live
                              /\ alerts' = Append(alerts, [type |-> "added", path |-> r])
           \/ alerts' = Append(alerts, [type |-> "added", path |-> q]) /\ live' = live \cup {q}
      BY <1>5, <2>11 DEF SessionAdd, Raise
    <2> QED  BY <2>8, <2>9, <2>10, <2>12
  <1>6. CASE SessionRemove
    <2>1. /\ requests # <<>> /\ Head(requests).op = "remove" /\ requests' = Tail(requests)
          /\ live' = live \ {Head(requests).path}
          /\ UNCHANGED <<session, meta, promised, outcome, buffer, alerts, batch, current>>
      BY <1>6 DEF SessionRemove
    <2>2. Head(requests) \in Requests
          /\ Elements(requests) = {Head(requests)} \cup Elements(requests')
      BY <1>d, <2>1, TailElements
    <2>3. Head(requests).path = p => Head(requests) = [op |-> "remove", path |-> p]
      BY <2>1, <2>2 DEF Requests
    <2>4. p \in live /\ [op |-> "remove", path |-> p] \notin Elements(requests) =>
            p \in live' /\ [op |-> "remove", path |-> p] \notin Elements(requests')
      BY <2>1, <2>2, <2>3
    <2> QED  BY <1>c, <2>1, <2>4 DEF Undisturbed, Answered, Answer
  <1>7. CASE SessionNotify
    <2>1. UNCHANGED <<session, meta, promised, outcome, buffer, live, requests, batch, current>>
      BY <1>7 DEF SessionNotify
    <2>2. PICK e \in Alerts : e # Answer(p) /\ alerts' = Append(alerts, e)
      <3>1. \A q \in live : [type |-> "status", path |-> q] \in Alerts
                            /\ [type |-> "status", path |-> q] # Answer(p)
        BY <1>a DEF TypeOK, Alerts, Answer
      <3>2. [type |-> "listen_failed", path |-> NoPath] \in Alerts
            /\ [type |-> "listen_failed", path |-> NoPath] # Answer(p)
        BY DEF Alerts, Answer
      <3> QED  BY <1>7, <3>1, <3>2 DEF SessionNotify, Raise
    <2>3. Undisturbed(p)
      BY <1>c, <2>1
    <2>4. Once(alerts', Answer(p)) /\ Elements(alerts') = Elements(alerts) \cup {e}
      BY <1>g, <2>2, <2>3
    <2>5. /\ Once(batch', Answer(p))
          /\ Answer(p) \notin Elements(alerts') \cap Elements(batch')
          /\ Answer(p) \in Elements(alerts') \cup Elements(batch') => Answered(p)
      BY <2>1, <2>2, <2>3, <2>4 DEF Undisturbed, Answered
    <2> QED  BY <2>1, <2>3, <2>4, <2>5, CalmStep
  <1>8. CASE LoopWait
    <2>1. UNCHANGED <<session, meta, promised, outcome, buffer, live, requests, current>>
      BY <1>8 DEF LoopWait
    <2>2. Undisturbed(p)
      BY <1>c, <2>1
    <2>3. CASE UNCHANGED <<batch, alerts>>
      BY <2>1, <2>2, <2>3, CalmQueues
    <2>4. CASE batch' = alerts /\ alerts' = <<>>
      <3>1. Once(alerts', Answer(p)) /\ Answer(p) \notin Elements(alerts')
        BY <2>4, EmptyElements, OnceAbsent
      <3>2. Once(batch', Answer(p))
            /\ (Answer(p) \in Elements(alerts') \cup Elements(batch') => Answered(p))
        BY <2>2, <2>4, <3>1 DEF Undisturbed, Answered
      <3> QED  BY <2>1, <2>2, <3>1, <3>2, CalmStep
    <2> QED  BY <1>8, <2>3, <2>4 DEF LoopWait
  <1>9. ASSUME NEW type, Dispatch(type), Head(batch) # Answer(p),
               UNCHANGED <<session, meta, promised, outcome, buffer, live, alerts>>,
               current' = p => current = p,
               [op |-> "remove", path |-> p] \in Elements(requests') =>
                 outcome'[p] = "removed" \/ [op |-> "remove", path |-> p] \in Elements(requests)
        PROVE  Undisturbed(p)'
    <2>1. Undisturbed(p)
      BY <1>c, <1>9
    <2>2. Once(batch', Answer(p)) /\ Elements(batch') \subseteq Elements(batch)
      BY <1>f, <1>9, <2>1
    <2>3. /\ Once(alerts', Answer(p))
          /\ Answer(p) \notin Elements(alerts') \cap Elements(batch')
          /\ Answer(p) \in Elements(alerts') \cup Elements(batch') => Answered(p)
      BY <1>9, <2>1, <2>2 DEF Undisturbed, Answered
    <2> QED  BY <1>9, <2>1, <2>2, <2>3, CalmStep
  <1>10. CASE OnAddFailed \/ OnListenFailed
    <2>1. PICK type \in {"failed", "listen_failed"} : Dispatch(type)
      BY <1>10 DEF OnAddFailed, OnListenFailed
    <2>2. UNCHANGED <<session, meta, promised, outcome, buffer, live, alerts, requests, current>>
      BY <1>10 DEF OnAddFailed, OnListenFailed
    <2>3. Head(batch) # Answer(p)
      BY <2>1 DEF Dispatch, Answer
    <2> QED  BY <1>9, <2>1, <2>2, <2>3
  <1>11. CASE OnAddTorrent
    <2>1. /\ Dispatch("added")
          /\ UNCHANGED <<session, meta, promised, outcome, buffer, live, alerts>>
      BY <1>11 DEF OnAddTorrent
    <2>2. Undisturbed(p)
      BY <1>c, <2>1
    <2>3. PICK q \in Paths : Head(batch) = Answer(q)
      BY <1>f, <2>1, <2>2 DEF Alerts, Answer
    <2>4. \/ current' = q /\ UNCHANGED requests
          \/ TorrentRemove(q) /\ UNCHANGED current
          \/ UNCHANGED <<requests, current>>
      <3>1. Head(batch).path = q
        BY <2>3 DEF Answer
      <3> QED  BY <1>11, <3>1 DEF OnAddTorrent
    <2>5. CASE q # p
      <3>1. Head(batch) # Answer(p)
        BY <2>3, <2>5 DEF Answer
      <3>2. /\ current' = p => current = p
            /\ [op |-> "remove", path |-> p] \in Elements(requests') =>
                 [op |-> "remove", path |-> p] \in Elements(requests)
        BY <1>e, <2>4, <2>5
      <3> QED  BY <1>9, <2>1, <3>1, <3>2
    <2>6. CASE q = p
      <3>1. /\ Once(batch', Answer(p)) /\ Answer(p) \notin Elements(batch')
            /\ Answer(p) \in Elements(batch)
        BY <1>f, <2>1, <2>2, <2>3, <2>6
      <3>2. Once(alerts', Answer(p)) /\ Answer(p) \notin Elements(alerts')
        BY <2>1, <2>2, <3>1 DEF Undisturbed
      <3>3. /\ promised'[p] = NoPath
            /\ outcome'[p] # "removed" => p \in buffer'
            /\ outcome'[p] # "removed" =>
                 p \in live' /\ [op |-> "remove", path |-> p] \notin Elements(requests)
            /\ current # p
        BY <2>1, <2>2, <3>1 DEF Undisturbed, Answered
      <3>4. current' = p => UNCHANGED requests
        BY <2>4, <3>3
      <3> QED  BY <1>d, <3>1, <3>2, <3>3, <3>4 DEF Undisturbed, Answered, Answer
    <2> QED  BY <2>5, <2>6
  <1>12. CASE OnAddRelease
    <2>1. /\ promised' = [promised EXCEPT ![current] = current] /\ current' = NoPath
          /\ current \in Paths
          /\ UNCHANGED <<session, meta, outcome, buffer, live, alerts, batch, requests>>
      BY <1>12, <1>a DEF OnAddRelease, LockOwner
    <2>2. Undisturbed(p)
      BY <1>c, <2>1
    <2>3. CASE current # p
      <3>1. promised'[p] = promised[p] /\ current' # p
        BY <1>a, <1>d, <2>1, <2>3 DEF TypeOK
      <3> QED  BY <2>1, <2>2, <3>1, CalmQueues
    <2>4. CASE current = p
      BY <2>1, <2>2, <2>4 DEF Undisturbed, Answered, Answer
    <2> QED  BY <2>3, <2>4
  <1>13. CASE OnStatus
    <2>1. /\ Dispatch("status")
          /\ UNCHANGED <<session, meta, promised, outcome, buffer, live, alerts, current>>
      BY <1>13 DEF OnStatus
    <2>2. Undisturbed(p)
      BY <1>c, <2>1
    <2>3. Head(batch) \in Alerts /\ Head(batch).type = "status"
      BY <1>f, <2>1, <2>2
    <2>4. Head(batch) # Answer(p) /\ Head(batch).path \in Paths
      BY <2>3 DEF Alerts, Answer
    <2>5. UNCHANGED requests
          \/ (Head(batch).path \notin buffer /\ TorrentRemove(Head(batch).path))
      BY <1>13 DEF OnStatus
    <2>6. [op |-> "remove", path |-> p] \in Elements(requests') =>
            outcome'[p] = "removed" \/ [op |-> "remove", path |-> p] \in Elements(requests)
      <3>1. CASE p \in buffer
        BY <1>e, <2>4, <2>5, <3>1
      <3>2. CASE p \notin buffer
        BY <2>1, <2>2, <3>2 DEF Undisturbed
      <3> QED  BY <3>1, <3>2
    <2> QED  BY <1>9, <2>1, <2>4, <2>6
  <1>14. CASE StopService \/ LoopCheck \/ LoopBatchDone \/ OnAddPublish \/ UNCHANGED vars
    <2>1. UNCHANGED <<session, meta, promised, outcome, buffer, live, alerts, batch, requests,
                      current>>
      BY <1>14 DEF StopService, LoopCheck, LoopBatchDone, OnAddPublish, vars
    <2> QED  BY <1>c, <2>1, CalmQueues
  <1> QED  BY <1>1, <1>2, <1>3, <1>4, <1>5, <1>6, <1>7, <1>8, <1>10, <1>11, <1>12, <1>13,
              <1>14 DEF Next, Loop

\* The whole strengthened invariant of the add/remove machine.
LEMMA LoneInvHolds == Spec => []LoneInv
  <1>1. Init => LoneInv
    <2> SUFFICES ASSUME Init PROVE UntouchedBefore /\ AloneUndisturbed
      BY InitInv DEF LoneInv
    <2>1. UntouchedBefore
      BY EmptyElements DEF Init, UntouchedBefore, Untouched, Queued
    <2>2. AloneUndisturbed
      BY DEF Init, AloneUndisturbed, Alone
    <2> QED  BY <2>1, <2>2
  <1>2. LoneInv /\ [Next]_vars => LoneInv'
    BY StepInv, StepUntouched, StepAlone DEF LoneInv
  <1> QED  BY <1>1, <1>2, PTL DEF Spec

\* However late alerts, timeouts of other calls and status alerts interleave, a
\* torrent whose add succeeded leaves the session only when its owner removes it
\* or a second call names the same info-hash.
THEOREM LostToDuplicate == Spec => []LostOnlyToDuplicate
  <1>1. LoneInv => LostOnlyToDuplicate
    <2> SUFFICES ASSUME LoneInv, NEW p \in Paths, outcome[p] = "ok", session = "open",
                        p \notin live, \A q \in Paths \ {p} : meta[q] # meta[p]
                 PROVE  FALSE
      BY DEF LostOnlyToDuplicate
    <2>1. promised[p] = p /\ meta[p] # NoMeta
      BY AddAssumption DEF LoneInv, Inv, OwnHandle, SandboxLife, Life, Unborn
    <2>2. Undisturbed(p)
      BY <2>1 DEF LoneInv, AloneUndisturbed, Alone
    <2> QED  BY <2>1, <2>2 DEF Undisturbed
  <1> QED  BY <1>1, LoneInvHolds, PTL
=============================================================================
