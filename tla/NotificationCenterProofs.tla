---------------------- MODULE NotificationCenterProofs ----------------------
(***************************************************************************)
(* The safety properties of NotificationCenter and its refinement of       *)
(* Mailboxes, for any receivers, queue limits and messages.                *)
(***************************************************************************)
EXTENDS NotificationCenter, TLAPS

\* The empty queue.
LEMMA EmptyLen == Len(<<>>) = 0
  OBVIOUS

\* Moving the head of the second sequence to the end of the first keeps the
\* concatenation.
LEMMA MoveHead ==
  \A d, t, p \in Seq(Messages) :
     t # <<>> => Append(d, Head(t)) \o Tail(t) \o p = d \o t \o p
  <1> SUFFICES ASSUME NEW d \in Seq(Messages), NEW t \in Seq(Messages),
                      NEW p \in Seq(Messages), t # <<>>
               PROVE  Append(d, Head(t)) \o Tail(t) \o p = d \o t \o p
    OBVIOUS
  <1>1. Append(d, Head(t)) \o Tail(t) = d \o t
    OBVIOUS
  <1> QED  BY <1>1

\* Moving the third sequence to the end of the second keeps it too.
LEMMA MoveAll ==
  \A d, t, p \in Seq(Messages) :
     /\ d \o (t \o p) \o <<>> = d \o t \o p
     /\ (t \o p) \o <<>> = t \o p
     /\ t \o p \in Seq(Messages) /\ Len(t \o p) = Len(t) + Len(p)
  <1> SUFFICES ASSUME NEW d \in Seq(Messages), NEW t \in Seq(Messages),
                      NEW p \in Seq(Messages)
               PROVE  /\ d \o (t \o p) \o <<>> = d \o t \o p
                      /\ (t \o p) \o <<>> = t \o p
                      /\ t \o p \in Seq(Messages) /\ Len(t \o p) = Len(t) + Len(p)
    OBVIOUS
  <1> QED  OBVIOUS

\* Before the first registration nothing is held and no thread runs.
LEMMA InitInv == Init => Inv
  <1> SUFFICES ASSUME Init PROVE Inv
    OBVIOUS
  <1>0. /\ <<>> \in Seq(Messages) /\ Len(<<>>) = 0 /\ <<>> \o <<>> \o <<>> = <<>>
        /\ 0 \in 0 .. MaxSent
    BY CenterAssumption
  <1> USE CenterAssumption, <1>0 DEF Init
  <1>1. TypeOK
    BY DEF TypeOK, Busy
  <1>2. NothingLost
    BY DEF NothingLost
  <1>3. HeldBounded
    <2>1. 0 <= MaxNotifications + 1 /\ 0 + 0 <= 2 * (MaxNotifications + 1)
      BY CenterAssumption
    <2> QED  BY <2>1 DEF HeldBounded
  <1>4. NoThreadAfterRemoval /\ BatchBounded
    BY DEF NoThreadAfterRemoval, BatchBounded
  <1> QED  BY <1>1, <1>2, <1>3, <1>4 DEF Inv

\* A step of a thread that moves no message: only its place changes.
Moves(r) == Test(r) \/ Wake(r) \/ BatchDone(r) \/ ExitAtOnce(r) \/ DrainDone(r)

\* No operation of the center and no step of a thread breaks the invariant.
LEMMA StepInv == Inv /\ [Next]_vars => Inv'
  <1> SUFFICES ASSUME Inv, [Next]_vars PROVE Inv'
    OBVIOUS
  <1> USE CenterAssumption DEF Inv, unitVars, centerFrame
  <1>1. CASE ChangeConfiguration
    BY <1>1 DEF ChangeConfiguration, TypeOK, NothingLost, HeldBounded,
       NoThreadAfterRemoval, BatchBounded
  <1>2. ASSUME NEW r \in Receivers, AddReceiver(r) PROVE Inv'
    <2> USE <1>2 DEF AddReceiver, LockFree
    <2>1. TypeOK'
      BY DEF TypeOK, Busy
    <2>2. NothingLost'
      <3>1. /\ \A q \in Receivers \ {r} : /\ accepted'[q] = accepted[q] /\ taken'[q] = taken[q]
                                         /\ delivered'[q] = delivered[q]
                                         /\ pending'[q] = pending[q] /\ loop'[q] = loop[q]
            /\ accepted'[r] = <<>> /\ taken'[r] = <<>>
            /\ delivered'[r] = <<>> /\ pending'[r] = <<>>
        BY DEF TypeOK
      <3>2. <<>> \o <<>> \o <<>> = <<>>
        OBVIOUS
      <3> QED  BY <3>1, <3>2 DEF NothingLost
    <2>3. HeldBounded'
      BY DEF HeldBounded, TypeOK
    <2>4. BatchBounded'
      <3>1. \A q \in Receivers \ {r} : loop'[q] = loop[q] /\ taken'[q] = taken[q]
        BY DEF TypeOK
      <3>2. taken'[r] = <<>> /\ loop'[r] = "test"
        BY DEF TypeOK
      <3>3. Len(taken'[r]) = 0
        BY ONLY <3>2, EmptyLen
      <3> QED  BY <3>1, <3>2, <3>3 DEF BatchBounded
    <2>5. NoThreadAfterRemoval'
      BY DEF NoThreadAfterRemoval, TypeOK
    <2> QED  BY <2>1, <2>2, <2>3, <2>4, <2>5
  <1>3. ASSUME NEW r \in Receivers, SendMessage(r) PROVE Inv'
    <2> USE <1>3 DEF SendMessage, LockFree
    <2>1. CASE ~Room(r)
      <3>1. /\ pending' = pending /\ accepted' = accepted /\ sent' = sent + 1
            /\ UNCHANGED <<registered, removing, atGone, executeAll, stopWork, loop,
                           taken, delivered>>
            /\ sent < MaxSent
        BY <2>1
      <3>2. TypeOK'
        BY <3>1 DEF TypeOK
      <3>3. NothingLost' /\ NoThreadAfterRemoval'
        BY <3>1 DEF NothingLost, NoThreadAfterRemoval
      <3>4. HeldBounded' /\ BatchBounded'
        BY <3>1 DEF HeldBounded, BatchBounded
      <3> QED  BY <3>2, <3>3, <3>4
    <2>2. CASE Room(r)
      <3> DEFINE m == sent + 1
      <3>1. m \in Messages
        BY DEF TypeOK, Messages
      <3> HIDE DEF m
      <3>2. /\ pending' = [pending EXCEPT ![r] = Append(pending[r], m)]
            /\ accepted' = [accepted EXCEPT ![r] = Append(accepted[r], m)]
            /\ UNCHANGED <<taken, delivered>>
        BY <2>2 DEF m
      <3>3. /\ pending[r] \in Seq(Messages) /\ taken[r] \in Seq(Messages)
            /\ delivered[r] \in Seq(Messages) /\ accepted[r] \in Seq(Messages)
        BY DEF TypeOK
      <3>4. /\ Append(pending[r], m) \in Seq(Messages)
            /\ Len(Append(pending[r], m)) = Len(pending[r]) + 1
            /\ Append(delivered[r] \o taken[r] \o pending[r], m)
                 = delivered[r] \o taken[r] \o Append(pending[r], m)
        <4> DEFINE d == delivered[r]  t == taken[r]  p == pending[r]
        <4>1. d \in Seq(Messages) /\ t \in Seq(Messages) /\ p \in Seq(Messages)
          BY <3>3
        <4> HIDE DEF d, t, p
        <4>2. Append(p, m) \in Seq(Messages) /\ Len(Append(p, m)) = Len(p) + 1
          BY ONLY <3>1, <4>1
        <4> DEFINE h == d \o t
        <4>3. h \in Seq(Messages)
          BY ONLY <4>1
        <4> HIDE DEF h
        <4>4. Append(h \o p, m) = h \o Append(p, m)
          BY ONLY <3>1, <4>1, <4>3
        <4> QED  BY <4>2, <4>4 DEF d, t, p, h
      <3>5. TypeOK'
        <4>1. Append(accepted[r], m) \in Seq(Messages)
          BY <3>1, <3>3
        <4> QED  BY <3>2, <3>4, <4>1 DEF TypeOK, Messages
      <3>6. NothingLost'
        BY <3>2, <3>4 DEF NothingLost, TypeOK
      <3>7. HeldBounded'
        <4> SUFFICES ASSUME NEW q \in Receivers
                     PROVE  /\ Len(pending'[q]) <= MaxNotifications + 1
                            /\ Len(taken'[q]) + Len(pending'[q]) <= 2 * (MaxNotifications + 1)
          BY DEF HeldBounded
        <4>1. CASE q = r
          <5>1. /\ Len(pending[r]) <= MaxNotifications
                /\ Len(taken[r]) <= MaxNotifications + 1
                /\ Len(pending[r]) \in Nat /\ Len(taken[r]) \in Nat
            BY <2>2, <3>3 DEF Room, NoThreadAfterRemoval, BatchBounded, TypeOK, Busy
          <5> QED  BY <4>1, <5>1, <3>2, <3>4 DEF TypeOK
        <4>2. CASE q # r
          BY <4>2, <3>2 DEF HeldBounded, TypeOK
        <4> QED  BY <4>1, <4>2
      <3>8. NoThreadAfterRemoval' /\ BatchBounded'
        BY <3>2 DEF NoThreadAfterRemoval, BatchBounded
      <3> QED  BY <3>5, <3>6, <3>7, <3>8
    <2> QED  BY <2>1, <2>2
  <1>4. ASSUME NEW r \in Receivers, RemoveReceiver(r) PROVE Inv'
    <2> USE <1>4 DEF RemoveReceiver, LockFree
    <2>1. TypeOK'
      BY DEF TypeOK
    <2>2. NothingLost' /\ HeldBounded' /\ BatchBounded'
      BY DEF NothingLost, HeldBounded, BatchBounded
    <2>3. NoThreadAfterRemoval'
      BY DEF NoThreadAfterRemoval, TypeOK
    <2> QED  BY <2>1, <2>2, <2>3
  <1>5. ASSUME NEW r \in Receivers, Removed(r) PROVE Inv'
    <2> USE <1>5 DEF Removed
    <2>1. TypeOK'
      BY DEF TypeOK, Busy
    <2>2. NothingLost' /\ HeldBounded' /\ BatchBounded'
      BY DEF NothingLost, HeldBounded, BatchBounded, TypeOK
    <2>3. NoThreadAfterRemoval'
      BY DEF NoThreadAfterRemoval, TypeOK
    <2> QED  BY <2>1, <2>2, <2>3
  <1>6. ASSUME NEW r \in Receivers, Moves(r) PROVE Inv'
    <2> USE <1>6 DEF Moves, Test, Wake, BatchDone, ExitAtOnce, DrainDone, Goto
    <2>1. TypeOK'
      BY DEF TypeOK, Busy
    <2>2. NothingLost' /\ HeldBounded'
      BY DEF NothingLost, HeldBounded
    <2>3. BatchBounded'
      <3>1. /\ \A q \in Receivers \ {r} : loop'[q] = loop[q]
            /\ \/ loop[r] = "test" /\ loop'[r] \in {"exit", "notify"}
               \/ loop[r] = "test" /\ loop'[r] = "sleep" /\ taken[r] = <<>>
               \/ loop[r] = "sleep" /\ loop'[r] \in {"copy", "test"}
               \/ loop'[r] = "copy" /\ taken[r] = <<>>
               \/ loop'[r] = "done"
            /\ taken' = taken
        BY DEF TypeOK
      <3>2. taken[r] = <<>> => Len(taken[r]) = 0
        BY EmptyLen
      <3> QED  BY <3>1, <3>2 DEF BatchBounded
    <2>4. NoThreadAfterRemoval'
      BY DEF NoThreadAfterRemoval, TypeOK
    <2> QED  BY <2>1, <2>2, <2>3, <2>4
  <1>7. ASSUME NEW r \in Receivers, CopyPending(r) \/ ExitDrain(r) PROVE Inv'
    <2> USE <1>7 DEF CopyPending, ExitDrain, TakePending, Goto
    <2>1. /\ pending[r] \in Seq(Messages) /\ taken[r] \in Seq(Messages)
          /\ delivered[r] \in Seq(Messages)
      BY DEF TypeOK
    <2>2. /\ delivered[r] \o (taken[r] \o pending[r]) \o <<>> = delivered[r] \o taken[r] \o pending[r]
          /\ taken[r] \o pending[r] \in Seq(Messages)
          /\ Len(taken[r] \o pending[r]) = Len(taken[r]) + Len(pending[r])
      <3> DEFINE d == delivered[r]  t == taken[r]  p == pending[r]
      <3>1. d \in Seq(Messages) /\ t \in Seq(Messages) /\ p \in Seq(Messages)
        BY <2>1
      <3> HIDE DEF d, t, p
      <3>2. /\ d \o (t \o p) \o <<>> = d \o t \o p
            /\ t \o p \in Seq(Messages)
            /\ Len(t \o p) = Len(t) + Len(p)
        BY ONLY <3>1, MoveAll
      <3> QED  BY ONLY <3>2 DEF d, t, p
    <2>3. /\ taken' = [taken EXCEPT ![r] = taken[r] \o pending[r]]
          /\ pending' = [pending EXCEPT ![r] = <<>>]
      OBVIOUS
    <2>4. TypeOK'
      <3>1. <<>> \in Seq(Messages)
        OBVIOUS
      <3> QED  BY <2>2, <2>3, <3>1 DEF TypeOK, Busy
    <2>9. /\ taken'[r] = taken[r] \o pending[r] /\ pending'[r] = <<>>
          /\ \A q \in Receivers \ {r} : taken'[q] = taken[q] /\ pending'[q] = pending[q]
          /\ accepted' = accepted /\ delivered' = delivered
      BY <2>3 DEF TypeOK
    <2>5. NothingLost'
      <3>1. \A q \in Receivers : accepted[q] = delivered[q] \o taken[q] \o pending[q]
        BY DEF NothingLost
      <3>2. ASSUME NEW q \in Receivers, q # r
            PROVE  accepted'[q] = delivered'[q] \o taken'[q] \o pending'[q]
        BY ONLY <2>9, <3>1, <3>2
      <3>3. accepted'[r] = delivered'[r] \o taken'[r] \o pending'[r]
        BY ONLY <2>2, <2>9, <3>1, r \in Receivers
      <3> QED  BY ONLY <3>2, <3>3 DEF NothingLost
    <2>6. HeldBounded'
      <3>1. \A q \in Receivers : /\ Len(pending[q]) <= MaxNotifications + 1
                                 /\ Len(taken[q]) + Len(pending[q]) <= 2 * (MaxNotifications + 1)
        BY DEF HeldBounded
      <3>2. Len(<<>>) = 0
        BY EmptyLen
      <3>3. Len(taken[r]) \in Nat /\ Len(pending[r]) \in Nat
        BY <2>1
      <3>4. /\ Len(pending'[r]) <= MaxNotifications + 1
            /\ Len(taken'[r]) + Len(pending'[r]) <= 2 * (MaxNotifications + 1)
        <4> DEFINE room == MaxNotifications + 1
                   before == Len(taken[r])  more == Len(pending[r])
                   after == Len(taken'[r])  rest == Len(pending'[r])
        <4>1. before \in Nat /\ more \in Nat /\ room \in Nat
          BY <3>3, CenterAssumption DEF CenterAssumption
        <4>2. before + more <= 2 * room
          BY ONLY <3>1, r \in Receivers DEF room, before, more
        <4>3. rest = 0
          BY ONLY <2>9, <3>2 DEF rest
        <4>4. after = before + more
          BY ONLY <2>2, <2>9 DEF after, before, more
        <4> HIDE DEF room, before, more, after, rest
        <4>5. rest <= room /\ after + rest <= 2 * room
          BY ONLY <4>1, <4>2, <4>3, <4>4
        <4> QED  BY ONLY <4>5 DEF room, after, rest
      <3>5. ASSUME NEW q \in Receivers, q # r
            PROVE  /\ Len(pending'[q]) <= MaxNotifications + 1
                   /\ Len(taken'[q]) + Len(pending'[q]) <= 2 * (MaxNotifications + 1)
        BY ONLY <2>9, <3>1, <3>5
      <3> QED  BY ONLY <3>4, <3>5 DEF HeldBounded
    <2>7. BatchBounded'
      <3>1. /\ loop[r] \in {"copy", "exit"} /\ loop \in [Receivers -> Busy \cup {"off"}]
            /\ \E there \in {"test", "drain"} : loop' = [loop EXCEPT ![r] = there]
            /\ loop[r] = "copy" <=> loop'[r] = "test"
        BY DEF TypeOK
      <3>2. loop[r] = "copy" => Len(taken[r] \o pending[r]) <= MaxNotifications + 1
        <4>1. CASE loop[r] = "copy"
          <5>1. taken[r] = <<>> /\ Len(taken[r]) = 0
            <6>1. taken[r] = <<>>
              BY <4>1 DEF BatchBounded
            <6> QED  BY ONLY <6>1, EmptyLen
          <5>2. Len(pending[r]) <= MaxNotifications + 1 /\ Len(pending[r]) \in Nat
            <6>1. HeldBounded
              OBVIOUS
            <6>2. Len(pending[r]) \in Nat
              BY ONLY <2>1
            <6> QED  BY ONLY <6>1, <6>2, r \in Receivers DEF HeldBounded
          <5> QED  BY ONLY <5>1, <5>2, <2>2, CenterAssumption DEF CenterAssumption
        <4> QED  BY <4>1
      <3>3. taken'[r] = taken[r] \o pending[r]
        BY <2>3 DEF TypeOK
      <3>4. \A q \in Receivers \ {r} : taken'[q] = taken[q] /\ loop'[q] = loop[q]
        BY <2>3, <3>1 DEF TypeOK
      <3>5. loop'[r] \in {"test", "drain"}
        BY <3>1
      <3> QED  BY <3>1, <3>2, <3>3, <3>4, <3>5 DEF BatchBounded
    <2>8. NoThreadAfterRemoval'
      BY DEF NoThreadAfterRemoval, TypeOK
    <2> QED  BY <2>4, <2>5, <2>6, <2>7, <2>8
  <1>8. ASSUME NEW r \in Receivers, NotifyReceiver(r) \/ DrainReceiver(r) PROVE Inv'
    <2> USE <1>8 DEF NotifyReceiver, DrainReceiver, Deliver
    <2>1. /\ pending[r] \in Seq(Messages) /\ taken[r] \in Seq(Messages)
          /\ delivered[r] \in Seq(Messages) /\ taken[r] # <<>>
      BY DEF TypeOK
    <2>2. /\ Append(delivered[r], Head(taken[r])) \o Tail(taken[r]) \o pending[r]
               = delivered[r] \o taken[r] \o pending[r]
          /\ Append(delivered[r], Head(taken[r])) \in Seq(Messages)
          /\ Tail(taken[r]) \in Seq(Messages)
          /\ Len(Tail(taken[r])) = Len(taken[r]) - 1
      <3> DEFINE d == delivered[r]  t == taken[r]  p == pending[r]
      <3>1. d \in Seq(Messages) /\ t \in Seq(Messages) /\ p \in Seq(Messages) /\ t # <<>>
        BY <2>1
      <3> HIDE DEF d, t, p
      <3>2. /\ Append(d, Head(t)) \in Seq(Messages) /\ Tail(t) \in Seq(Messages)
            /\ Len(Tail(t)) = Len(t) - 1
        BY ONLY <3>1
      <3>3. Append(d, Head(t)) \o Tail(t) \o p = d \o t \o p
        BY ONLY <3>1, MoveHead
      <3> QED  BY <3>2, <3>3 DEF d, t, p
    <2>3. /\ delivered' = [delivered EXCEPT ![r] = Append(delivered[r], Head(taken[r]))]
          /\ taken' = [taken EXCEPT ![r] = Tail(taken[r])]
          /\ UNCHANGED <<pending, loop, accepted>>
      OBVIOUS
    <2>4. TypeOK'
      BY <2>2, <2>3 DEF TypeOK
    <2>5. NothingLost'
      BY <2>2, <2>3 DEF NothingLost, TypeOK
    <2>6. HeldBounded' /\ BatchBounded'
      <3>1. /\ \A q \in Receivers \ {r} : taken'[q] = taken[q]
            /\ taken'[r] = Tail(taken[r])
        BY <2>3 DEF TypeOK
      <3>2. Len(taken'[r]) = Len(taken[r]) - 1 /\ Len(taken[r]) \in Nat /\ Len(pending[r]) \in Nat
        BY <2>1, <2>2, <3>1
      <3>3. loop[r] \in {"notify", "drain"}
        OBVIOUS
      <3>4. /\ \A q \in Receivers \ {r} : taken'[q] = taken[q]
            /\ pending' = pending /\ loop' = loop /\ MaxNotifications \in Nat
            /\ HeldBounded /\ BatchBounded
        BY <3>1, <2>3 DEF CenterAssumption
      <3> HIDE <1>8
      <3>5. Len(taken'[r]) <= Len(taken[r])
        BY ONLY <3>2
      <3>6. HeldBounded'
        <4> SUFFICES ASSUME NEW q \in Receivers
                     PROVE  /\ Len(pending[q]) <= MaxNotifications + 1
                            /\ Len(taken'[q]) + Len(pending[q]) <= 2 * (MaxNotifications + 1)
          BY <3>4 DEF HeldBounded
        <4>1. CASE q # r
          BY ONLY <4>1, <3>4, q \in Receivers DEF HeldBounded
        <4>2. CASE q = r
          <5>1. /\ Len(pending[r]) <= MaxNotifications + 1
                /\ Len(taken[r]) + Len(pending[r]) <= 2 * (MaxNotifications + 1)
            BY ONLY <3>4, r \in Receivers DEF HeldBounded
          <5> DEFINE t0 == Len(taken[r])  t1 == Len(taken'[r])
                     p == Len(pending[r])  b == 2 * (MaxNotifications + 1)
          <5>2. t0 \in Nat /\ p \in Nat /\ t1 = t0 - 1
            BY ONLY <3>2
          <5>3. MaxNotifications \in Nat
            BY ONLY <3>4
          <5>4. b \in Nat
            BY ONLY <5>3
          <5>5. t0 + p <= b
            BY ONLY <5>1
          <5> HIDE DEF t0, t1, p, b
          <5>6. t1 + p <= b
            BY ONLY <5>2, <5>4, <5>5
          <5> QED  BY ONLY <4>2, <5>1, <5>6 DEF t1, p, b
        <4> QED  BY <4>1, <4>2
      <3>7. BatchBounded'
        <4>1. loop[r] \in {"test", "notify", "exit"} => Len(taken[r]) <= MaxNotifications + 1
          BY ONLY <3>4, r \in Receivers DEF BatchBounded
        <4>2. loop[r] = "notify" => Len(taken'[r]) <= MaxNotifications + 1
          BY ONLY <4>1, <3>2, <3>4, <3>5
        <4> QED  BY ONLY <3>3, <3>4, <4>2 DEF BatchBounded
      <3> QED  BY <3>6, <3>7
    <2>7. NoThreadAfterRemoval'
      BY DEF NoThreadAfterRemoval
    <2> QED  BY <2>4, <2>5, <2>6, <2>7
  <1>9. CASE UNCHANGED vars
    BY <1>9 DEF vars, TypeOK, NothingLost, HeldBounded, NoThreadAfterRemoval, BatchBounded
  <1> QED
    BY <1>1, <1>2, <1>3, <1>4, <1>5, <1>6, <1>7, <1>8, <1>9 DEF Next, Thread, Moves

-----------------------------------------------------------------------------
\* Every reachable state satisfies the inductive invariant.
THEOREM InvHolds == Spec => []Inv
  BY InitInv, StepInv, PTL DEF Spec

\* The variables of the center and of its units keep their types.
THEOREM TypeCorrect == Spec => []TypeOK
  <1>1. Inv => TypeOK
    BY DEF Inv
  <1> QED  BY <1>1, InvHolds, PTL

\* Between add_notification and on_notify no accepted message is lost, repeated
\* or overtaken while the unit lives.
THEOREM MessagesAreKept == Spec => []NothingLost
  <1>1. Inv => NothingLost
    BY DEF Inv
  <1> QED  BY <1>1, InvHolds, PTL

\* What a unit holds is bounded by two full queues.
THEOREM MemoryIsBounded == Spec => []HeldBounded
  <1>1. Inv => HeldBounded
    BY DEF Inv
  <1> QED  BY <1>1, InvHolds, PTL

\* A receiver whose removal has returned is not called any more.
THEOREM RemovedIsQuiet == Spec => []NoThreadAfterRemoval
  <1>1. Inv => NoThreadAfterRemoval
    BY DEF Inv
  <1> QED  BY <1>1, InvHolds, PTL

-----------------------------------------------------------------------------
\* The contents of the mailboxes.
Box == [r \in Receivers |-> Held(r)]

\* Before the first registration the mailboxes are closed and empty.
LEMMA InitMaps == Init => Abstract!MailInit
  BY DEF Init, Abstract!MailInit, Held

\* Every step of the center and of the threads is a step of the mailboxes, or
\* leaves them as they are.
LEMMA StepMaps == Inv /\ [Next]_vars => [Abstract!MailNext]_(Abstract!mailVars)
  <1> SUFFICES ASSUME Inv, [Next]_vars
               PROVE  Abstract!MailNext \/ UNCHANGED <<registered, Box, delivered>>
    BY DEF Abstract!mailVars, Box
  <1> USE DEF unitVars, centerFrame
  <1>1. CASE ChangeConfiguration \/ UNCHANGED vars
    BY <1>1 DEF ChangeConfiguration, vars, Box, Held
  <1>2. ASSUME NEW r \in Receivers, AddReceiver(r) PROVE Abstract!Open(r)
    <2>1. Box' = Box
      <3>1. <<>> \o <<>> = <<>>
        OBVIOUS
      <3> QED  BY <1>2, <3>1 DEF AddReceiver, Box, Held, Inv, TypeOK
    <2> QED  BY <1>2, <2>1 DEF AddReceiver, Abstract!Open, Box
  <1>3. ASSUME NEW r \in Receivers, SendMessage(r)
        PROVE  (\E m \in Messages : Abstract!Put(r, m)) \/ UNCHANGED <<registered, Box, delivered>>
    <2>1. CASE ~Room(r)
      BY <1>3, <2>1 DEF SendMessage, Box, Held
    <2>2. CASE Room(r)
      <3> DEFINE m == sent + 1
      <3>1. m \in Messages
        BY <1>3, CenterAssumption DEF SendMessage, Inv, TypeOK, Messages
      <3> HIDE DEF m
      <3>2. /\ pending[r] \in Seq(Messages) /\ taken[r] \in Seq(Messages)
            /\ r \in registered
        BY <1>3 DEF SendMessage, Inv, TypeOK
      <3>3. /\ pending' = [pending EXCEPT ![r] = Append(pending[r], m)]
            /\ UNCHANGED <<registered, taken, delivered>>
        BY <1>3, <2>2 DEF SendMessage, m
      <3>4. Append(taken[r] \o pending[r], m) = taken[r] \o Append(pending[r], m)
        <4> DEFINE t == taken[r]  p == pending[r]
        <4>1. t \in Seq(Messages) /\ p \in Seq(Messages)
          BY <3>2
        <4> HIDE DEF t, p
        <4>2. Append(t \o p, m) = t \o Append(p, m)
          BY ONLY <3>1, <4>1
        <4> QED  BY <4>2 DEF t, p
      <3>5. Box' = [Box EXCEPT ![r] = Append(Box[r], m)]
        BY <3>2, <3>3, <3>4 DEF Box, Held, Inv, TypeOK
      <3>6. Len(Box[r]) < 2 * (MaxNotifications + 1)
        <4>1. ~stopWork[r] /\ Len(pending[r]) <= MaxNotifications
          BY <2>2 DEF Room
        <4>4. loop[r] \in {"sleep", "copy"} \/ loop[r] \in {"test", "notify", "exit"}
          BY <3>2, <4>1 DEF Inv, TypeOK, Busy, NoThreadAfterRemoval
        <4>5. Len(taken[r]) <= MaxNotifications + 1
          BY <4>4, CenterAssumption DEF Inv, BatchBounded
        <4>2. Len(taken[r] \o pending[r]) = Len(taken[r]) + Len(pending[r])
          BY ONLY <3>2, MoveAll
        <4>3. Len(taken[r]) \in Nat /\ Len(pending[r]) \in Nat
          BY <3>2
        <4>6. Box[r] = taken[r] \o pending[r]
          BY <3>2 DEF Box, Held
        <4>7. Len(taken[r]) + Len(pending[r]) < 2 * (MaxNotifications + 1)
          <5> DEFINE a == Len(taken[r])  b == Len(pending[r])
          <5>1. /\ a \in Nat /\ a <= MaxNotifications + 1
                /\ b \in Nat /\ b <= MaxNotifications
            BY <4>1, <4>3, <4>5
          <5> HIDE DEF a, b
          <5>2. a + b < 2 * (MaxNotifications + 1)
            BY ONLY <5>1, CenterAssumption
          <5> QED  BY <5>2 DEF a, b
        <4> QED  BY <4>2, <4>6, <4>7
      <3> QED  BY <3>1, <3>2, <3>3, <3>5, <3>6 DEF Abstract!Put, Box
    <2> QED  BY <2>1, <2>2
  <1>4. ASSUME NEW r \in Receivers, RemoveReceiver(r) \/ Moves(r)
        PROVE  UNCHANGED <<registered, Box, delivered>>
    BY <1>4 DEF RemoveReceiver, Moves, Test, Wake, BatchDone, ExitAtOnce, DrainDone, Goto,
       Box, Held
  <1>5. ASSUME NEW r \in Receivers, Removed(r) PROVE Abstract!Close(r)
    <2>1. r \in registered
      BY <1>5 DEF Removed, Inv, NoThreadAfterRemoval
    <2>2. Box' = [Box EXCEPT ![r] = <<>>]
      BY <1>5 DEF Removed, Box, Held
    <2> QED  BY <1>5, <2>1, <2>2 DEF Removed, Abstract!Close, Box
  <1>6. ASSUME NEW r \in Receivers, CopyPending(r) \/ ExitDrain(r)
        PROVE  UNCHANGED <<registered, Box, delivered>>
    <2>1. /\ pending[r] \in Seq(Messages) /\ taken[r] \in Seq(Messages)
      BY DEF Inv, TypeOK
    <2>2. (taken[r] \o pending[r]) \o <<>> = taken[r] \o pending[r]
      <3> DEFINE t == taken[r]  p == pending[r]
      <3>1. t \in Seq(Messages) /\ p \in Seq(Messages)
        BY <2>1
      <3> HIDE DEF t, p
      <3>2. (t \o p) \o <<>> = t \o p
        BY ONLY <3>1
      <3> QED  BY <3>2 DEF t, p
    <2>3. /\ taken' = [taken EXCEPT ![r] = taken[r] \o pending[r]]
          /\ pending' = [pending EXCEPT ![r] = <<>>]
          /\ UNCHANGED <<registered, delivered>>
      BY <1>6 DEF CopyPending, ExitDrain, TakePending
    <2> QED  BY <2>2, <2>3 DEF Box, Held, Inv, TypeOK
  <1>7. ASSUME NEW r \in Receivers, NotifyReceiver(r) \/ DrainReceiver(r)
        PROVE  Abstract!Get(r)
    <2>1. /\ pending[r] \in Seq(Messages) /\ taken[r] \in Seq(Messages) /\ taken[r] # <<>>
          /\ r \in registered
      BY <1>7 DEF NotifyReceiver, DrainReceiver, Deliver, Inv, TypeOK, NoThreadAfterRemoval
    <2>2. /\ taken[r] \o pending[r] # <<>> /\ Head(taken[r] \o pending[r]) = Head(taken[r])
          /\ Tail(taken[r] \o pending[r]) = Tail(taken[r]) \o pending[r]
      <3> DEFINE t == taken[r]  p == pending[r]
      <3>1. t \in Seq(Messages) /\ p \in Seq(Messages) /\ t # <<>>
        BY <2>1
      <3> HIDE DEF t, p
      <3>2. t \o p # <<>> /\ Head(t \o p) = Head(t)
        BY ONLY <3>1
      <3>3. Tail(t \o p) = Tail(t) \o p
        BY ONLY <3>1
      <3> QED  BY <3>2, <3>3 DEF t, p
    <2>3. /\ delivered' = [delivered EXCEPT ![r] = Append(delivered[r], Head(taken[r]))]
          /\ taken' = [taken EXCEPT ![r] = Tail(taken[r])]
          /\ UNCHANGED <<registered, pending>>
      BY <1>7 DEF NotifyReceiver, DrainReceiver, Deliver
    <2>4. Box[r] = taken[r] \o pending[r]
      BY <2>1 DEF Box, Held
    <2>5. Box' = [Box EXCEPT ![r] = Tail(Box[r])]
      BY <2>1, <2>2, <2>3, <2>4 DEF Box, Held, Inv, TypeOK
    <2> QED  BY <2>1, <2>2, <2>3, <2>4, <2>5 DEF Abstract!Get, Box
  <1> QED
    BY <1>1, <1>2, <1>3, <1>4, <1>5, <1>6, <1>7 DEF Next, Thread, Moves, Abstract!MailNext

\* The center and its units implement the mailboxes.
THEOREM CenterImplementsMailboxes == Spec => ImplementsMailboxes
  BY InitMaps, StepMaps, InvHolds, PTL DEF Spec, ImplementsMailboxes, Abstract!MailSpec
=============================================================================
