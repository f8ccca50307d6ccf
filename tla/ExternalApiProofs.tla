-------------------------- MODULE ExternalApiProofs --------------------------
(***************************************************************************)
(* What is closed is quiet, for any number of cores, threads and listen    *)
(* errors, whatever numbers the handles get; then the numbers of the       *)
(* handles and the identifiers of the torrents, as long as what is closed  *)
(* and deleted is always the newest; the types of it all; and the one core *)
(* of a process that has one at a time.  With T2H_INT_WORKAROUND and       *)
(* without it.                                                             *)
(***************************************************************************)
EXTENDS ExternalApi, TLAPS, FiniteSetTheorems

\* A thread that makes or closes its core.
Engaged(t) == calls[t].at \in InitSteps \cup CloseSteps

\* What the calls are: records of a call's parts, whatever the parts.
IsCall(call) == call = Call(call.at, call.core, call.client, call.id, call.torrent)
WellFormed(cs) == cs = [t \in Threads |-> cs[t]] /\ \A t \in Threads : IsCall(cs[t])

LEMMA CallParts ==
  ASSUME NEW step, NEW c, NEW owner, NEW n, NEW k
  PROVE  /\ IsCall(Call(step, c, owner, n, k))
         /\ Call(step, c, owner, n, k).at = step /\ Call(step, c, owner, n, k).core = c
BY DEF Call, IsCall

LEMMA OneCall ==
  ASSUME WellFormed(calls), NEW t \in Threads, NEW call, IsCall(call),
         calls' = [calls EXCEPT ![t] = call]
  PROVE  WellFormed(calls') /\ calls'[t] = call /\ \A u \in Threads : u # t => calls'[u] = calls[u]
<1>1. DOMAIN calls = Threads
  BY DEF WellFormed
<1>2. calls' = [u \in Threads |-> IF u = t THEN call ELSE calls[u]]
  BY <1>1
<1>3. calls'[t] = call /\ \A u \in Threads : u # t => calls'[u] = calls[u]
  BY <1>2
<1>4. calls' = [u \in Threads |-> calls'[u]]
  BY <1>2
<1>5. \A u \in Threads : IsCall(calls'[u])
  BY <1>3 DEF WellFormed
<1> QED
  BY <1>3, <1>4, <1>5 DEF WellFormed

LEMMA OneStep ==
  ASSUME NEW cs, WellFormed(cs), NEW t \in Threads, NEW step,
         NEW ds, ds = [cs EXCEPT ![t].at = step]
  PROVE  ds = [cs EXCEPT ![t] =
                 Call(step, cs[t].core, cs[t].client, cs[t].id, cs[t].torrent)]
<1>1. cs[t] = Call(cs[t].at, cs[t].core, cs[t].client, cs[t].id, cs[t].torrent)
  BY DEF WellFormed, IsCall
<1>2. [cs[t] EXCEPT !.at = step] = Call(step, cs[t].core, cs[t].client, cs[t].id, cs[t].torrent)
  BY <1>1 DEF Call
<1> QED
  BY <1>2

\* The parts of TypeOK that the argument needs.
Shape ==
  /\ created \in Nat /\ added \in Nat
  /\ WellFormed(calls)
  /\ torrent \in [Cores -> {"off", "running", "stoped"}]
  /\ loop \in [Cores -> {"off", "running", "ended"}]
  /\ session \in [Cores -> BOOLEAN] /\ listenFailed \in [Cores -> BOOLEAN]
  /\ http \in [Cores -> {"off", "running", "stoped"}]
  /\ server \in [Cores -> Configs \cup {NoConfig}]
  /\ closed \subseteq Cores
  /\ \A n \in DOMAIN handles : handles[n] \in Cores

\* A core was made, and is in one place: with one thread that makes or closes it,
\* under one number, or closed.
OnePlace ==
  /\ \A c \in closed : c <= created
  /\ \A n \in DOMAIN handles : handles[n] <= created /\ handles[n] \notin closed
  /\ \A m, n \in DOMAIN handles : handles[m] = handles[n] => m = n
  /\ \A t \in Threads : Engaged(t) =>
       /\ calls[t].core \in Cores /\ calls[t].core <= created
       /\ calls[t].core \notin closed
       /\ \A n \in DOMAIN handles : handles[n] # calls[t].core
  /\ \A t, u \in Threads : Engaged(t) /\ Engaged(u) /\ calls[t].core = calls[u].core => t = u

Quiet(c) == loop[c] = "ended" /\ ~session[c]
HttpOff(c) == server[c] = NoConfig /\ http[c] = "stoped"

\* A torrent core that is stopped is quiet but for its listen error, or a thread
\* waits for its loop.
StoppedIsQuiet ==
  \A c \in Cores : torrent[c] = "stoped" =>
    \/ listenFailed[c] \/ Quiet(c)
    \/ \E t \in Threads : calls[t].at = "join" /\ calls[t].core = c

\* What the steps of t2h_init and t2h_close have reached.
ReachedBy(step, c) ==
  /\ step \in {"launchHttp", "stuck", "register"} \cup CloseSteps => torrent[c] # "off"
  /\ step \in {"stopTorrent", "join", "clear"} => HttpOff(c)
  /\ step \in {"join", "clear"} => torrent[c] = "stoped"
  /\ step = "clear" => listenFailed[c] \/ Quiet(c)

Reached ==
  /\ \A n \in DOMAIN handles : torrent[handles[n]] # "off"
  /\ \A t \in Threads : ReachedBy(calls[t].at, calls[t].core)

Inv == Shape /\ OnePlace /\ StoppedIsQuiet /\ Reached /\ ClosedIsQuiet

LEMMA InvInit == Init => Inv
<1> SUFFICES ASSUME Init PROVE Inv
  OBVIOUS
<1>1. \A t \in Threads : calls[t].at = "idle" /\ ~Engaged(t)
  BY DEF Init, Idle, Call, Engaged, InitSteps, CloseSteps
<1>2. WellFormed(calls)
  BY CallParts DEF Init, Idle, WellFormed
<1>3. Shape
  BY <1>2 DEF Init, Shape
<1>4. OnePlace
  BY <1>1 DEF Init, OnePlace
<1>5. StoppedIsQuiet /\ ClosedIsQuiet
  BY DEF Init, StoppedIsQuiet, ClosedIsQuiet
<1>6. Reached
  BY <1>1 DEF Init, Reached, ReachedBy, CloseSteps
<1> QED
  BY <1>3, <1>4, <1>5, <1>6 DEF Inv

-----------------------------------------------------------------------------
\* A call that neither makes nor closes a core goes on, or leaves and lets go of one.
Passing(t) ==
  /\ WellFormed(calls')
  /\ \A u \in Threads : u # t => calls'[u] = calls[u]
  /\ ~Engaged(t) /\ ~Engaged(t)'
  /\ UNCHANGED <<handles, created, closed>> /\ added' \in Nat
  /\ UNCHANGED serviceVars \/ DestroyReleased(handles)

\* ~torrent_core ends the loop with the service and leaves the server alone.
LEMMA Destroyed ==
  ASSUME Inv, NEW table, DestroyReleased(table)
  PROVE  /\ torrent' \in [Cores -> {"off", "running", "stoped"}]
         /\ loop' \in [Cores -> {"off", "running", "ended"}]
         /\ session' \in [Cores -> BOOLEAN]
         /\ UNCHANGED <<listenFailed, http, server>>
         /\ \A c \in Cores : \/ /\ torrent'[c] = torrent[c] /\ loop'[c] = loop[c]
                                /\ session'[c] = session[c]
                             \/ /\ torrent[c] = "running" /\ torrent'[c] = "stoped"
                                /\ loop'[c] = "ended" /\ ~session'[c]
<1> DEFINE ended == {c \in Cores : /\ torrent[c] = "running"
                                   /\ Referred(handles, calls, c)
                                   /\ ~Referred(table, calls', c)}
<1>1. /\ torrent' = [c \in Cores |-> IF c \in ended THEN "stoped" ELSE torrent[c]]
      /\ loop' = [c \in Cores |-> IF c \in ended THEN "ended" ELSE loop[c]]
      /\ session' = [c \in Cores |-> session[c] /\ c \notin ended]
      /\ UNCHANGED <<listenFailed, http, server>>
  BY DEF DestroyReleased
<1>2. \A c \in ended : torrent[c] = "running"
  OBVIOUS
<1> HIDE DEF ended
<1>3. /\ torrent \in [Cores -> {"off", "running", "stoped"}]
      /\ loop \in [Cores -> {"off", "running", "ended"}]
      /\ session \in [Cores -> BOOLEAN]
  BY DEF Inv, Shape
<1>4. torrent' \in [Cores -> {"off", "running", "stoped"}]
  BY <1>1, <1>3
<1>5. loop' \in [Cores -> {"off", "running", "ended"}]
  BY <1>1, <1>3
<1>6. session' \in [Cores -> BOOLEAN]
  BY <1>1
<1>7. ASSUME NEW c \in Cores
      PROVE  \/ /\ torrent'[c] = torrent[c] /\ loop'[c] = loop[c]
                /\ session'[c] = session[c]
             \/ /\ torrent[c] = "running" /\ torrent'[c] = "stoped"
                /\ loop'[c] = "ended" /\ ~session'[c]
  <2>1. CASE c \in ended
    BY <1>1, <1>2, <2>1
  <2>2. CASE c \notin ended
    <3>1. torrent'[c] = torrent[c] /\ loop'[c] = loop[c]
      BY <1>1, <2>2
    <3>2. session'[c] = session[c]
      BY <1>1, <1>3, <2>2
    <3> QED
      BY <3>1, <3>2
  <2> QED
    BY <2>1, <2>2
<1> QED
  BY <1>1, <1>4, <1>5, <1>6, <1>7

\* What a step may do to the services of a core that it does not make or close.
Settled(c) ==
  /\ http'[c] = http[c] /\ server'[c] = server[c] /\ listenFailed'[c] = listenFailed[c]
  /\ \/ torrent'[c] = torrent[c] /\ loop'[c] = loop[c] /\ session'[c] = session[c]
     \/ /\ torrent[c] = "running" /\ torrent'[c] = "stoped"
        /\ loop'[c] = "ended" /\ ~session'[c]

LEMMA PassingKeeps ==
  ASSUME Inv, NEW t \in Threads, Passing(t)
  PROVE  Inv'
<1>1. /\ torrent' \in [Cores -> {"off", "running", "stoped"}]
      /\ loop' \in [Cores -> {"off", "running", "ended"}]
      /\ session' \in [Cores -> BOOLEAN]
      /\ UNCHANGED <<listenFailed, http, server>>
      /\ \A c \in Cores : Settled(c)
  <2>1. CASE UNCHANGED serviceVars
    BY <2>1 DEF Inv, Shape, serviceVars, Settled
  <2>2. CASE DestroyReleased(handles)
    BY <2>2, Destroyed DEF Settled
  <2> QED
    BY <2>1, <2>2 DEF Passing
<1>2. /\ UNCHANGED <<handles, created, closed>> /\ WellFormed(calls')
      /\ added' \in Nat
  BY DEF Passing
<1>3. \A u \in Threads : Engaged(u)' => calls'[u] = calls[u] /\ Engaged(u)
  BY DEF Passing, Engaged
<1>4. Shape'
  BY <1>1, <1>2 DEF Inv, Shape
<1>5. OnePlace'
  BY <1>2, <1>3 DEF Inv, OnePlace
<1>6. StoppedIsQuiet'
  <2> SUFFICES ASSUME NEW c \in Cores, torrent'[c] = "stoped",
                      ~listenFailed'[c], ~Quiet(c)'
               PROVE  \E u \in Threads : calls'[u].at = "join" /\ calls'[u].core = c
    BY DEF StoppedIsQuiet
  <2>1. torrent[c] = "stoped" /\ ~listenFailed[c] /\ ~Quiet(c)
    BY <1>1 DEF Settled, Quiet
  <2>2. PICK u \in Threads : calls[u].at = "join" /\ calls[u].core = c
    BY <2>1 DEF Inv, StoppedIsQuiet
  <2>3. u # t
    BY <2>2 DEF Passing, Engaged, CloseSteps
  <2> QED
    BY <2>2, <2>3 DEF Passing
<1>7. Reached'
  <2>1. \A c \in Cores : torrent[c] # "off" => torrent'[c] # "off"
    BY <1>1 DEF Settled
  <2>2. \A c \in Cores : torrent[c] = "stoped" => torrent'[c] = "stoped"
    BY <1>1 DEF Settled
  <2>3. \A c \in Cores : HttpOff(c) => HttpOff(c)'
    BY <1>1 DEF HttpOff
  <2>4. \A c \in Cores : listenFailed[c] \/ Quiet(c) => listenFailed'[c] \/ Quiet(c)'
    BY <1>1 DEF Settled, Quiet
  <2>5. \A n \in DOMAIN handles' : torrent'[handles'[n]] # "off"
    BY <2>1, <1>2 DEF Inv, Shape, Reached
  <2>6. ASSUME NEW u \in Threads
        PROVE  ReachedBy(calls[u].at, calls[u].core)'
    <3>1. CASE Engaged(u)'
      <4>1. calls'[u] = calls[u] /\ calls[u].core \in Cores
        BY <1>3, <3>1 DEF Inv, OnePlace
      <4>2. ReachedBy(calls[u].at, calls[u].core)
        BY DEF Inv, Reached
      <4> QED
        BY <4>1, <4>2, <2>1, <2>2, <2>3, <2>4 DEF ReachedBy
    <3>2. CASE ~Engaged(u)'
      BY <3>2 DEF ReachedBy, Engaged, InitSteps, CloseSteps
    <3> QED
      BY <3>1, <3>2
  <2> QED
    BY <2>5, <2>6 DEF Reached
<1>8. ClosedIsQuiet'
  BY <1>1, <1>2 DEF Inv, Shape, ClosedIsQuiet, Settled
<1> QED
  BY <1>4, <1>5, <1>6, <1>7, <1>8 DEF Inv

-----------------------------------------------------------------------------
\* A thread that makes or closes its core takes the next step with it.
Moving(t, step) ==
  /\ Engaged(t) /\ step \in InitSteps \cup CloseSteps
  /\ Goto(t, step)
  /\ UNCHANGED <<handles, created, closed, added>>

LEMMA MovingKeeps ==
  ASSUME Inv, NEW t \in Threads, NEW step, Moving(t, step)
  PROVE  /\ WellFormed(calls') /\ OnePlace'
         /\ calls[t].core \in Cores /\ calls'[t].core = calls[t].core /\ calls'[t].at = step
         /\ \A u \in Threads : u # t => calls'[u] = calls[u]
         /\ \A u \in Threads : u # t /\ Engaged(u) => calls[u].core # calls[t].core
         /\ \A n \in DOMAIN handles : handles[n] # calls[t].core
         /\ calls[t].core \notin closed
<1>1. WellFormed(calls)
  BY DEF Inv, Shape
<1>2. calls' = [calls EXCEPT ![t].at = step]
  BY DEF Moving, Goto
<1> DEFINE call == Call(step, calls[t].core, calls[t].client, calls[t].id, calls[t].torrent)
<1>3. calls' = [calls EXCEPT ![t] = call]
  BY <1>1, <1>2, OneStep
<1>4. IsCall(call) /\ call.at = step /\ call.core = calls[t].core
  BY CallParts
<1> HIDE DEF call
<1>5. /\ WellFormed(calls') /\ calls'[t] = call
      /\ \A u \in Threads : u # t => calls'[u] = calls[u]
  BY <1>1, <1>3, <1>4, OneCall
<1>6. WellFormed(calls')
  BY <1>5
<1>7. calls'[t].core = calls[t].core /\ calls'[t].at = step
  BY <1>4, <1>5
<1>8. \A u \in Threads : u # t => calls'[u] = calls[u]
  BY <1>5
<1>9. \A u \in Threads : calls'[u].core = calls[u].core /\ (Engaged(u)' => Engaged(u))
  BY <1>7, <1>8 DEF Engaged, Moving
<1>10. UNCHANGED <<handles, created, closed>> /\ Engaged(t)
  BY DEF Moving
<1>11. OnePlace'
  BY <1>9, <1>10 DEF Inv, OnePlace
<1> QED
  BY <1>6, <1>7, <1>8, <1>10, <1>11 DEF Inv, OnePlace

\* Such a step changes the services of its own core, and reaches what is asked of it.
LEMMA OwnCoreKeeps ==
  ASSUME Inv, NEW t \in Threads, NEW step, Moving(t, step),
         NEW c, c = calls[t].core,
         torrent' \in [Cores -> {"off", "running", "stoped"}],
         loop' \in [Cores -> {"off", "running", "ended"}],
         session' \in [Cores -> BOOLEAN], http' \in [Cores -> {"off", "running", "stoped"}],
         server' \in [Cores -> Configs \cup {NoConfig}],
         UNCHANGED listenFailed,
         \A d \in Cores : d # c =>
           /\ torrent'[d] = torrent[d] /\ loop'[d] = loop[d] /\ session'[d] = session[d]
           /\ http'[d] = http[d] /\ server'[d] = server[d],
         torrent'[c] = "stoped" =>
           listenFailed[c] \/ (loop'[c] = "ended" /\ ~session'[c]) \/ step = "join",
         step \in {"launchHttp", "stuck", "register"} \cup CloseSteps => torrent'[c] # "off",
         step \in {"stopTorrent", "join", "clear"} =>
           server'[c] = NoConfig /\ http'[c] = "stoped",
         step \in {"join", "clear"} => torrent'[c] = "stoped",
         step = "clear" => listenFailed[c] \/ (loop'[c] = "ended" /\ ~session'[c])
  PROVE  Inv'
<1>1. /\ WellFormed(calls') /\ OnePlace'
      /\ c \in Cores /\ calls'[t].core = c /\ calls'[t].at = step
      /\ \A u \in Threads : u # t => calls'[u] = calls[u]
      /\ \A u \in Threads : u # t /\ Engaged(u) => calls[u].core # c
      /\ \A n \in DOMAIN handles : handles[n] # c
      /\ c \notin closed
  BY MovingKeeps
<1>2. UNCHANGED <<handles, created, closed, added>>
  BY DEF Moving
<1>3. Shape'
  BY <1>1, <1>2 DEF Inv, Shape
<1>4. StoppedIsQuiet'
  <2> SUFFICES ASSUME NEW d \in Cores, torrent'[d] = "stoped",
                      ~listenFailed[d], ~(loop'[d] = "ended" /\ ~session'[d])
               PROVE  \E u \in Threads : calls'[u].at = "join" /\ calls'[u].core = d
    BY DEF StoppedIsQuiet, Quiet
  <2>1. CASE d = c
    BY <1>1, <2>1
  <2>2. CASE d # c
    <3>1. torrent[d] = "stoped" /\ ~Quiet(d)
      BY <2>2 DEF Quiet
    <3>2. PICK u \in Threads : calls[u].at = "join" /\ calls[u].core = d
      BY <3>1 DEF Inv, StoppedIsQuiet
    <3>3. u # t
      BY <3>2, <2>2
    <3> QED
      BY <3>2, <3>3, <1>1
  <2> QED
    BY <2>1, <2>2
<1>5. Reached'
  <2>1. \A n \in DOMAIN handles' : torrent'[handles'[n]] # "off"
    BY <1>1, <1>2 DEF Inv, Shape, Reached
  <2>2. ReachedBy(calls[t].at, calls[t].core)'
    BY <1>1 DEF ReachedBy, HttpOff, Quiet
  <2>3. ASSUME NEW u \in Threads, u # t
        PROVE  ReachedBy(calls[u].at, calls[u].core)'
    <3>1. calls'[u] = calls[u] /\ ReachedBy(calls[u].at, calls[u].core)
      BY <1>1, <2>3 DEF Inv, Reached
    <3>2. CASE Engaged(u)
      <4>1. calls[u].core \in Cores /\ calls[u].core # c
        BY <1>1, <2>3, <3>2 DEF Inv, OnePlace
      <4> QED
        BY <3>1, <4>1 DEF ReachedBy, HttpOff, Quiet
    <3>3. CASE ~Engaged(u)
      BY <3>1, <3>3 DEF ReachedBy, Engaged, InitSteps, CloseSteps
    <3> QED
      BY <3>2, <3>3
  <2> QED
    BY <2>1, <2>2, <2>3 DEF Reached
<1>6. ClosedIsQuiet'
  BY <1>1, <1>2 DEF Inv, Shape, ClosedIsQuiet
<1> QED
  BY <1>1, <1>3, <1>4, <1>5, <1>6 DEF Inv

-----------------------------------------------------------------------------
\* A call that goes on or begins, of a thread that makes and closes nothing.
LEMMA PassingCall ==
  ASSUME Inv, NEW t \in Threads, ~Engaged(t), NEW call, IsCall(call),
         call.at \notin InitSteps \cup CloseSteps,
         calls' = [calls EXCEPT ![t] = call],
         UNCHANGED <<handles, created, closed>>, added' \in Nat,
         UNCHANGED serviceVars \/ DestroyReleased(handles)
  PROVE  Inv'
<1>1. WellFormed(calls)
  BY DEF Inv, Shape
<1>2. WellFormed(calls') /\ calls'[t] = call
  BY <1>1, OneCall
<1>3. \A u \in Threads : u # t => calls'[u] = calls[u]
  BY <1>1
<1>4. Passing(t)
  BY <1>2, <1>3 DEF Passing, Engaged
<1> QED
  BY <1>4, PassingKeeps

LEMMA IdleParts ==
  IsCall(Idle) /\ Idle.at \notin InitSteps \cup CloseSteps
BY CallParts DEF Idle, InitSteps, CloseSteps

\* The end of a call that neither makes nor closes.
LEMMA LeaveKeeps ==
  ASSUME Inv, NEW t \in Threads, ~Engaged(t), Leave(t) \/ (Return(t) /\ UNCHANGED serviceVars),
         UNCHANGED <<handles, created, closed>>, added' \in Nat
  PROVE  Inv'
<1>1. calls' = [calls EXCEPT ![t] = Idle]
  BY DEF Leave, Return
<1>2. UNCHANGED serviceVars \/ DestroyReleased(handles)
  BY DEF Leave
<1> QED
  BY <1>1, <1>2, IdleParts, PassingCall

\* A call that goes on.
LEMMA GotoKeeps ==
  ASSUME Inv, NEW t \in Threads, ~Engaged(t), NEW step, step \notin InitSteps \cup CloseSteps,
         Goto(t, step), UNCHANGED <<handles, created, closed, added>>, UNCHANGED serviceVars
  PROVE  Inv'
<1>1. WellFormed(calls) /\ added \in Nat
  BY DEF Inv, Shape
<1> DEFINE call == Call(step, calls[t].core, calls[t].client, calls[t].id, calls[t].torrent)
<1>2. calls' = [calls EXCEPT ![t] = call]
  BY <1>1, OneStep DEF Goto
<1>3. IsCall(call) /\ call.at = step
  BY CallParts
<1> HIDE DEF call
<1> QED
  BY <1>1, <1>2, <1>3, PassingCall

-----------------------------------------------------------------------------
\* t2h_init takes a core that was never there.
LEMMA InitCallKeeps ==
  ASSUME Inv, ApiAssumption, NEW t \in Threads, NEW cfg, InitCall(t, cfg)
  PROVE  Inv'
<1> DEFINE call == Call("load", created + 1, created + 1, 0, 0)
<1>1. /\ created \in Nat /\ added \in Nat /\ WellFormed(calls)
  BY DEF Inv, Shape
<1>2. created' = created + 1 /\ created + 1 \in Cores
  BY <1>1 DEF InitCall, ApiAssumption, Cores
<1>3. IsCall(call) /\ call.at = "load" /\ call.core = created + 1
  BY CallParts
<1>4. calls' = [calls EXCEPT ![t] = call] /\ calls[t].at = "idle"
  BY <1>2 DEF InitCall, At
<1> HIDE DEF call
<1>5. /\ WellFormed(calls') /\ calls'[t] = call
      /\ \A u \in Threads : u # t => calls'[u] = calls[u]
  BY <1>1, <1>3, <1>4, OneCall
<1>6. UNCHANGED <<handles, closed, added, torrent, loop, session, listenFailed, http, server>>
  BY DEF InitCall, coreVars, serviceVars, numberVars, torrentVars
<1>7. Shape'
  BY <1>1, <1>2, <1>5, <1>6 DEF Inv, Shape
<1>8. OnePlace'
  <2>1. \A n \in DOMAIN handles : handles[n] \in Nat /\ handles[n] <= created
    <3>1. \A n \in DOMAIN handles : handles[n] \in Cores /\ handles[n] <= created
      BY DEF Inv, Shape, OnePlace
    <3> QED
      BY <3>1, ApiAssumption DEF Cores
  <2>2. \A c \in closed : c \in Nat /\ c <= created
    <3>1. \A c \in closed : c \in Cores /\ c <= created
      BY DEF Inv, Shape, OnePlace
    <3> QED
      BY <3>1, ApiAssumption DEF Cores
  <2>3. \A u \in Threads : Engaged(u) => calls[u].core \in Nat /\ calls[u].core <= created
    BY DEF Inv, OnePlace, Cores
  <2>4. \A u \in Threads : u # t => Engaged(u)' = Engaged(u)
    BY <1>5 DEF Engaged
  <2>5. /\ \A c \in closed' : c <= created'
        /\ \A n \in DOMAIN handles' : handles'[n] <= created' /\ handles'[n] \notin closed'
        /\ \A m, n \in DOMAIN handles' : handles'[m] = handles'[n] => m = n
    BY <1>1, <1>2, <1>6, <2>1, <2>2 DEF Inv, OnePlace
  <2>6. ASSUME NEW u \in Threads, Engaged(u)'
        PROVE  /\ calls'[u].core \in Cores /\ calls'[u].core <= created'
               /\ calls'[u].core \notin closed'
               /\ \A n \in DOMAIN handles' : handles'[n] # calls'[u].core
    <3>1. CASE u = t
      BY <1>1, <1>2, <1>3, <1>5, <1>6, <2>1, <2>2, <3>1
    <3>2. CASE u # t
      <4>1. calls'[u] = calls[u] /\ Engaged(u)
        BY <1>5, <2>4, <2>6, <3>2
      <4>2. calls[u].core <= created + 1
        BY <1>1, <2>3, <4>1
      <4> QED
        BY <1>2, <1>6, <4>1, <4>2 DEF Inv, OnePlace
    <3> QED
      BY <3>1, <3>2
  <2>7. ASSUME NEW u \in Threads, NEW v \in Threads, Engaged(u)', Engaged(v)',
               calls'[u].core = calls'[v].core
        PROVE  u = v
    <3>1. \A w \in Threads : w # t /\ Engaged(w)' => calls'[w].core # created + 1
      BY <1>1, <1>5, <2>3, <2>4
    <3>2. CASE u # t /\ v # t
      BY <1>5, <2>4, <2>7, <3>2 DEF Inv, OnePlace
    <3> QED
      BY <1>3, <1>5, <2>7, <3>1, <3>2
  <2> QED
    BY <2>5, <2>6, <2>7 DEF OnePlace
<1>9. StoppedIsQuiet'
  <2> SUFFICES ASSUME NEW c \in Cores, torrent[c] = "stoped", ~listenFailed[c], ~Quiet(c)
               PROVE  \E u \in Threads : calls'[u].at = "join" /\ calls'[u].core = c
    BY <1>6 DEF StoppedIsQuiet, Quiet
  <2>1. PICK u \in Threads : calls[u].at = "join" /\ calls[u].core = c
    BY DEF Inv, StoppedIsQuiet
  <2> QED
    BY <1>4, <1>5, <2>1
<1>10. Reached'
  <2>1. ReachedBy(calls[t].at, calls[t].core)'
    BY <1>3, <1>5 DEF ReachedBy, CloseSteps
  <2>2. ASSUME NEW u \in Threads, u # t
        PROVE  ReachedBy(calls[u].at, calls[u].core)'
    BY <1>5, <1>6, <2>2 DEF Inv, Reached, ReachedBy, HttpOff, Quiet
  <2> QED
    BY <1>6, <2>1, <2>2 DEF Inv, Reached
<1>11. ClosedIsQuiet'
  BY <1>6 DEF Inv, ClosedIsQuiet
<1> QED
  BY <1>7, <1>8, <1>9, <1>10, <1>11 DEF Inv

\* A t2h_init whose configuration is refused lets go of its core.
LEMMA DroppedKeeps ==
  ASSUME Inv, NEW t \in Threads, calls[t].at = "check",
         calls' = [calls EXCEPT ![t] = Idle],
         UNCHANGED <<torrent, loop, session, listenFailed, http, server>>,
         UNCHANGED <<handles, created, closed, added>>
  PROVE  Inv'
<1>1. WellFormed(calls)
  BY DEF Inv, Shape
<1>2. /\ WellFormed(calls') /\ ~Engaged(t)'
      /\ \A u \in Threads : u # t => calls'[u] = calls[u]
  BY <1>1, IdleParts, OneCall DEF Engaged
<1>3. \A u \in Threads : Engaged(u)' => Engaged(u) /\ calls'[u] = calls[u]
  BY <1>2 DEF Engaged
<1>4. Shape'
  BY <1>2 DEF Inv, Shape
<1>5. OnePlace'
  BY <1>3 DEF Inv, OnePlace
<1>6. StoppedIsQuiet'
  <2> SUFFICES ASSUME NEW c \in Cores, torrent[c] = "stoped", ~listenFailed[c], ~Quiet(c)
               PROVE  \E u \in Threads : calls'[u].at = "join" /\ calls'[u].core = c
    BY DEF StoppedIsQuiet, Quiet
  <2>1. PICK u \in Threads : calls[u].at = "join" /\ calls[u].core = c
    BY DEF Inv, StoppedIsQuiet
  <2> QED
    BY <1>2, <2>1
<1>7. Reached'
  <2>1. ASSUME NEW u \in Threads
        PROVE  ReachedBy(calls[u].at, calls[u].core)'
    <3>1. CASE u = t
      BY <1>2, <3>1 DEF ReachedBy, Engaged, InitSteps, CloseSteps
    <3>2. CASE u # t
      BY <1>2, <3>2 DEF Inv, Reached, ReachedBy, HttpOff, Quiet
    <3> QED
      BY <3>1, <3>2
  <2> QED
    BY <2>1 DEF Inv, Reached
<1>8. ClosedIsQuiet'
  BY DEF Inv, ClosedIsQuiet
<1> QED
  BY <1>4, <1>5, <1>6, <1>7, <1>8 DEF Inv

\* The load and the check of the settings, and a launch that hangs.
LEMMA PreparingKeeps ==
  ASSUME Inv, NEW t \in Threads, LoadSettings(t) \/ CheckConfig(t) \/ LaunchHangs(t)
  PROVE  Inv'
<1>1. /\ UNCHANGED <<torrent, loop, session, listenFailed, http, server>>
      /\ UNCHANGED <<handles, created, closed, added>>
  BY DEF LoadSettings, CheckConfig, LaunchHangs, coreVars, serviceVars, numberVars, torrentVars,
         makingVars
<1>2. ASSUME NEW step \in {"check", "launchTorrent", "stuck"}, Goto(t, step),
             calls[t].at \in {"load", "check", "launchHttp"},
             step = "stuck" => calls[t].at = "launchHttp"
      PROVE  Inv'
  <2>1. Moving(t, step)
    BY <1>1, <1>2 DEF Moving, Engaged, InitSteps
  <2>2. /\ torrent \in [Cores -> {"off", "running", "stoped"}]
        /\ loop \in [Cores -> {"off", "running", "ended"}]
        /\ session \in [Cores -> BOOLEAN] /\ http \in [Cores -> {"off", "running", "stoped"}]
        /\ server \in [Cores -> Configs \cup {NoConfig}]
    BY DEF Inv, Shape
  <2>3. step = "stuck" => torrent[calls[t].core] # "off"
    BY <1>2 DEF Inv, Reached, ReachedBy
  <2>4. step \notin CloseSteps \cup {"launchHttp", "register"}
    BY <1>2 DEF CloseSteps
  <2>5. torrent[calls[t].core] = "stoped" =>
          listenFailed[calls[t].core] \/ Quiet(calls[t].core)
    <3> SUFFICES ASSUME torrent[calls[t].core] = "stoped", ~listenFailed[calls[t].core],
                        ~Quiet(calls[t].core)
                 PROVE  FALSE
      OBVIOUS
    <3>1. calls[t].core \in Cores
      BY <2>1, MovingKeeps
    <3>2. PICK u \in Threads : calls[u].at = "join" /\ calls[u].core = calls[t].core
      BY <3>1 DEF Inv, StoppedIsQuiet
    <3>3. u # t /\ Engaged(u)
      BY <1>2, <3>2 DEF Engaged, CloseSteps
    <3> QED
      BY <2>1, <3>2, <3>3, MovingKeeps
  <2> DEFINE c == calls[t].core
  <2>6. /\ c = calls[t].core
        /\ torrent[c] = "stoped" => listenFailed[c] \/ (loop[c] = "ended" /\ ~session[c])
        /\ step = "stuck" => torrent[c] # "off"
    BY <2>3, <2>5 DEF Quiet
  <2> HIDE DEF c
  <2> QED
    BY <1>1, <2>1, <2>2, <2>4, <2>6, OwnCoreKeeps DEF CloseSteps
<1>3. CASE LoadSettings(t)
  BY <1>2, <1>3 DEF LoadSettings, At
<1>4. CASE CheckConfig(t) /\ ~settingsError
  BY <1>2, <1>4 DEF CheckConfig, At
<1>5. CASE CheckConfig(t) /\ settingsError
  <2>1. calls[t].at = "check" /\ calls' = [calls EXCEPT ![t] = Idle]
    BY <1>5 DEF CheckConfig, At, Return
  <2> QED
    BY <1>1, <2>1, DroppedKeeps
<1>6. CASE LaunchHangs(t)
  BY <1>2, <1>6 DEF LaunchHangs, At
<1> QED
  BY <1>3, <1>4, <1>5, <1>6

\* What a launch reads is a configuration.
SettingsTyped == settings \in Configs \cup {NoConfig}

\* The launches of the two services.
LEMMA LaunchKeeps ==
  ASSUME Inv, ApiAssumption, NEW t \in Threads, LaunchTorrent(t) \/ LaunchHttp(t),
         SettingsTyped
  PROVE  Inv'
<1> DEFINE c == calls[t].core
<1>0. c = calls[t].core
  OBVIOUS
<1> HIDE DEF c
<1>1. /\ torrent \in [Cores -> {"off", "running", "stoped"}]
      /\ loop \in [Cores -> {"off", "running", "ended"}]
      /\ session \in [Cores -> BOOLEAN] /\ http \in [Cores -> {"off", "running", "stoped"}]
      /\ server \in [Cores -> Configs \cup {NoConfig}]
  BY DEF Inv, Shape
<1>2. CASE LaunchTorrent(t)
  <2>1. Moving(t, "launchHttp")
    BY <1>2 DEF LaunchTorrent, Moving, Engaged, InitSteps, At, numberVars, torrentVars, makingVars
  <2>2. c \in Cores
    BY <1>0, <2>1, MovingKeeps
  <2>3. /\ torrent' = [torrent EXCEPT ![c] = "running"]
        /\ loop' = [loop EXCEPT ![c] = "running"] /\ session' = [session EXCEPT ![c] = TRUE]
        /\ UNCHANGED <<listenFailed, http, server>>
    BY <1>0, <1>2 DEF LaunchTorrent
  <2>4. /\ torrent' \in [Cores -> {"off", "running", "stoped"}]
        /\ loop' \in [Cores -> {"off", "running", "ended"}] /\ session' \in [Cores -> BOOLEAN]
    BY <1>1, <2>3
  <2>5. torrent'[c] = "running"
    BY <1>1, <2>2, <2>3
  <2>6. \A d \in Cores : d # c =>
          torrent'[d] = torrent[d] /\ loop'[d] = loop[d] /\ session'[d] = session[d]
    BY <1>1, <2>3
  <2>7. /\ UNCHANGED listenFailed
        /\ \A d \in Cores : d # c =>
             /\ torrent'[d] = torrent[d] /\ loop'[d] = loop[d] /\ session'[d] = session[d]
             /\ http'[d] = http[d] /\ server'[d] = server[d]
    BY <2>3, <2>6
  <2>8. /\ http' \in [Cores -> {"off", "running", "stoped"}]
        /\ server' \in [Cores -> Configs \cup {NoConfig}]
    BY <1>1, <2>3
  <2> QED
    BY <1>0, <2>1, <2>4, <2>5, <2>7, <2>8, OwnCoreKeeps DEF CloseSteps
<1>3. CASE LaunchHttp(t)
  <2>1. Moving(t, "register") /\ calls[t].at = "launchHttp"
    BY <1>3 DEF LaunchHttp, Moving, Engaged, InitSteps, At, numberVars, torrentVars, makingVars
  <2>2. c \in Cores
    BY <1>0, <2>1, MovingKeeps
  <2>3. /\ http' = [http EXCEPT ![c] = "running"] /\ server' = [server EXCEPT ![c] = settings]
        /\ UNCHANGED <<torrent, loop, session, listenFailed>>
    BY <1>0, <1>3 DEF LaunchHttp
  <2>4. /\ http' \in [Cores -> {"off", "running", "stoped"}]
        /\ server' \in [Cores -> Configs \cup {NoConfig}]
    BY <1>1, <2>3 DEF SettingsTyped
  <2>5. \A d \in Cores : d # c => http'[d] = http[d] /\ server'[d] = server[d]
    BY <1>1, <2>3
  <2>6. torrent[c] # "off"
    BY <1>0, <2>1 DEF Inv, Reached, ReachedBy
  <2>7. torrent[c] = "stoped" => listenFailed[c] \/ (loop[c] = "ended" /\ ~session[c])
    <3> SUFFICES ASSUME torrent[c] = "stoped", ~listenFailed[c], ~Quiet(c) PROVE FALSE
      BY DEF Quiet
    <3>1. PICK u \in Threads : calls[u].at = "join" /\ calls[u].core = c
      BY <2>2 DEF Inv, StoppedIsQuiet
    <3>2. u # t /\ Engaged(u)
      BY <2>1, <3>1 DEF Engaged, CloseSteps
    <3> QED
      BY <1>0, <2>1, <3>1, <3>2, MovingKeeps
  <2> QED
    BY <1>0, <1>1, <2>1, <2>3, <2>4, <2>5, <2>6, <2>7, OwnCoreKeeps DEF CloseSteps
<1> QED
  BY <1>2, <1>3

\* What a thread in a step of t2h_close knows of its core: no other waits for its loop.
LEMMA ClosingOwns ==
  ASSUME Inv, NEW t \in Threads, calls[t].at \in CloseSteps
  PROVE  /\ calls[t].core \in Cores /\ torrent[calls[t].core] # "off"
         /\ (calls[t].at # "join" /\ torrent[calls[t].core] = "stoped") =>
              listenFailed[calls[t].core] \/ Quiet(calls[t].core)
<1>1. calls[t].core \in Cores
  BY DEF Inv, OnePlace, Engaged
<1>2. torrent[calls[t].core] # "off"
  BY DEF Inv, Reached, ReachedBy
<1>3. ASSUME NEW u \in Threads, calls[u].at = "join", calls[u].core = calls[t].core
      PROVE  u = t
  BY <1>3 DEF Inv, OnePlace, Engaged, CloseSteps
<1> QED
  BY <1>1, <1>2, <1>3 DEF Inv, StoppedIsQuiet

\* The steps of t2h_close up to the last.
LEMMA StopKeeps ==
  ASSUME Inv, NEW t \in Threads, StopHttp(t) \/ StopTorrent(t) \/ Join(t)
  PROVE  Inv'
<1> DEFINE c == calls[t].core
<1>0. c = calls[t].core
  OBVIOUS
<1> HIDE DEF c
<1>1. /\ torrent \in [Cores -> {"off", "running", "stoped"}]
      /\ loop \in [Cores -> {"off", "running", "ended"}]
      /\ session \in [Cores -> BOOLEAN] /\ http \in [Cores -> {"off", "running", "stoped"}]
      /\ server \in [Cores -> Configs \cup {NoConfig}]
  BY DEF Inv, Shape
<1>2. calls[t].at \in {"stopHttp", "stopTorrent", "join"}
  BY DEF StopHttp, StopTorrent, Join, At
<1>3. /\ c \in Cores /\ torrent[c] # "off"
      /\ (calls[t].at # "join" /\ torrent[c] = "stoped") =>
           listenFailed[c] \/ (loop[c] = "ended" /\ ~session[c])
      /\ calls[t].at \in {"stopTorrent", "join"} => server[c] = NoConfig /\ http[c] = "stoped"
      /\ calls[t].at = "join" => torrent[c] = "stoped"
  <2>1. calls[t].at \in CloseSteps
    BY <1>2 DEF CloseSteps
  <2>2. ReachedBy(calls[t].at, calls[t].core)
    BY DEF Inv, Reached
  <2> QED
    BY <1>0, <1>2, <2>1, <2>2, ClosingOwns DEF ReachedBy, Quiet, HttpOff
<1>4. CASE StopHttp(t)
  <2>1. Moving(t, "stopTorrent") /\ calls[t].at = "stopHttp"
    BY <1>4 DEF StopHttp, Moving, Engaged, CloseSteps, At, numberVars, torrentVars, makingVars
  <2>2. /\ http' = [http EXCEPT ![c] = "stoped"] /\ server' = [server EXCEPT ![c] = NoConfig]
        /\ UNCHANGED <<torrent, loop, session, listenFailed>>
    BY <1>0, <1>4 DEF StopHttp
  <2>3. /\ http' \in [Cores -> {"off", "running", "stoped"}] /\ http'[c] = "stoped"
        /\ server' \in [Cores -> Configs \cup {NoConfig}] /\ server'[c] = NoConfig
    BY <1>1, <1>3, <2>2
  <2>4. \A d \in Cores : d # c => http'[d] = http[d] /\ server'[d] = server[d]
    BY <1>1, <2>2
  <2> QED
    BY <1>0, <1>1, <1>3, <2>1, <2>2, <2>3, <2>4, OwnCoreKeeps
<1>5. CASE StopTorrent(t)
  <2> DEFINE step == IF torrent[c] = "running" THEN "join" ELSE "clear"
  <2>1. Moving(t, step) /\ calls[t].at = "stopTorrent"
    BY <1>0, <1>5 DEF StopTorrent, Moving, Engaged, CloseSteps, At, numberVars, torrentVars,
       makingVars
  <2>2. /\ torrent' = [torrent EXCEPT ![c] = "stoped"]
        /\ UNCHANGED <<loop, session, listenFailed, http, server>>
    BY <1>0, <1>5 DEF StopTorrent
  <2>3. torrent' \in [Cores -> {"off", "running", "stoped"}] /\ torrent'[c] = "stoped"
    BY <1>1, <1>3, <2>2
  <2>4. \A d \in Cores : d # c => torrent'[d] = torrent[d]
    BY <1>1, <2>2
  <2>5. step \in {"join", "clear"} /\ (step = "clear" => torrent[c] = "stoped")
    BY <1>1, <1>3
  <2> HIDE DEF step
  <2> QED
    BY <1>0, <1>1, <1>3, <2>1, <2>2, <2>3, <2>4, <2>5, OwnCoreKeeps
<1>6. CASE Join(t)
  <2>1. Moving(t, "clear") /\ calls[t].at = "join"
    BY <1>6 DEF Join, Moving, Engaged, CloseSteps, At, numberVars, torrentVars, makingVars
  <2>2. /\ session' = [session EXCEPT ![c] = FALSE] /\ loop[c] = "ended"
        /\ UNCHANGED <<torrent, loop, listenFailed, http, server>>
    BY <1>0, <1>6 DEF Join
  <2>3. session' \in [Cores -> BOOLEAN] /\ ~session'[c]
    BY <1>1, <1>3, <2>2
  <2>4. \A d \in Cores : d # c => session'[d] = session[d]
    BY <1>1, <2>2
  <2>5. /\ torrent'[c] = "stoped" /\ loop'[c] = "ended"
        /\ server'[c] = NoConfig /\ http'[c] = "stoped"
    BY <1>3, <2>1, <2>2
  <2>6. /\ UNCHANGED listenFailed
        /\ \A d \in Cores : d # c =>
             /\ torrent'[d] = torrent[d] /\ loop'[d] = loop[d] /\ session'[d] = session[d]
             /\ http'[d] = http[d] /\ server'[d] = server[d]
    BY <2>2, <2>4
  <2>7. /\ torrent' \in [Cores -> {"off", "running", "stoped"}]
        /\ loop' \in [Cores -> {"off", "running", "ended"}]
        /\ http' \in [Cores -> {"off", "running", "stoped"}]
        /\ server' \in [Cores -> Configs \cup {NoConfig}]
    BY <1>1, <2>2
  <2> QED
    BY <1>0, <2>1, <2>3, <2>5, <2>6, <2>7, OwnCoreKeeps
<1> QED
  BY <1>4, <1>5, <1>6

-----------------------------------------------------------------------------
\* A thread that is done with its core leaves it to a number or to the closed ones.
LEMMA LeavingKeeps ==
  ASSUME Inv, NEW t \in Threads, calls[t].at \in InitSteps \cup CloseSteps, calls[t].at # "join",
         NEW table, DestroyReleased(table),
         Return(t), UNCHANGED <<created, added>>, closed' \subseteq Cores, OnePlace',
         \A n \in DOMAIN handles' : handles'[n] \in Cores /\ torrent[handles'[n]] # "off",
         \A c \in closed' : c \in closed \/ (HttpOff(c) /\ (listenFailed[c] \/ Quiet(c)))
  PROVE  Inv'
<1>1. /\ torrent' \in [Cores -> {"off", "running", "stoped"}]
      /\ loop' \in [Cores -> {"off", "running", "ended"}]
      /\ session' \in [Cores -> BOOLEAN]
      /\ UNCHANGED <<listenFailed, http, server>>
      /\ \A c \in Cores : Settled(c)
  BY Destroyed DEF Settled
<1>2. WellFormed(calls) /\ calls' = [calls EXCEPT ![t] = Idle]
  BY DEF Inv, Shape, Return
<1>3. /\ WellFormed(calls') /\ calls'[t] = Idle
      /\ \A u \in Threads : u # t => calls'[u] = calls[u]
  BY <1>2, IdleParts, OneCall
<1>4. Shape'
  BY <1>1, <1>3 DEF Inv, Shape
<1>5. StoppedIsQuiet'
  <2> SUFFICES ASSUME NEW c \in Cores, torrent'[c] = "stoped",
                      ~listenFailed'[c], ~Quiet(c)'
               PROVE  \E u \in Threads : calls'[u].at = "join" /\ calls'[u].core = c
    BY DEF StoppedIsQuiet
  <2>1. torrent[c] = "stoped" /\ ~listenFailed[c] /\ ~Quiet(c)
    BY <1>1 DEF Settled, Quiet
  <2>2. PICK u \in Threads : calls[u].at = "join" /\ calls[u].core = c
    BY <2>1 DEF Inv, StoppedIsQuiet
  <2> QED
    BY <1>3, <2>2
<1>6. Reached'
  <2>1. \A c \in Cores : torrent[c] # "off" => torrent'[c] # "off"
    BY <1>1 DEF Settled
  <2>2. \A c \in Cores : torrent[c] = "stoped" => torrent'[c] = "stoped"
    BY <1>1 DEF Settled
  <2>3. \A c \in Cores : listenFailed[c] \/ Quiet(c) => listenFailed'[c] \/ Quiet(c)'
    BY <1>1 DEF Settled, Quiet
  <2>4. ASSUME NEW u \in Threads, u # t
        PROVE  ReachedBy(calls[u].at, calls[u].core)'
    <3>1. calls'[u] = calls[u] /\ ReachedBy(calls[u].at, calls[u].core)
      BY <1>3, <2>4 DEF Inv, Reached
    <3>2. CASE Engaged(u)
      <4>1. calls[u].core \in Cores
        BY <3>2 DEF Inv, OnePlace
      <4>2. HttpOff(calls[u].core) => HttpOff(calls[u].core)'
        BY <1>1, <3>1 DEF HttpOff
      <4> QED
        BY <2>1, <2>2, <2>3, <3>1, <4>1, <4>2 DEF ReachedBy
    <3>3. CASE ~Engaged(u)
      BY <3>1, <3>3 DEF ReachedBy, Engaged, InitSteps, CloseSteps
    <3> QED
      BY <3>2, <3>3
  <2>5. ReachedBy(calls[t].at, calls[t].core)'
    BY <1>3, IdleParts DEF ReachedBy, InitSteps, CloseSteps
  <2> QED
    BY <2>1, <2>4, <2>5 DEF Reached
<1>7. ClosedIsQuiet'
  <2> SUFFICES ASSUME NEW c \in closed'
               PROVE  HttpOff(c)' /\ (listenFailed'[c] \/ Quiet(c)')
    BY DEF ClosedIsQuiet, HttpOff, Quiet
  <2>1. c \in Cores /\ HttpOff(c) /\ (listenFailed[c] \/ Quiet(c))
    BY DEF Inv, ClosedIsQuiet, HttpOff, Quiet
  <2> QED
    BY <1>1, <2>1 DEF HttpOff, Quiet, Settled
<1> QED
  BY <1>4, <1>5, <1>6, <1>7 DEF Inv

\* The engaged threads but one are where they were.
LEMMA OthersEngaged ==
  ASSUME Inv, NEW t \in Threads, Return(t)
  PROVE  \A u \in Threads : Engaged(u)' => u # t /\ Engaged(u) /\ calls'[u] = calls[u]
<1>1. WellFormed(calls) /\ calls' = [calls EXCEPT ![t] = Idle]
  BY DEF Inv, Shape, Return
<1> QED
  BY <1>1, IdleParts, OneCall DEF Engaged

LEMMA RegisterKeeps ==
  ASSUME Inv, NEW t \in Threads, RegisterHandle(t)
  PROVE  Inv'
<1> DEFINE c == calls[t].core
           n == NewNumber(handles)
<1>1. calls[t].at = "register" /\ Engaged(t) /\ Return(t) /\ DestroyReleased(handles')
  BY DEF RegisterHandle, At, Engaged, InitSteps
<1>2. UNCHANGED <<created, closed, added>>
  BY DEF RegisterHandle, torrentVars, makingVars
<1>3. /\ c \in Cores /\ c <= created /\ c \notin closed
      /\ \A m \in DOMAIN handles : handles[m] # c
      /\ torrent[c] # "off"
  BY <1>1 DEF Inv, OnePlace, Reached, ReachedBy
<1>4. \A u \in Threads : Engaged(u)' =>
        u # t /\ Engaged(u) /\ calls'[u] = calls[u] /\ calls[u].core # c
  BY <1>1, OthersEngaged DEF Inv, OnePlace
<1>5. handles' = [x \in DOMAIN handles \cup {n} |-> IF x = n THEN c ELSE handles[x]]
  BY DEF RegisterHandle, Put
<1> HIDE DEF c, n
<1>6. \A m \in DOMAIN handles' :
        (m = n /\ handles'[m] = c) \/ (m # n /\ m \in DOMAIN handles /\ handles'[m] = handles[m])
  BY <1>5
<1>7. OnePlace'
  <2>1. \A d \in closed' : d <= created'
    BY <1>2 DEF Inv, OnePlace
  <2>2. \A m \in DOMAIN handles' : handles'[m] <= created' /\ handles'[m] \notin closed'
    BY <1>2, <1>3, <1>6 DEF Inv, OnePlace
  <2>3. \A l, m \in DOMAIN handles' : handles'[l] = handles'[m] => l = m
    BY <1>3, <1>6 DEF Inv, OnePlace
  <2>4. \A u \in Threads : Engaged(u)' =>
          /\ calls'[u].core \in Cores /\ calls'[u].core <= created'
          /\ calls'[u].core \notin closed'
          /\ \A m \in DOMAIN handles' : handles'[m] # calls'[u].core
    BY <1>2, <1>4, <1>6 DEF Inv, OnePlace
  <2>5. \A u, v \in Threads : Engaged(u)' /\ Engaged(v)' /\ calls'[u].core = calls'[v].core => u = v
    BY <1>4 DEF Inv, OnePlace
  <2> QED
    BY <2>1, <2>2, <2>3, <2>4, <2>5 DEF OnePlace
<1>8. \A m \in DOMAIN handles' : handles'[m] \in Cores /\ torrent[handles'[m]] # "off"
  BY <1>3, <1>6 DEF Inv, Shape, Reached
<1>9. closed' \subseteq Cores
  BY <1>2 DEF Inv, Shape
<1> QED
  BY <1>1, <1>2, <1>7, <1>8, <1>9, LeavingKeeps DEF Engaged

LEMMA ClearKeeps ==
  ASSUME Inv, NEW t \in Threads, ClearServices(t)
  PROVE  Inv'
<1> DEFINE c == calls[t].core
<1>1. calls[t].at = "clear" /\ Engaged(t) /\ Return(t) /\ DestroyReleased(handles)
  BY DEF ClearServices, At, Engaged, CloseSteps, Leave
<1>2. UNCHANGED <<created, added, handles>> /\ closed' = closed \cup {c}
  BY DEF ClearServices, torrentVars, numberVars
<1>3. /\ c \in Cores /\ c <= created
      /\ \A m \in DOMAIN handles : handles[m] # c
      /\ HttpOff(c) /\ (listenFailed[c] \/ Quiet(c))
  BY <1>1 DEF Inv, OnePlace, Reached, ReachedBy
<1>4. \A u \in Threads : Engaged(u)' =>
        u # t /\ Engaged(u) /\ calls'[u] = calls[u] /\ calls[u].core # c
  BY <1>1, OthersEngaged DEF Inv, OnePlace
<1> HIDE DEF c
<1>5. OnePlace'
  BY <1>2, <1>3, <1>4 DEF Inv, OnePlace
<1>6. closed' \subseteq Cores
  BY <1>2, <1>3 DEF Inv, Shape
<1>7. \A m \in DOMAIN handles' : handles'[m] \in Cores /\ torrent[handles'[m]] # "off"
  BY <1>2 DEF Inv, Shape, Reached
<1> QED
  BY <1>1, <1>2, <1>3, <1>5, <1>6, <1>7, LeavingKeeps DEF Engaged

LEMMA CloseKeeps ==
  ASSUME Inv, NEW t \in Threads, NEW owner \in Cores, Close(t, owner)
  PROVE  Inv'
<1> DEFINE n == number[owner]
           c == handles[n]
           call == Call("stopHttp", c, owner, 0, 0)
<1>1. /\ calls[t].at = "idle" /\ n \in DOMAIN handles
      /\ handles' = [x \in DOMAIN handles \ {n} |-> handles[x]]
      /\ calls' = [calls EXCEPT ![t] = call]
  BY DEF Close, At, Without
<1>2. /\ UNCHANGED <<created, closed, added, torrent, loop, session, listenFailed, http, server>>
  BY DEF Close, coreVars, serviceVars, torrentVars, makingVars
<1>3. c \in Cores /\ c <= created /\ c \notin closed /\ torrent[c] # "off"
  BY <1>1 DEF Inv, Shape, OnePlace, Reached
<1>4. IsCall(call) /\ call.at = "stopHttp" /\ call.core = c
  BY CallParts
<1> HIDE DEF call
<1>5. WellFormed(calls)
  BY DEF Inv, Shape
<1>6. /\ WellFormed(calls') /\ calls'[t] = call
      /\ \A u \in Threads : u # t => calls'[u] = calls[u]
  BY <1>1, <1>4, <1>5, OneCall
<1>7. \A m \in DOMAIN handles' :
        m # n /\ m \in DOMAIN handles /\ handles'[m] = handles[m] /\ handles[m] # c
  BY <1>1 DEF Inv, OnePlace
<1>8. \A u \in Threads : u # t /\ Engaged(u)' =>
        Engaged(u) /\ calls'[u] = calls[u] /\ calls[u].core # c
  BY <1>1, <1>6 DEF Engaged, Inv, OnePlace
<1> HIDE DEF c, n
<1>9. Shape'
  BY <1>2, <1>6, <1>7 DEF Inv, Shape
<1>10. OnePlace'
  <2>1. /\ \A d \in closed' : d <= created'
        /\ \A m \in DOMAIN handles' : handles'[m] <= created' /\ handles'[m] \notin closed'
        /\ \A l, m \in DOMAIN handles' : handles'[l] = handles'[m] => l = m
    BY <1>2, <1>7 DEF Inv, OnePlace
  <2>2. ASSUME NEW u \in Threads, Engaged(u)'
        PROVE  /\ calls'[u].core \in Cores /\ calls'[u].core <= created'
               /\ calls'[u].core \notin closed'
               /\ \A m \in DOMAIN handles' : handles'[m] # calls'[u].core
    <3>1. CASE u = t
      BY <1>2, <1>3, <1>4, <1>6, <1>7, <3>1
    <3>2. CASE u # t
      BY <1>2, <1>7, <1>8, <2>2, <3>2 DEF Inv, OnePlace
    <3> QED
      BY <3>1, <3>2
  <2>3. \A u, v \in Threads : Engaged(u)' /\ Engaged(v)' /\ calls'[u].core = calls'[v].core => u = v
    BY <1>4, <1>6, <1>8 DEF Inv, OnePlace
  <2> QED
    BY <2>1, <2>2, <2>3 DEF OnePlace
<1>11. StoppedIsQuiet'
  <2> SUFFICES ASSUME NEW d \in Cores, torrent[d] = "stoped", ~listenFailed[d], ~Quiet(d)
               PROVE  \E u \in Threads : calls'[u].at = "join" /\ calls'[u].core = d
    BY <1>2 DEF StoppedIsQuiet, Quiet
  <2>1. PICK u \in Threads : calls[u].at = "join" /\ calls[u].core = d
    BY DEF Inv, StoppedIsQuiet
  <2> QED
    BY <1>1, <1>6, <2>1
<1>12. Reached'
  <2>1. ReachedBy(calls[t].at, calls[t].core)'
    BY <1>2, <1>3, <1>4, <1>6 DEF ReachedBy
  <2>2. ASSUME NEW u \in Threads, u # t
        PROVE  ReachedBy(calls[u].at, calls[u].core)'
    BY <1>2, <1>6, <2>2 DEF Inv, Reached, ReachedBy, HttpOff, Quiet
  <2>3. \A m \in DOMAIN handles' : torrent'[handles'[m]] # "off"
    BY <1>2, <1>7 DEF Inv, Reached
  <2> QED
    BY <2>1, <2>2, <2>3 DEF Reached
<1>13. ClosedIsQuiet'
  BY <1>2 DEF Inv, ClosedIsQuiet
<1> QED
  BY <1>9, <1>10, <1>11, <1>12, <1>13 DEF Inv

\* The main loop: a listen error, and its end.
LEMMA LoopKeeps ==
  ASSUME Inv, NEW c \in Cores, ListenError(c) \/ LoopEnds(c)
  PROVE  Inv'
<1>1. /\ UNCHANGED <<calls, handles, created, closed, added, session, http, server>>
      /\ torrent \in [Cores -> {"off", "running", "stoped"}]
      /\ loop \in [Cores -> {"off", "running", "ended"}]
      /\ listenFailed \in [Cores -> BOOLEAN]
  BY DEF ListenError, LoopEnds, numberVars, torrentVars, makingVars, Inv, Shape
<1>2. /\ torrent' \in [Cores -> {"off", "running", "stoped"}]
      /\ loop' \in [Cores -> {"off", "running", "ended"}]
      /\ listenFailed' \in [Cores -> BOOLEAN]
      /\ \A d \in Cores :
           \/ torrent'[d] = torrent[d] /\ listenFailed'[d] = listenFailed[d] /\ loop'[d] = loop[d]
           \/ torrent'[d] = "stoped" /\ listenFailed'[d]
           \/ /\ torrent'[d] = torrent[d] /\ listenFailed'[d] = listenFailed[d]
              /\ loop'[d] = "ended"
  BY <1>1 DEF ListenError, LoopEnds
<1>3. /\ \A d \in Cores : torrent[d] # "off" => torrent'[d] # "off"
      /\ \A d \in Cores : torrent[d] = "stoped" => torrent'[d] = "stoped"
      /\ \A d \in Cores : listenFailed[d] \/ Quiet(d) => listenFailed'[d] \/ Quiet(d)'
      /\ \A d \in Cores : torrent'[d] = "stoped" /\ ~listenFailed'[d] => torrent[d] = "stoped"
  BY <1>1, <1>2 DEF Quiet
<1>4. Shape'
  BY <1>1, <1>2 DEF Inv, Shape
<1>5. OnePlace'
  BY <1>1 DEF Inv, OnePlace, Engaged
<1>6. StoppedIsQuiet'
  BY <1>1, <1>3 DEF Inv, StoppedIsQuiet
<1>7. Reached'
  <2>1. ASSUME NEW u \in Threads
        PROVE  ReachedBy(calls[u].at, calls[u].core)'
    <3>1. CASE Engaged(u)
      BY <1>1, <1>3, <3>1 DEF Inv, OnePlace, Reached, ReachedBy, HttpOff
    <3>2. CASE ~Engaged(u)
      BY <1>1, <3>2 DEF ReachedBy, Engaged, InitSteps, CloseSteps
    <3> QED
      BY <3>1, <3>2
  <2> QED
    BY <1>1, <1>3, <2>1 DEF Inv, Shape, Reached
<1>8. ClosedIsQuiet'
  BY <1>1, <1>3 DEF Inv, Shape, ClosedIsQuiet, Quiet
<1> QED
  BY <1>4, <1>5, <1>6, <1>7, <1>8 DEF Inv

-----------------------------------------------------------------------------
\* The calls that neither make nor close a core.
LEMMA WaitKeeps ==
  ASSUME Inv, NEW t \in Threads,
         WaitHttp(t) \/ WaitStop(t) \/ WaitTorrent(t) \/ WaitJoin(t)
  PROVE  Inv'
<1>1. /\ UNCHANGED <<handles, created, closed, added>> /\ added \in Nat
      /\ calls[t].at \in WaitSteps /\ ~Engaged(t)
  BY DEF WaitHttp, WaitStop, WaitTorrent, WaitJoin, At, coreVars, numberVars, torrentVars,
         makingVars, WaitSteps, Engaged, InitSteps, CloseSteps, Inv, Shape
<1>2. CASE Leave(t)
  BY <1>1, <1>2, LeaveKeeps
<1>3. ASSUME NEW step \in WaitSteps, Goto(t, step), UNCHANGED serviceVars
      PROVE  Inv'
  <2>1. step \notin InitSteps \cup CloseSteps
    BY <1>3 DEF WaitSteps, InitSteps, CloseSteps
  <2> QED
    BY <1>1, <1>3, <2>1, GotoKeeps
<1> QED
  BY <1>2, <1>3 DEF WaitHttp, WaitStop, WaitTorrent, WaitJoin, coreVars, WaitSteps

LEMMA EnterKeeps ==
  ASSUME Inv, NEW t \in Threads,
         \/ \E c \in Cores : Wait(t, c) \/ EnterAdd(t, c)
         \/ \E k \in Torrents : EnterDelete(t, k) \/ \E op \in Uses : EnterUse(t, k, op)
  PROVE  Inv'
<1>1. /\ UNCHANGED <<handles, created, closed, added>> /\ added \in Nat
      /\ UNCHANGED serviceVars /\ calls[t].at = "idle" /\ ~Engaged(t)
  BY DEF Wait, EnterAdd, EnterDelete, EnterUse, At, coreVars, numberVars, torrentVars,
         makingVars, Engaged, InitSteps, CloseSteps, Inv, Shape
<1>2. ASSUME NEW step, step \notin InitSteps \cup CloseSteps,
             NEW c, NEW owner, NEW n, NEW k,
             calls' = [calls EXCEPT ![t] = Call(step, c, owner, n, k)]
      PROVE  Inv'
  <2> DEFINE call == Call(step, c, owner, n, k)
  <2>1. IsCall(call) /\ call.at \notin InitSteps \cup CloseSteps
    BY <1>2, CallParts
  <2>2. calls' = [calls EXCEPT ![t] = call]
    BY <1>2
  <2> HIDE DEF call
  <2> QED
    BY <1>1, <2>1, <2>2, PassingCall
<1>3. ASSUME NEW c \in Cores, Wait(t, c) PROVE Inv'
  BY <1>2, <1>3 DEF Wait, InitSteps, CloseSteps
<1>4. ASSUME NEW c \in Cores, EnterAdd(t, c) PROVE Inv'
  BY <1>2, <1>4 DEF EnterAdd, InitSteps, CloseSteps
<1>5. ASSUME NEW k \in Torrents, EnterDelete(t, k) PROVE Inv'
  BY <1>2, <1>5 DEF EnterDelete, InitSteps, CloseSteps
<1>6. ASSUME NEW k \in Torrents, NEW op \in Uses, EnterUse(t, k, op) PROVE Inv'
  <2>1. op \notin InitSteps \cup CloseSteps
    BY ApiAssumption DEF InitSteps, CloseSteps
  <2> QED
    BY <1>2, <1>6, <2>1 DEF EnterUse
<1> QED
  BY <1>3, <1>4, <1>5, <1>6

LEMMA TorrentCallKeeps ==
  ASSUME Inv, NEW t \in Threads,
         AddTorrent(t) \/ Nothing(t) \/ UseTorrent(t) \/ DeleteTorrent(t) \/ Forget(t)
  PROVE  Inv'
<1>1. calls[t].at \in Uses \cup {"add", "delete", "forget"}
  BY DEF AddTorrent, Nothing, UseTorrent, DeleteTorrent, Forget, At
<1>2. ~Engaged(t)
  BY <1>1, ApiAssumption DEF Engaged, InitSteps, CloseSteps
<1>3. UNCHANGED <<handles, created, closed>> /\ added' \in Nat
  BY DEF AddTorrent, Nothing, UseTorrent, DeleteTorrent, Forget, coreVars, numberVars,
         torrentVars, makingVars, Inv, Shape
<1>4. CASE DeleteTorrent(t)
  <2>1. Goto(t, "forget") /\ UNCHANGED serviceVars /\ UNCHANGED <<handles, created, closed, added>>
    BY <1>4 DEF DeleteTorrent, coreVars, numberVars, makingVars
  <2>2. "forget" \notin InitSteps \cup CloseSteps
    BY DEF InitSteps, CloseSteps
  <2> QED
    BY <1>2, <2>1, <2>2, GotoKeeps
<1>5. CASE Leave(t)
  BY <1>2, <1>3, <1>5, LeaveKeeps
<1> QED
  BY <1>4, <1>5 DEF AddTorrent, Nothing, UseTorrent, Forget

LEMMA SettingsChange ==
  [Next]_vars => UNCHANGED settings \/ \E t \in Threads : LoadSettings(t)
<1> SUFFICES ASSUME [Next]_vars
             PROVE  UNCHANGED settings \/ \E t \in Threads : LoadSettings(t)
  OBVIOUS
<1>1. CASE UNCHANGED vars
  BY <1>1 DEF vars, settingVars
<1>2. ASSUME NEW t \in Threads,
             \/ \E cfg \in Configs : InitCall(t, cfg)
             \/ CheckConfig(t) \/ LaunchTorrent(t) \/ LaunchHttp(t) \/ LaunchHangs(t)
             \/ RegisterHandle(t) \/ StopHttp(t) \/ StopTorrent(t) \/ Join(t) \/ ClearServices(t)
      PROVE  UNCHANGED settings
  BY <1>2 DEF InitCall, CheckConfig, LaunchTorrent, LaunchHttp, LaunchHangs, RegisterHandle,
     StopHttp, StopTorrent, Join, ClearServices, settingVars
<1>3. ASSUME NEW t \in Threads,
             \/ WaitHttp(t) \/ WaitStop(t) \/ WaitTorrent(t) \/ WaitJoin(t) \/ AddTorrent(t)
             \/ Nothing(t) \/ UseTorrent(t) \/ DeleteTorrent(t) \/ Forget(t)
      PROVE  UNCHANGED settings
  BY <1>3 DEF WaitHttp, WaitStop, WaitTorrent, WaitJoin, AddTorrent, Nothing, UseTorrent,
     DeleteTorrent, Forget, settingVars
<1>4. ASSUME NEW t \in Threads,
             \/ \E c \in Cores : Close(t, c) \/ Wait(t, c) \/ EnterAdd(t, c)
             \/ \E k \in Torrents : EnterDelete(t, k) \/ \E op \in Uses : EnterUse(t, k, op)
      PROVE  UNCHANGED settings
  BY <1>4 DEF Close, Wait, EnterAdd, EnterDelete, EnterUse, settingVars
<1>5. ASSUME NEW t \in Threads,
             \/ LaunchFails(t) \/ WaitLost(t) \/ CoreGone(t) \/ UrlFails(t)
             \/ \E c \in Cores : DeadNumber(t, c)
      PROVE  UNCHANGED settings
  BY <1>5 DEF LaunchFails, WaitLost, CoreGone, UrlFails, DeadNumber, Crash, settingVars
<1>6. ASSUME NEW c \in Cores, ListenError(c) \/ LoopEnds(c) PROVE UNCHANGED settings
  BY <1>6 DEF ListenError, LoopEnds, settingVars
<1> QED
  BY <1>1, <1>2, <1>3, <1>4, <1>5, <1>6 DEF Next

LEMMA SettingsStep ==
  SettingsTyped /\ [Next]_vars => SettingsTyped'
BY SettingsChange, SettingsAssumption DEF LoadSettings, SettingsTyped

\* Nothing that matters here changes.
LEMMA StillKeeps ==
  ASSUME Inv, UNCHANGED <<created, added, calls, serviceVars, closed, handles>>
  PROVE  Inv'
<1>1. UNCHANGED <<torrent, loop, session, listenFailed, http, server>>
  BY DEF serviceVars
<1>2. Shape' /\ ClosedIsQuiet'
  BY <1>1 DEF Inv, Shape, ClosedIsQuiet
<1>3. OnePlace'
  BY DEF Inv, OnePlace, Engaged
<1>4. StoppedIsQuiet' /\ Reached'
  BY <1>1 DEF Inv, StoppedIsQuiet, Reached, ReachedBy, HttpOff, Quiet
<1> QED
  BY <1>2, <1>3, <1>4 DEF Inv

LEMMA InvNext ==
  Inv /\ SettingsTyped /\ [Next]_vars => Inv'
<1> SUFFICES ASSUME Inv, SettingsTyped, [Next]_vars
             PROVE  Inv'
  OBVIOUS
<1>1. CASE UNCHANGED vars
  BY <1>1, StillKeeps DEF vars, coreVars, numberVars, torrentVars, makingVars
<1>2. CASE Crash
  BY <1>2, StillKeeps DEF Crash, coreVars, numberVars, torrentVars, makingVars
<1>3. ASSUME NEW t \in Threads, NEW cfg \in Configs, InitCall(t, cfg) PROVE Inv'
  BY <1>3, ApiAssumption, InitCallKeeps
<1>4. ASSUME NEW t \in Threads, LoadSettings(t) \/ CheckConfig(t) \/ LaunchHangs(t) PROVE Inv'
  BY <1>4, PreparingKeeps
<1>5. ASSUME NEW t \in Threads, LaunchTorrent(t) \/ LaunchHttp(t) PROVE Inv'
  BY <1>5, ApiAssumption, LaunchKeeps
<1>6. ASSUME NEW t \in Threads, RegisterHandle(t) PROVE Inv'
  BY <1>6, RegisterKeeps
<1>7. ASSUME NEW t \in Threads, StopHttp(t) \/ StopTorrent(t) \/ Join(t) PROVE Inv'
  BY <1>7, StopKeeps
<1>8. ASSUME NEW t \in Threads, ClearServices(t) PROVE Inv'
  BY <1>8, ClearKeeps
<1>9. ASSUME NEW t \in Threads, WaitHttp(t) \/ WaitStop(t) \/ WaitTorrent(t) \/ WaitJoin(t)
      PROVE  Inv'
  BY <1>9, WaitKeeps
<1>10. ASSUME NEW t \in Threads,
              AddTorrent(t) \/ Nothing(t) \/ UseTorrent(t) \/ DeleteTorrent(t) \/ Forget(t)
       PROVE  Inv'
  BY <1>10, TorrentCallKeeps
<1>11. ASSUME NEW t \in Threads, NEW c \in Cores, Close(t, c) PROVE Inv'
  BY <1>11, CloseKeeps
<1>12. ASSUME NEW t \in Threads,
              \/ \E c \in Cores : Wait(t, c) \/ EnterAdd(t, c)
              \/ \E k \in Torrents : EnterDelete(t, k) \/ \E op \in Uses : EnterUse(t, k, op)
       PROVE  Inv'
  BY <1>12, EnterKeeps
<1>13. ASSUME NEW c \in Cores, ListenError(c) \/ LoopEnds(c) PROVE Inv'
  BY <1>13, LoopKeeps
<1>14. ASSUME NEW t \in Threads,
              \/ LaunchFails(t) \/ WaitLost(t) \/ CoreGone(t) \/ UrlFails(t)
              \/ \E c \in Cores : DeadNumber(t, c)
       PROVE  Crash
  BY <1>14 DEF LaunchFails, WaitLost, CoreGone, UrlFails, DeadNumber
<1> QED
  BY <1>1, <1>2, <1>3, <1>4, <1>5, <1>6, <1>7, <1>8, <1>9, <1>10, <1>11, <1>12, <1>13, <1>14
     DEF Next

\* When t2h_close has returned, nothing of the core listens, and its loop has ended and
\* its session is gone unless a listen error came first: for any number of cores and
\* threads, whichever core a number leads to (services_manager::stop_all,
\* torrent_core::stop_service).
THEOREM ClosedQuiet == Spec => []ClosedIsQuiet
<1>1. Init => SettingsTyped
  BY DEF Init, SettingsTyped
<1>2. Inv => ClosedIsQuiet
  BY DEF Inv
<1> QED
  BY <1>1, <1>2, InvInit, InvNext, SettingsStep, PTL DEF Spec

-----------------------------------------------------------------------------
(***************************************************************************)
(* The numbers of the handles and the identifiers of the torrents, while   *)
(* what is closed and deleted is always the newest.                        *)
(***************************************************************************)

\* The keys of a table without a hole.
Dense(m) == \E k \in Nat : DOMAIN m = 1 .. k

\* The client has given the identifier up and its call is in remove_info or before it.
Deleting(t) == calls[t].at \in {"delete", "forget"}

\* No table has a hole, and no identifier is ahead of the torrents.
NoHoles ==
  /\ Dense(handles)
  /\ IntWorkaround => \A c \in Cores : Dense(infos[c])
  /\ ~IntWorkaround => \A c \in Cores : \A n \in DOMAIN infos[c] : n \in 1 .. added

\* What the clients hold.
ClientsOwn ==
  /\ \A c \in Cores : number[c] # 0 => number[c] \in DOMAIN handles /\ handles[number[c]] = c
  /\ \A k \in Torrents : given[k].id # 0 =>
       /\ given[k].core \in Cores /\ given[k].id \in DOMAIN infos[given[k].core]
       /\ infos[given[k].core][given[k].id] = k

\* What is being deleted is there, no client holds it any more, and no other thread
\* deletes it.
DeletedOnce ==
  /\ \A t \in Threads : Deleting(t) =>
       /\ calls[t].core \in Cores /\ calls[t].id \in DOMAIN infos[calls[t].core]
       /\ \A k \in Torrents : given[k].id # 0 =>
            given[k].core # calls[t].core \/ given[k].id # calls[t].id
  /\ \A t, u \in Threads :
       Deleting(t) /\ Deleting(u) /\ calls[t].core = calls[u].core /\ calls[t].id = calls[u].id
         => t = u

\* What is added goes to the client's own core.
AddedToOwn ==
  \A t \in Threads : calls[t].at = "add" =>
    calls[t].core \in Cores /\ calls[t].client = calls[t].core

\* What holds while always the newest goes.
Numbered == NoHoles /\ ClientsOwn /\ DeletedOnce /\ AddedToOwn

Tables ==
  /\ WellFormed(calls) /\ created \in Nat /\ added \in Nat
  /\ number = [c \in Cores |-> number[c]] /\ infos = [c \in Cores |-> infos[c]]
  /\ given = [k \in Torrents |-> given[k]]

NumberInv == Tables /\ (orderly => Numbered)

LEMMA NumberInit == Init => NumberInv
<1> SUFFICES ASSUME Init PROVE NumberInv
  OBVIOUS
<1>1. WellFormed(calls) /\ \A t \in Threads : calls[t].at = "idle"
  BY CallParts DEF Init, Idle, WellFormed
<1>2. Tables
  BY <1>1 DEF Init, Tables
<1>3. Dense(handles) /\ \A c \in Cores : Dense(infos[c])
  <2>1. 1 .. 0 = {} /\ DOMAIN [n \in {} |-> 0] = {}
    OBVIOUS
  <2> QED
    BY <2>1 DEF Init, Dense
<1>4. \A c \in Cores : infos[c] = [n \in {} |-> 0]
  BY DEF Init
<1>5. \A k \in Torrents : given[k].id = 0
  BY DEF Init, NotGiven
<1>6. \A c \in Cores : number[c] = 0 /\ DOMAIN infos[c] = {}
  BY <1>4 DEF Init
<1>7. Numbered
  <2>1. NoHoles
    BY <1>3, <1>6 DEF NoHoles
  <2>2. ClientsOwn
    BY <1>5, <1>6 DEF ClientsOwn
  <2>3. DeletedOnce /\ AddedToOwn
    BY <1>1 DEF DeletedOnce, AddedToOwn, Deleting
  <2> QED
    BY <2>1, <2>2, <2>3 DEF Numbered
<1> QED
  BY <1>2, <1>7 DEF NumberInv

\* A free number behind a table without a hole.
LEMMA NextFree ==
  ASSUME NEW m, Dense(m)
  PROVE  /\ Size(m) + 1 \notin DOMAIN m /\ Size(m) + 1 # 0
         /\ \A v : Dense(Put(m, Size(m) + 1, v))
<1>1. PICK k \in Nat : DOMAIN m = 1 .. k
  BY DEF Dense
<1>2. Size(m) = k
  BY <1>1, FS_Interval DEF Size
<1>3. \A v : DOMAIN Put(m, k + 1, v) = 1 .. (k + 1)
  BY <1>1 DEF Put
<1> QED
  BY <1>1, <1>2, <1>3 DEF Dense

LEMMA LastGone ==
  ASSUME NEW m, Dense(m), NEW n \in DOMAIN m, Newest(m, n)
  PROVE  Dense(Without(m, n))
<1>1. PICK k \in Nat : DOMAIN m = 1 .. k
  BY DEF Dense
<1>2. n = k
  BY <1>1 DEF Newest
<1>3. DOMAIN Without(m, n) = 1 .. (k - 1) /\ k - 1 \in Nat
  BY <1>1, <1>2 DEF Without
<1> QED
  BY <1>3 DEF Dense

LEMMA WithoutParts ==
  ASSUME NEW m, NEW k
  PROVE  /\ DOMAIN Without(m, k) = DOMAIN m \ {k}
         /\ \A x \in DOMAIN m : x # k => Without(m, k)[x] = m[x]
BY DEF Without

\* Deletions that go on, while no client gets a new identifier.
LEMMA DeletedKept ==
  ASSUME DeletedOnce, infos' = infos,
         \A u \in Threads : calls'[u].at \in {"delete", "forget"} =>
           Deleting(u) /\ calls'[u].core = calls[u].core /\ calls'[u].id = calls[u].id,
         \A k \in Torrents : given'[k].id # 0 => given'[k] = given[k]
  PROVE  DeletedOnce'
<1>1. ASSUME NEW u \in Threads, Deleting(u)'
      PROVE  Deleting(u) /\ calls'[u].core = calls[u].core /\ calls'[u].id = calls[u].id
  BY <1>1 DEF Deleting
<1>2. ASSUME NEW u \in Threads, Deleting(u)'
      PROVE  /\ calls'[u].core \in Cores /\ calls'[u].id \in DOMAIN infos'[calls'[u].core]
             /\ \A k \in Torrents : given'[k].id # 0 =>
                  given'[k].core # calls'[u].core \/ given'[k].id # calls'[u].id
  <2>1. Deleting(u) /\ calls'[u].core = calls[u].core /\ calls'[u].id = calls[u].id
    BY <1>1, <1>2
  <2>2. /\ calls[u].core \in Cores /\ calls[u].id \in DOMAIN infos[calls[u].core]
        /\ \A k \in Torrents : given[k].id # 0 =>
             given[k].core # calls[u].core \/ given[k].id # calls[u].id
    BY <2>1 DEF DeletedOnce
  <2> QED
    BY <2>1, <2>2
<1>3. ASSUME NEW u \in Threads, NEW v \in Threads, Deleting(u)', Deleting(v)',
             calls'[u].core = calls'[v].core, calls'[u].id = calls'[v].id
      PROVE  u = v
  <2>1. /\ Deleting(u) /\ Deleting(v)
        /\ calls[u].core = calls[v].core /\ calls[u].id = calls[v].id
    BY <1>1, <1>3
  <2> QED
    BY <2>1 DEF DeletedOnce
<1> QED
  BY <1>2, <1>3 DEF DeletedOnce

\* Calls that have nothing to do with the tables.
LEMMA AsideKeepsNumbers ==
  ASSUME NumberInv, NEW t \in Threads, NEW call, IsCall(call),
         call.at \notin {"add", "delete", "forget"},
         calls' = [calls EXCEPT ![t] = call],
         UNCHANGED <<numberVars, added>>, created' \in Nat
  PROVE  NumberInv'
<1>1. WellFormed(calls)
  BY DEF NumberInv, Tables
<1>2. WellFormed(calls') /\ calls'[t] = call /\ \A u \in Threads : u # t => calls'[u] = calls[u]
  BY <1>1, OneCall
<1>3. UNCHANGED <<handles, number, infos, given, orderly, added>>
  BY DEF numberVars
<1>4. Tables'
  BY <1>2, <1>3 DEF NumberInv, Tables
<1>5. \A u \in Threads : calls'[u].at \in {"delete", "forget"} =>
        Deleting(u) /\ calls'[u].core = calls[u].core /\ calls'[u].id = calls[u].id
  BY <1>2 DEF Deleting
<1>6. \A u \in Threads : calls'[u].at = "add" => calls'[u] = calls[u]
  BY <1>2
<1>7. ASSUME Numbered PROVE Numbered'
  <2>1. NoHoles'
    BY <1>3, <1>7 DEF Numbered, NoHoles, Dense
  <2>2. ClientsOwn'
    BY <1>3, <1>7 DEF Numbered, ClientsOwn
  <2>3. DeletedOnce'
    BY <1>3, <1>5, <1>7, DeletedKept DEF Numbered
  <2>4. AddedToOwn'
    BY <1>6, <1>7 DEF Numbered, AddedToOwn
  <2> QED
    BY <2>1, <2>2, <2>3, <2>4 DEF Numbered
<1> QED
  BY <1>3, <1>4, <1>7 DEF NumberInv

LEMMA AsideGotoKeepsNumbers ==
  ASSUME NumberInv, NEW t \in Threads, NEW step, step \notin {"add", "delete", "forget"},
         Goto(t, step), UNCHANGED <<numberVars, added, created>>
  PROVE  NumberInv'
<1> DEFINE call == Call(step, calls[t].core, calls[t].client, calls[t].id, calls[t].torrent)
<1>1. WellFormed(calls) /\ created \in Nat
  BY DEF NumberInv, Tables
<1>2. calls' = [calls EXCEPT ![t] = call]
  BY <1>1, OneStep DEF Goto
<1>3. IsCall(call) /\ call.at = step
  BY CallParts
<1> HIDE DEF call
<1> QED
  BY <1>1, <1>2, <1>3, AsideKeepsNumbers

LEMMA ReturnKeepsNumbers ==
  ASSUME NumberInv, NEW t \in Threads, Return(t), UNCHANGED <<numberVars, added, created>>
  PROVE  NumberInv'
<1>1. IsCall(Idle) /\ Idle.at \notin {"add", "delete", "forget"} /\ created \in Nat
  BY IdleParts, CallParts DEF Idle, NumberInv, Tables
<1> QED
  BY <1>1, AsideKeepsNumbers DEF Return

LEMMA RegisterKeepsNumbers ==
  ASSUME NumberInv, NEW t \in Threads, RegisterHandle(t)
  PROVE  NumberInv'
<1> DEFINE c == calls[t].core
           n == NewNumber(handles)
<1>1. WellFormed(calls) /\ calls' = [calls EXCEPT ![t] = Idle]
  BY DEF NumberInv, Tables, RegisterHandle, Return
<1>2. WellFormed(calls') /\ calls'[t] = Idle /\ \A u \in Threads : u # t => calls'[u] = calls[u]
  BY <1>1, OneCall, IdleParts
<1>3. /\ handles' = Put(handles, n, c) /\ number' = [number EXCEPT ![c] = n]
      /\ UNCHANGED <<infos, given, orderly, added, created>>
  BY DEF RegisterHandle, torrentVars, makingVars
<1>4. number' = [d \in Cores |-> IF d = c THEN n ELSE number[d]]
  BY <1>3 DEF NumberInv, Tables
<1> HIDE DEF c
<1>5. Tables'
  BY <1>2, <1>3, <1>4 DEF NumberInv, Tables
<1>6. Idle.at = "idle"
  BY CallParts DEF Idle
<1>7. \A u \in Threads : calls'[u].at \in {"delete", "forget"} =>
        Deleting(u) /\ calls'[u].core = calls[u].core /\ calls'[u].id = calls[u].id
  BY <1>2, <1>6 DEF Deleting
<1>9. \A u \in Threads : calls'[u].at = "add" => calls'[u] = calls[u]
  BY <1>2, <1>6
<1>8. ASSUME Numbered PROVE Numbered'
  <2>1. n \notin DOMAIN handles /\ n # 0 /\ Dense(Put(handles, n, c))
    BY <1>8, NextFree DEF Numbered, NoHoles, NewNumber
  <2> HIDE DEF n
  <2>2. NoHoles'
    BY <1>3, <1>8, <2>1 DEF Numbered, NoHoles, Dense
  <2>3. ClientsOwn'
    <3>1. /\ DOMAIN handles' = DOMAIN handles \cup {n} /\ handles'[n] = c
          /\ \A x \in DOMAIN handles : x # n => handles'[x] = handles[x]
      BY <1>3 DEF Put
    <3>2. \A d \in Cores : number'[d] = IF d = c THEN n ELSE number[d]
      BY <1>4
    <3>3. ASSUME NEW d \in Cores, number'[d] # 0
          PROVE  number'[d] \in DOMAIN handles' /\ handles'[number'[d]] = d
      BY <1>8, <2>1, <3>1, <3>2, <3>3 DEF Numbered, ClientsOwn
    <3> QED
      BY <1>3, <1>8, <3>3 DEF Numbered, ClientsOwn
  <2>4. DeletedOnce'
    BY <1>3, <1>7, <1>8, DeletedKept DEF Numbered
  <2>5. AddedToOwn'
    BY <1>9, <1>8 DEF Numbered, AddedToOwn
  <2> QED
    BY <2>2, <2>3, <2>4, <2>5 DEF Numbered
<1> QED
  BY <1>3, <1>5, <1>8 DEF NumberInv

LEMMA CloseKeepsNumbers ==
  ASSUME NumberInv, NEW t \in Threads, NEW c \in Cores, Close(t, c)
  PROVE  NumberInv'
<1> DEFINE n == number[c]
           call == Call("stopHttp", handles[n], c, 0, 0)
<1>1. /\ WellFormed(calls) /\ calls' = [calls EXCEPT ![t] = call]
      /\ n # 0 /\ n \in DOMAIN handles
  BY DEF NumberInv, Tables, Close
<1>2. IsCall(call) /\ call.at = "stopHttp"
  BY CallParts
<1>3. /\ handles' = Without(handles, n) /\ number' = [number EXCEPT ![c] = 0]
      /\ orderly' = (orderly /\ Newest(handles, n))
      /\ UNCHANGED <<infos, given, added, created>>
  BY DEF Close, torrentVars, makingVars
<1> HIDE DEF call, n
<1>4. WellFormed(calls') /\ calls'[t] = call /\ \A u \in Threads : u # t => calls'[u] = calls[u]
  BY <1>1, <1>2, OneCall
<1>5. number' = [d \in Cores |-> IF d = c THEN 0 ELSE number[d]]
  BY <1>3 DEF NumberInv, Tables
<1>6. Tables'
  BY <1>3, <1>4, <1>5 DEF NumberInv, Tables
<1>7. ASSUME Numbered, Newest(handles, n) PROVE Numbered'
  <2>1. NoHoles'
    <3>1. Dense(Without(handles, n))
      BY <1>1, <1>7, LastGone DEF Numbered, NoHoles
    <3> QED
      BY <1>3, <1>7, <3>1 DEF Numbered, NoHoles, Dense
  <2>2. ClientsOwn'
    <3>1. /\ DOMAIN handles' = DOMAIN handles \ {n}
          /\ \A x \in DOMAIN handles : x # n => handles'[x] = handles[x]
      BY <1>3, WithoutParts
    <3>2. \A d \in Cores : number'[d] = IF d = c THEN 0 ELSE number[d]
      BY <1>5
    <3>3. handles[n] = c
      BY <1>1, <1>7 DEF Numbered, ClientsOwn, n
    <3>4. ASSUME NEW d \in Cores, number'[d] # 0
          PROVE  number'[d] \in DOMAIN handles' /\ handles'[number'[d]] = d
      <4>1. d # c /\ number'[d] = number[d]
        BY <3>2, <3>4
      <4>2. number[d] \in DOMAIN handles /\ handles[number[d]] = d
        BY <1>7, <3>4, <4>1 DEF Numbered, ClientsOwn
      <4>3. number[d] # n
        BY <3>3, <4>1, <4>2
      <4> QED
        BY <3>1, <4>1, <4>2, <4>3
    <3> QED
      BY <1>3, <1>7, <3>4 DEF Numbered, ClientsOwn
  <2>3. DeletedOnce'
    <3>1. \A u \in Threads : calls'[u].at \in {"delete", "forget"} =>
            Deleting(u) /\ calls'[u].core = calls[u].core /\ calls'[u].id = calls[u].id
      BY <1>2, <1>4 DEF Deleting
    <3> QED
      BY <1>3, <1>7, <3>1, DeletedKept DEF Numbered
  <2>4. AddedToOwn'
    BY <1>2, <1>4, <1>7 DEF Numbered, AddedToOwn
  <2> QED
    BY <2>1, <2>2, <2>3, <2>4 DEF Numbered
<1> QED
  BY <1>3, <1>6, <1>7 DEF NumberInv

LEMMA EnterAddKeepsNumbers ==
  ASSUME NumberInv, NEW t \in Threads, NEW c \in Cores, EnterAdd(t, c)
  PROVE  NumberInv'
<1> DEFINE call == Call("add", handles[number[c]], c, 0, 0)
<1>1. /\ WellFormed(calls) /\ calls' = [calls EXCEPT ![t] = call] /\ number[c] # 0
      /\ UNCHANGED <<handles, number, infos, given, orderly, added, created>>
  BY DEF NumberInv, Tables, EnterAdd, numberVars, torrentVars, makingVars
<1>2. IsCall(call) /\ call.at = "add" /\ call.core = handles[number[c]] /\ call.client = c
  BY CallParts DEF Call
<1> HIDE DEF call
<1>3. WellFormed(calls') /\ calls'[t] = call /\ \A u \in Threads : u # t => calls'[u] = calls[u]
  BY <1>1, <1>2, OneCall
<1>4. Tables'
  BY <1>1, <1>3 DEF NumberInv, Tables
<1>5. ASSUME Numbered PROVE Numbered'
  <2>1. NoHoles'
    BY <1>1, <1>5 DEF Numbered, NoHoles, Dense
  <2>2. ClientsOwn'
    BY <1>1, <1>5 DEF Numbered, ClientsOwn
  <2>3. DeletedOnce'
    <3>1. \A u \in Threads : calls'[u].at \in {"delete", "forget"} =>
            Deleting(u) /\ calls'[u].core = calls[u].core /\ calls'[u].id = calls[u].id
      BY <1>2, <1>3 DEF Deleting
    <3> QED
      BY <1>1, <1>5, <3>1, DeletedKept DEF Numbered
  <2>4. AddedToOwn'
    BY <1>1, <1>2, <1>3, <1>5 DEF Numbered, AddedToOwn, ClientsOwn
  <2> QED
    BY <2>1, <2>2, <2>3, <2>4 DEF Numbered
<1> QED
  BY <1>1, <1>4, <1>5 DEF NumberInv

\* The client gives the identifier up before anything is deleted.
LEMMA EnterDeleteKeepsNumbers ==
  ASSUME NumberInv, NEW t \in Threads, NEW k \in Torrents, EnterDelete(t, k)
  PROVE  NumberInv'
<1> DEFINE c == given[k].core
           n == given[k].id
           call == Call("delete", handles[number[c]], c, n, k)
<1>1. /\ WellFormed(calls) /\ calls' = [calls EXCEPT ![t] = call]
      /\ n # 0 /\ number[c] # 0 /\ number[c] \in DOMAIN handles
      /\ given' = [given EXCEPT ![k] = NotGiven]
      /\ UNCHANGED <<handles, number, infos, orderly, added, created>>
  BY DEF NumberInv, Tables, EnterDelete, torrentVars, makingVars
<1>2. IsCall(call) /\ call.at = "delete" /\ call.core = handles[number[c]] /\ call.id = n
  BY CallParts DEF Call
<1>3. given' = [j \in Torrents |-> IF j = k THEN NotGiven ELSE given[j]]
  BY <1>1 DEF NumberInv, Tables
<1>4. n = given[k].id /\ c = given[k].core
  OBVIOUS
<1> HIDE DEF call, n, c
<1>5. WellFormed(calls') /\ calls'[t] = call /\ \A u \in Threads : u # t => calls'[u] = calls[u]
  BY <1>1, <1>2, OneCall
<1>6. Tables'
  BY <1>1, <1>3, <1>5 DEF NumberInv, Tables
<1>7. \A j \in Torrents : given'[j].id # 0 => j # k /\ given'[j] = given[j]
  BY <1>3 DEF NotGiven
<1>8. ASSUME Numbered PROVE Numbered'
  <2>1. c \in Cores /\ n \in DOMAIN infos[c] /\ infos[c][n] = k
    BY <1>1, <1>4, <1>8 DEF Numbered, ClientsOwn
  <2>2. calls'[t].core = c /\ calls'[t].id = n
    BY <1>1, <1>2, <1>5, <1>8, <2>1 DEF Numbered, ClientsOwn
  <2>3. NoHoles'
    BY <1>1, <1>8 DEF Numbered, NoHoles, Dense
  <2>4. ClientsOwn'
    BY <1>1, <1>7, <1>8 DEF Numbered, ClientsOwn
  <2>5. \A u \in Threads : Deleting(u) => calls[u].core # c \/ calls[u].id # n
    BY <1>1, <1>4, <1>8 DEF Numbered, DeletedOnce
  <2>6. ASSUME NEW u \in Threads, calls'[u].at \in {"delete", "forget"}, u # t
        PROVE  Deleting(u) /\ calls'[u] = calls[u]
    BY <1>5, <2>6 DEF Deleting
  <2>7. ASSUME NEW u \in Threads, calls'[u].at \in {"delete", "forget"}
        PROVE  /\ calls'[u].core \in Cores /\ calls'[u].id \in DOMAIN infos'[calls'[u].core]
               /\ \A j \in Torrents : given'[j].id # 0 =>
                    given'[j].core # calls'[u].core \/ given'[j].id # calls'[u].id
    <3>1. CASE u = t
      <4>1. \A j \in Torrents : given'[j].id # 0 => given'[j].core # c \/ given'[j].id # n
        BY <1>7, <1>8, <2>1 DEF Numbered, ClientsOwn
      <4> QED
        BY <1>1, <2>1, <2>2, <3>1, <4>1
    <3>2. CASE u # t
      <4>1. Deleting(u) /\ calls'[u] = calls[u]
        BY <2>6, <2>7, <3>2
      <4>2. /\ calls[u].core \in Cores /\ calls[u].id \in DOMAIN infos[calls[u].core]
            /\ \A j \in Torrents : given[j].id # 0 =>
                 given[j].core # calls[u].core \/ given[j].id # calls[u].id
        BY <1>8, <4>1 DEF Numbered, DeletedOnce
      <4> QED
        BY <1>1, <1>7, <4>1, <4>2
    <3> QED
      BY <3>1, <3>2
  <2>8. ASSUME NEW u \in Threads, NEW v \in Threads,
               calls'[u].at \in {"delete", "forget"}, calls'[v].at \in {"delete", "forget"},
               calls'[u].core = calls'[v].core, calls'[u].id = calls'[v].id
        PROVE  u = v
    <3>1. CASE u # t /\ v # t
      <4>1. Deleting(u) /\ calls'[u] = calls[u] /\ Deleting(v) /\ calls'[v] = calls[v]
        BY <2>6, <2>8, <3>1
      <4>2. calls[u].core = calls[v].core /\ calls[u].id = calls[v].id
        BY <2>8, <4>1
      <4> QED
        BY <1>8, <4>1, <4>2 DEF Numbered, DeletedOnce
    <3>2. ASSUME NEW w \in Threads, w # t, calls'[w].at \in {"delete", "forget"}
          PROVE  calls'[w].core # c \/ calls'[w].id # n
      BY <2>5, <2>6, <3>2
    <3> QED
      BY <2>2, <2>8, <3>1, <3>2
  <2>9. DeletedOnce'
    BY <2>7, <2>8 DEF DeletedOnce, Deleting
  <2>10. AddedToOwn'
    BY <1>2, <1>5, <1>8 DEF Numbered, AddedToOwn
  <2> QED
    BY <2>3, <2>4, <2>9, <2>10 DEF Numbered
<1> QED
  BY <1>1, <1>6, <1>8 DEF NumberInv

LEMMA DeleteKeepsNumbers ==
  ASSUME NumberInv, NEW t \in Threads, DeleteTorrent(t)
  PROVE  NumberInv'
<1> DEFINE call == Call("forget", calls[t].core, calls[t].client, calls[t].id, calls[t].torrent)
<1>1. /\ WellFormed(calls) /\ calls[t].at = "delete" /\ Goto(t, "forget")
      /\ UNCHANGED <<handles, number, infos, given, orderly, added, created>>
  BY DEF NumberInv, Tables, DeleteTorrent, At, numberVars, makingVars
<1>2. calls' = [calls EXCEPT ![t] = call]
  BY <1>1, OneStep DEF Goto
<1>3. IsCall(call) /\ call.at = "forget" /\ call.core = calls[t].core /\ call.id = calls[t].id
  BY CallParts DEF Call
<1> HIDE DEF call
<1>4. WellFormed(calls') /\ calls'[t] = call /\ \A u \in Threads : u # t => calls'[u] = calls[u]
  BY <1>1, <1>2, <1>3, OneCall
<1>5. Tables'
  BY <1>1, <1>4 DEF NumberInv, Tables
<1>6. ASSUME Numbered PROVE Numbered'
  <2>1. NoHoles'
    BY <1>1, <1>6 DEF Numbered, NoHoles, Dense
  <2>2. ClientsOwn'
    BY <1>1, <1>6 DEF Numbered, ClientsOwn
  <2>3. \A u \in Threads : calls'[u].at \in {"delete", "forget"} =>
          Deleting(u) /\ calls'[u].core = calls[u].core /\ calls'[u].id = calls[u].id
    BY <1>1, <1>3, <1>4 DEF Deleting
  <2>4. DeletedOnce'
    BY <1>1, <1>6, <2>3, DeletedKept DEF Numbered
  <2>5. AddedToOwn'
    BY <1>3, <1>4, <1>6 DEF Numbered, AddedToOwn
  <2> QED
    BY <2>1, <2>2, <2>4, <2>5 DEF Numbered
<1> QED
  BY <1>1, <1>5, <1>6 DEF NumberInv

LEMMA ForgetKeepsNumbers ==
  ASSUME NumberInv, NEW t \in Threads, Forget(t)
  PROVE  NumberInv'
<1> DEFINE c == calls[t].core
           n == calls[t].id
<1>1. /\ WellFormed(calls) /\ Deleting(t) /\ calls' = [calls EXCEPT ![t] = Idle]
      /\ infos' = [infos EXCEPT ![c] = Without(infos[c], n)]
      /\ orderly' = (orderly /\ Newest(infos[c], n))
      /\ UNCHANGED <<handles, number, given, added, created>>
  BY DEF NumberInv, Tables, Forget, At, Leave, Return, Deleting, torrentVars, makingVars
<1>2. WellFormed(calls') /\ calls'[t] = Idle /\ \A u \in Threads : u # t => calls'[u] = calls[u]
  BY <1>1, OneCall, IdleParts
<1>3. Idle.at = "idle"
  BY CallParts DEF Idle
<1>4. infos' = [d \in Cores |-> IF d = c THEN Without(infos[c], n) ELSE infos[d]]
  BY <1>1 DEF NumberInv, Tables
<1>5. c = calls[t].core /\ n = calls[t].id
  OBVIOUS
<1> HIDE DEF c, n
<1>6. Tables'
  BY <1>1, <1>2, <1>4 DEF NumberInv, Tables
<1>7. ASSUME Numbered, Newest(infos[c], n) PROVE Numbered'
  <2>1. c \in Cores /\ n \in DOMAIN infos[c]
    BY <1>1, <1>5, <1>7 DEF Numbered, DeletedOnce
  <2>2. /\ DOMAIN infos'[c] = DOMAIN infos[c] \ {n}
        /\ \A x \in DOMAIN infos[c] : x # n => infos'[c][x] = infos[c][x]
    <3>1. infos'[c] = Without(infos[c], n)
      BY <1>4, <2>1
    <3> QED
      BY <3>1 DEF Without
  <2>3. \A d \in Cores : d # c => infos'[d] = infos[d]
    BY <1>4
  <2>4. NoHoles'
    <3>1. Dense(infos[c]) => Dense(infos'[c])
      BY <1>4, <1>7, <2>1, LastGone
    <3>2. IntWorkaround => \A d \in Cores : Dense(infos[d])'
      <4>1. ASSUME IntWorkaround, NEW d \in Cores PROVE Dense(infos[d])'
        <5>1. Dense(infos[d])
          BY <1>7, <4>1 DEF Numbered, NoHoles
        <5>2. CASE d = c
          BY <3>1, <5>1, <5>2 DEF Dense
        <5>3. CASE d # c
          BY <2>3, <5>1, <5>3 DEF Dense
        <5> QED
          BY <5>2, <5>3
      <4> QED
        BY <4>1
    <3>3. ~IntWorkaround => \A d \in Cores : \A x \in DOMAIN infos'[d] : x \in 1 .. added'
      BY <1>1, <1>7, <2>2, <2>3 DEF Numbered, NoHoles
    <3>4. Dense(handles)'
      BY <1>1, <1>7 DEF Numbered, NoHoles, Dense
    <3> QED
      BY <3>2, <3>3, <3>4 DEF NoHoles
  <2>5. \A k \in Torrents : given[k].id # 0 => given[k].core # c \/ given[k].id # n
    BY <1>1, <1>5, <1>7 DEF Numbered, DeletedOnce
  <2>6. ClientsOwn'
    <3>1. ASSUME NEW k \in Torrents, given'[k].id # 0
          PROVE  /\ given'[k].core \in Cores /\ given'[k].id \in DOMAIN infos'[given'[k].core]
                 /\ infos'[given'[k].core][given'[k].id] = k
      <4>1. /\ given'[k] = given[k] /\ given[k].core \in Cores
            /\ given[k].id \in DOMAIN infos[given[k].core]
            /\ infos[given[k].core][given[k].id] = k
        BY <1>1, <1>7, <3>1 DEF Numbered, ClientsOwn
      <4>2. CASE given[k].core = c
        BY <1>1, <2>2, <2>5, <3>1, <4>1, <4>2
      <4>3. CASE given[k].core # c
        BY <2>3, <4>1, <4>3
      <4> QED
        BY <4>2, <4>3
    <3>2. \A d \in Cores : number'[d] # 0 => number'[d] \in DOMAIN handles' /\ handles'[number'[d]] = d
      BY <1>1, <1>7 DEF Numbered, ClientsOwn
    <3> QED
      BY <3>1, <3>2 DEF ClientsOwn
  <2>7. ASSUME NEW u \in Threads, calls'[u].at \in {"delete", "forget"}
        PROVE  /\ u # t /\ Deleting(u) /\ calls'[u] = calls[u]
    BY <1>2, <1>3, <2>7 DEF Deleting
  <2>8. ASSUME NEW u \in Threads, calls'[u].at \in {"delete", "forget"}
        PROVE  /\ calls'[u].core \in Cores /\ calls'[u].id \in DOMAIN infos'[calls'[u].core]
               /\ \A j \in Torrents : given'[j].id # 0 =>
                    given'[j].core # calls'[u].core \/ given'[j].id # calls'[u].id
    <3>1. u # t /\ Deleting(u) /\ calls'[u] = calls[u]
      BY <2>7, <2>8
    <3>2. /\ calls[u].core \in Cores /\ calls[u].id \in DOMAIN infos[calls[u].core]
          /\ \A j \in Torrents : given[j].id # 0 =>
               given[j].core # calls[u].core \/ given[j].id # calls[u].id
      BY <1>7, <3>1 DEF Numbered, DeletedOnce
    <3>3. calls[u].core # c \/ calls[u].id # n
      BY <1>1, <1>5, <1>7, <3>1 DEF Numbered, DeletedOnce
    <3>4. calls[u].id \in DOMAIN infos'[calls[u].core]
      BY <2>2, <2>3, <3>2, <3>3
    <3> QED
      BY <1>1, <3>1, <3>2, <3>4
  <2>9. ASSUME NEW u \in Threads, NEW v \in Threads,
               calls'[u].at \in {"delete", "forget"}, calls'[v].at \in {"delete", "forget"},
               calls'[u].core = calls'[v].core, calls'[u].id = calls'[v].id
        PROVE  u = v
    <3>1. Deleting(u) /\ calls'[u] = calls[u] /\ Deleting(v) /\ calls'[v] = calls[v]
      BY <2>7, <2>9
    <3>2. calls[u].core = calls[v].core /\ calls[u].id = calls[v].id
      BY <2>9, <3>1
    <3> QED
      BY <1>7, <3>1, <3>2 DEF Numbered, DeletedOnce
  <2>10. DeletedOnce'
    BY <2>8, <2>9 DEF DeletedOnce, Deleting
  <2>11. AddedToOwn'
    BY <1>2, <1>3, <1>7 DEF Numbered, AddedToOwn
  <2> QED
    BY <2>4, <2>6, <2>10, <2>11 DEF Numbered
<1> QED
  BY <1>1, <1>6, <1>7 DEF NumberInv

\* The identifier add_info finds is free.
LEMMA FreeIdentifier ==
  ASSUME Tables, NoHoles, NEW c \in Cores
  PROVE  LET n == NewIdentifier(infos[c], added + 1)
         IN  /\ n \notin DOMAIN infos[c]
             /\ Inserted(infos[c], n, added + 1) = Put(infos[c], n, added + 1)
             /\ IntWorkaround => Dense(Put(infos[c], n, added + 1))
             /\ ~IntWorkaround => n = added + 1
<1> DEFINE n == NewIdentifier(infos[c], added + 1)
<1>1. n \notin DOMAIN infos[c]
  <2>1. CASE IntWorkaround
    BY <2>1, NextFree DEF NoHoles, NewIdentifier
  <2>2. CASE ~IntWorkaround
    BY <2>2 DEF NoHoles, NewIdentifier, Tables
  <2> QED
    BY <2>1, <2>2
<1>2. IntWorkaround => Dense(Put(infos[c], n, added + 1))
  BY NextFree DEF NoHoles, NewIdentifier
<1>3. ~IntWorkaround => n = added + 1
  BY DEF NewIdentifier
<1> QED
  BY <1>1, <1>2, <1>3 DEF Inserted

LEMMA AddKeepsNumbers ==
  ASSUME NumberInv, NEW t \in Threads, AddTorrent(t)
  PROVE  NumberInv'
<1> DEFINE c == calls[t].core
           owner == calls[t].client
           k == added + 1
           n == NewIdentifier(infos[c], k)
           table == Inserted(infos[c], n, k)
<1>1. /\ WellFormed(calls) /\ calls[t].at = "add" /\ calls' = [calls EXCEPT ![t] = Idle]
      /\ added' = k /\ added \in Nat
      /\ infos' = [infos EXCEPT ![c] = table]
      /\ given' = [given EXCEPT ![k] = [core |-> owner, id |-> n]]
      /\ UNCHANGED <<handles, number, orderly, created>>
  BY DEF NumberInv, Tables, AddTorrent, At, Leave, Return, makingVars
<1>2. WellFormed(calls') /\ calls'[t] = Idle /\ \A u \in Threads : u # t => calls'[u] = calls[u]
  BY <1>1, OneCall, IdleParts
<1>3. Idle.at = "idle"
  BY CallParts DEF Idle
<1>4. infos' = [d \in Cores |-> IF d = c THEN table ELSE infos[d]]
  BY <1>1 DEF NumberInv, Tables
<1>5. given' = [j \in Torrents |-> IF j = k THEN [core |-> owner, id |-> n] ELSE given[j]]
  BY <1>1 DEF NumberInv, Tables
<1>6. ASSUME Numbered
      PROVE  /\ c \in Cores /\ owner = c /\ n \notin DOMAIN infos[c]
             /\ table = Put(infos[c], n, k)
             /\ IntWorkaround => Dense(table)
             /\ ~IntWorkaround => n = k
  <2>1. c \in Cores /\ owner = c
    BY <1>1, <1>6 DEF Numbered, AddedToOwn
  <2> QED
    BY <1>6, <2>1, FreeIdentifier DEF Numbered, NumberInv
<1>7. k = added + 1
  OBVIOUS
<1> HIDE DEF c, owner, k, n, table
<1>8. Tables'
  <2>1. added' \in Nat
    BY <1>1, <1>7
  <2> QED
    BY <1>1, <1>2, <1>4, <1>5, <2>1 DEF NumberInv, Tables
<1>9. ASSUME Numbered PROVE Numbered'
  <2>1. /\ c \in Cores /\ owner = c /\ n \notin DOMAIN infos[c]
        /\ IntWorkaround => Dense(table)
        /\ ~IntWorkaround => n = k
    BY <1>6, <1>9
  <2>2. /\ DOMAIN infos'[c] = DOMAIN infos[c] \cup {n} /\ infos'[c][n] = k
        /\ \A x \in DOMAIN infos[c] : infos'[c][x] = infos[c][x]
    <3>1. infos'[c] = Put(infos[c], n, k)
      BY <1>4, <1>6, <1>9, <2>1
    <3> QED
      BY <2>1, <3>1 DEF Put
  <2>3. \A d \in Cores : d # c => infos'[d] = infos[d]
    BY <1>4
  <2>4. NoHoles'
    <3>1. IntWorkaround => \A d \in Cores : Dense(infos[d])'
      <4>1. ASSUME IntWorkaround, NEW d \in Cores PROVE Dense(infos[d])'
        <5>1. CASE d = c
          BY <1>4, <2>1, <4>1, <5>1 DEF Dense
        <5>2. CASE d # c
          BY <1>9, <2>3, <4>1, <5>2 DEF Numbered, NoHoles, Dense
        <5> QED
          BY <5>1, <5>2
      <4> QED
        BY <4>1
    <3>2. ~IntWorkaround => \A d \in Cores : \A x \in DOMAIN infos'[d] : x \in 1 .. added'
      <4>1. ASSUME ~IntWorkaround, NEW d \in Cores, NEW x \in DOMAIN infos'[d]
            PROVE  x \in 1 .. added'
        <5>1. x \in DOMAIN infos[d] \/ x = k
          BY <2>1, <2>2, <2>3, <4>1
        <5>2. x \in DOMAIN infos[d] => x \in 1 .. added
          BY <1>9, <4>1 DEF Numbered, NoHoles
        <5> QED
          BY <1>1, <1>7, <5>1, <5>2
      <4> QED
        BY <4>1
    <3>3. Dense(handles)'
      BY <1>1, <1>9 DEF Numbered, NoHoles, Dense
    <3> QED
      BY <3>1, <3>2, <3>3 DEF NoHoles
  <2>5. ClientsOwn'
    <3>1. ASSUME NEW j \in Torrents, given'[j].id # 0
          PROVE  /\ given'[j].core \in Cores /\ given'[j].id \in DOMAIN infos'[given'[j].core]
                 /\ infos'[given'[j].core][given'[j].id] = j
      <4>1. CASE j = k
        <5>1. given'[j].core = c /\ given'[j].id = n
          BY <1>5, <2>1, <4>1
        <5> QED
          BY <2>1, <2>2, <4>1, <5>1
      <4>2. CASE j # k
        <5>1. given'[j] = given[j]
          BY <1>5, <4>2
        <5>2. /\ given[j].core \in Cores /\ given[j].id \in DOMAIN infos[given[j].core]
              /\ infos[given[j].core][given[j].id] = j
          BY <1>9, <3>1, <5>1 DEF Numbered, ClientsOwn
        <5> QED
          BY <2>2, <2>3, <5>1, <5>2
      <4> QED
        BY <4>1, <4>2
    <3>2. \A d \in Cores : number'[d] # 0 => number'[d] \in DOMAIN handles' /\ handles'[number'[d]] = d
      BY <1>1, <1>9 DEF Numbered, ClientsOwn
    <3> QED
      BY <3>1, <3>2 DEF ClientsOwn
  <2>6. ASSUME NEW u \in Threads, calls'[u].at \in {"delete", "forget"}
        PROVE  Deleting(u) /\ calls'[u] = calls[u]
    BY <1>2, <1>3, <2>6 DEF Deleting
  <2>7. ASSUME NEW u \in Threads, calls'[u].at \in {"delete", "forget"}
        PROVE  /\ calls'[u].core \in Cores /\ calls'[u].id \in DOMAIN infos'[calls'[u].core]
               /\ \A j \in Torrents : given'[j].id # 0 =>
                    given'[j].core # calls'[u].core \/ given'[j].id # calls'[u].id
    <3>1. Deleting(u) /\ calls'[u] = calls[u]
      BY <2>6, <2>7
    <3>2. /\ calls[u].core \in Cores /\ calls[u].id \in DOMAIN infos[calls[u].core]
          /\ \A j \in Torrents : given[j].id # 0 =>
               given[j].core # calls[u].core \/ given[j].id # calls[u].id
      BY <1>9, <3>1 DEF Numbered, DeletedOnce
    <3>3. calls[u].id \in DOMAIN infos'[calls[u].core]
      BY <2>2, <2>3, <3>2
    <3>4. ASSUME NEW j \in Torrents, given'[j].id # 0
          PROVE  given'[j].core # calls[u].core \/ given'[j].id # calls[u].id
      <4>1. CASE j = k
        <5>1. given'[j].core = c /\ given'[j].id = n
          BY <1>5, <2>1, <4>1
        <5> QED
          BY <2>1, <3>2, <5>1
      <4>2. CASE j # k
        <5>1. given'[j] = given[j]
          BY <1>5, <4>2
        <5> QED
          BY <3>2, <3>4, <5>1
      <4> QED
        BY <4>1, <4>2
    <3> QED
      BY <3>1, <3>2, <3>3, <3>4
  <2>8. ASSUME NEW u \in Threads, NEW v \in Threads,
               calls'[u].at \in {"delete", "forget"}, calls'[v].at \in {"delete", "forget"},
               calls'[u].core = calls'[v].core, calls'[u].id = calls'[v].id
        PROVE  u = v
    <3>1. Deleting(u) /\ calls'[u] = calls[u] /\ Deleting(v) /\ calls'[v] = calls[v]
      BY <2>6, <2>8
    <3>2. calls[u].core = calls[v].core /\ calls[u].id = calls[v].id
      BY <2>8, <3>1
    <3> QED
      BY <1>9, <3>1, <3>2 DEF Numbered, DeletedOnce
  <2>9. DeletedOnce'
    BY <2>7, <2>8 DEF DeletedOnce, Deleting
  <2>10. AddedToOwn'
    BY <1>2, <1>3, <1>9 DEF Numbered, AddedToOwn
  <2> QED
    BY <2>4, <2>5, <2>9, <2>10 DEF Numbered
<1> QED
  BY <1>1, <1>8, <1>9 DEF NumberInv

-----------------------------------------------------------------------------
(* The other steps                                                          *)

\* Steps that touch neither the tables nor the calls.
LEMMA StillKeepsNumbers ==
  ASSUME NumberInv, UNCHANGED <<calls, created, added, numberVars>>
  PROVE  NumberInv'
BY DEF NumberInv, Tables, Numbered, NoHoles, Dense, ClientsOwn, DeletedOnce, Deleting,
       AddedToOwn, numberVars, WellFormed

LEMMA PreparingKeepsNumbers ==
  ASSUME NumberInv, NEW t \in Threads,
         \/ LoadSettings(t) \/ CheckConfig(t) \/ LaunchTorrent(t) \/ LaunchHttp(t)
         \/ LaunchHangs(t)
  PROVE  NumberInv'
<1>1. CASE CheckConfig(t)
  <2>1. Return(t) \/ Goto(t, "launchTorrent")
    BY <1>1 DEF CheckConfig
  <2>2. UNCHANGED <<numberVars, added, created>>
    BY <1>1 DEF CheckConfig, torrentVars
  <2> QED
    BY <2>1, <2>2, ReturnKeepsNumbers, AsideGotoKeepsNumbers
<1>2. CASE ~CheckConfig(t)
  <2>1. Goto(t, "check") \/ Goto(t, "launchHttp") \/ Goto(t, "register") \/ Goto(t, "stuck")
    BY <1>2 DEF LoadSettings, LaunchTorrent, LaunchHttp, LaunchHangs
  <2>2. UNCHANGED <<numberVars, added, created>>
    BY <1>2 DEF LoadSettings, LaunchTorrent, LaunchHttp, LaunchHangs, torrentVars, makingVars
  <2> QED
    BY <2>1, <2>2, AsideGotoKeepsNumbers
<1> QED
  BY <1>1, <1>2

LEMMA InitCallKeepsNumbers ==
  ASSUME NumberInv, NEW t \in Threads, NEW cfg, InitCall(t, cfg)
  PROVE  NumberInv'
<1> DEFINE call == Call("load", created', created', 0, 0)
<1>1. /\ calls' = [calls EXCEPT ![t] = call] /\ created' \in Nat
      /\ UNCHANGED <<numberVars, added>>
  BY DEF NumberInv, Tables, InitCall, torrentVars
<1>2. IsCall(call) /\ call.at = "load"
  BY CallParts
<1> HIDE DEF call
<1> QED
  BY <1>1, <1>2, AsideKeepsNumbers

LEMMA ClosingKeepsNumbers ==
  ASSUME NumberInv, NEW t \in Threads,
         StopHttp(t) \/ StopTorrent(t) \/ Join(t) \/ ClearServices(t)
  PROVE  NumberInv'
<1>1. UNCHANGED <<numberVars, added, created>>
  BY DEF StopHttp, StopTorrent, Join, ClearServices, torrentVars, makingVars
<1>2. Goto(t, "stopTorrent") \/ Goto(t, "join") \/ Goto(t, "clear") \/ Return(t)
  BY DEF StopHttp, StopTorrent, Join, ClearServices, Leave
<1> QED
  BY <1>1, <1>2, ReturnKeepsNumbers, AsideGotoKeepsNumbers

LEMMA WaitingKeepsNumbers ==
  ASSUME NumberInv, NEW t \in Threads,
         WaitHttp(t) \/ WaitStop(t) \/ WaitTorrent(t) \/ WaitJoin(t)
  PROVE  NumberInv'
<1>1. UNCHANGED <<numberVars, added, created>>
  BY DEF WaitHttp, WaitStop, WaitTorrent, WaitJoin, torrentVars, makingVars
<1>2. Goto(t, "waitStop") \/ Goto(t, "waitTorrent") \/ Goto(t, "waitJoin") \/ Return(t)
  BY DEF WaitHttp, WaitStop, WaitTorrent, WaitJoin, Leave
<1> QED
  BY <1>1, <1>2, ReturnKeepsNumbers, AsideGotoKeepsNumbers

LEMMA PassedKeepsNumbers ==
  ASSUME NumberInv, NEW t \in Threads, Nothing(t) \/ UseTorrent(t)
  PROVE  NumberInv'
<1>1. UNCHANGED <<numberVars, added, created>> /\ Return(t)
  BY DEF Nothing, UseTorrent, Leave, torrentVars, makingVars
<1> QED
  BY <1>1, ReturnKeepsNumbers

LEMMA EnterKeepsNumbers ==
  ASSUME NumberInv, NEW t \in Threads,
         \/ \E c \in Cores : Wait(t, c)
         \/ \E k \in Torrents, op \in Uses : EnterUse(t, k, op)
  PROVE  NumberInv'
<1>1. UNCHANGED <<numberVars, added, created>> /\ created \in Nat
  BY DEF Wait, EnterUse, torrentVars, makingVars, NumberInv, Tables
<1>2. \E step, c, owner, n, k :
        /\ step \notin {"add", "delete", "forget"}
        /\ calls' = [calls EXCEPT ![t] = Call(step, c, owner, n, k)]
  <2>1. \A op \in Uses : op \notin {"add", "delete", "forget"}
    BY ApiAssumption
  <2> QED
    BY <2>1 DEF Wait, EnterUse
<1>3. PICK step, c, owner, n, k :
        /\ step \notin {"add", "delete", "forget"}
        /\ calls' = [calls EXCEPT ![t] = Call(step, c, owner, n, k)]
  BY <1>2
<1> DEFINE call == Call(step, c, owner, n, k)
<1>4. IsCall(call) /\ call.at = step
  BY CallParts
<1> HIDE DEF call
<1>5. calls' = [calls EXCEPT ![t] = call]
  BY <1>3 DEF call
<1> QED
  BY <1>1, <1>3, <1>4, <1>5, AsideKeepsNumbers

LEMMA NumberNext ==
  NumberInv /\ [Next]_vars => NumberInv'
<1> SUFFICES ASSUME NumberInv, [Next]_vars
             PROVE  NumberInv'
  OBVIOUS
<1>1. CASE UNCHANGED vars
  BY <1>1, StillKeepsNumbers DEF vars, torrentVars, makingVars
<1>2. CASE Crash
  BY <1>2, StillKeepsNumbers DEF Crash, torrentVars, makingVars
<1>3. ASSUME NEW t \in Threads, NEW cfg \in Configs, InitCall(t, cfg) PROVE NumberInv'
  BY <1>3, InitCallKeepsNumbers
<1>4. ASSUME NEW t \in Threads,
             \/ LoadSettings(t) \/ CheckConfig(t) \/ LaunchTorrent(t) \/ LaunchHttp(t)
             \/ LaunchHangs(t)
      PROVE  NumberInv'
  BY <1>4, PreparingKeepsNumbers
<1>5. ASSUME NEW t \in Threads, RegisterHandle(t) PROVE NumberInv'
  BY <1>5, RegisterKeepsNumbers
<1>6. ASSUME NEW t \in Threads, StopHttp(t) \/ StopTorrent(t) \/ Join(t) \/ ClearServices(t)
      PROVE  NumberInv'
  BY <1>6, ClosingKeepsNumbers
<1>7. ASSUME NEW t \in Threads, WaitHttp(t) \/ WaitStop(t) \/ WaitTorrent(t) \/ WaitJoin(t)
      PROVE  NumberInv'
  BY <1>7, WaitingKeepsNumbers
<1>8. ASSUME NEW t \in Threads, Nothing(t) \/ UseTorrent(t) PROVE NumberInv'
  BY <1>8, PassedKeepsNumbers
<1>9. ASSUME NEW t \in Threads, AddTorrent(t) PROVE NumberInv'
  BY <1>9, AddKeepsNumbers
<1>10. ASSUME NEW t \in Threads, DeleteTorrent(t) PROVE NumberInv'
  BY <1>10, DeleteKeepsNumbers
<1>11. ASSUME NEW t \in Threads, Forget(t) PROVE NumberInv'
  BY <1>11, ForgetKeepsNumbers
<1>12. ASSUME NEW t \in Threads, NEW c \in Cores, Close(t, c) PROVE NumberInv'
  BY <1>12, CloseKeepsNumbers
<1>13. ASSUME NEW t \in Threads, NEW c \in Cores, EnterAdd(t, c) PROVE NumberInv'
  BY <1>13, EnterAddKeepsNumbers
<1>14. ASSUME NEW t \in Threads,
              \/ \E c \in Cores : Wait(t, c)
              \/ \E k \in Torrents, op \in Uses : EnterUse(t, k, op)
       PROVE  NumberInv'
  BY <1>14, EnterKeepsNumbers
<1>15. ASSUME NEW t \in Threads, NEW k \in Torrents, EnterDelete(t, k) PROVE NumberInv'
  BY <1>15, EnterDeleteKeepsNumbers
<1>16. ASSUME NEW c \in Cores, ListenError(c) \/ LoopEnds(c) PROVE NumberInv'
  BY <1>16, StillKeepsNumbers DEF ListenError, LoopEnds, torrentVars, makingVars
<1>17. ASSUME NEW t \in Threads,
              \/ LaunchFails(t) \/ WaitLost(t) \/ CoreGone(t) \/ UrlFails(t)
              \/ \E c \in Cores : DeadNumber(t, c)
       PROVE  Crash
  BY <1>17 DEF LaunchFails, WaitLost, CoreGone, UrlFails, DeadNumber
<1> QED
  BY <1>1, <1>2, <1>3, <1>4, <1>5, <1>6, <1>7, <1>8, <1>9, <1>10, <1>11, <1>12, <1>13, <1>14,
     <1>15, <1>16, <1>17
     DEF Next

\* As long as what is closed and deleted is always the newest, size() + 1 is free, and
\* every number and identifier a client holds leads to its own core and torrent: for any
\* number of cores, torrents and threads, with T2H_INT_WORKAROUND and without it
\* (handles_manager::registr_new_handle, underlying_handle::add_info).
THEOREM NumbersOwn == Spec => []NumbersAreOwn
<1>1. NumberInv => NumbersAreOwn
  BY DEF NumberInv, Numbered, ClientsOwn, NumbersAreOwn
<1> QED
  BY <1>1, NumberInit, NumberNext, PTL DEF Spec

-----------------------------------------------------------------------------
(* An operation changes the torrent its client means                        *)

\* A call carries the identifier its client holds for the torrent, until the client
\* deletes the torrent; a torrent is given once.
UsedOwn ==
  /\ \A k \in Torrents : given[k].id # 0 => k <= added
  /\ \A t \in Threads : calls[t].at \in Uses =>
       /\ calls[t].torrent \in Torrents /\ calls[t].torrent <= added
       /\ given[calls[t].torrent].id # 0 =>
            /\ given[calls[t].torrent].core = calls[t].core
            /\ given[calls[t].torrent].id = calls[t].id

UseInv == orderly => UsedOwn

\* What no step but the start of an operation does.
LEMMA CalmKeepsUse ==
  ASSUME UseInv, added \in Nat, orderly' => orderly, added' \in Nat, added <= added',
         \A u \in Threads : calls'[u].at \in Uses => calls'[u] = calls[u],
         \A k \in Torrents : given'[k].id # 0 =>
           given'[k] = given[k] \/ (k = added + 1 /\ k <= added')
  PROVE  UseInv'
<1> SUFFICES ASSUME orderly' PROVE UsedOwn'
  BY DEF UseInv
<1>1. UsedOwn
  BY DEF UseInv
<1>2. ASSUME NEW k \in Torrents, given'[k].id # 0 PROVE k <= added'
  <2>1. k \in Nat
    BY ApiAssumption DEF Torrents
  <2>2. given'[k] = given[k] => k <= added
    BY <1>1, <1>2 DEF UsedOwn
  <2> QED
    BY <1>2, <2>1, <2>2
<1>3. ASSUME NEW u \in Threads, calls'[u].at \in Uses
      PROVE  /\ calls'[u].torrent \in Torrents /\ calls'[u].torrent <= added'
             /\ given'[calls'[u].torrent].id # 0 =>
                  /\ given'[calls'[u].torrent].core = calls'[u].core
                  /\ given'[calls'[u].torrent].id = calls'[u].id
  <2>1. calls'[u] = calls[u] /\ calls[u].at \in Uses
    BY <1>3
  <2> DEFINE k == calls[u].torrent
  <2>2. /\ k \in Torrents /\ k <= added
        /\ given[k].id # 0 => given[k].core = calls[u].core /\ given[k].id = calls[u].id
    BY <1>1, <2>1 DEF UsedOwn
  <2>3. calls'[u].torrent = k
    BY <2>1
  <2> HIDE DEF k
  <2>4. k \in Nat
    BY <2>2, ApiAssumption DEF Torrents
  <2>5. k # added + 1 /\ k <= added'
    BY <2>2, <2>4
  <2>6. given'[k].id # 0 => given'[k] = given[k]
    BY <2>2, <2>5
  <2> QED
    BY <2>1, <2>2, <2>3, <2>5, <2>6
<1> QED
  BY <1>2, <1>3 DEF UsedOwn

\* A call that goes to a step that is no operation on a torrent.
LEMMA OtherCall ==
  ASSUME WellFormed(calls), NEW t \in Threads, NEW call, IsCall(call), call.at \notin Uses,
         calls' = [calls EXCEPT ![t] = call]
  PROVE  \A u \in Threads : calls'[u].at \in Uses => calls'[u] = calls[u]
BY OneCall

LEMMA OtherStep ==
  ASSUME WellFormed(calls), NEW t \in Threads,
         \/ Return(t)
         \/ \E step \in Steps \ Uses : Goto(t, step)
         \/ \E step \in Steps \ Uses : \E c, owner, n, k :
              calls' = [calls EXCEPT ![t] = Call(step, c, owner, n, k)]
  PROVE  \A u \in Threads : calls'[u].at \in Uses => calls'[u] = calls[u]
<1>1. CASE Return(t)
  <2>1. IsCall(Idle) /\ Idle.at \notin Uses
    BY IdleParts, CallParts, ApiAssumption DEF Idle
  <2> QED
    BY <1>1, <2>1, OtherCall DEF Return
<1>2. ASSUME NEW step \in Steps \ Uses, NEW c, NEW owner, NEW n, NEW k,
             calls' = [calls EXCEPT ![t] = Call(step, c, owner, n, k)]
      PROVE  \A u \in Threads : calls'[u].at \in Uses => calls'[u] = calls[u]
  <2> DEFINE call == Call(step, c, owner, n, k)
  <2>1. IsCall(call) /\ call.at \notin Uses
    BY CallParts
  <2>2. calls' = [calls EXCEPT ![t] = call]
    BY <1>2
  <2> HIDE DEF call
  <2> QED
    BY <2>1, <2>2, OtherCall
<1>3. ASSUME NEW step \in Steps \ Uses, Goto(t, step)
      PROVE  \A u \in Threads : calls'[u].at \in Uses => calls'[u] = calls[u]
  <2> DEFINE call == Call(step, calls[t].core, calls[t].client, calls[t].id, calls[t].torrent)
  <2>1. IsCall(call) /\ call.at \notin Uses
    BY CallParts
  <2>2. calls' = [calls EXCEPT ![t] = call]
    <3>1. WellFormed(calls) /\ calls' = [calls EXCEPT ![t].at = step]
      BY <1>3 DEF Goto
    <3> QED
      BY ONLY <3>1, t \in Threads, OneStep
  <2> HIDE DEF call
  <2> QED
    BY <2>1, <2>2, OtherCall
<1> QED
  BY <1>1, <1>2, <1>3

\* The steps without an operation.
OtherSteps ==
  {"idle", "add", "delete", "forget"} \cup InitSteps \cup CloseSteps \cup WaitSteps

LEMMA OtherStepsOther == OtherSteps \subseteq Steps \ Uses
BY ApiAssumption DEF OtherSteps, Steps, InitSteps, CloseSteps, WaitSteps

LEMMA CallsOfOthers ==
  ASSUME WellFormed(calls), [Next]_vars,
         ~\E t \in Threads, k \in Torrents, op \in Uses : EnterUse(t, k, op)
  PROVE  \A u \in Threads : calls'[u].at \in Uses => calls'[u] = calls[u]
<1> DEFINE Steady(t) ==
      \/ calls' = calls
      \/ Return(t)
      \/ \E step \in OtherSteps : Goto(t, step)
      \/ \E step \in OtherSteps : \E c, owner, n, k :
           calls' = [calls EXCEPT ![t] = Call(step, c, owner, n, k)]
<1>1. ASSUME NEW t \in Threads, Steady(t)
      PROVE  \A u \in Threads : calls'[u].at \in Uses => calls'[u] = calls[u]
  BY <1>1, OtherStep, OtherStepsOther
<1>2. ASSUME calls' = calls
      PROVE  \A u \in Threads : calls'[u].at \in Uses => calls'[u] = calls[u]
  BY <1>2
<1> USE DEF OtherSteps, InitSteps, CloseSteps, WaitSteps
<1>3. ASSUME NEW t \in Threads, NEW cfg \in Configs, InitCall(t, cfg) PROVE Steady(t)
  BY <1>3 DEF InitCall
<1>4. ASSUME NEW t \in Threads,
             \/ LoadSettings(t) \/ CheckConfig(t) \/ LaunchTorrent(t) \/ LaunchHttp(t)
             \/ LaunchHangs(t) \/ RegisterHandle(t)
      PROVE  Steady(t)
  BY <1>4 DEF LoadSettings, CheckConfig, LaunchTorrent, LaunchHttp, LaunchHangs, RegisterHandle
<1>5. ASSUME NEW t \in Threads, StopHttp(t) \/ StopTorrent(t) \/ Join(t) \/ ClearServices(t)
      PROVE  Steady(t)
  BY <1>5 DEF StopHttp, StopTorrent, Join, ClearServices, Leave
<1>6. ASSUME NEW t \in Threads, WaitHttp(t) \/ WaitStop(t) \/ WaitTorrent(t) \/ WaitJoin(t)
      PROVE  Steady(t)
  BY <1>6 DEF WaitHttp, WaitStop, WaitTorrent, WaitJoin, Leave
<1>7. ASSUME NEW t \in Threads,
             AddTorrent(t) \/ Nothing(t) \/ UseTorrent(t) \/ DeleteTorrent(t) \/ Forget(t)
      PROVE  Steady(t)
  BY <1>7 DEF AddTorrent, Nothing, UseTorrent, DeleteTorrent, Forget, Leave
<1>8. ASSUME NEW t \in Threads, NEW c \in Cores, Close(t, c) \/ Wait(t, c) \/ EnterAdd(t, c)
      PROVE  Steady(t)
  BY <1>8 DEF Close, Wait, EnterAdd
<1>9. ASSUME NEW t \in Threads, NEW k \in Torrents, EnterDelete(t, k) PROVE Steady(t)
  BY <1>9 DEF EnterDelete
<1>10. ASSUME NEW c \in Cores, ListenError(c) \/ LoopEnds(c) PROVE calls' = calls
  BY <1>10 DEF ListenError, LoopEnds
<1>11. ASSUME NEW t \in Threads,
              \/ LaunchFails(t) \/ WaitLost(t) \/ CoreGone(t) \/ UrlFails(t)
              \/ \E c \in Cores : DeadNumber(t, c)
       PROVE  calls' = calls
  BY <1>11 DEF LaunchFails, WaitLost, CoreGone, UrlFails, DeadNumber, Crash
<1>12. CASE UNCHANGED vars
  BY <1>2, <1>12 DEF vars
<1> HIDE DEF Steady
<1> QED
  BY <1>1, <1>2, <1>3, <1>4, <1>5, <1>6, <1>7, <1>8, <1>9, <1>10, <1>11, <1>12 DEF Next

LEMMA GivenOfOthers ==
  ASSUME NumberInv, [Next]_vars
  PROVE  /\ orderly' => orderly
         /\ added \in Nat /\ added' \in Nat /\ added <= added'
         /\ \A k \in Torrents : given'[k].id # 0 =>
              given'[k] = given[k] \/ (k = added + 1 /\ k <= added')
<1>1. added \in Nat /\ given = [k \in Torrents |-> given[k]]
  BY DEF NumberInv, Tables
<1>2. CASE UNCHANGED <<orderly, added, given>>
  BY <1>1, <1>2
<1>3. ASSUME NEW t \in Threads, AddTorrent(t)
      PROVE  /\ orderly' = orderly /\ added' = added + 1
             /\ \A k \in Torrents : k # added + 1 => given'[k] = given[k]
  BY <1>1, <1>3 DEF AddTorrent
<1>4. ASSUME NEW t \in Threads, NEW k \in Torrents, EnterDelete(t, k)
      PROVE  /\ orderly' = orderly /\ added' = added
             /\ \A j \in Torrents : given'[j].id # 0 => given'[j] = given[j]
  BY <1>1, <1>4 DEF EnterDelete, torrentVars, NotGiven
<1>5. ASSUME NEW t \in Threads, Forget(t) \/ \E c \in Cores : Close(t, c)
      PROVE  (orderly' => orderly) /\ UNCHANGED <<added, given>>
  BY <1>5 DEF Forget, Close, torrentVars
<1>6. ASSUME NEW t \in Threads, NEW cfg \in Configs, InitCall(t, cfg)
      PROVE  UNCHANGED <<orderly, added, given>>
  BY <1>6 DEF InitCall, numberVars, torrentVars
<1>7. ASSUME NEW t \in Threads,
             \/ LoadSettings(t) \/ CheckConfig(t) \/ LaunchTorrent(t) \/ LaunchHttp(t)
             \/ LaunchHangs(t) \/ RegisterHandle(t)
      PROVE  UNCHANGED <<orderly, added, given>>
  BY <1>7 DEF LoadSettings, CheckConfig, LaunchTorrent, LaunchHttp, LaunchHangs,
              RegisterHandle, numberVars, torrentVars
<1>8. ASSUME NEW t \in Threads,
             \/ StopHttp(t) \/ StopTorrent(t) \/ Join(t) \/ ClearServices(t)
             \/ WaitHttp(t) \/ WaitStop(t) \/ WaitTorrent(t) \/ WaitJoin(t)
      PROVE  UNCHANGED <<orderly, added, given>>
  BY <1>8 DEF StopHttp, StopTorrent, Join, ClearServices, WaitHttp, WaitStop, WaitTorrent,
              WaitJoin, numberVars, torrentVars
<1>9. ASSUME NEW t \in Threads,
             \/ Nothing(t) \/ UseTorrent(t) \/ DeleteTorrent(t)
             \/ \E c \in Cores : Wait(t, c) \/ EnterAdd(t, c)
             \/ \E k \in Torrents, op \in Uses : EnterUse(t, k, op)
      PROVE  UNCHANGED <<orderly, added, given>>
  BY <1>9 DEF Nothing, UseTorrent, DeleteTorrent, Wait, EnterAdd, EnterUse, numberVars,
              torrentVars
<1>10. ASSUME NEW c \in Cores, ListenError(c) \/ LoopEnds(c)
       PROVE  UNCHANGED <<orderly, added, given>>
  BY <1>10 DEF ListenError, LoopEnds, numberVars, torrentVars
<1>11. ASSUME NEW t \in Threads,
              \/ LaunchFails(t) \/ WaitLost(t) \/ CoreGone(t) \/ UrlFails(t)
              \/ \E c \in Cores : DeadNumber(t, c)
       PROVE  UNCHANGED <<orderly, added, given>>
  BY <1>11 DEF LaunchFails, WaitLost, CoreGone, UrlFails, DeadNumber, Crash, numberVars,
               torrentVars
<1>12. CASE UNCHANGED vars
  BY <1>12, <1>2 DEF vars, numberVars, torrentVars
<1>13. ASSUME NEW t \in Threads, AddTorrent(t)
       PROVE  /\ orderly' => orderly
              /\ added \in Nat /\ added' \in Nat /\ added <= added'
              /\ \A k \in Torrents : given'[k].id # 0 =>
                   given'[k] = given[k] \/ (k = added + 1 /\ k <= added')
  BY <1>1, <1>3, <1>13
<1>14. ASSUME NEW t \in Threads,
              \/ \E k \in Torrents : EnterDelete(t, k)
              \/ Forget(t) \/ \E c \in Cores : Close(t, c)
       PROVE  /\ orderly' => orderly
              /\ added \in Nat /\ added' \in Nat /\ added <= added'
              /\ \A k \in Torrents : given'[k].id # 0 =>
                   given'[k] = given[k] \/ (k = added + 1 /\ k <= added')
  BY <1>1, <1>4, <1>5, <1>14
<1> QED
  BY <1>2, <1>6, <1>7, <1>8, <1>9, <1>10, <1>11, <1>12, <1>13, <1>14 DEF Next

LEMMA EnterUseKeepsUse ==
  ASSUME NumberInv, UseInv, NEW t \in Threads, NEW k \in Torrents, NEW op \in Uses,
         EnterUse(t, k, op)
  PROVE  UseInv'
<1> DEFINE c == given[k].core
           call == Call(op, handles[number[c]], c, given[k].id, k)
<1>1. /\ WellFormed(calls) /\ calls' = [calls EXCEPT ![t] = call]
      /\ given[k].id # 0 /\ number[c] # 0 /\ UNCHANGED <<orderly, added, given>>
  BY DEF NumberInv, Tables, EnterUse, numberVars, torrentVars
<1>2. /\ IsCall(call) /\ call.core = handles[number[c]] /\ call.id = given[k].id
      /\ call.torrent = k
  BY CallParts DEF Call
<1>3. c = given[k].core
  OBVIOUS
<1> HIDE DEF call, c
<1>4. calls'[t] = call /\ \A u \in Threads : u # t => calls'[u] = calls[u]
  BY <1>1, <1>2, OneCall
<1>5. ASSUME orderly PROVE UsedOwn'
  <2>1. UsedOwn /\ ClientsOwn
    BY <1>5 DEF UseInv, NumberInv, Numbered
  <2>2. call.core = c /\ k <= added
    BY <1>1, <1>2, <1>3, <2>1 DEF ClientsOwn, UsedOwn
  <2> QED
    BY <1>1, <1>2, <1>3, <1>4, <2>1, <2>2 DEF UsedOwn
<1> QED
  BY <1>1, <1>5 DEF UseInv

LEMMA UseNext ==
  NumberInv /\ UseInv /\ [Next]_vars => UseInv'
<1> SUFFICES ASSUME NumberInv, UseInv, [Next]_vars
             PROVE  UseInv'
  OBVIOUS
<1>1. CASE \E t \in Threads, k \in Torrents, op \in Uses : EnterUse(t, k, op)
  BY <1>1, EnterUseKeepsUse
<1>2. CASE ~\E t \in Threads, k \in Torrents, op \in Uses : EnterUse(t, k, op)
  <2>1. WellFormed(calls)
    BY DEF NumberInv, Tables
  <2>2. \A u \in Threads : calls'[u].at \in Uses => calls'[u] = calls[u]
    BY <1>2, <2>1, CallsOfOthers
  <2> QED
    BY <2>2, GivenOfOthers, CalmKeepsUse
<1> QED
  BY <1>1, <1>2

LEMMA UseInit == Init => UseInv
<1> SUFFICES ASSUME Init PROVE UseInv
  OBVIOUS
<1>1. \A t \in Threads : calls[t].at \notin Uses
  BY CallParts, ApiAssumption DEF Init, Idle
<1>2. \A k \in Torrents : given[k].id = 0
  BY DEF Init, NotGiven
<1> QED
  BY <1>1, <1>2 DEF UseInv, UsedOwn

\* Only an operation changes what is wanted and what is paused.
LEMMA OnlyUseEffects ==
  ASSUME [Next]_vars, ~\E t \in Threads : UseTorrent(t)
  PROVE  UNCHANGED <<wanted, paused>>
<1>1. ASSUME NEW t \in Threads, NEW cfg \in Configs, InitCall(t, cfg)
      PROVE  UNCHANGED <<wanted, paused>>
  BY <1>1 DEF InitCall, torrentVars
<1>2. ASSUME NEW t \in Threads,
             \/ LoadSettings(t) \/ CheckConfig(t) \/ LaunchTorrent(t) \/ LaunchHttp(t)
             \/ LaunchHangs(t) \/ RegisterHandle(t)
      PROVE  UNCHANGED <<wanted, paused>>
  BY <1>2 DEF LoadSettings, CheckConfig, LaunchTorrent, LaunchHttp, LaunchHangs,
              RegisterHandle, torrentVars
<1>3. ASSUME NEW t \in Threads,
             \/ StopHttp(t) \/ StopTorrent(t) \/ Join(t) \/ ClearServices(t)
             \/ WaitHttp(t) \/ WaitStop(t) \/ WaitTorrent(t) \/ WaitJoin(t)
      PROVE  UNCHANGED <<wanted, paused>>
  BY <1>3 DEF StopHttp, StopTorrent, Join, ClearServices, WaitHttp, WaitStop, WaitTorrent,
              WaitJoin, torrentVars
<1>4. ASSUME NEW t \in Threads,
             \/ AddTorrent(t) \/ Nothing(t) \/ DeleteTorrent(t) \/ Forget(t)
             \/ \E c \in Cores : Close(t, c) \/ Wait(t, c) \/ EnterAdd(t, c)
             \/ \E k \in Torrents :
                  EnterDelete(t, k) \/ \E op \in Uses : EnterUse(t, k, op)
      PROVE  UNCHANGED <<wanted, paused>>
  BY <1>4 DEF AddTorrent, Nothing, DeleteTorrent, Forget, Close, Wait, EnterAdd, EnterDelete,
              EnterUse, torrentVars
<1>5. ASSUME NEW c \in Cores, ListenError(c) \/ LoopEnds(c)
      PROVE  UNCHANGED <<wanted, paused>>
  BY <1>5 DEF ListenError, LoopEnds, torrentVars
<1>6. ASSUME NEW t \in Threads,
             \/ LaunchFails(t) \/ WaitLost(t) \/ CoreGone(t) \/ UrlFails(t)
             \/ \E c \in Cores : DeadNumber(t, c)
      PROVE  UNCHANGED <<wanted, paused>>
  BY <1>6 DEF LaunchFails, WaitLost, CoreGone, UrlFails, DeadNumber, Crash, torrentVars
<1>7. CASE UNCHANGED vars
  BY <1>7 DEF vars, torrentVars
<1> QED
  BY <1>1, <1>2, <1>3, <1>4, <1>5, <1>6, <1>7 DEF Next

LEMMA UseEffects ==
  ASSUME NumberInv, UseInv, [Next]_vars, orderly, NEW k \in Torrents,
         (k \in wanted) # (k \in wanted)' \/ (k \in paused) # (k \in paused)'
  PROVE  \E t \in Threads : /\ calls[t].at \in Uses /\ calls'[t] = Idle
                            /\ \/ calls[t].torrent = k
                               \/ given[calls[t].torrent].id = 0
<1>1. PICK t \in Threads : UseTorrent(t)
  BY OnlyUseEffects
<1> DEFINE c == calls[t].core
           j == calls[t].torrent
           i == infos[c][calls[t].id]
<1>2. calls[t].at \in Uses /\ calls' = [calls EXCEPT ![t] = Idle]
  BY <1>1 DEF UseTorrent, Leave, Return
<1>3. calls'[t] = Idle
  BY <1>2, OneCall, IdleParts DEF NumberInv, Tables
<1>4. k = i
  <2>1. /\ wanted' = wanted \/ wanted' = Wanted(calls[t].at, i, wanted)
        /\ paused' = paused \/ paused' = Paused(calls[t].at, i, paused)
    BY <1>1 DEF UseTorrent
  <2> HIDE DEF i
  <2>2. k # i => (k \in Wanted(calls[t].at, i, wanted)) = (k \in wanted)
    BY DEF Wanted
  <2>3. k # i => (k \in Paused(calls[t].at, i, paused)) = (k \in paused)
    BY DEF Paused
  <2> QED
    BY <2>1, <2>2, <2>3
<1>5. ASSUME given[j].id # 0 PROVE i = j
  <2>1. UsedOwn /\ ClientsOwn
    BY DEF UseInv, NumberInv, Numbered
  <2>2. j \in Torrents /\ given[j].core = c /\ given[j].id = calls[t].id
    BY <1>2, <1>5, <2>1 DEF UsedOwn
  <2> QED
    BY <1>5, <2>1, <2>2 DEF ClientsOwn
<1> QED
  BY <1>2, <1>3, <1>4, <1>5

\* Under the same condition an operation changes the torrent its client means and no
\* other, unless that client deletes the torrent while the call runs, however the
\* threads' calls mix (underlying_handle::get_info by the identifier).
THEOREM EffectsOwn == Spec => OwnEffects
<1>1. ASSUME NumberInv, UseInv, [Next]_vars
      PROVE  [orderly => \A k \in Torrents :
               (k \in wanted) # (k \in wanted)' \/ (k \in paused) # (k \in paused)' =>
                 \E t \in Threads : /\ calls[t].at \in Uses /\ calls'[t] = Idle
                                    /\ \/ calls[t].torrent = k
                                       \/ given[calls[t].torrent].id = 0]_vars
  BY <1>1, UseEffects
<1> QED
  BY <1>1, NumberInit, NumberNext, UseInit, UseNext, PTL DEF Spec, OwnEffects

-----------------------------------------------------------------------------
(* Type correctness: the numbers never run out                              *)

\* A call in progress has a core.
Inside == \A t \in Threads : calls[t].at # "idle" => calls[t].core \in Cores

\* No core knows more torrents than were added.
FewInfos == \A c \in Cores : Cardinality(DOMAIN infos[c]) <= added

TypeInv == TypeOK /\ Inside /\ FewInfos

\* The parts of TypeOK that neither Shape nor the calls have.
RestTyped ==
  /\ crashed \in BOOLEAN /\ settingsError \in BOOLEAN
  /\ created \in 0 .. MaxMade /\ added \in 0 .. MaxMade
  /\ conf \in [Cores -> Configs \cup {NoConfig}]
  /\ services \in [Cores -> SUBSET {"http", "torrent"}]
  /\ DOMAIN handles \subseteq Numbers /\ number \in [Cores -> Numbers \cup {0}]
  /\ DOMAIN infos = Cores /\ \A c \in Cores : IsMap(infos[c], Numbers, Torrents)
  /\ buffer \in [Cores -> SUBSET Torrents]
  /\ wanted \in SUBSET Torrents /\ paused \in SUBSET Torrents
  /\ given \in [Torrents -> [core : Cores \cup {0}, id : Numbers \cup {0}]]
  /\ orderly \in BOOLEAN /\ alone \in BOOLEAN

CallsTyped == calls \in [Threads -> Calls] /\ Inside

LEMMA CallTyped ==
  ASSUME CallsTyped, NEW t \in Threads,
         NEW step \in Steps, NEW c \in Cores \cup {0}, NEW owner \in Cores \cup {0},
         NEW n \in Numbers \cup {0}, NEW k \in Torrents \cup {0}, step # "idle" => c \in Cores,
         calls' = [calls EXCEPT ![t] = Call(step, c, owner, n, k)]
  PROVE  CallsTyped'
<1> DEFINE call == Call(step, c, owner, n, k)
<1>1. call \in Calls /\ call.at = step /\ call.core = c
  BY DEF Call, Calls
<1>2. calls' = [calls EXCEPT ![t] = call] /\ calls \in [Threads -> Calls]
  BY DEF CallsTyped
<1> HIDE DEF call
<1>3. /\ calls' \in [Threads -> Calls]
      /\ \A u \in Threads : calls'[u] = IF u = t THEN call ELSE calls[u]
  BY <1>1, <1>2
<1>4. Inside'
  BY <1>1, <1>3 DEF CallsTyped, Inside
<1> QED
  BY <1>3, <1>4 DEF CallsTyped

LEMMA ReturnTyped ==
  ASSUME CallsTyped, NEW t \in Threads, Return(t)
  PROVE  CallsTyped'
<1>1. "idle" \in Steps
  BY DEF Steps
<1> QED
  BY <1>1, CallTyped DEF Return, Idle

LEMMA GotoTyped ==
  ASSUME Inv, CallsTyped, NEW t \in Threads, NEW step \in Steps, Goto(t, step),
         calls[t].at # "idle"
  PROVE  CallsTyped'
<1>1. calls' = [calls EXCEPT ![t] =
                  Call(step, calls[t].core, calls[t].client, calls[t].id, calls[t].torrent)]
  <2>1. WellFormed(calls) /\ calls' = [calls EXCEPT ![t].at = step]
    BY DEF Inv, Shape, Goto
  <2> QED
    BY ONLY <2>1, t \in Threads, OneStep
<1>2. /\ calls[t].core \in Cores /\ calls[t].client \in Cores \cup {0}
      /\ calls[t].id \in Numbers \cup {0} /\ calls[t].torrent \in Torrents \cup {0}
  <2>1. calls[t] \in Calls
    BY DEF CallsTyped
  <2> QED
    BY <2>1 DEF CallsTyped, Inside, Calls
<1>3. calls[t].core \in Cores \cup {0}
  BY <1>2
<1> QED
  BY ONLY CallsTyped, t \in Threads, step \in Steps, <1>1, <1>2, <1>3, CallTyped

\* A call stays where it is, returns, goes on or begins on a core that is there.
LEMMA CallsStayTyped ==
  ASSUME Inv, TypeInv, [Next]_vars
  PROVE  CallsTyped'
<1>0. CallsTyped /\ TypeOK
  BY DEF TypeInv, TypeOK, CallsTyped
<1> USE ApiAssumption
<1>1. ASSUME calls' = calls PROVE CallsTyped'
  BY <1>0, <1>1 DEF CallsTyped, Inside
<1>2. ASSUME NEW t \in Threads, NEW step \in InitSteps \cup CloseSteps \cup WaitSteps \cup {"forget"},
             Goto(t, step), calls[t].at # "idle"
      PROVE  CallsTyped'
  <2>1. step \in Steps
    BY DEF Steps
  <2> QED
    BY <1>0, <1>2, <2>1, GotoTyped
<1> USE DEF InitSteps, CloseSteps, WaitSteps
<1>3. ASSUME NEW t \in Threads, NEW cfg \in Configs, InitCall(t, cfg) PROVE CallsTyped'
  <2>1. created' = created + 1 /\ created + added < MaxMade
        /\ calls' = [calls EXCEPT ![t] = Call("load", created', created', 0, 0)]
    BY <1>3 DEF InitCall
  <2>2. created' \in Cores /\ created' \in Cores \cup {0} /\ 0 \in Numbers \cup {0}
        /\ 0 \in Torrents \cup {0} /\ "load" \in Steps
    BY <1>0, <2>1 DEF TypeOK, Cores, Steps
  <2> QED
    BY ONLY <1>0, <2>1, <2>2, CallTyped, t \in Threads
<1>4. ASSUME NEW t \in Threads,
             \/ LoadSettings(t) \/ CheckConfig(t) \/ LaunchTorrent(t) \/ LaunchHttp(t)
             \/ LaunchHangs(t) \/ RegisterHandle(t)
      PROVE  CallsTyped'
  <2>1. calls[t].at # "idle"
    BY <1>4 DEF LoadSettings, CheckConfig, LaunchTorrent, LaunchHttp, LaunchHangs,
                RegisterHandle, At
  <2>2. \/ Return(t)
        \/ \E step \in {"check", "launchTorrent", "launchHttp", "register", "stuck"} : Goto(t, step)
    BY <1>4 DEF LoadSettings, CheckConfig, LaunchTorrent, LaunchHttp, LaunchHangs,
                RegisterHandle
  <2> QED
    BY <1>0, <1>2, <2>1, <2>2, ReturnTyped
<1>5. ASSUME NEW t \in Threads,
             \/ StopHttp(t) \/ StopTorrent(t) \/ Join(t) \/ ClearServices(t)
             \/ WaitHttp(t) \/ WaitStop(t) \/ WaitTorrent(t) \/ WaitJoin(t)
      PROVE  CallsTyped'
  <2>1. calls[t].at # "idle"
    BY <1>5 DEF StopHttp, StopTorrent, Join, ClearServices, WaitHttp, WaitStop, WaitTorrent,
                WaitJoin, At
  <2>2. \/ Return(t)
        \/ \E step \in {"stopTorrent", "join", "clear", "waitStop", "waitTorrent", "waitJoin"} :
             Goto(t, step)
    BY <1>5 DEF StopHttp, StopTorrent, Join, ClearServices, WaitHttp, WaitStop, WaitTorrent,
                WaitJoin, Leave
  <2> QED
    BY <1>0, <1>2, <2>1, <2>2, ReturnTyped
<1>6. ASSUME NEW t \in Threads,
             AddTorrent(t) \/ Nothing(t) \/ UseTorrent(t) \/ DeleteTorrent(t) \/ Forget(t)
      PROVE  CallsTyped'
  <2>1. Return(t) \/ (Goto(t, "forget") /\ calls[t].at # "idle")
    BY <1>6 DEF AddTorrent, Nothing, UseTorrent, DeleteTorrent, Forget, Leave, At
  <2> QED
    BY <1>0, <1>2, <2>1, ReturnTyped
<1>7. ASSUME NEW t \in Threads, NEW c \in Cores, Close(t, c) \/ Wait(t, c) \/ EnterAdd(t, c)
      PROVE  CallsTyped'
  <2>1. PICK step \in {"stopHttp", "waitHttp", "add"} :
          /\ number[c] \in DOMAIN handles
          /\ calls' = [calls EXCEPT ![t] = Call(step, handles[number[c]], c, 0, 0)]
    BY <1>7 DEF Close, Wait, EnterAdd
  <2>2. handles[number[c]] \in Cores
    BY <2>1 DEF Inv, Shape
  <2>3. handles[number[c]] \in Cores \cup {0} /\ c \in Cores \cup {0} /\ 0 \in Numbers \cup {0}
        /\ 0 \in Torrents \cup {0} /\ step \in Steps
    BY <2>2 DEF Steps
  <2> QED
    BY ONLY <1>0, <2>1, <2>2, <2>3, CallTyped, t \in Threads
<1>8. ASSUME NEW t \in Threads, NEW k \in Torrents,
             EnterDelete(t, k) \/ \E op \in Uses : EnterUse(t, k, op)
      PROVE  CallsTyped'
  <2> DEFINE c == given[k].core
             n == given[k].id
  <2>1. PICK step \in Uses \cup {"delete"} :
          /\ number[c] \in DOMAIN handles
          /\ calls' = [calls EXCEPT ![t] = Call(step, handles[number[c]], c, n, k)]
    BY <1>8 DEF EnterDelete, EnterUse
  <2>2. c \in Cores \cup {0} /\ n \in Numbers \cup {0}
    BY <1>0 DEF TypeOK
  <2> HIDE DEF c, n
  <2>3. handles[number[c]] \in Cores
    BY <2>1 DEF Inv, Shape
  <2>4. handles[number[c]] \in Cores \cup {0} /\ k \in Torrents \cup {0} /\ step \in Steps
    BY <2>3 DEF Steps
  <2> QED
    BY ONLY <1>0, <2>1, <2>2, <2>3, <2>4, CallTyped, t \in Threads
<1>9. ASSUME NEW c \in Cores, ListenError(c) \/ LoopEnds(c) PROVE calls' = calls
  BY <1>9 DEF ListenError, LoopEnds
<1>10. ASSUME NEW t \in Threads,
              \/ LaunchFails(t) \/ WaitLost(t) \/ CoreGone(t) \/ UrlFails(t)
              \/ \E c \in Cores : DeadNumber(t, c)
       PROVE  calls' = calls
  BY <1>10 DEF LaunchFails, WaitLost, CoreGone, UrlFails, DeadNumber, Crash
<1>11. CASE UNCHANGED vars
  BY <1>1, <1>11 DEF vars
<1> QED
  BY <1>1, <1>3, <1>4, <1>5, <1>6, <1>7, <1>8, <1>9, <1>10, <1>11 DEF Next

\* Different handles have different cores, so while one has none a number is free.
LEMMA NumberLeft ==
  ASSUME Inv, TypeOK, NEW t \in Threads, calls[t].at = "register"
  PROVE  NewNumber(handles) \in Numbers
<1> DEFINE c == calls[t].core
           others == Cores \ {c}
           f == [n \in DOMAIN handles |-> handles[n]]
<1>1. /\ c \in Cores /\ \A n \in DOMAIN handles : handles[n] \in others
      /\ \A m, n \in DOMAIN handles : handles[m] = handles[n] => m = n
  BY DEF Inv, Shape, OnePlace, Engaged, InitSteps
<1>2. /\ IsFiniteSet(others) /\ Cardinality(others) = MaxMade - 1
      /\ IsFiniteSet(Cores) /\ Cardinality(Cores) = MaxMade
  <2>1. IsFiniteSet(Cores) /\ Cardinality(Cores) = MaxMade
    BY ApiAssumption, FS_Interval DEF Cores
  <2> HIDE DEF c
  <2> QED
    BY <1>1, <2>1, FS_RemoveElement
<1>3. IsFiniteSet(DOMAIN handles) /\ Cardinality(DOMAIN handles) \in Nat
  <2>1. DOMAIN handles \in SUBSET Numbers
    BY DEF TypeOK, IsMap
  <2>2. IsFiniteSet(Numbers)
    BY ApiAssumption, FS_Interval DEF Numbers
  <2> QED
    BY <2>1, <2>2, FS_Subset, FS_CardinalityType
<1>4. f \in [DOMAIN handles -> others]
  BY <1>1
<1>5. \A m, n \in DOMAIN handles : f[m] = f[n] => m = n
  BY <1>1
<1> HIDE DEF f, others
<1>6. ~(Cardinality(others) < Cardinality(DOMAIN handles))
  <2> SUFFICES ASSUME Cardinality(others) < Cardinality(DOMAIN handles) PROVE FALSE
    OBVIOUS
  <2>1. \E m, n \in DOMAIN handles : m # n /\ f[m] = f[n]
    BY <1>2, <1>3, <1>4, FS_PigeonHole
  <2> QED
    BY <1>5, <2>1
<1> QED
  BY <1>2, <1>3, <1>6, ApiAssumption DEF NewNumber, Size, Numbers

\* An identifier is left while a torrent may be added, and the tables stay small.
LEMMA IdentifierLeft ==
  ASSUME NEW m, IsMap(m, Numbers, Torrents), added \in Nat, added + 1 \in 1 .. MaxMade,
         Cardinality(DOMAIN m) <= added
  PROVE  LET n == NewIdentifier(m, added + 1)
             table == Inserted(m, n, added + 1)
         IN  /\ n \in Numbers /\ IsMap(table, Numbers, Torrents)
             /\ Cardinality(DOMAIN table) <= added + 1
<1> DEFINE n == NewIdentifier(m, added + 1)
           table == Inserted(m, n, added + 1)
<1>1. IsFiniteSet(DOMAIN m) /\ Cardinality(DOMAIN m) \in Nat
  <2>1. DOMAIN m \in SUBSET Numbers
    BY DEF IsMap
  <2>2. IsFiniteSet(Numbers)
    BY ApiAssumption, FS_Interval DEF Numbers
  <2> QED
    BY <2>1, <2>2, FS_Subset, FS_CardinalityType
<1>2. n \in Numbers
  <2>1. Cardinality(DOMAIN m) + 1 \in 1 .. MaxMade
    BY <1>1, ApiAssumption
  <2> QED
    BY <2>1 DEF NewIdentifier, Size, Numbers
<1>3. added + 1 \in Torrents
  BY DEF Torrents
<1> HIDE DEF n
<1>4. CASE n \in DOMAIN m
  <2>1. table = m
    BY <1>4 DEF Inserted
  <2> QED
    BY <1>1, <1>2, <2>1 DEF n
<1>5. CASE n \notin DOMAIN m
  <2>1. table = [x \in DOMAIN m \cup {n} |-> IF x = n THEN added + 1 ELSE m[x]]
    BY <1>5 DEF Inserted, Put
  <2>2. IsMap(table, Numbers, Torrents)
    BY <1>2, <1>3, <2>1 DEF IsMap
  <2>3. Cardinality(DOMAIN m \cup {n}) = Cardinality(DOMAIN m) + 1
    BY <1>1, <1>5, FS_AddElement
  <2>4. DOMAIN table = DOMAIN m \cup {n}
    BY <2>1
  <2> QED
    BY <1>1, <1>2, <2>2, <2>3, <2>4 DEF n
<1> QED
  BY <1>4, <1>5

\* The steps of the client's side and of t2h_init and t2h_close that change these parts.
LEMMA MakingTyped ==
  ASSUME Inv, Inv', TypeInv, NEW t \in Threads,
         \/ \E cfg \in Configs : InitCall(t, cfg)
         \/ \E c \in Cores : Close(t, c)
         \/ LoadSettings(t) \/ CheckConfig(t) \/ LaunchHttp(t) \/ RegisterHandle(t)
         \/ ClearServices(t)
  PROVE  RestTyped' /\ FewInfos'
<1>0. RestTyped /\ FewInfos /\ CallsTyped /\ TypeOK
  BY DEF TypeInv, TypeOK, RestTyped, CallsTyped, IsMap
<1> USE ApiAssumption
<1> DEFINE c == calls[t].core
<1>1. ASSUME NEW cfg \in Configs, InitCall(t, cfg) PROVE RestTyped' /\ FewInfos'
  <2>1. /\ created' = created + 1 /\ created + added < MaxMade
        /\ conf' = [conf EXCEPT ![created'] = cfg] /\ alone' \in BOOLEAN
        /\ UNCHANGED <<crashed, settingVars, coreVars, numberVars, torrentVars>>
    BY <1>0, <1>1 DEF InitCall, RestTyped
  <2>2. created' \in 0 .. MaxMade
    BY <1>0, <2>1 DEF RestTyped
  <2>3. conf' \in [Cores -> Configs \cup {NoConfig}]
    BY <1>0, <2>1 DEF RestTyped
  <2>4. UNCHANGED <<crashed, settingsError, added, services, handles, number, infos, buffer,
                    wanted, paused, given, orderly>>
    BY <2>1 DEF settingVars, coreVars, numberVars, torrentVars
  <2> QED
    BY <1>0, <2>1, <2>2, <2>3, <2>4 DEF RestTyped, FewInfos, IsMap
<1>2. CASE LoadSettings(t)
  <2>1. /\ settingsError' \in BOOLEAN
        /\ UNCHANGED <<crashed, created, alone, conf, added, services, handles, number, infos,
                       buffer, wanted, paused, given, orderly>>
    BY <1>2 DEF LoadSettings, coreVars, numberVars, torrentVars, makingVars
  <2> QED
    BY <1>0, <2>1 DEF RestTyped, FewInfos, IsMap
<1>3. CASE CheckConfig(t)
  <2>1. /\ conf' = [conf EXCEPT ![c] = NoConfig] \/ conf' = conf
        /\ UNCHANGED <<crashed, settingsError, created, alone, added, services, handles, number,
                       infos, buffer, wanted, paused, given, orderly>>
    BY <1>3 DEF CheckConfig, settingVars, coreVars, numberVars, torrentVars
  <2>2. conf' \in [Cores -> Configs \cup {NoConfig}]
    BY <1>0, <2>1 DEF RestTyped
  <2> QED
    BY <1>0, <2>1, <2>2 DEF RestTyped, FewInfos, IsMap
<1>4. CASE LaunchHttp(t)
  <2>1. /\ services' = [services EXCEPT ![c] = {"http", "torrent"}]
        /\ UNCHANGED <<crashed, settingsError, created, alone, conf, added, handles, number,
                       infos, buffer, wanted, paused, given, orderly>>
    BY <1>4 DEF LaunchHttp, Registrate, settingVars, numberVars, torrentVars, makingVars
  <2>2. services' \in [Cores -> SUBSET {"http", "torrent"}]
    BY <1>0, <2>1 DEF RestTyped
  <2> QED
    BY <1>0, <2>1, <2>2 DEF RestTyped, FewInfos, IsMap
<1>5. CASE RegisterHandle(t)
  <2> DEFINE n == NewNumber(handles)
  <2>1. /\ handles' = [x \in DOMAIN handles \cup {n} |-> IF x = n THEN c ELSE handles[x]]
        /\ number' = [number EXCEPT ![c] = n] /\ calls[t].at = "register"
        /\ UNCHANGED <<crashed, settingsError, created, alone, conf, added, services,
                       infos, buffer, wanted, paused, given, orderly>>
    BY <1>5 DEF RegisterHandle, At, Put, settingVars, torrentVars, makingVars
  <2>2. n \in Numbers
    BY <1>0, <2>1, NumberLeft
  <2> HIDE DEF n, c
  <2>3. DOMAIN handles' \subseteq Numbers /\ number' \in [Cores -> Numbers \cup {0}]
    BY <1>0, <2>1, <2>2 DEF RestTyped
  <2> QED
    BY <1>0, <2>1, <2>3 DEF RestTyped, FewInfos, IsMap
<1>6. ASSUME NEW d \in Cores, Close(t, d) PROVE RestTyped' /\ FewInfos'
  <2>1. /\ DOMAIN handles' \subseteq DOMAIN handles
        /\ number' = [number EXCEPT ![d] = 0] /\ orderly' \in BOOLEAN
        /\ UNCHANGED <<crashed, settingsError, created, alone, conf, added, services,
                       infos, buffer, wanted, paused, given>>
    BY <1>0, <1>6 DEF Close, Without, Newest, RestTyped, settingVars, coreVars, torrentVars,
                      makingVars
  <2>2. DOMAIN handles' \subseteq Numbers /\ number' \in [Cores -> Numbers \cup {0}]
    BY <1>0, <2>1 DEF RestTyped
  <2> QED
    BY <1>0, <2>1, <2>2 DEF RestTyped, FewInfos, IsMap
<1>7. CASE ClearServices(t)
  <2>1. /\ services' = [services EXCEPT ![c] = {}] /\ conf' = [conf EXCEPT ![c] = NoConfig]
        /\ UNCHANGED <<crashed, settingsError, created, alone, added, handles, number,
                       infos, buffer, wanted, paused, given, orderly>>
    BY <1>7 DEF ClearServices, settingVars, numberVars, torrentVars
  <2>2. services' \in [Cores -> SUBSET {"http", "torrent"}]
    BY <1>0, <2>1 DEF RestTyped
  <2>3. conf' \in [Cores -> Configs \cup {NoConfig}]
    BY <1>0, <2>1 DEF RestTyped
  <2> QED
    BY <1>0, <2>1, <2>2, <2>3 DEF RestTyped, FewInfos, IsMap
<1> QED
  BY <1>1, <1>2, <1>3, <1>4, <1>5, <1>6, <1>7

\* The operations on torrents that change them.
LEMMA TorrentsTyped ==
  ASSUME Inv, TypeInv, NEW t \in Threads,
         \/ \E k \in Torrents : EnterDelete(t, k)
         \/ AddTorrent(t) \/ UseTorrent(t) \/ DeleteTorrent(t) \/ Forget(t)
  PROVE  RestTyped' /\ FewInfos'
<1>0. RestTyped /\ FewInfos /\ CallsTyped /\ TypeOK
  BY DEF TypeInv, TypeOK, RestTyped, CallsTyped, IsMap
<1> USE ApiAssumption
<1> DEFINE c == calls[t].core
<1>1. ASSUME NEW k \in Torrents, EnterDelete(t, k) PROVE RestTyped' /\ FewInfos'
  <2>1. /\ given' = [given EXCEPT ![k] = NotGiven]
        /\ UNCHANGED <<crashed, settingsError, created, alone, conf, added, services, handles,
                       number, infos, buffer, wanted, paused, orderly>>
    BY <1>1 DEF EnterDelete, settingVars, coreVars, torrentVars, makingVars
  <2>2. given' \in [Torrents -> [core : Cores \cup {0}, id : Numbers \cup {0}]]
    <3>1. NotGiven \in [core : Cores \cup {0}, id : Numbers \cup {0}]
      BY DEF NotGiven
    <3> QED
      BY <1>0, <2>1, <3>1 DEF RestTyped
  <2> QED
    BY <1>0, <2>1, <2>2 DEF RestTyped, FewInfos, IsMap
<1>2. CASE AddTorrent(t)
  <2> DEFINE n == NewIdentifier(infos[c], added + 1)
             table == Inserted(infos[c], n, added + 1)
             owner == calls[t].client
             gift == [core |-> owner, id |-> n]
  <2>1. /\ added' = added + 1 /\ created + added < MaxMade
        /\ buffer' = [buffer EXCEPT ![c] = @ \cup {added + 1}]
        /\ infos' = [infos EXCEPT ![c] = table]
        /\ given' = [given EXCEPT ![added + 1] = gift]
        /\ UNCHANGED <<crashed, settingsError, created, alone, conf, services, handles, number,
                       wanted, paused, orderly>>
    BY <1>2 DEF AddTorrent, settingVars, makingVars
  <2>2. c \in Cores
    BY <1>0, <1>2 DEF AddTorrent, At, CallsTyped, Inside
  <2>3. added \in Nat /\ added + 1 \in 1 .. MaxMade /\ added' \in 0 .. MaxMade
    BY <1>0, <2>1 DEF RestTyped
  <2>4. /\ IsMap(infos[c], Numbers, Torrents) /\ Cardinality(DOMAIN infos[c]) <= added
    BY <1>0, <2>2 DEF RestTyped, FewInfos
  <2> HIDE DEF c
  <2>5. /\ n \in Numbers /\ IsMap(table, Numbers, Torrents)
        /\ Cardinality(DOMAIN table) <= added + 1
    BY <2>3, <2>4, IdentifierLeft
  <2> HIDE DEF n, table
  <2>6. gift \in [core : Cores \cup {0}, id : Numbers \cup {0}]
    <3>1. calls[t] \in Calls
      BY <1>0 DEF CallsTyped
    <3>2. owner \in Cores \cup {0}
      BY <3>1 DEF Calls
    <3> QED
      BY <2>5, <3>2
  <2> HIDE DEF gift
  <2>7. /\ given' \in [Torrents -> [core : Cores \cup {0}, id : Numbers \cup {0}]]
    BY <1>0, <2>1, <2>6 DEF RestTyped
  <2>8. buffer' \in [Cores -> SUBSET Torrents]
    <3>1. added + 1 \in Torrents
      BY <2>3 DEF Torrents
    <3> QED
      BY <1>0, <2>1, <3>1 DEF RestTyped
  <2>9. DOMAIN infos' = Cores /\ \A d \in Cores : infos'[d] = IF d = c THEN table ELSE infos[d]
    BY <1>0, <2>1 DEF RestTyped
  <2>10. \A d \in Cores : IsMap(infos'[d], Numbers, Torrents)
    BY <1>0, <2>5, <2>9 DEF RestTyped
  <2>11. FewInfos'
    <3> SUFFICES ASSUME NEW d \in Cores PROVE Cardinality(DOMAIN infos'[d]) <= added'
      BY DEF FewInfos
    <3>1. CASE d = c
      BY <2>1, <2>5, <2>9, <3>1
    <3>2. CASE d # c
      <4>1. infos'[d] = infos[d] /\ Cardinality(DOMAIN infos[d]) <= added
        BY <1>0, <2>9, <3>2 DEF FewInfos
      <4>2. Cardinality(DOMAIN infos[d]) \in Nat
        <5>1. DOMAIN infos[d] \in SUBSET Numbers
          BY <1>0 DEF RestTyped, IsMap
        <5>2. IsFiniteSet(Numbers)
          BY FS_Interval DEF Numbers
        <5> QED
          BY <5>1, <5>2, FS_Subset, FS_CardinalityType
      <4> QED
        BY <2>1, <2>3, <4>1, <4>2
    <3> QED
      BY <3>1, <3>2
  <2> QED
    BY <1>0, <2>1, <2>3, <2>7, <2>8, <2>9, <2>10, <2>11 DEF RestTyped
<1>3. CASE UseTorrent(t)
  <2> DEFINE k == infos[c][calls[t].id]
  <2>1. /\ UNCHANGED <<crashed, settingsError, created, alone, conf, added, services, handles,
                       number, infos, buffer, given, orderly>>
        /\ wanted' \in {wanted, Wanted(calls[t].at, k, wanted)}
        /\ paused' \in {paused, Paused(calls[t].at, k, paused)}
    BY <1>3 DEF UseTorrent, settingVars, numberVars, makingVars
  <2>2. k \in Torrents
    <3>1. calls[t].at # "idle" /\ calls[t].id \in DOMAIN infos[c]
      BY <1>3 DEF UseTorrent, Known
    <3>2. c \in Cores
      BY <1>0, <3>1 DEF CallsTyped, Inside
    <3> QED
      BY <1>0, <3>1, <3>2 DEF RestTyped, IsMap
  <2> HIDE DEF k
  <2>3. wanted' \in SUBSET Torrents /\ paused' \in SUBSET Torrents
    BY <1>0, <2>1, <2>2 DEF RestTyped, Wanted, Paused
  <2> QED
    BY <1>0, <2>1, <2>3 DEF RestTyped, FewInfos, IsMap
<1>4. CASE DeleteTorrent(t)
  <2>1. /\ UNCHANGED <<crashed, settingsError, created, alone, conf, added, services, handles,
                       number, infos, given, orderly, wanted, paused>>
        /\ \E gone : buffer' = [buffer EXCEPT ![c] = buffer[c] \ gone]
    <3>1. buffer' = [buffer EXCEPT ![c] =
             IF torrent[c] = "running" THEN buffer[c] \ {infos[c][calls[t].id]} ELSE buffer[c]]
      BY <1>4 DEF DeleteTorrent
    <3>2. \/ buffer' = [buffer EXCEPT ![c] = buffer[c] \ {infos[c][calls[t].id]}]
          \/ buffer' = [buffer EXCEPT ![c] = buffer[c]]
      BY <3>1
    <3>3. buffer[c] = buffer[c] \ {}
      <4>1. c \in Cores
        BY <1>0, <1>4 DEF DeleteTorrent, At, CallsTyped, Inside
      <4>2. buffer[c] \subseteq Torrents
        BY <1>0, <4>1 DEF RestTyped
      <4> QED
        BY <4>2
    <3>4. \E gone : buffer' = [buffer EXCEPT ![c] = buffer[c] \ gone]
      BY <3>2, <3>3
    <3> QED
      BY <1>4, <3>4 DEF DeleteTorrent, settingVars, coreVars, numberVars, makingVars
  <2>2. buffer' \in [Cores -> SUBSET Torrents]
    <3>1. PICK gone : buffer' = [buffer EXCEPT ![c] = buffer[c] \ gone]
      BY <2>1
    <3>2. c \in Cores /\ buffer \in [Cores -> SUBSET Torrents]
      BY <1>0, <1>4 DEF DeleteTorrent, At, CallsTyped, Inside, RestTyped
    <3> HIDE DEF c
    <3> DEFINE left == buffer[c] \ gone
    <3>3. left \in SUBSET Torrents
      BY <3>2
    <3>4. buffer' = [buffer EXCEPT ![c] = left]
      BY <3>1
    <3> HIDE DEF left
    <3> QED
      BY <3>2, <3>3, <3>4
  <2> QED
    BY <1>0, <2>1, <2>2 DEF RestTyped, FewInfos, IsMap
<1>5. CASE Forget(t)
  <2> DEFINE n == calls[t].id
             table == Without(infos[c], n)
  <2>1. /\ infos' = [infos EXCEPT ![c] = table] /\ orderly' \in BOOLEAN
        /\ UNCHANGED <<crashed, settingsError, created, alone, conf, added, services, handles,
                       number, buffer, wanted, paused, given>>
    BY <1>0, <1>5 DEF Forget, RestTyped, Newest, settingVars, torrentVars, makingVars
  <2>2. c \in Cores
    BY <1>0, <1>5 DEF Forget, At, CallsTyped, Inside
  <2>3. /\ DOMAIN table \subseteq DOMAIN infos[c] /\ IsMap(infos[c], Numbers, Torrents)
        /\ \A x \in DOMAIN table : table[x] = infos[c][x]
    BY <1>0, <2>2 DEF Without, RestTyped
  <2> HIDE DEF table, c
  <2>4. DOMAIN infos' = Cores /\ \A d \in Cores : infos'[d] = IF d = c THEN table ELSE infos[d]
    BY <1>0, <2>1 DEF RestTyped
  <2>5. \A d \in Cores : IsMap(infos'[d], Numbers, Torrents)
    <3>1. IsMap(table, Numbers, Torrents)
      BY <2>3 DEF IsMap
    <3> QED
      BY <1>0, <2>4, <3>1 DEF RestTyped
  <2>6. Cardinality(DOMAIN table) <= added
    <3>1. IsFiniteSet(DOMAIN infos[c]) /\ Cardinality(DOMAIN infos[c]) \in Nat
      <4>1. DOMAIN infos[c] \in SUBSET Numbers
        BY <2>3 DEF IsMap
      <4>2. IsFiniteSet(Numbers)
        BY FS_Interval DEF Numbers
      <4> QED
        BY <4>1, <4>2, FS_Subset, FS_CardinalityType
    <3>2. IsFiniteSet(DOMAIN table) /\ Cardinality(DOMAIN table) <= Cardinality(DOMAIN infos[c])
      BY <2>3, <3>1, FS_Subset
    <3>3. Cardinality(DOMAIN table) \in Nat
      BY <3>2, FS_CardinalityType
    <3> QED
      BY <1>0, <2>2, <3>1, <3>2, <3>3 DEF FewInfos, RestTyped
  <2>7. FewInfos'
    BY <1>0, <2>1, <2>4, <2>6 DEF FewInfos
  <2> QED
    BY <1>0, <2>1, <2>4, <2>5, <2>7 DEF RestTyped
<1> QED
  BY <1>1, <1>2, <1>3, <1>4, <1>5

\* All the other steps leave these parts alone, or only crash.
LEMMA RestStaysTyped ==
  ASSUME Inv, Inv', TypeInv, [Next]_vars
  PROVE  RestTyped' /\ FewInfos'
<1>0. RestTyped /\ FewInfos
  BY DEF TypeInv, TypeOK, RestTyped, IsMap
<1> DEFINE kept == <<settingsError, created, alone, conf, added, services, handles, number,
                     infos, buffer, wanted, paused, given, orderly>>
<1>1. ASSUME UNCHANGED kept, crashed' \in BOOLEAN PROVE RestTyped' /\ FewInfos'
  BY <1>0, <1>1 DEF RestTyped, FewInfos, IsMap
<1>c. crashed \in BOOLEAN
  BY <1>0 DEF RestTyped
<1>2. ASSUME NEW t \in Threads,
             LaunchTorrent(t) \/ LaunchHangs(t) \/ StopHttp(t) \/ StopTorrent(t) \/ Join(t)
      PROVE  UNCHANGED <<crashed, kept>>
  BY <1>2 DEF LaunchTorrent, LaunchHangs, StopHttp, StopTorrent, Join, settingVars, coreVars,
              numberVars, torrentVars, makingVars
<1>3. ASSUME NEW t \in Threads,
             \/ WaitHttp(t) \/ WaitStop(t) \/ WaitTorrent(t) \/ WaitJoin(t) \/ Nothing(t)
             \/ \E c \in Cores : Wait(t, c) \/ EnterAdd(t, c)
             \/ \E k \in Torrents, op \in Uses : EnterUse(t, k, op)
      PROVE  UNCHANGED <<crashed, kept>>
  BY <1>3 DEF WaitHttp, WaitStop, WaitTorrent, WaitJoin, Nothing, Wait, EnterAdd, EnterUse,
              settingVars, coreVars, numberVars, torrentVars, makingVars
<1>4. ASSUME NEW c \in Cores, ListenError(c) \/ LoopEnds(c)
      PROVE  UNCHANGED <<crashed, kept>>
  BY <1>4 DEF ListenError, LoopEnds, settingVars, numberVars, torrentVars, makingVars
<1>5. ASSUME NEW t \in Threads,
             \/ LaunchFails(t) \/ WaitLost(t) \/ CoreGone(t) \/ UrlFails(t)
             \/ \E c \in Cores : DeadNumber(t, c)
      PROVE  crashed' = TRUE /\ UNCHANGED kept
  BY <1>5 DEF LaunchFails, WaitLost, CoreGone, UrlFails, DeadNumber, Crash, settingVars,
              coreVars, numberVars, torrentVars, makingVars
<1>6. CASE UNCHANGED vars
  BY <1>1, <1>c, <1>6 DEF vars, settingVars, coreVars, numberVars, torrentVars, makingVars
<1>7. ASSUME UNCHANGED <<crashed, kept>> PROVE RestTyped' /\ FewInfos'
  BY <1>1, <1>c, <1>7
<1>8. ASSUME crashed' = TRUE /\ UNCHANGED kept PROVE RestTyped' /\ FewInfos'
  BY <1>1, <1>8
<1> HIDE DEF kept
<1> QED
  BY <1>2, <1>3, <1>4, <1>5, <1>6, <1>7, <1>8, MakingTyped, TorrentsTyped DEF Next

\* Type correctness of the C API over its cores, for any number of threads, cores and
\* torrents: neither the numbers of the handles nor the identifiers run out.
THEOREM TypeCorrect == Spec => []TypeOK
<1>1. Init => TypeInv
  <2> SUFFICES ASSUME Init PROVE TypeInv
    OBVIOUS
  <2>1. calls \in [Threads -> Calls] /\ Inside
    BY ApiAssumption DEF Init, Idle, Call, Calls, Steps, Inside
  <2>2. FewInfos
    <3>1. \A c \in Cores : DOMAIN infos[c] = {}
      BY DEF Init
    <3> QED
      BY <3>1, FS_EmptySet DEF Init, FewInfos
  <2>3. NotGiven \in [core : Cores \cup {0}, id : Numbers \cup {0}]
    BY DEF NotGiven
  <2>4. TypeOK
    <3>1. RestTyped
      <4>1. /\ IsMap(handles, Numbers, Cores) /\ number \in [Cores -> Numbers \cup {0}]
            /\ DOMAIN infos = Cores /\ \A c \in Cores : IsMap(infos[c], Numbers, Torrents)
        BY DEF Init, IsMap
      <4>2. /\ created \in 0 .. MaxMade /\ added \in 0 .. MaxMade
            /\ conf \in [Cores -> Configs \cup {NoConfig}]
            /\ services \in [Cores -> SUBSET {"http", "torrent"}]
        BY ApiAssumption DEF Init
      <4>3. /\ buffer \in [Cores -> SUBSET Torrents]
            /\ wanted \in SUBSET Torrents /\ paused \in SUBSET Torrents
            /\ given \in [Torrents -> [core : Cores \cup {0}, id : Numbers \cup {0}]]
        BY <2>3 DEF Init
      <4>4. crashed \in BOOLEAN /\ settingsError \in BOOLEAN /\ orderly \in BOOLEAN /\ alone \in BOOLEAN
        BY DEF Init
      <4> QED
        BY ONLY <4>1, <4>2, <4>3, <4>4 DEF RestTyped, IsMap
    <3>2. /\ torrent \in [Cores -> {"off", "running", "stoped"}]
          /\ loop \in [Cores -> {"off", "running", "ended"}]
          /\ http \in [Cores -> {"off", "running", "stoped"}]
          /\ server \in [Cores -> Configs \cup {NoConfig}]
          /\ session \in [Cores -> BOOLEAN] /\ listenFailed \in [Cores -> BOOLEAN]
          /\ closed \in SUBSET Cores /\ settings \in Parsable \cup {NoConfig}
      BY DEF Init
    <3> QED
      <4>1. IsMap(handles, Numbers, Cores)
        BY DEF Init, IsMap
      <4> QED
        BY ONLY <2>1, <3>1, <3>2, <4>1 DEF TypeOK, RestTyped
  <2> QED
    BY <2>1, <2>2, <2>4 DEF TypeInv
<1>2. SettingsTyped /\ Inv /\ TypeInv /\ [Next]_vars => TypeInv'
  <2> SUFFICES ASSUME SettingsTyped, Inv, TypeInv, [Next]_vars PROVE TypeInv'
    OBVIOUS
  <2>1. Inv'
    BY InvNext
  <2>2. CallsTyped' /\ RestTyped' /\ FewInfos'
    BY <2>1, CallsStayTyped, RestStaysTyped
  <2>3. settings' \in Parsable \cup {NoConfig}
    BY SettingsChange DEF TypeInv, TypeOK, LoadSettings
  <2> QED
    BY <2>1, <2>2, <2>3 DEF TypeInv, TypeOK, Inv, Shape, CallsTyped, RestTyped, IsMap
<1>3. Init => SettingsTyped
  BY DEF Init, SettingsTyped
<1>4. TypeInv => TypeOK
  BY DEF TypeInv
<1> QED
  BY <1>1, <1>2, <1>3, <1>4, InvInit, InvNext, SettingsStep, PTL DEF Spec

-----------------------------------------------------------------------------
(* One core at a time: it is served with its own settings                   *)

Served(c) ==
  /\ settings = conf[c] /\ server[c] = conf[c] /\ http[c] = "running"
  /\ torrent[c] = "running" \/ listenFailed[c]

\* One core is open, or one thread makes or closes one.
OneOpen ==
  /\ \A c, d \in Cores : number[c] # 0 /\ number[d] # 0 => c = d
  /\ \A t \in Threads : Engaged(t) => \A c \in Cores : number[c] = 0
  /\ \A t, u \in Threads : Engaged(t) /\ Engaged(u) => t = u
  /\ \A c \in Cores : number[c] # 0 =>
       number[c] \in DOMAIN handles /\ handles[number[c]] = c /\ Served(c)

\* What the steps of t2h_init have brought the new core.
Prepared(step, c) ==
  /\ (step = "check" /\ ~settingsError) => settings = conf[c]
  /\ step \in {"launchTorrent", "launchHttp", "register"} => settings = conf[c]
  /\ step \in {"launchHttp", "register"} => torrent[c] = "running" \/ listenFailed[c]
  /\ step = "register" => server[c] = conf[c] /\ http[c] = "running"

SoleInv == alone => OneOpen /\ \A t \in Threads : Prepared(calls[t].at, calls[t].core)

\* Another step, which stops no torrent core that has a number or is being made.
LEMMA AsideServed ==
  ASSUME Inv, SoleInv,
         UNCHANGED <<settings, settingsError, conf, number, handles, alone, http, server>>,
         \A u \in Threads : Engaged(u)' => Engaged(u) /\ calls'[u] = calls[u],
         \A c \in Cores :
           (\E n \in DOMAIN handles : handles[n] = c)
             \/ (\E u \in Threads : Engaged(u)' /\ calls'[u].core = c) =>
           (torrent[c] = "running" \/ listenFailed[c]
              => torrent'[c] = "running" \/ listenFailed'[c])
  PROVE  SoleInv'
<1> SUFFICES ASSUME alone'
             PROVE  OneOpen' /\ \A t \in Threads : Prepared(calls[t].at, calls[t].core)'
  BY DEF SoleInv
<1>1. OneOpen /\ \A t \in Threads : Prepared(calls[t].at, calls[t].core)
  BY DEF SoleInv
<1>2. OneOpen'
  <2>1. ASSUME NEW c \in Cores, number'[c] # 0
        PROVE  number'[c] \in DOMAIN handles' /\ handles'[number'[c]] = c /\ Served(c)'
    BY <1>1, <2>1 DEF OneOpen, Served
  <2> QED
    BY <1>1, <2>1 DEF OneOpen
<1>3. ASSUME NEW t \in Threads PROVE Prepared(calls[t].at, calls[t].core)'
  <2>1. CASE Engaged(t)'
    <3>1. calls'[t] = calls[t] /\ calls[t].core \in Cores
      BY <2>1 DEF Inv, OnePlace
    <3> QED
      BY <1>1, <2>1, <3>1 DEF Prepared
  <2>2. CASE ~Engaged(t)'
    BY <2>2 DEF Prepared, Engaged, InitSteps
  <2> QED
    BY <2>1, <2>2
<1> QED
  BY <1>2, <1>3

\* A torrent core that is still referred to is not stopped.
LEMMA Spared ==
  ASSUME Inv, NEW table, DestroyReleased(table), NEW c \in Cores, Referred(table, calls', c)
  PROVE  torrent'[c] = torrent[c]
BY DEF DestroyReleased, Inv, Shape

LEMMA CallServed ==
  ASSUME Inv, SoleInv, NEW t \in Threads, ~Engaged(t), NEW call, IsCall(call),
         call.at \notin InitSteps \cup CloseSteps,
         calls' = [calls EXCEPT ![t] = call],
         UNCHANGED <<settings, settingsError, conf, number, handles, alone>>,
         UNCHANGED serviceVars \/ DestroyReleased(handles)
  PROVE  SoleInv'
<1>1. WellFormed(calls)
  BY DEF Inv, Shape
<1>2. calls'[t] = call /\ \A u \in Threads : u # t => calls'[u] = calls[u]
  BY <1>1, OneCall
<1>3. \A u \in Threads : Engaged(u)' => Engaged(u) /\ calls'[u] = calls[u]
  BY <1>2 DEF Engaged
<1>4. UNCHANGED <<http, server, listenFailed>>
  BY DEF serviceVars, DestroyReleased
<1>5. ASSUME NEW c \in Cores,
             (\E n \in DOMAIN handles : handles[n] = c)
               \/ (\E u \in Threads : Engaged(u)' /\ calls'[u].core = c)
      PROVE  torrent'[c] = torrent[c]
  <2>1. Referred(handles, calls', c)
    BY <1>5 DEF Referred
  <2> QED
    BY <2>1, Spared DEF serviceVars
<1> QED
  BY <1>3, <1>4, <1>5, AsideServed

LEMMA GotoServed ==
  ASSUME Inv, SoleInv, NEW t \in Threads, ~Engaged(t),
         NEW step, step \notin InitSteps \cup CloseSteps, Goto(t, step),
         UNCHANGED <<settings, settingsError, conf, number, handles, alone>>,
         UNCHANGED serviceVars
  PROVE  SoleInv'
<1>1. WellFormed(calls)
  BY DEF Inv, Shape
<1> DEFINE call == Call(step, calls[t].core, calls[t].client, calls[t].id, calls[t].torrent)
<1>2. calls' = [calls EXCEPT ![t] = call]
  BY <1>1, OneStep DEF Goto
<1>3. IsCall(call) /\ call.at = step
  BY CallParts
<1> HIDE DEF call
<1> QED
  BY <1>2, <1>3, CallServed

LEMMA LeaveServed ==
  ASSUME Inv, SoleInv, NEW t \in Threads, ~Engaged(t), Leave(t),
         UNCHANGED <<settings, settingsError, conf, number, handles, alone>>
  PROVE  SoleInv'
BY IdleParts, CallServed DEF Leave, Return

\* The only thread that makes or closes a core takes its next step.
LEMMA EngagedServed ==
  ASSUME SoleInv, NEW t \in Threads, Engaged(t), UNCHANGED <<number, alone>>,
         \A u \in Threads : u # t => calls'[u] = calls[u],
         alone => Prepared(calls[t].at, calls[t].core)'
  PROVE  SoleInv'
<1> SUFFICES ASSUME alone'
             PROVE  OneOpen' /\ \A u \in Threads : Prepared(calls[u].at, calls[u].core)'
  BY DEF SoleInv
<1>1. OneOpen
  BY DEF SoleInv
<1>2. \A c \in Cores : number'[c] = 0
  BY <1>1 DEF OneOpen
<1>3. \A u \in Threads : u # t => ~Engaged(u) /\ ~Engaged(u)'
  BY <1>1 DEF OneOpen, Engaged
<1>4. OneOpen'
  BY <1>2, <1>3 DEF OneOpen
<1>5. ASSUME NEW u \in Threads PROVE Prepared(calls[u].at, calls[u].core)'
  <2>1. CASE u = t
    BY <2>1
  <2>2. CASE u # t
    BY <1>3, <2>2 DEF Prepared, Engaged, InitSteps
  <2> QED
    BY <2>1, <2>2
<1> QED
  BY <1>4, <1>5

\* t2h_init begins: the process has one core at a time as long as no other is there.
LEMMA InitServed ==
  ASSUME Inv, TypeOK, SoleInv, NEW t \in Threads, NEW cfg, InitCall(t, cfg)
  PROVE  SoleInv'
<1> DEFINE call == Call("load", created', created', 0, 0)
<1>1. /\ calls[t].at = "idle" /\ WellFormed(calls) /\ calls' = [calls EXCEPT ![t] = call]
      /\ alone' = (alone /\ ~Open /\ ~Busy) /\ UNCHANGED number
  BY DEF InitCall, At, Inv, Shape, numberVars
<1>2. IsCall(call) /\ call.at = "load"
  BY CallParts
<1> HIDE DEF call
<1>3. calls'[t] = call /\ \A u \in Threads : u # t => calls'[u] = calls[u]
  BY <1>1, <1>2, OneCall
<1> SUFFICES ASSUME alone'
             PROVE  OneOpen' /\ \A u \in Threads : Prepared(calls[u].at, calls[u].core)'
  BY DEF SoleInv
<1>4. \A c \in Cores : number'[c] = 0
  BY <1>1 DEF Open
<1>5. \A u \in Threads : u # t => ~Engaged(u)'
  BY <1>1, <1>3 DEF Busy, Engaged
<1>6. OneOpen'
  BY <1>4, <1>5 DEF OneOpen
<1>7. \A u \in Threads : Prepared(calls[u].at, calls[u].core)'
  BY <1>2, <1>3, <1>5 DEF Prepared, Engaged, InitSteps
<1> QED
  BY <1>6, <1>7

\* The steps of t2h_init up to the registration.
LEMMA MakingServed ==
  ASSUME Inv, TypeOK, SoleInv, NEW t \in Threads,
         \/ LoadSettings(t) \/ CheckConfig(t) \/ LaunchTorrent(t) \/ LaunchHttp(t)
         \/ LaunchHangs(t)
  PROVE  SoleInv'
<1> DEFINE c == calls[t].core
<1>1. Engaged(t) /\ UNCHANGED <<number, alone>>
  BY DEF LoadSettings, CheckConfig, LaunchTorrent, LaunchHttp, LaunchHangs, At, Engaged,
         InitSteps, numberVars, makingVars
<1>2. c \in Cores /\ WellFormed(calls)
  BY <1>1 DEF Inv, OnePlace, Shape
<1>3. alone => Prepared(calls[t].at, c)
  BY DEF SoleInv
<1>4. ASSUME NEW step, Goto(t, step)
      PROVE  /\ calls'[t].at = step /\ calls'[t].core = c
             /\ \A u \in Threads : u # t => calls'[u] = calls[u]
  <2> DEFINE call == Call(step, c, calls[t].client, calls[t].id, calls[t].torrent)
  <2>1. calls' = [calls EXCEPT ![t] = call]
    BY <1>2, <1>4, OneStep DEF Goto
  <2>2. IsCall(call) /\ call.at = step /\ call.core = c
    BY CallParts
  <2> HIDE DEF call, c
  <2>3. calls'[t] = call /\ \A u \in Threads : u # t => calls'[u] = calls[u]
    BY <1>2, <2>1, <2>2, OneCall
  <2> QED
    BY <2>2, <2>3
<1>5. ASSUME NEW step, Goto(t, step),
             alone => /\ (step = "check" /\ ~settingsError') => settings' = conf'[c]
                      /\ step \in {"launchTorrent", "launchHttp", "register"} => settings' = conf'[c]
                      /\ step \in {"launchHttp", "register"} => torrent'[c] = "running" \/ listenFailed'[c]
                      /\ step = "register" => server'[c] = conf'[c] /\ http'[c] = "running"
      PROVE  SoleInv'
  <2>1. /\ calls'[t].at = step /\ calls'[t].core = c
        /\ \A u \in Threads : u # t => calls'[u] = calls[u]
    BY <1>4, <1>5
  <2> HIDE DEF c
  <2>2. alone => Prepared(calls[t].at, calls[t].core)'
    BY <1>5, <2>1 DEF Prepared
  <2> QED
    BY <1>1, <2>1, <2>2, EngagedServed
<1> HIDE DEF c
<1>0. c = calls[t].core
  BY DEF c
<1>6. CASE LoadSettings(t)
  <2>1. /\ Goto(t, "check") /\ UNCHANGED conf
        /\ settings' = IF conf[c] \in Parsable THEN conf[c] ELSE NoConfig
        /\ settingsError' = (conf[c] \notin Parsable)
    BY <1>0, <1>6 DEF LoadSettings, makingVars
  <2> QED
    BY <1>5, <2>1
<1>7. CASE CheckConfig(t)
  <2>1. CASE settingsError
    <3>1. Return(t)
      BY <1>7, <2>1 DEF CheckConfig
    <3>2. calls'[t] = Idle /\ \A u \in Threads : u # t => calls'[u] = calls[u]
      BY <1>2, <3>1, OneCall, IdleParts DEF Return
    <3>3. Prepared(calls[t].at, calls[t].core)'
      BY <3>2, IdleParts DEF Prepared, InitSteps
    <3> QED
      BY <1>1, <3>2, <3>3, EngagedServed
  <2>2. CASE ~settingsError
    <3>1. /\ Goto(t, "launchTorrent") /\ UNCHANGED <<conf, settings>> /\ calls[t].at = "check"
      BY <1>7, <2>2 DEF CheckConfig, At, settingVars
    <3>2. alone => settings = conf[c]
      BY <1>3, <2>2, <3>1 DEF Prepared
    <3> QED
      BY <1>5, <3>1, <3>2
  <2> QED
    BY <2>1, <2>2
<1>8. CASE LaunchTorrent(t)
  <2>1. /\ Goto(t, "launchHttp") /\ UNCHANGED <<conf, settings>> /\ calls[t].at = "launchTorrent"
        /\ torrent' = [torrent EXCEPT ![c] = "running"]
    BY <1>0, <1>8 DEF LaunchTorrent, At, settingVars, makingVars
  <2>2. alone => settings = conf[c]
    BY <1>3, <2>1 DEF Prepared
  <2>3. torrent'[c] = "running"
    BY <1>2, <2>1 DEF Inv, Shape
  <2> QED
    BY <1>5, <2>1, <2>2, <2>3
<1>9. CASE LaunchHttp(t)
  <2>1. /\ Goto(t, "register") /\ UNCHANGED <<conf, settings, torrent, listenFailed>>
        /\ calls[t].at = "launchHttp"
        /\ http' = [http EXCEPT ![c] = "running"] /\ server' = [server EXCEPT ![c] = settings]
    BY <1>0, <1>9 DEF LaunchHttp, At, settingVars, makingVars
  <2>2. alone => settings = conf[c] /\ (torrent[c] = "running" \/ listenFailed[c])
    BY <1>3, <2>1 DEF Prepared
  <2>3. http'[c] = "running" /\ server'[c] = settings
    BY <1>2, <2>1 DEF Inv, Shape
  <2> QED
    BY <1>5, <2>1, <2>2, <2>3
<1>10. CASE LaunchHangs(t)
  BY <1>5, <1>10 DEF LaunchHangs
<1> QED
  BY <1>6, <1>7, <1>8, <1>9, <1>10

\* The new core is what it was prepared to be, and its handle keeps it.
LEMMA RegisterServed ==
  ASSUME Inv, TypeOK, SoleInv, NEW t \in Threads, RegisterHandle(t)
  PROVE  SoleInv'
<1>0. PICK c : c = calls[t].core
  OBVIOUS
<1> DEFINE n == NewNumber(handles)
<1>1. /\ calls[t].at = "register" /\ Engaged(t) /\ Return(t) /\ DestroyReleased(handles')
      /\ handles' = Put(handles, n, c) /\ number' = [number EXCEPT ![c] = n]
      /\ UNCHANGED <<settings, conf, alone>>
  BY <1>0 DEF RegisterHandle, At, Engaged, InitSteps, settingVars, makingVars
<1>2. c \in Cores /\ WellFormed(calls)
  BY <1>0, <1>1 DEF Inv, OnePlace, Shape
<1> HIDE DEF n
<1>3. calls'[t] = Idle /\ \A u \in Threads : u # t => calls'[u] = calls[u]
  BY <1>1, <1>2, OneCall, IdleParts DEF Return
<1> SUFFICES ASSUME alone'
             PROVE  OneOpen' /\ \A u \in Threads : Prepared(calls[u].at, calls[u].core)'
  BY DEF SoleInv
<1>4. /\ \A d \in Cores : number[d] = 0
      /\ \A u \in Threads : u # t => ~Engaged(u)
  BY <1>1 DEF SoleInv, OneOpen
<1>5. /\ settings = conf[c] /\ server[c] = conf[c] /\ http[c] = "running"
      /\ torrent[c] = "running" \/ listenFailed[c]
  BY <1>0, <1>1 DEF SoleInv, Prepared
<1>6. \A d \in Cores : d # c => number'[d] = 0
  BY <1>1, <1>4 DEF TypeOK
<1>7. number'[c] = n /\ n \in DOMAIN handles' /\ handles'[n] = c
  BY <1>1, <1>2 DEF TypeOK, Put
<1>8. torrent'[c] = torrent[c] /\ UNCHANGED <<listenFailed, http, server>>
  <2>1. Referred(handles', calls', c)
    BY <1>7 DEF Referred
  <2> DEFINE table == handles'
  <2>2. Referred(table, calls', c) /\ DestroyReleased(table)
    BY <1>1, <2>1
  <2> HIDE DEF table
  <2> QED
    BY <1>2, <2>2, Spared DEF DestroyReleased
<1>9. Served(c)'
  BY <1>1, <1>5, <1>8 DEF Served
<1>10. \A u \in Threads : ~Engaged(u)'
  BY <1>3, <1>4, IdleParts DEF Engaged
<1>11. OneOpen'
  BY <1>6, <1>7, <1>9, <1>10 DEF OneOpen
<1>12. \A u \in Threads : Prepared(calls[u].at, calls[u].core)'
  BY <1>10 DEF Prepared, Engaged, InitSteps
<1> QED
  BY <1>11, <1>12

\* t2h_close begins with the only core there is.
LEMMA CloseServed ==
  ASSUME Inv, TypeOK, SoleInv, NEW t \in Threads, NEW c \in Cores, Close(t, c)
  PROVE  SoleInv'
<1> DEFINE call == Call("stopHttp", handles[number[c]], c, 0, 0)
<1>1. /\ calls[t].at = "idle" /\ WellFormed(calls) /\ calls' = [calls EXCEPT ![t] = call]
      /\ number[c] # 0 /\ number' = [number EXCEPT ![c] = 0] /\ UNCHANGED alone
  BY DEF Close, At, Inv, Shape, makingVars
<1>2. IsCall(call) /\ call.at = "stopHttp"
  BY CallParts
<1> HIDE DEF call
<1>3. calls'[t] = call /\ \A u \in Threads : u # t => calls'[u] = calls[u]
  BY <1>1, <1>2, OneCall
<1> SUFFICES ASSUME alone'
             PROVE  OneOpen' /\ \A u \in Threads : Prepared(calls[u].at, calls[u].core)'
  BY DEF SoleInv
<1>4. \A d \in Cores : number'[d] = 0
  BY <1>1 DEF SoleInv, OneOpen, TypeOK
<1>5. \A u \in Threads : u # t => ~Engaged(u)'
  BY <1>1, <1>3 DEF SoleInv, OneOpen, Engaged
<1>6. OneOpen'
  BY <1>4, <1>5 DEF OneOpen
<1>7. \A u \in Threads : Prepared(calls[u].at, calls[u].core)'
  BY <1>2, <1>3, <1>5 DEF Prepared, Engaged, InitSteps
<1> QED
  BY <1>6, <1>7

LEMMA StopServed ==
  ASSUME Inv, SoleInv, NEW t \in Threads,
         StopHttp(t) \/ StopTorrent(t) \/ Join(t) \/ ClearServices(t)
  PROVE  SoleInv'
<1>1. Engaged(t) /\ UNCHANGED <<number, alone>> /\ WellFormed(calls)
  BY DEF StopHttp, StopTorrent, Join, ClearServices, At, Engaged, CloseSteps, numberVars,
         makingVars, Inv, Shape
<1>2. Return(t) \/ \E step \in CloseSteps : Goto(t, step)
  BY DEF StopHttp, StopTorrent, Join, ClearServices, Leave, CloseSteps
<1>3. PICK call : /\ IsCall(call) /\ call.at \notin InitSteps
                  /\ calls' = [calls EXCEPT ![t] = call]
  <2>1. CASE Return(t)
    BY <2>1, IdleParts DEF Return
  <2>2. ASSUME NEW step \in CloseSteps, Goto(t, step)
        PROVE  \E call : /\ IsCall(call) /\ call.at \notin InitSteps
                         /\ calls' = [calls EXCEPT ![t] = call]
    <3> DEFINE call == Call(step, calls[t].core, calls[t].client, calls[t].id, calls[t].torrent)
    <3>1. calls' = [calls EXCEPT ![t] = call]
      BY <1>1, <2>2, OneStep DEF Goto
    <3>2. IsCall(call) /\ call.at = step /\ step \notin InitSteps
      BY CallParts DEF InitSteps, CloseSteps
    <3> HIDE DEF call
    <3> QED
      BY <3>1, <3>2
  <2> QED
    BY <1>2, <2>1, <2>2
<1>4. calls'[t] = call /\ \A u \in Threads : u # t => calls'[u] = calls[u]
  BY <1>1, <1>3, OneCall
<1>5. Prepared(calls[t].at, calls[t].core)'
  BY <1>3, <1>4 DEF Prepared, InitSteps
<1> QED
  BY <1>1, <1>4, <1>5, EngagedServed

\* The calls that neither make nor close a core.
LEMMA PassingServed ==
  ASSUME Inv, SoleInv, NEW t \in Threads,
         \/ WaitHttp(t) \/ WaitStop(t) \/ WaitTorrent(t) \/ WaitJoin(t) \/ AddTorrent(t)
         \/ Nothing(t) \/ UseTorrent(t) \/ DeleteTorrent(t) \/ Forget(t)
  PROVE  SoleInv'
<1>1. UNCHANGED <<settings, settingsError, conf, number, handles, alone>>
  BY DEF WaitHttp, WaitStop, WaitTorrent, WaitJoin, AddTorrent, Nothing, UseTorrent,
         DeleteTorrent, Forget, settingVars, numberVars, makingVars
<1>2. ~Engaged(t)
  BY ApiAssumption DEF WaitHttp, WaitStop, WaitTorrent, WaitJoin, AddTorrent, Nothing, UseTorrent,
         DeleteTorrent, Forget, At, Engaged, InitSteps, CloseSteps
<1>3. Leave(t) \/ \E step \in WaitSteps \cup {"forget"} : Goto(t, step) /\ UNCHANGED serviceVars
  BY DEF WaitHttp, WaitStop, WaitTorrent, WaitJoin, AddTorrent, Nothing, UseTorrent,
         DeleteTorrent, Forget, coreVars, WaitSteps
<1>4. \A step \in WaitSteps \cup {"forget"} : step \notin InitSteps \cup CloseSteps
  BY DEF WaitSteps, InitSteps, CloseSteps
<1> QED
  BY <1>1, <1>2, <1>3, <1>4, GotoServed, LeaveServed

LEMMA EnterServed ==
  ASSUME Inv, SoleInv, NEW t \in Threads,
         \/ \E c \in Cores : Wait(t, c) \/ EnterAdd(t, c)
         \/ \E k \in Torrents : EnterDelete(t, k) \/ \E op \in Uses : EnterUse(t, k, op)
  PROVE  SoleInv'
<1>1. /\ UNCHANGED <<settings, settingsError, conf, number, handles, alone>>
      /\ UNCHANGED serviceVars /\ ~Engaged(t)
  BY DEF Wait, EnterAdd, EnterDelete, EnterUse, At, settingVars, coreVars, numberVars, makingVars,
         Engaged, InitSteps, CloseSteps
<1>2. PICK step, c, owner, n, k :
        /\ step \in {"waitHttp", "add", "delete"} \cup Uses
        /\ calls' = [calls EXCEPT ![t] = Call(step, c, owner, n, k)]
  BY DEF Wait, EnterAdd, EnterDelete, EnterUse
<1> DEFINE call == Call(step, c, owner, n, k)
<1>3. IsCall(call) /\ call.at \notin InitSteps \cup CloseSteps
  BY <1>2, CallParts, ApiAssumption DEF InitSteps, CloseSteps
<1>4. calls' = [calls EXCEPT ![t] = call]
  BY <1>2
<1> HIDE DEF call
<1> QED
  BY <1>1, <1>3, <1>4, CallServed

\* Another step that changes nothing of this, or the main loop's.
LEMMA StillServed ==
  ASSUME Inv, SoleInv,
         UNCHANGED <<settings, settingsError, conf, number, handles, alone, http, server, calls>>,
         \A c \in Cores : torrent[c] = "running" \/ listenFailed[c]
                            => torrent'[c] = "running" \/ listenFailed'[c]
  PROVE  SoleInv'
<1>1. \A u \in Threads : Engaged(u)' => Engaged(u) /\ calls'[u] = calls[u]
  BY DEF Engaged
<1> QED
  BY <1>1, AsideServed

LEMMA LoopServed ==
  ASSUME Inv, SoleInv, NEW c \in Cores, ListenError(c) \/ LoopEnds(c)
  PROVE  SoleInv'
<1>1. UNCHANGED <<settings, settingsError, conf, number, handles, alone, http, server, calls>>
  BY DEF ListenError, LoopEnds, settingVars, numberVars, makingVars
<1>2. ASSUME NEW d \in Cores, torrent[d] = "running" \/ listenFailed[d]
      PROVE  torrent'[d] = "running" \/ listenFailed'[d]
  <2>1. CASE ListenError(c)
    BY <1>2, <2>1 DEF ListenError, Inv, Shape
  <2>2. CASE LoopEnds(c)
    BY <1>2, <2>2 DEF LoopEnds
  <2> QED
    BY <2>1, <2>2
<1> QED
  BY <1>1, <1>2, StillServed

LEMMA SoleNext ==
  Inv /\ TypeOK /\ SoleInv /\ [Next]_vars => SoleInv'
<1> SUFFICES ASSUME Inv, TypeOK, SoleInv, [Next]_vars
             PROVE  SoleInv'
  OBVIOUS
<1>1. CASE UNCHANGED vars
  BY <1>1, StillServed DEF vars, settingVars, coreVars, serviceVars, numberVars, makingVars
<1>2. CASE Crash
  BY <1>2, StillServed DEF Crash, settingVars, coreVars, serviceVars, numberVars, makingVars
<1>3. ASSUME NEW t \in Threads,
             \/ LaunchFails(t) \/ WaitLost(t) \/ CoreGone(t) \/ UrlFails(t)
             \/ \E c \in Cores : DeadNumber(t, c)
      PROVE  Crash
  BY <1>3 DEF LaunchFails, WaitLost, CoreGone, UrlFails, DeadNumber
<1> QED
  BY <1>1, <1>2, <1>3, InitServed, MakingServed, RegisterServed, CloseServed, StopServed,
     PassingServed, EnterServed, LoopServed DEF Next

\* A process that makes a core only when no other is open, being made or being closed
\* has its core served with its own settings, whatever the threads do with it and
\* whatever numbers its handles get.
THEOREM OneCoreServed == Spec => []OneAtATimeServed
<1>1. Init => SoleInv
  <2> SUFFICES ASSUME Init PROVE SoleInv
    OBVIOUS
  <2>1. \A t \in Threads : calls[t].at = "idle"
    BY CallParts DEF Init, Idle
  <2> QED
    BY <2>1 DEF Init, SoleInv, OneOpen, Prepared, Engaged, InitSteps, CloseSteps
<1>2. SoleInv => OneAtATimeServed
  BY DEF SoleInv, OneOpen, Served, OneAtATimeServed
<1>3. Init => SettingsTyped
  BY DEF Init, SettingsTyped
<1> QED
  BY <1>1, <1>2, <1>3, TypeCorrect, SoleNext, InvInit, InvNext, SettingsStep, PTL DEF Spec
=============================================================================
