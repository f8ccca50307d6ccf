------------------------- MODULE HttpTransportProofs -------------------------
(* The safety of the HTTP side at work and at its end, for any pool of        *)
(* workers, any number of waiting threads and any size of mongoose's ring.    *)
EXTENDS HttpTransport, TLAPS

\* The remainder by the size of the ring is one of its places.
LEMMA Place ==
  ASSUME NEW i \in Nat PROVE i % QueueSize \in 0 .. QueueSize - 1
BY TransportAssumption

\* launch_service leaves a state in which the invariant holds.
LEMMA InvInit == Init => Inv
<1> SUFFICES ASSUME Init PROVE Inv
  OBVIOUS
<1> USE DEF Init
<1>1. None \in Socket /\ {} \in SUBSET Socket
  BY TransportAssumption DEF None, Socket
<1>2. head \in 0 .. 2 * QueueSize /\ tail \in 0 .. QueueSize /\ tail <= head
  BY TransportAssumption
<1>3. slots \in [0 .. QueueSize - 1 -> Socket]
  BY <1>1
<1>4. TypeOK
  BY <1>1, <1>2, <1>3, Zenon DEF TypeOK, WorkerSteps, None
<1>5. Stopped
  BY DEF Stopped
<1>6. NothingLeft
  BY DEF NothingLeft, Handling
<1> QED
  BY <1>4, <1>5, <1>6 DEF Inv

\* The steps of the service's caller and of mg_stop.
LEMMA StopSteps ==
  ASSUME Inv, StopService \/ Stopping PROVE Inv'
<1> USE DEF Inv, TypeOK, Stopped, NothingLeft, ringVars, masterVars, workerVars
<1>1. CASE StopService
  BY <1>1 DEF StopService
<1>2. CASE StopConnection
  BY <1>2 DEF StopConnection, LockFree
<1>3. CASE MgStopped
  BY <1>3 DEF MgStopped
<1>4. CASE NotifyAll
  BY <1>4 DEF NotifyAll
<1> QED
  BY <1>1, <1>2, <1>3, <1>4 DEF Stopping

\* The steps of a thread in wait_service.
LEMMA WaitSteps ==
  ASSUME Inv, NEW t \in Waiters, WaitService(t) \/ WaitWake(t) \/ Waiting(t) PROVE Inv'
<1> USE DEF Inv, TypeOK, Stopped, NothingLeft, ringVars, masterVars, workerVars, Step
<1>1. CASE WaitService(t)
  BY <1>1 DEF WaitService
<1>2. CASE WaitWake(t)
  BY <1>2 DEF WaitWake
<1>3. CASE WaitSleep(t)
  BY <1>3 DEF WaitSleep
<1>4. CASE WaitTest(t)
  BY <1>4 DEF WaitTest
<1> QED
  BY <1>1, <1>2, <1>3, <1>4 DEF Waiting

\* The steps of the master thread.
LEMMA MasterSteps ==
  ASSUME Inv, AcceptConnection \/ Mastering PROVE Inv'
<1>7. AcceptConnection \/ Produce \/ WaitForRoom \/ LeaveLoop \/ Broadcast \/ JoinWorkers
  BY DEF Mastering
<1> USE TransportAssumption
    DEF Inv, TypeOK, Stopped, NothingLeft, transportVars, ringVars, workerVars, Socket
<1>1. CASE AcceptConnection
  BY <1>1 DEF AcceptConnection
<1>2. CASE Produce
  <2>1. /\ slots' \in [0 .. QueueSize - 1 -> Socket]
        /\ head' \in 0 .. 2 * QueueSize /\ tail' = tail /\ tail' <= head'
    <3>1. CASE HasRoom
      <4>1. head' = head + 1 /\ tail' = tail /\ slots' = [slots EXCEPT ![head % QueueSize] = inHand]
        BY <1>2, <3>1 DEF Produce
      <4>2. head' \in 0 .. 2 * QueueSize /\ tail' <= head'
        BY <3>1, <4>1 DEF HasRoom
      <4> QED
        BY <4>1, <4>2
    <3>2. CASE ~HasRoom
      BY <1>2, <3>2 DEF Produce
    <3> QED
      BY <3>1, <3>2
  <2>2. \A w \in Workers : \/ worker'[w] = worker[w]
                           \/ worker[w] = "asleep" /\ worker'[w] = "fetch"
    BY <1>2 DEF Produce, Signalled
  <2>3. worker' \in [Workers -> WorkerSteps]
    BY <1>2 DEF Produce, Signalled, WorkerSteps
  <2>4. TypeOK'
    BY <1>2, <2>1, <2>3 DEF Produce, None
  <2>5. Stopped'
    BY <1>2, <2>2 DEF Produce
  <2>6. NothingLeft'
    BY <1>2, <2>2 DEF Produce, Handling
  <2> QED
    BY <2>4, <2>5, <2>6
<1>3. CASE WaitForRoom
  BY <1>3 DEF WaitForRoom
<1>4. CASE LeaveLoop
  BY <1>4 DEF LeaveLoop
<1>5. CASE Broadcast
  BY <1>5 DEF Broadcast, WorkerSteps, Handling
<1>6. CASE JoinWorkers
  BY <1>6 DEF JoinWorkers
<1> QED
  BY ONLY <1>1, <1>2, <1>3, <1>4, <1>5, <1>6, <1>7

\* A worker takes a socket: the two indices stay in their bounds.
LEMMA FetchStep ==
  ASSUME Inv, NEW w \in Workers, Fetch(w) PROVE Inv'
<1> USE DEF Inv, TypeOK, Stopped, NothingLeft, transportVars, Socket
<1>1. tail' \in 0 .. QueueSize /\ head' \in 0 .. 2 * QueueSize /\ tail' <= head'
  BY TransportAssumption DEF Fetch, Wrapped
<1>2. conn' \in [Workers -> Socket]
  <2>1. slots[tail % QueueSize] \in Socket
    BY Place
  <2> QED
    BY <2>1 DEF Fetch
<1>3. worker' = [worker EXCEPT ![w] = "fetched"] /\ worker[w] = "fetch"
  BY DEF Fetch, Goto
<1>4. TypeOK'
  BY <1>1, <1>2, <1>3 DEF Fetch, WorkerSteps
<1>5. Stopped'
  BY <1>3 DEF Fetch
<1>6. NothingLeft'
  <2>1. \A v \in Workers : worker'[v] \in Handling \cup {"reject"} =>
          worker'[v] = worker[v] /\ conn'[v] = conn[v]
    BY <1>3 DEF Fetch, Handling
  <2> QED
    BY <2>1 DEF Fetch
<1> QED
  BY <1>4, <1>5, <1>6

\* A worker reads a request, or what an earlier client left.
LEMMA ClientSteps ==
  ASSUME Inv, NEW w \in Workers, Client(w) PROVE Inv'
<1> USE DEF Inv, TypeOK, Stopped, NothingLeft, transportVars, ringVars, masterVars,
            Goto, Stays, WorkerSteps, Handling
<1>1. CASE ReadRequest(w)
  BY <1>1 DEF ReadRequest, Discarded
<1>2. CASE ReadMore(w)
  BY <1>2 DEF ReadMore
<1>3. CASE ReadLeftover(w)
  <2>1. None \in Socket
    BY TransportAssumption DEF None, Socket
  <2>2. left' \in [Workers -> Socket] /\ request' \in [Workers -> Socket]
    BY <1>3, <2>1 DEF ReadLeftover
  <2>3. ~polite /\ ~polite'
    BY <1>3 DEF ReadLeftover
  <2>4. /\ worker' \in [Workers -> WorkerSteps]
        /\ \A v \in Workers : worker[v] = "ended" => worker'[v] = "ended"
    BY <1>3 DEF ReadLeftover
  <2>5. TypeOK'
    BY <1>3, <2>2, <2>4 DEF ReadLeftover
  <2>6. Stopped' /\ NothingLeft'
    BY <1>3, <2>3, <2>4 DEF ReadLeftover
  <2> QED
    BY <2>5, <2>6
<1>4. CASE ReadNothing(w)
  BY <1>4 DEF ReadNothing, OnlyGoes
<1> QED
  BY <1>1, <1>2, <1>3, <1>4 DEF Client

\* The other steps of a worker.
LEMMA ServeSteps ==
  ASSUME Inv, NEW w \in Workers, Serve(w) \/ WorkerWakes(w) PROVE Inv'
<1>0. CASE Fetch(w)
  BY <1>0, FetchStep
<1> USE DEF Inv, TypeOK, Stopped, NothingLeft, transportVars, ringVars, masterVars,
            Goto, Stays, OnlyGoes, WorkerSteps, Handling
<1>1. CASE FetchNothing(w)
  BY <1>1 DEF FetchNothing
<1>2. CASE FallAsleep(w)
  BY <1>2 DEF FallAsleep
<1>3. CASE Fetched(w)
  BY <1>3 DEF Fetched
<1>4. CASE NewRequest(w)
  BY <1>4 DEF NewRequest
<1>5. CASE HandlerDone(w)
  BY <1>5 DEF HandlerDone
<1>6. CASE HandlerThrows(w)
  BY <1>6 DEF HandlerThrows
<1>7. CASE ServeFile(w)
  BY <1>7 DEF ServeFile
<1>8. CASE SendError(w)
  BY <1>8 DEF SendError
<1>9. CASE RequestComplete(w)
  BY <1>9 DEF RequestComplete
<1>10. CASE CloseConnection(w)
  <2>1. None \in Socket
    BY TransportAssumption DEF None, Socket
  <2>2. /\ conn' \in [Workers -> Socket] /\ request' \in [Workers -> Socket]
        /\ closed' \in SUBSET Socket
    BY <1>10, <2>1 DEF CloseConnection
  <2>3. TypeOK'
    BY <1>10, <2>2 DEF CloseConnection
  <2>4. Stopped' /\ NothingLeft'
    BY <1>10 DEF CloseConnection
  <2> QED
    BY <2>3, <2>4
<1>11. CASE WorkerWakes(w)
  BY <1>11 DEF WorkerWakes
<1>12. CASE ReadNothing(w)
  BY <1>12, ClientSteps DEF Client
<1> QED
  BY <1>0, <1>1, <1>2, <1>3, <1>4, <1>5, <1>6, <1>7, <1>8, <1>9, <1>10, <1>11, <1>12 DEF Serve

\* No step of the stopper, a waiting thread, the master or a worker breaks it.
LEMMA InvNext == Inv /\ [Next]_vars => Inv'
<1> SUFFICES ASSUME Inv, [Next]_vars PROVE Inv'
  OBVIOUS
<1>1. CASE UNCHANGED vars
  BY <1>1 DEF Inv, TypeOK, Stopped, NothingLeft, vars, transportVars, ringVars, masterVars,
              workerVars
<1>2. CASE Next
  BY <1>2, StopSteps, WaitSteps, MasterSteps, ClientSteps, ServeSteps DEF Next
<1> QED
  BY <1>1, <1>2

\* The invariant holds throughout.
THEOREM InvHolds == Spec => []Inv
BY InvInit, InvNext, PTL DEF Spec

\* Type correctness, for every pool of workers and every ring: the two indices of the
\* ring stay within twice its size.
THEOREM TypeCorrect == Spec => []TypeOK
<1>1. Inv => TypeOK
  BY DEF Inv
<1> QED
  BY InvHolds, <1>1, PTL

\* stop_connection drops mongoose, and wait returns, only when no worker can call the
\* transport any more, whatever requests were being served when the stop began.
THEOREM StoppedIsQuiet == Spec => []QuietAfterStop
<1>1. Inv => QuietAfterStop
  BY DEF Inv, Stopped, QuietAfterStop
<1> QED
  BY InvHolds, <1>1, PTL

\* With clients that send one whole request each, every answer goes to the connection
\* whose request it is.
THEOREM EveryAnswerOwn == Spec => []AnsweredOwn
<1>1. Inv => AnsweredOwn
  BY DEF Inv, NothingLeft, AnsweredOwn
<1> QED
  BY InvHolds, <1>1, PTL

-----------------------------------------------------------------------------
(* The accepted connections                                                 *)

\* Two sockets of the ring have two places, and the wrap of the indices moves none.
LEMMA PlacesDiffer ==
  ASSUME NEW n \in 0 .. QueueSize, NEW i \in n .. n + QueueSize - 1,
         NEW j \in n .. n + QueueSize - 1, i < j
  PROVE  i % QueueSize # j % QueueSize
<1>1. \A k \in 0 .. QueueSize - 1 : k % QueueSize = k
  BY TransportAssumption
<1>2. \A k \in QueueSize .. 2 * QueueSize - 1 : k % QueueSize = k - QueueSize
  BY TransportAssumption
<1>3. CASE j < QueueSize
  BY <1>1, <1>3, TransportAssumption
<1>4. CASE i < QueueSize /\ j >= QueueSize
  BY <1>1, <1>2, <1>4, TransportAssumption
<1>5. CASE i >= QueueSize
  BY <1>2, <1>5, TransportAssumption
<1> QED
  BY <1>3, <1>4, <1>5, TransportAssumption

LEMMA PlaceWraps ==
  ASSUME NEW i \in QueueSize .. 2 * QueueSize - 1
  PROVE  (i - QueueSize) % QueueSize = i % QueueSize
<1>1. i % QueueSize = i - QueueSize
  BY TransportAssumption
<1>2. (i - QueueSize) % QueueSize = i - QueueSize
  <2> DEFINE k == i - QueueSize
  <2>1. k \in 0 .. QueueSize - 1
    BY TransportAssumption
  <2> HIDE DEF k
  <2>2. k % QueueSize = k
    BY <2>1, TransportAssumption
  <2> QED
    BY <2>2 DEF k
<1> QED
  BY <1>1, <1>2

\* At the start there is no connection.
LEMMA KeptInit == Init => Kept
<1> SUFFICES ASSUME Init PROVE Kept
  OBVIOUS
<1> USE DEF Init, None
<1>1. Ring = {} /\ 1 .. arrived = {} /\ Queued = {}
  BY DEF Ring, Queued
<1>2. InHandPlace
  BY DEF InHandPlace
<1>3. RingPlaces
  BY <1>1, TransportAssumption DEF RingPlaces
<1>4. WorkerPlaces
  <2>1. \A w \in Workers : conn[w] = 0 /\ worker[w] = "fetch"
    OBVIOUS
  <2>2. 0 \in 0 .. arrived
    OBVIOUS
  <2> QED
    BY <2>1, <2>2, Zenon DEF WorkerPlaces, Alone
<1>5. AcceptedKept
  BY <1>1 DEF AcceptedKept
<1> QED
  BY <1>2, <1>3, <1>4, <1>5 DEF Kept

\* A step that moves no connection: the phase of the master and of the workers may
\* change as long as who holds a connection does not.
LEMMA KeptFrame ==
  ASSUME Kept, Inv, Inv',
         UNCHANGED <<slots, head, tail, inHand, arrived, conn, closed>>,
         stopFlag => stopFlag',
         master' \in {"produce", "full"} <=> master \in {"produce", "full"},
         \A w \in Workers :
           \/ worker'[w] = worker[w]
           \/ Alone(w) /\ Alone(w)'
           \/ ~Alone(w) /\ ~Alone(w)' /\ conn[w] # None
           \/ worker'[w] = "ended"
  PROVE  Kept'
<1>1. Queued' = Queued /\ Ring' = Ring
  BY DEF Queued, Ring
<1>2. InHandPlace'
  BY DEF Kept, InHandPlace
<1>3. RingPlaces'
  BY <1>1 DEF Kept, RingPlaces
<1>4. WorkerPlaces'
  BY DEF Kept, WorkerPlaces, Alone
<1>5. AcceptedKept'
  BY <1>1 DEF Kept, AcceptedKept
<1> QED
  BY <1>2, <1>3, <1>4, <1>5 DEF Kept

\* The master accepts a connection: a new number, in nobody's place.
LEMMA KeptAccept == ASSUME Kept, Inv, AcceptConnection PROVE Kept'
<1> USE DEF AcceptConnection, transportVars, ringVars, workerVars, None
<1>0. arrived \in Nat /\ closed \subseteq 1 .. arrived /\ inHand = 0
  BY DEF Kept, InHandPlace, Inv, TypeOK, Socket
<1>1. Queued' = Queued /\ Ring' = Ring
  BY DEF Queued, Ring
<1>2. InHandPlace'
  BY <1>0 DEF InHandPlace
<1>3. RingPlaces'
  BY <1>0, <1>1 DEF Kept, RingPlaces
<1>4. WorkerPlaces'
  BY <1>0 DEF Kept, WorkerPlaces, Alone
<1>5. AcceptedKept'
  <2>1. 1 .. arrived' = (1 .. arrived) \cup {inHand'}
    BY <1>0
  <2> QED
    BY <1>0, <1>1, <2>1 DEF Kept, AcceptedKept
<1> QED
  BY <1>2, <1>3, <1>4, <1>5 DEF Kept

\* A connection is closed: its number goes from the worker to the closed ones.
LEMMA KeptClose ==
  ASSUME Kept, Inv, NEW w \in Workers, CloseConnection(w) PROVE Kept'
<1> USE DEF CloseConnection, Stays, Goto, transportVars, ringVars, masterVars, None
<1>0. /\ conn[w] # 0 /\ conn[w] \in 1 .. arrived /\ conn[w] # inHand
      /\ conn[w] \notin Queued /\ conn \in [Workers -> Socket] /\ arrived \in Nat
      /\ \A v \in Workers : v # w => conn[v] # conn[w]
  <2>1. conn \in [Workers -> Socket] /\ arrived \in Nat
    BY DEF Inv, TypeOK, Socket
  <2>2. conn[w] \in 0 .. arrived /\ conn[w] # 0 /\ conn[w] # inHand
    BY DEF Kept, WorkerPlaces, Alone
  <2>3. conn[w] \notin Queued /\ \A v \in Workers : v # w => conn[v] # conn[w]
    BY <2>2 DEF Kept, AcceptedKept
  <2> QED
    BY <2>1, <2>2, <2>3
<1>1. Queued' = Queued /\ Ring' = Ring
  BY DEF Queued, Ring
<1>2. conn' = [conn EXCEPT ![w] = 0] /\ closed' = closed \cup {conn[w]}
  OBVIOUS
<1>3. InHandPlace'
  BY <1>0 DEF Kept, InHandPlace
<1>4. RingPlaces'
  BY <1>0, <1>1 DEF Kept, RingPlaces, Queued, Ring
<1>5. WorkerPlaces'
  BY <1>0, <1>2 DEF Kept, WorkerPlaces, Alone, Inv, TypeOK
<1>6. AcceptedKept'
  <2>1. {conn[v] : v \in Workers} \ {0} = ({conn'[v] : v \in Workers} \ {0}) \cup {conn[w]}
    BY <1>0, <1>2
  <2>2. stopFlag' = stopFlag /\ arrived' = arrived /\ inHand' = inHand
    OBVIOUS
  <2>3. ~stopFlag' => 1 .. arrived' = closed' \cup Queued' \cup ({inHand'} \ {0})
                              \cup ({conn'[v] : v \in Workers} \ {0})
    BY <1>1, <1>2, <2>1, <2>2 DEF Kept, AcceptedKept
  <2>4. \A u, v \in Workers : u # v /\ conn'[u] # 0 => conn'[u] # conn'[v]
    BY <1>0, <1>2 DEF Kept, AcceptedKept
  <2>5. \A v \in Workers : conn'[v] # 0 => conn'[v] \notin Queued' \cup closed'
    BY <1>0, <1>1, <1>2 DEF Kept, AcceptedKept
  <2> QED
    BY <2>3, <2>4, <2>5 DEF AcceptedKept
<1> QED
  BY <1>3, <1>4, <1>5, <1>6 DEF Kept

\* The master queues the socket it has in its hand, behind the others; or, when the ring
\* is full and a stop has come, drops it.
LEMMA KeptProduce == ASSUME Kept, Inv, Inv', Produce PROVE Kept'
<1> USE DEF transportVars, None
<1>0. /\ inHand \in 1 .. arrived /\ inHand' = 0 /\ arrived \in Nat /\ master' = "select"
      /\ UNCHANGED <<tail, arrived, closed, conn, stopFlag>>
      /\ closed \subseteq 1 .. arrived /\ inHand \notin closed
  BY DEF Produce, Kept, InHandPlace, Inv, TypeOK, Socket
<1>1. \A w \in Workers : worker'[w] = worker[w] \/ (Alone(w) /\ Alone(w)')
  BY DEF Produce, Signalled, Inv, TypeOK, Alone
<1>2. InHandPlace'
  BY <1>0 DEF InHandPlace
<1>3. WorkerPlaces'
  BY <1>0, <1>1 DEF Kept, WorkerPlaces, Alone
<1>4. CASE ~HasRoom
  <2>1. stopFlag /\ UNCHANGED <<slots, head>>
    BY <1>4 DEF Produce
  <2>2. Ring' = Ring /\ Queued' = Queued
    BY <1>0, <2>1 DEF Ring, Queued
  <2>3. RingPlaces'
    BY <1>0, <2>1, <2>2 DEF Kept, RingPlaces, Ring
  <2>4. AcceptedKept'
    BY <1>0, <2>1, <2>2 DEF Kept, AcceptedKept
  <2> QED
    BY <1>2, <1>3, <2>3, <2>4 DEF Kept
<1>5. CASE HasRoom
  <2> DEFINE p == head % QueueSize
  <2>1. /\ slots' = [slots EXCEPT ![p] = inHand] /\ head' = head + 1
        /\ head \in Nat /\ tail \in 0 .. QueueSize /\ tail <= head /\ head - tail < QueueSize
    BY <1>5 DEF Produce, HasRoom, Inv, TypeOK
  <2>2. Ring' = Ring \cup {head} /\ head \notin Ring
    BY <1>0, <2>1 DEF Ring
  <2>3. p \in DOMAIN slots
    BY <2>1, Place DEF Inv, TypeOK
  <2>4. \A i \in Ring : i % QueueSize # p
    <3> SUFFICES ASSUME NEW i \in Ring PROVE i % QueueSize # p
      OBVIOUS
    <3>1. i \in tail .. tail + QueueSize - 1 /\ head \in tail .. tail + QueueSize - 1 /\ i < head
      BY <2>1, TransportAssumption DEF Ring
    <3> QED
      BY <2>1, <3>1, PlacesDiffer
  <2> HIDE DEF p
  <2>5. slots'[p] = inHand /\ \A i \in Ring : slots'[i % QueueSize] = slots[i % QueueSize]
    BY <2>1, <2>3, <2>4
  <2>6. \A i \in Ring : slots[i % QueueSize] # inHand
    BY DEF Kept, RingPlaces
  <2>7. RingPlaces'
    <3>1. head' - tail' <= QueueSize
      BY <1>0, <2>1, TransportAssumption
    <3>2. \A i \in Ring' : slots'[i % QueueSize] \in (1 .. arrived') \ (closed' \cup {inHand'})
      BY <1>0, <2>2, <2>5 DEF Kept, RingPlaces, p
    <3>3. \A i, j \in Ring' : i # j => slots'[i % QueueSize] # slots'[j % QueueSize]
      BY <2>2, <2>5, <2>6 DEF Kept, RingPlaces, p
    <3> QED
      BY <3>1, <3>2, <3>3 DEF RingPlaces
  <2>8. Queued' = Queued \cup {inHand}
    BY <2>2, <2>5 DEF Queued, Ring, p
  <2>9. AcceptedKept'
    <3>1. \A w \in Workers : conn[w] # 0 => conn[w] # inHand
      BY DEF Kept, WorkerPlaces
    <3> QED
      BY <1>0, <2>8, <3>1 DEF Kept, AcceptedKept
  <2> QED
    BY <1>2, <1>3, <2>7, <2>9 DEF Kept
<1> QED
  BY <1>4, <1>5

\* The two indices of consume_socket: whether they wrap or not, the ring is what it was
\* without its first socket.
LEMMA RingAfterFetch ==
  ASSUME Kept, Inv, NEW w \in Workers, Fetch(w), head > tail
  PROVE  /\ head' - tail' <= QueueSize
         /\ \E d \in {0, QueueSize} :
              /\ \A i \in Ring' : i + d \in Ring \ {tail} /\ (i + d) % QueueSize = i % QueueSize
              /\ \A i \in Ring \ {tail} : i - d \in Ring'
<1>0. /\ head \in Nat /\ tail \in 0 .. QueueSize /\ head - tail <= QueueSize
      /\ tail' = Wrapped(tail + 1) /\ head' = Wrapped(head)
  BY DEF Fetch, Inv, TypeOK, Kept, RingPlaces
<1>1. CASE tail + 1 > QueueSize
  <2>1. tail = QueueSize /\ tail' = 1 /\ head' = head - QueueSize
    BY <1>0, <1>1, TransportAssumption DEF Wrapped
  <2>2. ASSUME NEW i \in Ring'
        PROVE  /\ i + QueueSize \in Ring \ {tail}
               /\ (i + QueueSize) % QueueSize = i % QueueSize
    <3> DEFINE k == i + QueueSize
    <3>1. i \in Nat /\ k \in Ring \ {tail} /\ k \in QueueSize .. 2 * QueueSize - 1 /\ k - QueueSize = i
      BY <1>0, <2>1, TransportAssumption DEF Ring
    <3> HIDE DEF k
    <3>2. (k - QueueSize) % QueueSize = k % QueueSize
      BY <3>1, PlaceWraps
    <3> QED
      BY <3>1, <3>2 DEF k
  <2>3. \A i \in Ring \ {tail} : i - QueueSize \in Ring'
    BY <1>0, <2>1, TransportAssumption DEF Ring
  <2>4. head' - tail' <= QueueSize
    BY <1>0, <2>1, TransportAssumption
  <2> QED
    BY <2>2, <2>3, <2>4
<1>2. CASE ~(tail + 1 > QueueSize)
  <2>1. tail' = tail + 1 /\ head' = head
    BY <1>0, <1>2 DEF Wrapped
  <2>2. Ring' = Ring \ {tail} /\ head' - tail' <= QueueSize
    BY <1>0, <2>1, TransportAssumption DEF Ring
  <2>3. \A i \in Ring' : i + 0 = i /\ i - 0 = i
    BY <1>0, <2>1 DEF Ring
  <2>4. \A i \in Ring \ {tail} : i - 0 = i
    BY <2>2, <2>3
  <2> QED
    BY <2>2, <2>3, <2>4
<1> QED
  BY <1>1, <1>2

\* A worker takes the oldest socket of the ring, or ends.
LEMMA KeptFetch ==
  ASSUME Kept, Inv, Inv', NEW w \in Workers, Fetch(w) PROVE Kept'
<1> USE DEF transportVars, None
<1>0. /\ UNCHANGED <<slots, inHand, arrived, closed, stopFlag>>
      /\ worker[w] = "fetch" /\ worker' = [worker EXCEPT ![w] = "fetched"]
      /\ worker \in [Workers -> WorkerSteps] /\ conn \in [Workers -> Socket]
      /\ master' \in {"produce", "full"} <=> master \in {"produce", "full"}
      /\ arrived \in Nat
  BY DEF Fetch, Goto, Inv, TypeOK, Socket
<1>1. InHandPlace'
  BY <1>0 DEF Kept, InHandPlace
<1>2. conn[w] = 0
  BY <1>0 DEF Kept, WorkerPlaces, Alone
<1>3. CASE ~(head > tail)
  <2>1. stopFlag /\ UNCHANGED <<conn, tail, head>>
    BY <1>3 DEF Fetch
  <2>2. Ring' = Ring /\ Queued' = Queued
    BY <1>0, <2>1 DEF Ring, Queued
  <2>3. RingPlaces'
    BY <1>0, <2>1, <2>2 DEF Kept, RingPlaces
  <2>4. WorkerPlaces'
    BY <1>0, <2>1 DEF Kept, WorkerPlaces, Alone
  <2>5. AcceptedKept'
    BY <1>0, <2>1, <2>2 DEF Kept, AcceptedKept
  <2> QED
    BY <1>1, <2>3, <2>4, <2>5 DEF Kept
<1>4. CASE head > tail
  <2> DEFINE s == slots[tail % QueueSize]
             At(i) == slots[i % QueueSize]
  <2>1. conn' = [conn EXCEPT ![w] = s]
    BY <1>4 DEF Fetch
  <2>2. tail \in Ring
    BY <1>4 DEF Ring, Inv, TypeOK
  <2>3. s \in 1 .. arrived /\ s \notin closed /\ s # inHand /\ s \in Queued
    BY <2>2 DEF Kept, RingPlaces, Queued, Ring
  <2>4. PICK d \in {0, QueueSize} :
          /\ \A i \in Ring' : i + d \in Ring \ {tail} /\ (i + d) % QueueSize = i % QueueSize
          /\ \A i \in Ring \ {tail} : i - d \in Ring'
    BY <1>4, RingAfterFetch
  <2>5. head' - tail' <= QueueSize
    BY <1>4, RingAfterFetch
  <2>6. \A i \in Ring' : At(i + d) = slots'[i % QueueSize] /\ i + d \in Ring \ {tail}
    BY <1>0, <2>4
  <2>7. \A i, j \in Ring' : i # j => i + d # j + d
    <3>1. d \in Int
      BY TransportAssumption
    <3>2. head' \in Int /\ tail' \in Int
      BY DEF Inv, TypeOK
    <3>3. \A i \in Ring' : i \in Int
      BY <3>2 DEF Ring
    <3>4. \A i, j \in Int : i # j => i + d # j + d
      BY <3>1
    <3> QED
      BY <3>3, <3>4
  <2>8. RingPlaces'
    <3>1. \A i \in Ring' : slots'[i % QueueSize] \in (1 .. arrived') \ (closed' \cup {inHand'})
      BY <1>0, <2>6 DEF Kept, RingPlaces
    <3>2. \A i, j \in Ring' : i # j => slots'[i % QueueSize] # slots'[j % QueueSize]
      BY <2>6, <2>7 DEF Kept, RingPlaces
    <3> QED
      BY <2>5, <3>1, <3>2 DEF RingPlaces
  <2>9. Queued' = Queued \ {s}
    <3>0. Queued = {At(i) : i \in Ring} /\ Queued' = {slots'[i % QueueSize] : i \in Ring'}
      BY DEF Queued, Ring
    <3>1. \A i \in Ring \ {tail} : At(i) # s
      BY <2>2 DEF Kept, RingPlaces
    <3>2. \A i \in Ring' : slots'[i % QueueSize] \in Queued \ {s}
      BY <2>6, <3>0, <3>1
    <3>3. ASSUME NEW x \in Queued \ {s} PROVE x \in Queued'
      <4>1. PICK j \in Ring \ {tail} : x = At(j)
        BY <3>0, <3>3
      <4>2. j - d \in Ring' /\ j \in Int /\ d \in Int
        <5>1. j - d \in Ring'
          BY <2>4
        <5>2. d \in Int /\ head \in Int /\ tail \in Int
          BY TransportAssumption DEF Inv, TypeOK
        <5>3. j \in Int
          BY <5>2 DEF Ring
        <5> QED
          BY <5>1, <5>2, <5>3
      <4>3. (j - d) + d = j
        BY <4>2
      <4>4. slots'[(j - d) % QueueSize] = At(j)
        BY <2>6, <4>2, <4>3
      <4> QED
        BY <3>0, <4>1, <4>2, <4>4
    <3> QED
      BY <3>0, <3>2, <3>3
  <2> HIDE DEF s
  <2>10. WorkerPlaces'
    <3>1. conn'[w] = s /\ worker'[w] = "fetched"
      BY <1>0, <2>1
    <3>2. \A v \in Workers : v # w => conn'[v] = conn[v] /\ worker'[v] = worker[v]
      BY <1>0, <2>1
    <3>3. s \in 0 .. arrived /\ s # 0
      BY <2>3
    <3> QED
      BY <1>0, <2>3, <3>1, <3>2, <3>3 DEF Kept, WorkerPlaces, Alone
  <2>11. AcceptedKept'
    <3>0. s # 0 /\ conn'[w] = s /\ \A v \in Workers : v # w => conn'[v] = conn[v]
      BY <1>0, <2>1, <2>3
    <3>1. {conn'[v] : v \in Workers} \ {0} = ({conn[v] : v \in Workers} \ {0}) \cup {s}
      BY <1>2, <3>0
    <3>2. ~stopFlag' => 1 .. arrived' = closed' \cup Queued' \cup ({inHand'} \ {0})
                              \cup ({conn'[v] : v \in Workers} \ {0})
      BY <1>0, <2>3, <2>9, <3>1 DEF Kept, AcceptedKept
    <3>3. \A v \in Workers : conn[v] # 0 => conn[v] # s
      BY <2>3 DEF Kept, AcceptedKept
    <3>4. \A u, v \in Workers : u # v /\ conn'[u] # 0 => conn'[u] # conn'[v]
      BY <3>0, <3>3, <1>2 DEF Kept, AcceptedKept
    <3>5. \A v \in Workers : conn'[v] # 0 => conn'[v] \notin Queued' \cup closed'
      BY <1>0, <2>3, <2>9, <3>0 DEF Kept, AcceptedKept
    <3> QED
      BY <3>2, <3>4, <3>5 DEF AcceptedKept
  <2> QED
    BY <1>1, <2>8, <2>10, <2>11 DEF Kept
<1> QED
  BY <1>3, <1>4

\* Every other step of the master or a worker leaves the connections where they are.
LEMMA KeptNext == Kept /\ Inv /\ Inv' /\ [Next]_vars => Kept'
<1> SUFFICES ASSUME Kept, Inv, Inv', [Next]_vars PROVE Kept'
  OBVIOUS
<1> USE DEF transportVars, ringVars, masterVars, workerVars
<1>1. CASE StopService \/ Stopping
  BY <1>1, KeptFrame DEF StopService, Stopping, StopConnection, MgStopped, NotifyAll
<1>2. ASSUME NEW t \in Waiters, WaitService(t) \/ WaitWake(t) \/ Waiting(t) PROVE Kept'
  BY <1>2, KeptFrame DEF WaitService, WaitWake, Waiting, WaitSleep, WaitTest, Step
<1>3. CASE AcceptConnection
  BY <1>3, KeptAccept
<1>4. CASE Mastering
  <2>1. CASE Produce
    BY <2>1, KeptProduce
  <2>2. CASE WaitForRoom
    BY <2>2, KeptFrame DEF WaitForRoom
  <2>3. CASE LeaveLoop
    BY <2>3, KeptFrame DEF LeaveLoop
  <2>4. CASE Broadcast
    <3>1. \A w \in Workers : worker'[w] = worker[w] \/ (Alone(w) /\ Alone(w)')
      BY <2>4 DEF Broadcast, Alone
    <3> QED
      BY <2>4, <3>1, KeptFrame DEF Broadcast
  <2>5. CASE JoinWorkers
    BY <2>5, KeptFrame DEF JoinWorkers
  <2> QED
    BY <1>4, <2>1, <2>2, <2>3, <2>4, <2>5 DEF Mastering
<1>5. ASSUME NEW w \in Workers, WorkerWakes(w) \/ Serve(w) \/ Client(w) PROVE Kept'
  <2> USE DEF Goto, Stays, OnlyGoes
  <2>0. /\ worker \in [Workers -> WorkerSteps]
        /\ worker[w] \notin {"fetch", "sleepy", "asleep", "ended", "fetched"} => conn[w] # None
        /\ worker[w] = "fetched" /\ ~stopFlag => conn[w] # None
    BY DEF Inv, TypeOK, Kept, WorkerPlaces, Alone
  <2>1. CASE Fetch(w)
    BY <2>1, KeptFetch
  <2>2. CASE CloseConnection(w)
    BY <2>2, KeptClose
  <2>3. CASE FetchNothing(w) \/ FallAsleep(w) \/ WorkerWakes(w)
    BY <2>0, <2>3, KeptFrame DEF FetchNothing, FallAsleep, WorkerWakes, Alone
  <2>4. CASE Fetched(w)
    BY <2>0, <2>4, KeptFrame DEF Fetched, Alone
  <2>5. CASE NewRequest(w) \/ HandlerDone(w) \/ HandlerThrows(w)
    BY <2>0, <2>5, KeptFrame DEF NewRequest, HandlerDone, HandlerThrows, Alone
  <2>6. CASE ServeFile(w) \/ SendError(w) \/ RequestComplete(w)
    BY <2>0, <2>6, KeptFrame DEF ServeFile, SendError, RequestComplete, Alone
  <2>7. CASE ReadRequest(w) \/ ReadNothing(w)
    BY <2>0, <2>7, KeptFrame DEF ReadRequest, Discarded, ReadNothing, Alone
  <2>8. CASE ReadMore(w)
    BY <2>0, <2>8, KeptFrame DEF ReadMore, Alone
  <2>9. CASE ReadLeftover(w)
    BY <2>0, <2>9, KeptFrame DEF ReadLeftover, Alone
  <2> QED
    BY <1>5, <2>1, <2>2, <2>3, <2>4, <2>5, <2>6, <2>7, <2>8, <2>9 DEF Serve, Client
<1>6. CASE UNCHANGED vars
  BY <1>6, KeptFrame DEF vars
<1> QED
  BY <1>1, <1>2, <1>3, <1>4, <1>5, <1>6 DEF Next

\* Until it is stopped mongoose loses no connection it has accepted and gives none to
\* two workers: produce_socket and consume_socket, for every size of the ring.
THEOREM NoConnectionLost == Spec => []AcceptedKept
<1>1. Init => Inv /\ Kept
  BY InvInit, KeptInit
<1>2. (Inv /\ Kept) /\ [Next]_vars => (Inv /\ Kept)'
  BY InvNext, KeptNext
<1>3. Kept => AcceptedKept
  BY DEF Kept
<1> QED
  BY <1>1, <1>2, <1>3, PTL DEF Spec
=============================================================================
