---------------------------- MODULE HttpTransport ----------------------------
(***************************************************************************)
(* The HTTP side at work and at its end: http_server_core's service calls, *)
(* http_mongoose_transport, and the vendored mongoose server as t2h runs   *)
(* it (keep-alive off, no authorization, no SSL): the master thread, the   *)
(* ring of accepted sockets, the workers and their callbacks.              *)
(*                                                                         *)
(* Every callback begins with is_connected, which needs lock_;             *)
(* stop_connection keeps lock_ from beginning to end, so somebody else has *)
(* it exactly while that runs, and stop_ is not seen set by a callback.    *)
(* A request is read in one step; what it asks for is chosen when it is    *)
(* dispatched.  file_info_buffer::stop_graceful closes a descriptor, not   *)
(* the buffer, so it wakes no stream; a stream ends by its own deadline.   *)
(***************************************************************************)
EXTENDS Integers

CONSTANTS
  Workers,      \* mongoose's worker threads
  Waiters,      \* the threads that call wait_service
  QueueSize,    \* ARRAY_SIZE(ctx->queue)
  MaxConnections \* bound of the run: the connections clients make

ASSUME TransportAssumption == QueueSize \in Nat \ {0} /\ MaxConnections \in Nat

VARIABLES
  curState,  \* cur_state_ of http_server_core
  stopper,   \* where the caller of stop_service is
  stop,      \* stop_
  mgHandle,  \* mg_handle_ is not NULL
  stopFlag,  \* mongoose's stop_flag is set
  waiter,    \* where each waiting thread is
  master,    \* where the master thread is
  inHand,    \* the socket it has accepted and not queued
  arrived,   \* the number of connections made; they are numbered in this order
  slots,     \* queue
  head,      \* sq_head
  tail,      \* sq_tail
  worker,    \* where each worker is; in a handler, which one
  conn,      \* the connection it serves
  request,   \* whose request it answers
  left,      \* whose bytes are left in its buffer
  closed,    \* the connections closed
  polite     \* history: every client sent one whole request and no more

transportVars == <<curState, stopper, stop, mgHandle, stopFlag, waiter>>
ringVars == <<slots, head, tail>>
masterVars == <<master, inHand, arrived>>
workerVars == <<worker, conn, request, left, closed, polite>>
vars == <<transportVars, ringVars, masterVars, workerVars>>

None == 0  \* no connection

Socket == 0 .. MaxConnections
Handling == {"event", "partial", "whole", "file", "error", "complete"}
WorkerSteps == {"fetch", "sleepy", "asleep", "fetched", "read", "reject", "close", "ended"}
                 \cup Handling

TypeOK ==
  /\ curState \in {"running", "stoped"}
  /\ stopper \in {"none", "lock", "mg_stop", "notify", "done"}
  /\ stop \in BOOLEAN /\ mgHandle \in BOOLEAN /\ stopFlag \in BOOLEAN
  /\ waiter \in [Waiters -> {"none", "enter", "asleep", "test", "woken", "passed"}]
  /\ master \in {"select", "produce", "full", "broadcast", "join", "ended"}
  /\ inHand \in Socket /\ arrived \in Socket
  /\ slots \in [0 .. QueueSize - 1 -> Socket]
  /\ head \in 0 .. 2 * QueueSize /\ tail \in 0 .. QueueSize /\ tail <= head
  /\ worker \in [Workers -> WorkerSteps]
  /\ conn \in [Workers -> Socket] /\ request \in [Workers -> Socket]
  /\ left \in [Workers -> Socket]
  /\ closed \in SUBSET Socket /\ polite \in BOOLEAN

\* launch_service has returned true: mg_start has started the threads.
Init ==
  /\ curState = "running" /\ stopper = "none" /\ stop = FALSE
  /\ mgHandle = TRUE /\ stopFlag = FALSE
  /\ waiter = [t \in Waiters |-> "none"]
  /\ master = "select" /\ inHand = None /\ arrived = 0
  /\ slots = [i \in 0 .. QueueSize - 1 |-> None] /\ head = 0 /\ tail = 0
  /\ worker = [w \in Workers |-> "fetch"]
  /\ conn = [w \in Workers |-> None] /\ request = [w \in Workers |-> None]
  /\ left = [w \in Workers |-> None]
  /\ closed = {} /\ polite = TRUE

LockFree == stopper \notin {"mg_stop", "notify"}

\* Between its test and its wait a worker keeps ctx->mutex.
MutexFree == \A w \in Workers : worker[w] # "sleepy"

-----------------------------------------------------------------------------
(* stop_service                                                            *)

StopService ==
  /\ curState = "running" /\ stopper = "none"
  /\ curState' = "stoped" /\ stopper' = "lock"
  /\ UNCHANGED <<stop, mgHandle, stopFlag, waiter, ringVars, masterVars, workerVars>>

\* Variant of StopConnection: mongoose is not told.
StopConnectionFlagOnly ==
  /\ stopper = "lock" /\ LockFree
  /\ stop' = TRUE /\ stopper' = "mg_stop"
  /\ UNCHANGED <<curState, mgHandle, stopFlag, waiter, ringVars, masterVars, workerVars>>

\* stop_connection takes lock_, sets stop_ and enters mg_stop.
StopConnection ==
  /\ stopper = "lock" /\ LockFree
  /\ stop' = TRUE /\ stopFlag' = TRUE /\ stopper' = "mg_stop"
  /\ UNCHANGED <<curState, mgHandle, waiter, ringVars, masterVars, workerVars>>

\* mg_stop returns when the master has ended; mg_handle_ is NULL.
MgStopped ==
  /\ stopper = "mg_stop" /\ master = "ended"
  /\ mgHandle' = FALSE /\ stopper' = "notify"
  /\ UNCHANGED <<curState, stop, stopFlag, waiter, ringVars, masterVars, workerVars>>

\* waiter_.notify_all, without waiter_lock_; lock_ is released.
NotifyAll ==
  /\ stopper = "notify" /\ stopper' = "done"
  /\ waiter' = [t \in Waiters |-> IF waiter[t] = "asleep" THEN "test" ELSE waiter[t]]
  /\ UNCHANGED <<curState, stop, mgHandle, stopFlag, ringVars, masterVars, workerVars>>

-----------------------------------------------------------------------------
(* wait_service                                                            *)

Step(t, here, there) ==
  /\ waiter[t] = here /\ waiter' = [waiter EXCEPT ![t] = there]
  /\ UNCHANGED <<curState, stopper, stop, mgHandle, stopFlag, ringVars, masterVars, workerVars>>

\* A service that is not running is not waited for.
WaitService(t) == Step(t, "none", IF curState = "running" THEN "enter" ELSE "passed")

\* The wait begins without a look at mg_handle_.
WaitSleep(t) == Step(t, "enter", "asleep")

\* A spurious wakeup.
WaitWake(t) == Step(t, "asleep", "test")

WaitTest(t) == Step(t, "test", IF ~mgHandle THEN "woken" ELSE "enter")

-----------------------------------------------------------------------------
(* The master thread and the ring of sockets                               *)

Signalled(w) == worker' = [worker EXCEPT ![w] = "fetch"]

\* accept_new_connection: select has found a client at the listening socket.
AcceptConnection ==
  /\ master = "select" /\ ~stopFlag /\ arrived < MaxConnections
  /\ master' = "produce" /\ arrived' = arrived + 1 /\ inHand' = arrived + 1
  /\ UNCHANGED <<transportVars, ringVars, workerVars>>

\* Variant of HasRoom: one socket too many.
HasRoomOneMore == head - tail <= QueueSize

HasRoom == head - tail < QueueSize

\* produce_socket: the socket is queued and one waiting worker, if any, told.  When a
\* stop comes while the ring is full it is neither queued nor closed.
Produce ==
  /\ master = "produce" /\ MutexFree
  /\ HasRoom \/ stopFlag
  /\ IF HasRoom
     THEN slots' = [slots EXCEPT ![head % QueueSize] = inHand] /\ head' = head + 1
     ELSE UNCHANGED <<slots, head>>
  /\ master' = "select" /\ inHand' = None
  /\ \/ \E w \in Workers : worker[w] = "asleep" /\ Signalled(w)
     \/ (\A w \in Workers : worker[w] # "asleep") /\ UNCHANGED worker
  /\ UNCHANGED <<transportVars, tail, arrived, conn, request, left, closed, polite>>

WaitForRoom ==
  /\ master = "produce" /\ MutexFree
  /\ ~HasRoom /\ ~stopFlag
  /\ master' = "full"
  /\ UNCHANGED <<transportVars, ringVars, inHand, arrived, workerVars>>

\* stop_flag ends the loop; the listening sockets are closed.
LeaveLoop ==
  /\ master = "select" /\ stopFlag
  /\ master' = "broadcast"
  /\ UNCHANGED <<transportVars, ringVars, inHand, arrived, workerVars>>

\* sq_full is broadcast without the mutex: a worker that has tested and does not
\* sleep yet misses it.
Broadcast ==
  /\ master = "broadcast"
  /\ master' = "join"
  /\ worker' = [w \in Workers |-> IF worker[w] = "asleep" THEN "fetch" ELSE worker[w]]
  /\ UNCHANGED <<transportVars, ringVars, inHand, arrived, conn, request, left, closed, polite>>

\* Variant of JoinWorkers: it does not wait for those in a handler.
JoinWorkersEarly ==
  /\ master = "join"
  /\ \E w \in Workers : worker[w] = "ended"
  /\ master' = "ended"
  /\ UNCHANGED <<transportVars, ringVars, inHand, arrived, workerVars>>

\* num_threads is 0: stop_flag becomes 2.
JoinWorkers ==
  /\ master = "join"
  /\ \A w \in Workers : worker[w] = "ended"
  /\ master' = "ended"
  /\ UNCHANGED <<transportVars, ringVars, inHand, arrived, workerVars>>

-----------------------------------------------------------------------------
(* A worker                                                                *)

Goto(w, there) == worker' = [worker EXCEPT ![w] = there]
Stays == UNCHANGED <<transportVars, ringVars, masterVars>>
OnlyGoes == Stays /\ UNCHANGED <<conn, request, left, closed, polite>>

\* consume_socket finds nothing to do and is about to wait.
FetchNothing(w) ==
  /\ worker[w] = "fetch" /\ MutexFree
  /\ head = tail /\ ~stopFlag
  /\ Goto(w, "sleepy") /\ OnlyGoes

\* pthread_cond_wait
FallAsleep(w) == worker[w] = "sleepy" /\ Goto(w, "asleep") /\ OnlyGoes

\* A spurious wakeup.
WorkerWakes(w) == worker[w] = "asleep" /\ Goto(w, "fetch") /\ OnlyGoes

\* Variant of Wrapped: the indices grow for ever.
WrappedNot(i) == i

\* The two indices after the tail has passed one socket.
Wrapped(i) == IF tail + 1 > QueueSize THEN i - QueueSize ELSE i

\* It takes the oldest socket, if there is one, and tells the master there is room.
Fetch(w) ==
  /\ worker[w] = "fetch" /\ MutexFree
  /\ head > tail \/ stopFlag
  /\ IF head > tail
     THEN /\ conn' = [conn EXCEPT ![w] = slots[tail % QueueSize]]
          /\ tail' = Wrapped(tail + 1) /\ head' = Wrapped(head)
     ELSE UNCHANGED <<conn, tail, head>>
  /\ master' = IF master = "full" THEN "produce" ELSE master
  /\ Goto(w, "fetched")
  /\ UNCHANGED <<transportVars, slots, inHand, arrived, request, left, closed, polite>>

\* stop_flag is read again, without the mutex: a worker that ends now serves nobody
\* and leaves its socket open.
Fetched(w) ==
  /\ worker[w] = "fetched"
  /\ Goto(w, IF stopFlag THEN "ended" ELSE "read") /\ OnlyGoes

\* Variant of Discarded: the bytes stay.
DiscardedNot(w) == left' = [left EXCEPT ![w] = conn[w]]

\* The buffer after a request of which nothing follows.
Discarded(w) == UNCHANGED left

\* read_request and parse_http_request: a request of this client, good or not.
ReadRequest(w) ==
  /\ worker[w] = "read" /\ left[w] = None /\ ~stopFlag
  /\ request' = [request EXCEPT ![w] = conn[w]]
  /\ \E there \in {"event", "reject"} : Goto(w, there)
  /\ Discarded(w)
  /\ Stays /\ UNCHANGED <<conn, closed, polite>>

\* More than a request, or a part of one, or too much for the buffer: data_len is not
\* reset for the next connection.
ReadMore(w) ==
  /\ worker[w] = "read" /\ left[w] = None /\ ~stopFlag
  /\ request' = [request EXCEPT ![w] = conn[w]]
  /\ left' = [left EXCEPT ![w] = conn[w]]
  /\ polite' = FALSE
  /\ \E there \in {"event", "reject", "close"} : Goto(w, there)
  /\ Stays /\ UNCHANGED <<conn, closed>>

\* What an earlier client left is read first; a full buffer stays full.
ReadLeftover(w) ==
  /\ worker[w] = "read" /\ left[w] # None
  /\ request' = [request EXCEPT ![w] = left[w]]
  /\ \/ left' = [left EXCEPT ![w] = None] /\ Goto(w, "event")
     \/ UNCHANGED left /\ Goto(w, "reject")
  /\ Stays /\ UNCHANGED <<conn, closed, polite>>

\* The client has gone without a request, or stop_flag ends the wait for it.
ReadNothing(w) ==
  /\ worker[w] = "read"
  /\ Goto(w, "close") /\ OnlyGoes

\* MG_NEW_REQUEST: for a part of the content, or for the whole or its head.  A request
\* that is none of the three is answered by nobody.
NewRequest(w) ==
  /\ worker[w] = "event" /\ LockFree
  /\ \E h \in {"partial", "whole", "complete"} : Goto(w, h)
  /\ OnlyGoes

\* A handler of http_server_core returns.  A GET with a range is also a request for
\* the content.
HandlerDone(w) ==
  /\ worker[w] \in {"partial", "whole"}
  /\ Goto(w, IF worker[w] = "partial" THEN "whole" ELSE "complete")
  /\ OnlyGoes

\* A handler throws: the callback returns NULL and mongoose goes on by itself.
HandlerThrows(w) ==
  /\ worker[w] \in {"partial", "whole"}
  /\ Goto(w, "file") /\ OnlyGoes

\* handle_request without the callback: the file, or an error.
ServeFile(w) ==
  /\ worker[w] = "file"
  /\ \E there \in {"error", "complete"} : Goto(w, there)
  /\ OnlyGoes

\* send_http_error: the callback MG_HTTP_ERROR, then the reply.
SendError(w) ==
  /\ worker[w] \in {"error", "reject"} /\ LockFree
  /\ Goto(w, IF worker[w] = "error" THEN "complete" ELSE "close")
  /\ OnlyGoes

\* The callback MG_REQUEST_COMPLETE; it asks is_connected too.
RequestComplete(w) ==
  /\ worker[w] = "complete" /\ LockFree
  /\ Goto(w, "close") /\ OnlyGoes

\* close_connection; keep-alive is off.
CloseConnection(w) ==
  /\ worker[w] = "close"
  /\ closed' = closed \cup {conn[w]}
  /\ conn' = [conn EXCEPT ![w] = None] /\ request' = [request EXCEPT ![w] = None]
  /\ Goto(w, "fetch") /\ Stays /\ UNCHANGED <<left, polite>>

-----------------------------------------------------------------------------
Stopping == StopConnection \/ MgStopped \/ NotifyAll

Mastering == Produce \/ WaitForRoom \/ LeaveLoop \/ Broadcast \/ JoinWorkers

Serve(w) == \/ FetchNothing(w) \/ FallAsleep(w) \/ Fetch(w) \/ Fetched(w)
            \/ NewRequest(w) \/ HandlerDone(w) \/ HandlerThrows(w) \/ ServeFile(w)
            \/ SendError(w) \/ RequestComplete(w) \/ CloseConnection(w)
            \/ stopFlag /\ ReadNothing(w)

Client(w) == ReadRequest(w) \/ ReadMore(w) \/ ReadLeftover(w) \/ ReadNothing(w)

Waiting(t) == WaitSleep(t) \/ WaitTest(t)

Next == \/ StopService \/ Stopping \/ Mastering
        \/ \E t \in Waiters : WaitService(t) \/ WaitWake(t) \/ Waiting(t)
        \/ AcceptConnection
        \/ \E w \in Workers : WorkerWakes(w) \/ Serve(w) \/ Client(w)

Spec == Init /\ [][Next]_vars

\* The threads run; no client has to connect or to send a request, nobody has to stop.
Fairness == /\ WF_vars(Stopping) /\ WF_vars(Mastering)
            /\ \A w \in Workers : WF_vars(Serve(w))
            /\ \A t \in Waiters : WF_vars(Waiting(t))

FairSpec == Spec /\ Fairness

-----------------------------------------------------------------------------
\* When stop_connection lets go of mongoose no worker is left that could call into
\* the transport or a handler, in whatever request it was; and wait returns from its
\* loop only after that: stop_, which is set long before, does not let it go.
QuietAfterStop ==
  /\ ~mgHandle => master = "ended" /\ \A w \in Workers : worker[w] = "ended"
  /\ \A t \in Waiters : waiter[t] = "woken" => ~mgHandle

Queued == {slots[i % QueueSize] : i \in tail .. head - 1}

\* Until it is stopped the server loses no connection it has accepted: each is with
\* the master, in the ring, with a worker or closed, and with one worker at most
\* (produce_socket, consume_socket and the wrap of the two indices).
AcceptedKept ==
  /\ ~stopFlag => 1 .. arrived = closed \cup Queued \cup ({inHand} \ {None})
                              \cup ({conn[w] : w \in Workers} \ {None})
  /\ \A w, v \in Workers : w # v /\ conn[w] # None => conn[w] # conn[v]
  /\ \A w \in Workers : conn[w] # None => conn[w] \notin Queued \cup closed

\* As long as every client sends one whole request and no more, a worker answers the
\* request of the connection it serves (process_new_connection never empties the
\* buffer between two connections).
AnsweredOwn ==
  polite => \A w \in Workers : worker[w] \in Handling \cup {"reject"} => request[w] = conn[w]

\* stop_service returns if it meets all workers waiting for a connection.  (It does
\* not if it meets one in a callback, and it need not if one is about to wait.)
IdleStopReturns ==
  (/\ stopper = "mg_stop" /\ master \notin {"join", "ended"}
   /\ \A w \in Workers : worker[w] \in {"asleep", "ended"})
    ~> stopper = "done"

\* The inductive invariant of the stop: mg_handle_ goes with the steps of the stopper,
\* and the master's last step follows the last of the workers.
Stopped ==
  /\ stopper \in {"notify", "done"} <=> ~mgHandle
  /\ ~mgHandle => master = "ended"
  /\ master = "ended" => \A w \in Workers : worker[w] = "ended"
  /\ \A t \in Waiters : waiter[t] = "woken" => ~mgHandle

\* The inductive invariant of the buffers: with polite clients they are empty.
NothingLeft ==
  polite => \A w \in Workers :
              /\ left[w] = None
              /\ worker[w] \in Handling \cup {"reject"} => request[w] = conn[w]

Inv == TypeOK /\ Stopped /\ NothingLeft

\* The inductive invariant of the accepted connections: each has one place.
Ring == tail .. head - 1
Alone(w) == worker[w] \in {"fetch", "sleepy", "asleep"}

InHandPlace == /\ IF master \in {"produce", "full"} THEN inHand \in 1 .. arrived ELSE inHand = None
               /\ closed \subseteq 1 .. arrived /\ inHand \notin closed

RingPlaces == /\ head - tail <= QueueSize
              /\ \A i \in Ring : slots[i % QueueSize] \in (1 .. arrived) \ (closed \cup {inHand})
              /\ \A i, j \in Ring : i # j => slots[i % QueueSize] # slots[j % QueueSize]

WorkerPlaces ==
  \A w \in Workers :
    /\ conn[w] \in 0 .. arrived
    /\ conn[w] # None => conn[w] \notin closed \cup {inHand}
    /\ Alone(w) => conn[w] = None
    /\ conn[w] = None => Alone(w) \/ worker[w] = "ended" \/ (worker[w] = "fetched" /\ stopFlag)

Kept == InHandPlace /\ RingPlaces /\ WorkerPlaces /\ AcceptedKept

\* What the comment of stop_connection takes for granted: mongoose stops its work
\* and the waiting threads are let go.
StopReturns == stopper = "lock" ~> stopper = "done"
=============================================================================
