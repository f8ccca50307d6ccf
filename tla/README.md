# A TLA+ model of t2h

t2h downloads torrents and serves their files over HTTP while they are still
being downloaded. This directory holds TLA+ modules translated from its source,
TLC configurations that check them on small instances, and proofs, checked by
TLAPS, of what matters most for every instance. `PROJECT.json` names for each
definition the lines it stands for, for each property the run that checks it
and a plausible bug it catches, and lists the hazards the properties are for.

Paths below are relative to `src/src/`.

## The system

```
 console client (apps/full_model.cpp)
        │ t2h_*
 external API ── services_manager ──┬── torrent_core ── sequential controller ── libtorrent
 handles,        settings           │      shared_buffer, futures, file_info, error resolver
 torrent numbers                    │             │ on_file_add / update / complete
                                    │        event adapter
                                    │             │ send_message
                                    │        notification_center ── one unit and thread per receiver
                                    │             │ on_notify
                                    │        file_info_buffer
                                    │             │ on_bytes_avaliable_change
                                    └── http_server_core ── chunked streams ── mongoose transport
```

Threads: the callers of the C API, the main loop of `torrent_core`, libtorrent's
network and disk threads, one thread per notification receiver, six mongoose
workers and the mongoose master. They share the buffers below under five
different mutexes, and some fields under none.

| component | state | operations | what is hard | what makes it correct |
|---|---|---|---|---|
| `torrent_core` | service state, session, loop thread | launch, stop, wait, add, remove, start/pause/resume, main loop | operations keep `core_lock_` while they wait for the loop, which never takes it; late answers | one torrent per successful add, none unseen, stop returns |
| sequential controller | settings, references | `add_torrent`, alert handlers | the promise is shared with the caller without a lock | an answer reaches the call it belongs to |
| `shared_buffer`, `torrent_ex_info` | entry per sandbox | add, get, remove | entry and session change at different times | an id a caller holds names an entry |
| `torrent_core_future` | status, handle | timed wait, release | status set and tested by two threads | no wait without a deadline |
| `file_info` | piece counters of each file | add, update on a piece, reset at completion | any order of pieces, shared pieces, sizes that do not divide | announcements are true, grow and reach the size |
| error resolver | one resolver per torrent | look up, delay, resolve | time of day wraps | one recheck per hang, not before its delay |
| notification center | units by name | add, remove, send, configure | join under the lock, lost wakeups, batches, limits | FIFO, nothing accepted is lost, removal is final |
| event adapter | none | one notification per event | messages may be dropped behind it | order is kept |
| `file_info_buffer` | sizes, available bytes, subscribers of each file | add, update, get, (un)subscribe | streams come and go during an update | every stream knows the number |
| chunked stream | position, known bytes | wait, read, write | waits with deadlines against a growing file | sends only what is there, without gaps |
| `http_server_core`, replies | service state | launch, stop, wait, three request handlers | stop while requests sleep; inclusive and exclusive ends | stop and wait end; length says what is sent |
| mongoose transport | `lock_`, `stop_`, `mg_handle_` | establish, stop, wait, callbacks, write | the callbacks need the lock of the stop | no callback after the stop |
| mongoose (vendored) | ring of sockets, workers, buffers | accept, read, dispatch, fall back to a file | the ring wraps, a buffer outlives its client | every connection served once, with its own request |
| external API, handles | handles, torrent numbers | init, close, wait, calls | numbers are reused, any thread may call | a number names one thing |
| services manager | services by name | register, stop all, wait all | close against wait | all stop |
| setting manager | keys, shared by all cores | load, get | a later core replaces the settings of an earlier | a lone core is served with its own |
| http utilities, parser, reply builder | none shared | text | boundaries of words and numbers | text is read as it was written |
| console client | torrents it knows | commands, interrupt | the interrupt and the loop share a lock and a flag | the core is asked for what is typed and nothing else, the console ends when it should |
| utility, syslogger | none shared | helpers, logging | none | not modelled |

## Plan

Done, in this order; each step is a component, its MC module and, where named,
its proofs:

1. `TorrentAdd` (proofs): adding and removing torrents, the longest protocol
   between three threads.
2. `Mailboxes` (abstract) and `NotificationCenter`, which refines it (proofs):
   the way from the torrent side to the HTTP side.
3. `FileInfo` (proofs): what is sent that way, and whether it is true.
4. `ContentStream` (proofs): what the HTTP side does with it.
5. `HttpTransport` (proofs): accepting, serving, stopping and waiting.
6. `Settings` and `ExternalApi` (proofs): the C API over the lives of all
   services.
7. `FilePipeline` (proofs): the composition of 3, 2 and 4 over a center that
   drops messages; `Mailboxes` stands for the center, which 2 shows to be
   allowed.
8. The algorithms without a state of their own: `RequestParser`,
   `HttpRequests`, `HttpReply`, `MongooseRequest`, `ErrorResolver`,
   `ConsoleClient`.

Open: the proof of the rest of `RequestsRead`; a composition of `HttpTransport`
with `ContentStream`, so that a stop meets streams that sleep.

## The modules and what their runs show

Actions have the names of the functions they translate. A handler is one action
up to the point where another thread can see or change what it works on; there
it is cut, and the steps follow one another through a `loop` or `step` variable.
Operators introduced as "Variant of" are plausible bugs; they occur in no
specification and serve to show that each property would notice one.

### TorrentAdd

The API side of `torrent_core` (`core_lock_` is `holder`), its main loop
(`loop`, `batch`, `current`), the alert handlers of the controller, the shared
buffer and the promise of each call (`buffer`, `future`, `promised`, `handle`),
and libtorrent's session as the code uses it: queued requests, alerts, live
torrents. A sandbox directory names a call, its torrent and its entry, since
`prepare_sandbox` refuses a directory that exists. `add_torrent` is cut where it
waits (`AddTorrent`, then `AddAnswered` or `AddTimeout`), `on_add_torrent` where
the promise is read (`OnAddTorrent`), read again (`OnAddPublish`) and fulfilled
(`OnAddRelease`). The second read may find it gone; the code then dereferences a
null pointer and the model goes to `"crashed"`. A handle whose torrent the
session has dropped may or may not have expired; both outcomes are possible.

* `torrent_add`: three calls over two torrents. A caller never gets another
  call's torrent (`OwnHandle`); no torrent is downloaded that the buffer does
  not know (`LiveTracked`); a torrent is lost only to its owner or to a
  duplicate (`LostOnlyToDuplicate`); an acknowledged id keeps its entry; the
  session outlives the loop; a stop returns; a torrent whose add was reported as
  failed is removed, unless its answer was already being stored
  (`AbandonedIsRemoved`).
* `torrent_add_duplicate`: adding the same file twice removes the first torrent,
  against the comment at `core/torrent_core/torrent_core.cpp:144`.

Bounds: three sandboxes are a first call, a duplicate and a bystander;
`MaxBacklog` only limits when libtorrent raises a further notice.

### Mailboxes, NotificationCenter

`Mailboxes` is the promise: an open mailbox takes messages up to a capacity or
drops them, hands them out in order, and is emptied when it is closed.
`NotificationCenter` is the code: the center's `lock_` (held through a removal,
`removing`), and in each unit the queue, the batch, `stop_work_` and the place of
its thread. The sleep of the thread may end at any time: the wakeup may be
lost, and the sleep has a timeout.

* `notification_center`: with two receivers, messages are neither lost, repeated
  nor reordered (`NothingLost`), a removed receiver has no thread, what was
  accepted is delivered unless the receiver goes, a removal returns, and the
  whole implements `Mailboxes` (`ImplementsMailboxes`).

Bounds: `MaxNotifications = 1` gives a queue of two, the least that can be full
with an order in it; `MaxSent` messages fill queue and batch.

### FileInfo

The counters of every file of a torrent and the two alert handlers that step
them. `av_pieces` is a set; `Links` and `Scan` are the loop over its sorted
elements. libtorrent verifies pieces in any order and posts the completion of a
file with its last piece; the two alerts are handled in either order.

* `file_info`: three files. The first two share a piece, and all orders of their
  pieces come; the third is longer than two ranges, and its pieces come up to
  three ahead. The scan never leaves the vector (`NeverPastEnd`), what is
  announced never shrinks and in the end is the size (`PublishedGrows`,
  `WholeAnnounced`). `CountsTrue`: the available bytes never exceed the volume
  of the pieces there; and if the pieces come in order, as the controller asks
  libtorrent for, they are sequential bytes and lag at most one range and one
  piece.
* `file_info_sequential`: in another order they are not sequential, against the
  comment at `core/torrent_core/torrent_info.hpp:56`; what saves the program is
  only that the order is usually kept.

Bounds: the constants are one torrent layout. Ten is the least range
`file_info_get_download_offset` yields, so fourteen pieces in all orders give a
second, incomplete range, and the third file steps through complete ones.

### ContentStream

Workers in a request handler (`step`), their stream (`seek`, `seen`), the
subscribers of the file, `update_info` on its way from one subscriber to the
next with the buffer's lock held (`telling`, `told`), and the disk. The ranges
are those of a Range header, which the code does not check.

* `file_buffer` (the side that is read): two requests, ranges shorter and
  longer than a chunk, ends inside, at and behind the end of the file, an end
  before the start. Each
  stream knows the announced number (`SubscribersKnow`), sends no byte of its
  range before it is announced (`RangeIsReady`), has sent its whole range when
  it reports success (`OkIsComplete`) and is woken by the announcement it waits
  for, without the help of its deadline (`AnnouncedWakes`).
  A read may find the file ending too early (`SendFails`), or throw
  (`SendThrows`), which leaves the stream among the subscribers.
* `content_stream_ahead`: the last read takes a whole chunk, so bytes behind the
  range are sent that nobody announced, against the comment at
  `core/http_server/details/hs_chunked_ostream_impl.cpp:67`.

Bounds: a file of three positions in chunks of two has an incomplete last chunk,
and both aligned and unaligned second chunks.

### HttpTransport

`stop_service`, `wait_service`, `stop_connection` and `wait`, and mongoose as
t2h runs it: the master that accepts, the ring of accepted sockets with its two
indices, and the workers from taking a socket to closing it, with the buffer
each keeps (`left`). `lock_` is taken for one test by each callback and for all
of `stop_connection` by the stopper. A request is read in one step; what it asks
for is chosen when it is dispatched, and a client may send more than its request
or none.

* `http_transport`: mongoose is dropped, and a waiting thread let go, only when
  the master and every worker have ended (`QuietAfterStop`); until the stop
  every accepted connection is in exactly one place (`AcceptedKept`); as long as
  every client sends one whole request and no more, a worker answers the request
  of the connection it serves (`AnsweredOwn`), which is all that can be said,
  because `data_len` is not reset between two clients; a stop that meets all
  workers asleep returns (`IdleStopReturns`).
* `http_transport_stop`: a stop that meets a request does not return. The worker
  needs `lock_` to report the end of its request; the stopper holds it until the
  worker has ended.

Bounds: with a ring of two and three connections the master finds it full with
one in hand and the indices wrap.

### FilePipeline

The controller's announcements (`OnAddTorrent`, `OnPieceFinished`,
`OnFileComplete`) through the adapter into a mailbox of the capacity the center
has, and out of it through `file_info_buffer_realtime_updater` into the buffer
that readers subscribe to. A full mailbox drops the message, and the controller
is not told.

* `file_buffer` (the side that is filled): whatever is dropped, the buffer has
  the right size of a file, no more bytes than were announced, and its readers know what it knows
  (`BufferIsTrue`); it takes nothing back (`BufferGrows`); a file whose add and
  whose last message were accepted is known with its last number in the end
  (`AnnouncedArrives`). A file whose add was dropped stays unknown.

Bounds: two files compete for a queue that two messages fill; one is counted one
byte beyond its size, where the clipping matters.

`MCFileBuffer` runs the two sides of the buffer one or the other at a time, not
their product: what `ContentStream` takes for granted of the filling side is
that the numbers never fall, which is `BufferGrows`. The fairness is that of
each side by itself.

### Settings, ExternalApi

`Settings` is the key storage: defaults, replacements, what `get_value` answers
or throws for, and which keys each launch asks for. `ExternalApi` has the table
of handles, the torrents of each, the state of both services of every core, and
for each thread of the client the call it is in, cut at every point where
another thread's call can come between: `t2h_init` into loading, checking and
the two launches, `t2h_close` into the steps of `stop_all`, `t2h_wait` into
those of `wait_all`. Calls in one core keep it alive (`Referred`). What ends the
process (a null pointer after `get_service`, an exception out of `create_url`)
is `crashed`; what never returns (a port in use, `LaunchHangs`) is `stuck`.

* `external_api`: two threads, three cores or torrents. As long as always the
  newest is closed or deleted, a number leads to its own core and torrent
  (`NumbersAreOwn`, `OwnEffects`); otherwise it need not, since a new number is
  the size of the map plus one. A closed core does not listen and, unless a
  listen error came first, has no loop and no session (`ClosedIsQuiet`). A
  process with one core at a time is served with its own settings
  (`OneAtATimeServed`); with two it need not be, since they are shared.

Bounds: `MaxMade` cores and torrents together are enough to number three, to
close the middle one and to number again; one listen error.

### RequestParser, HttpRequests, HttpReply, MongooseRequest, ErrorResolver, ConsoleClient

Functions of a word: the characters of a request, the value of a header, the
calls that build a reply, the bytes a socket takes, the status updates of a
torrent, the events of a console. `MCAlgorithms` grows words of each kind from
starting words (`Starts`, `Symbols`, `Growth`), so that every word of bounded
length is a state, and evaluates in it what the modules say against reference
definitions. `Histories` has the state after each symbol of a word.

* `algorithms`, `RequestsRead`: `http_request_parser` takes exactly what it
  should and keeps every character in its field; mongoose decides where a
  request ends no matter how its bytes arrive, moves no character to another
  field, and leaves exactly what follows a body for the next request.
* `RequestsAnswered`: bounds of a Range header reach the handler in their
  places; the figures of a reply are those of the bytes (`FiguresAgree`, with
  the one byte too many of an open range); each request gets one reply, except
  that a range that is taken gets two (`RepliesFor`). The input of `Dispatch` is
  not only the request but also which of the two handlers that read the file
  would throw in doing so (`Senders`): such a handler has begun its reply, the
  later one is skipped, and the request counts as not served, so that mongoose
  replies itself, behind what was sent. A file is found under its escaped name,
  with the exceptions named there; the file reply mongoose falls back to, its
  refusals and its writes; the reply builder keeps the order of its calls.
* `HangsResolved`: a recheck comes only after a hang was seen and its delay,
  once for each; and before midnight it does come. The clock is a time of day,
  and words of updates cross midnight.
* `CommandsCarriedOut`: nothing but what is typed is asked of the core; an
  interrupt ends the console after one more line; torrents can be named.
* `console_pause`: a pause never reaches the core, against the help of the
  console, "take id for pause download" (`apps/full_model.cpp:361`): the option
  is registered as a number and read, at line 270, as a text, which throws
  before the call at line 277 (`PausesCarriedOut`).

Bounds: the alphabets have a few characters of each class the code tells apart;
the lengths (four to fourteen symbols behind the starting words) reach two
ranges, two headers, an escape and a plus, and a midnight between two updates.
The digits are those from 0 to 3 (0 to 2 in the versions the parser reads).
`RequestParser` and `HttpReply` model code of `common/http_utility` that only the
tests call: the server reads its requests with mongoose and writes its replies
itself.

## Fairness

Only what the code justifies: threads that can run do. The waits of the main
loop, of `add_torrent` and of a unit's thread have timeouts, so their next step
is weakly fair. A handler of a request ends because every wait in it has a
deadline; a client that stops reading without closing its connection is taken to
fail at last. In `HttpTransport` the stopper, the master, each worker and each
waiting thread are weakly fair; in `FilePipeline` only the updater's thread is.
Nothing makes clients connect or send, libtorrent verify or owners stop.
`file_buffer` does not assume that deadlines come, so a lost wakeup would
show. `CHECK_DEADLOCK FALSE` stands where the modelled work really ends: all
pieces verified, all requests answered, the service stopped, the word complete.

## What is proved

Each `*Proofs` module proves its component's `Inv` inductive (`InvInit`,
`InvNext`), then the properties as consequences, for every value of the
constants under the assumption named in the component's module.

* `TorrentAddProofs`. `OwnHandle` alone is not inductive: a promise could hold
  anything. `SandboxLife` adds the life of a sandbox: as long as its add is
  queued nothing else in the session, the alerts or the loop knows it, a promise
  holds its own torrent or none, and a ready one holds it. `QueuedOnce` makes
  the queued add unique, so that serving it ends that phase. `LockOwner` ties
  the waiting call to its entry. `LostOnlyToDuplicate` adds `LoneInv`: a torrent
  whose info-hash no other call names is answered once, so that its answer is
  stored for a caller that still waits or is not asked for, and before it is
  added nothing asks for its removal.
* `NotificationCenterProofs`. `BatchBounded` says where the thread's batch is
  empty, which both the memory bound (`HeldBounded`: two full queues) and the
  order of batch and queue need. The refinement follows step by step: taking a
  batch is a stutter, a delivery is a `Get`, the end of a removal the `Close`.
* `FileInfoProofs`. `NeverPastEnd` needs to know how many pieces were counted
  before the range under scan: `Counters` keeps `endPos - Chocked + count` below
  the count of all pieces until the completion of the file was handled, and
  says that afterwards at most the last piece is counted again, so that the
  recount is not due. `AlertsMatch` ties the alerts to the verified pieces.
  `CountsTrue` adds `VolumeInv`, which counts a piece that waits to be handled
  against what the file holds, and `OrderInv`: while the pieces come in order
  the vector is the set of the handled ones, without a gap, and the scan has
  passed every full range (`InStep`).
* `HttpTransportProofs`. `Stopped`: `mg_handle_` goes with the steps of the
  stopper, and the master's last step follows the last of the workers.
  `NothingLeft`: with polite clients the buffers are empty. `Kept`: each
  accepted connection has one place, for which the indices of the ring must be
  at most its size apart, so that two of them never meet modulo the size.
* `FileBufferProofs`, of `FilePipeline`. `BufferGrows` needs that no message in
  the queue holds less than the buffer: `QueueFits` keeps the messages of a file
  in the order of their numbers, between what the buffer knows and what was
  announced last, with the add in front; `AnnouncedGrow` that a new message fits
  behind them.
* The same module, of `ContentStream` (whose `Init`, `Next` and `Inv` are named
  `StreamInit`, `StreamNext` and `StreamInv` for that), from `StreamAssumption`:
  ranges of natural numbers, a file and a chunk of at least one byte. `Numbers`
  makes the number of a stream and its place in the list agree, which rests on
  `unregistr_subscriber` never erasing anybody; `Informed` says who may not have
  the last number yet while
  `update_info` walks the list; `Announced` that the bytes a stream waits for
  are on the disk when it reads, so that a chunk which is not the last is read
  whole (`FoundIsThere`) and the position is never ahead of what was sent
  (`Gapless`).
* `ExternalApiProofs`. `ClosedIsQuiet` needs more than the steps of one
  `t2h_close`: `OnePlace` says that a core is either with one thread that makes
  or closes it, or under one number, or closed, so that no second close runs
  over it and no launch brings it back; `StoppedIsQuiet` that a stopped torrent
  core still has its loop or session only while a thread waits in `join` or
  after a listen error. Numbers may lead to the wrong core all the same.
  `NumbersAreOwn` holds while always the newest is closed and deleted: the keys
  of every table are then `1 .. k` (`NoHoles`), so that `size() + 1` is free.
  `DeletedOnce` keeps what one thread is deleting apart from what the clients
  still hold and from what other threads delete, and `AddedToOwn` sends a new
  torrent to its client's core. `OwnEffects` adds `UsedOwn`: a call carries the
  identifier its client holds for the torrent. For `TypeOK` the numbers must not
  run out: there are more of them than handles in the table (`NumberLeft`), and
  no core knows more torrents than were added (`FewInfos`). `OneAtATimeServed`
  rests on `SoleInv`: with one core at a time either one core is open or one
  thread is making or closing one, and each step of `t2h_init` finds what the
  earlier ones have prepared.
* `AlgorithmProofs`, for every input. An induction over the updates of a history
  or the characters of a text is one over a set of numbers (`SetInduction`, from
  the well-foundedness of `<`), since the theorems of the library that take an
  operator cannot be used. That a recursive function exists is shown first: one
  that goes from each number to the next with `RecursionExists`, over a set of
  states the steps stay in, and one that leads from each place of a text to
  lower ones with `DescentExists`. The words of each kind are typed by an
  inductive invariant (`CommandsTyped`, `RequestsTyped`), and the operators of
  the properties are shown for every value of that type.
  * `RecheckIsEarned` and `RecheckDoesCome`, together `HangsResolved`, for every
    history of updates and all values of the day, the delay and the checkout: a
    resolver in a history was seen to hang before (`SeenBefore`), and the day's
    turn makes its deadline pass early or late; until midnight the next checkout
    is at most its interval away (`CheckedSoon`).
  * `CommandsCarriedOut`, and that a pause asks the core for nothing
    (`PauseNeverCalls`), for every history of the console: the states it can be
    in (`Known`) are closed under every event, what the core was asked for only
    grows, by what the line typed last says (`Moves`), and a state behind an
    interrupt is one line from the end (`EndsSoon`).
  * `RequestEndsOnce`: `get_request_len` decides at the first character it can,
    so more input changes nothing. `ReadsInParts` is the case of one character.
  * `RequestsAnswered`, from a theorem for each of its parts, for every text of
    any symbols, every name, every sequence of sends or calls:
    * the Range header: `EveryRequestAnswered` (`RepliesFor`, for every choice of
      the handlers that throw; `HandlersCalled` says which are due and which are
      reached; with the comma before the `=` the second part holds the `=`, is no
      number, and is refused before the copy of the first part could throw,
      `NoHeaderThrows`),
      `RangeFigures` and `FiguresAlwaysAgree` (every bound that is read is a
      number, `BoundTyped`), `BoundsAlwaysRead` (where the `=`, the comma and
      the `-` of a written header stand), `FirstRangeAlwaysCounts`;
    * mongoose's own replies: `FallbackNeverWrites` (the first rule that holds
      decides) and `FallbackFigures` (`ScanReads`: a number is read where it
      stands);
    * the name of the file: `FoundAlwaysAsNamed` and `DecodersAlwaysAgree`. An
      escaped text is laid out piece by piece (`FlattenLaid`), the decoder leads
      from the beginning of each piece to that of the next, and the removal of
      slashes and dots keeps a text exactly if it has none to remove
      (`UnbrokenKept`, `BrokenCut`);
    * the writes: `ChunksAlwaysInOrder`, by the bytes that are left at each send;
    * the reply builder: `StockReplyAlwaysWhole` and `MessagesAlwaysBuilt`. The
      text is a sequence of pieces of any names, and each call adds its own
      behind it.
* `RequestParserProofs`, with the same inductions: `EveryRequestWrittenIsRead`,
  for every alphabet that holds the parser's marks and every request of plain
  names, a URI, a version and any list of headers. `parse_request` takes one step
  for each character (`ParseMore`), so a text behind another is read from the
  state the first leads to (`ReadMany`); each part of the request leads from one
  state of the parser to the next, the headers by induction on their number
  (`HeadersRead`). The version's numbers are those with the digits 0, 1 and 2,
  which the model's characters have (`VersionNumbers`), and what is written of
  them is defined (`DecimalIs`). `RunRequestsAreRead`: the requests of the run are
  among them.

Only model-checked: everything under fairness (`StopReturns`,
`AbandonedIsRemoved`, `AcceptedIsDelivered`, `RemovalReturns`, `WholeAnnounced`,
`AnnouncedWakes`, `IdleStopReturns`, `AnnouncedArrives`), which is out of the
prover's reach; and of the algorithms the rest of `RequestsRead`: that whatever
the parser accepts is the written form of what it read (`ReadAsWritten`; of the
words TLC goes through, whose versions have no `0`: the parser takes `01` for 1,
which is written without the zero), and what mongoose makes of a request
(`NothingMoved`, `WrittenIsHandled`), whose references are recursive over the
lists of headers as well as over their characters. No theorem therefore states `RequestsRead` as a whole.

## Not modelled

libtorrent, mongoose and the file system are modelled only as the code uses
them. Of mongoose that leaves out what is switched off or not what a media file
is served with: SSL, Lua, authorization, the contents of CGI, SSI and WebDAV
answers. Left out because nobody includes or calls them: the thread pool, the
event policies, the safe container, the MIME types, `file_info_buffer::stop`
(`stop_graceful` and `stop_force` call `close` of a file descriptor),
`remove_info` and `on_deleted` (no torrent is removed with its files, so no
removal is announced), `set_hasher`, `wait_result`, `unregistrate`,
`async_write`, `clone`, `file_info_remove`. Logging, the wording of pages and of
the JSON texts, dates and etags carry no state. The session state file is
written under one name and read under another, and only if it could not be
opened; it carries no state between runs. The memory of the strings the C API
returns is freed with the handle's torrents and is not modelled. The option of a
notification receiver to execute everything at exit is modelled, but the core
never sets it. The tests are users of the library.
