---------------------------- MODULE ContentStream ----------------------------
(***************************************************************************)
(* One file served while it is being downloaded: the HTTP workers, each in *)
(* a request handler of http_server_core and in its hs_chunked_ostream,    *)
(* the file_info_buffer that tells the streams how many bytes there are,   *)
(* and the disk libtorrent writes to.                                      *)
(*                                                                         *)
(* The file is in the buffer (a request before that is not answered) and   *)
(* stays there: nothing in src/ makes the core send on_file_remove, and    *)
(* nothing calls file_info_buffer::stop, so no stream is broken.           *)
(* What is announced is on the disk without a gap; FileInfo shows when     *)
(* that is not so.  A spurious wakeup only repeats the test and is left    *)
(* out.                                                                    *)
(***************************************************************************)
EXTENDS Integers, FiniteSets, Sequences

CONSTANTS
  Requests,  \* the requests for the file
  Ranges,    \* the ranges they may ask for; a Range header is not checked
  FileSize,  \* file_size
  ChunkSize  \* max_chunk_size

ASSUME StreamAssumption ==
  /\ Ranges \subseteq [start : Nat, end : Nat]
  /\ FileSize \in Nat \ {0} /\ ChunkSize \in Nat \ {0}

Positions == 0 .. FileSize - 1

VARIABLES
  disk,       \* the positions of the file that have been written
  avaliable,  \* avaliable_bytes of the hc_file_info
  subs,       \* its subscribers
  telling,    \* update_info holds lock_ and is at this subscriber, or 0
  told,       \* that subscriber has the number and is not notified yet
  step,       \* where the worker of each request is
  range,      \* read_start and read_end: of the Range header, or 0 and file_size
  seek,       \* seek_pos
  seen,       \* ex_data_.avaliable_bytes
  sid,        \* the number registr_subscriber returned
  sent,       \* history: the positions written to the client
  unready     \* history: those of them that had not been announced then

fileVars == <<disk, avaliable>>
bufVars == <<subs, telling, told>>
reqVars == <<step, range, seek, seen, sid, sent, unready>>
streamVars == <<fileVars, bufVars, reqVars>>

Steps == {"idle", "found", "test", "asleep", "read", "leave", "fail", "ok", "failed"}

StreamTypeOK ==
  /\ disk \in SUBSET Positions
  /\ avaliable \in 0 .. FileSize
  /\ subs \in Seq(Requests)
  /\ telling \in 0 .. Len(subs)
  /\ told \in BOOLEAN
  /\ step \in [Requests -> Steps]
  /\ range \in [Requests -> Ranges]
  /\ seek \in [Requests -> Nat]
  /\ seen \in [Requests -> 0 .. FileSize]
  /\ sid \in [Requests -> Nat]
  /\ sent \in [Requests -> SUBSET Positions]
  /\ unready \in [Requests -> SUBSET Positions]

StreamInit ==
  /\ disk = {} /\ avaliable = 0
  /\ subs = <<>> /\ telling = 0 /\ told = FALSE
  /\ step = [r \in Requests |-> "idle"]
  /\ range \in [Requests -> Ranges] /\ seek = [r \in Requests |-> range[r].start]
  /\ seen = [r \in Requests |-> 0]
  /\ sid = [r \in Requests |-> 0]
  /\ sent = [r \in Requests |-> {}] /\ unready = [r \in Requests |-> {}]

-----------------------------------------------------------------------------
(* The disk, and file_info_buffer::update_info in the thread of the         *)
(* notification center.  LockFree: the buffer's lock_ can be taken.         *)

LockFree == telling = 0

\* A piece in any place has been written.
Write(p) ==
  /\ p \notin disk /\ disk' = disk \cup {p}
  /\ UNCHANGED <<avaliable, bufVars, reqVars>>

\* Variant of UpdateInfo: the first subscriber is told before it is known that
\* there is one.
UpdateInfoUntested(n) ==
  /\ LockFree /\ n >= avaliable /\ 0 .. n - 1 \subseteq disk
  /\ avaliable' = n /\ telling' = 1
  /\ UNCHANGED <<disk, subs, told, reqVars>>

\* The core has announced n bytes; the size of a complete file perhaps again.
UpdateInfo(n) ==
  /\ LockFree /\ n >= avaliable /\ 0 .. n - 1 \subseteq disk
  /\ avaliable' = n
  /\ telling' = IF subs = <<>> THEN 0 ELSE 1
  /\ UNCHANGED <<disk, subs, told, reqVars>>

\* on_bytes_avaliable_change up to the notification: under the waiter_lock.
TellBytes ==
  /\ ~LockFree /\ ~told
  /\ seen' = [seen EXCEPT ![subs[telling]] = avaliable]
  /\ told' = TRUE
  /\ UNCHANGED <<fileVars, subs, telling, step, range, seek, sid, sent, unready>>

\* Variant of Wakes: a stream is notified only of the last bytes of the file.
WakesAtEnd(r) == step[r] = "asleep" /\ avaliable = FileSize

Wakes(r) == step[r] = "asleep"

\* waiter.notify_one, and on to the next subscriber.
NotifyWaiter ==
  /\ ~LockFree /\ told
  /\ told' = FALSE
  /\ telling' = IF telling = Len(subs) THEN 0 ELSE telling + 1
  /\ step' = [r \in Requests |->
                IF r = subs[telling] /\ Wakes(r) THEN "test" ELSE step[r]]
  /\ UNCHANGED <<fileVars, subs, range, seek, seen, sid, sent, unready>>

-----------------------------------------------------------------------------
(* A worker: on_partial_content_request, on_content_request.                *)

Goto(r, there) == step' = [step EXCEPT ![r] = there]

\* get_info found the file.
GetInfo(r) ==
  /\ step[r] = "idle" /\ LockFree
  /\ Goto(r, "found")
  /\ UNCHANGED <<fileVars, bufVars, range, seek, seen, sid, sent, unready>>

\* Variant of RegistrSubscriber: the new stream is not told what there is.
RegistrSilent(r) ==
  /\ step[r] = "found" /\ LockFree
  /\ subs' = Append(subs, r)
  /\ sid' = [sid EXCEPT ![r] = Len(subs) + 1]
  /\ Goto(r, "test")
  /\ UNCHANGED <<fileVars, telling, told, range, seek, seen, sent, unready>>

\* registr_subscriber; then the headers are sent.
RegistrSubscriber(r) ==
  /\ step[r] = "found" /\ LockFree
  /\ subs' = Append(subs, r)
  /\ seen' = [seen EXCEPT ![r] = avaliable]
  /\ sid' = [sid EXCEPT ![r] = Len(subs) + 1]
  /\ \/ Goto(r, "test")
     \/ Goto(r, "fail")
  /\ UNCHANGED <<fileVars, telling, told, range, seek, sent, unready>>

\* Variant of AtEnd: the chunk before the last byte is taken for the last one.
AtEndShort(r) == seek[r] + ChunkSize + 1 >= range[r].end

AtEnd(r) == seek[r] + ChunkSize >= range[r].end

BytesWait(r) == IF AtEnd(r) THEN range[r].end ELSE seek[r] + ChunkSize

\* Variant of WaitForBytes: one byte less is enough.
WaitForBytesButOne(r) ==
  /\ step[r] = "test"
  /\ Goto(r, IF BytesWait(r) <= seen[r] + 1 THEN "read" ELSE "asleep")
  /\ UNCHANGED <<fileVars, bufVars, range, seek, seen, sid, sent, unready>>

\* One turn of wait_for_bytes, under the waiter_lock.
WaitForBytes(r) ==
  /\ step[r] = "test"
  /\ Goto(r, IF BytesWait(r) <= seen[r] THEN "read" ELSE "asleep")
  /\ UNCHANGED <<fileVars, bufVars, range, seek, seen, sid, sent, unready>>

\* timed_wait reached its deadline: the bytes are not tested again.
WaitTimeout(r) ==
  /\ step[r] = "asleep"
  /\ Goto(r, "fail")
  /\ UNCHANGED <<fileVars, bufVars, range, seek, seen, sid, sent, unready>>

\* What io::read finds from the position on: a whole chunk, up to the end of
\* the file as it is on the disk now.
Found(r) == {p \in seek[r] .. seek[r] + ChunkSize - 1 : \E q \in disk : p <= q}

\* The chunk is read and written to the client.
SendChunk(r) ==
  /\ step[r] = "read" /\ Found(r) # {}
  /\ sent' = [sent EXCEPT ![r] = @ \cup Found(r)]
  /\ unready' = [unready EXCEPT ![r] = @ \cup {p \in Found(r) : p >= avaliable}]
  /\ seek' = IF AtEnd(r) THEN seek
             ELSE [seek EXCEPT ![r] = @ + Cardinality(Found(r))]
  /\ Goto(r, IF AtEnd(r) THEN "leave" ELSE "test")
  /\ UNCHANGED <<fileVars, bufVars, range, seen, sid>>

\* The file ends before the position, or the client is gone.
SendFails(r) ==
  /\ step[r] = "read"
  /\ Goto(r, "fail")
  /\ UNCHANGED <<fileVars, bufVars, range, seek, seen, sid, sent, unready>>

\* Opening, seeking or reading the file throws: the handler is left, and the
\* stream stays a subscriber.
SendThrows(r) ==
  /\ step[r] = "read"
  /\ Goto(r, "failed")
  /\ UNCHANGED <<fileVars, bufVars, range, seek, seen, sid, sent, unready>>

\* Variant of UnregistrSubscriber: the comparison put right, the index not.
UnregistrNeighbour(r) ==
  /\ step[r] \in {"leave", "fail"} /\ LockFree
  /\ subs' = IF sid[r] < Len(subs)
             THEN SubSeq(subs, 1, sid[r]) \o SubSeq(subs, sid[r] + 2, Len(subs))
             ELSE subs
  /\ Goto(r, IF step[r] = "leave" THEN "ok" ELSE "failed")
  /\ UNCHANGED <<fileVars, telling, told, range, seek, seen, sid, sent, unready>>

\* unregistr_subscriber with the number: only one above the last would be erased
\* (which, there being none, moves nothing and drops the last).
UnregistrSubscriber(r) ==
  /\ step[r] \in {"leave", "fail"} /\ LockFree
  /\ subs' = IF sid[r] > Len(subs) THEN SubSeq(subs, 1, Len(subs) - 1) ELSE subs
  /\ Goto(r, IF step[r] = "leave" THEN "ok" ELSE "failed")
  /\ UNCHANGED <<fileVars, telling, told, range, seek, seen, sid, sent, unready>>

Worker(r) ==
  \/ RegistrSubscriber(r) \/ WaitForBytes(r)
  \/ SendChunk(r) \/ SendFails(r) \/ SendThrows(r) \/ UnregistrSubscriber(r)

-----------------------------------------------------------------------------
StreamNext ==
  \/ \E p \in Positions : Write(p)
  \/ \E n \in 1 .. FileSize : UpdateInfo(n)
  \/ TellBytes \/ NotifyWaiter
  \/ \E r \in Requests : GetInfo(r) \/ WaitTimeout(r) \/ Worker(r)

StreamSpec == StreamInit /\ [][StreamNext]_streamVars

\* The threads run.  The deadline of a sleeping stream is not used here: it may
\* be as late as it likes.
Running == /\ WF_streamVars(TellBytes \/ NotifyWaiter)
           /\ \A r \in Requests : WF_streamVars(Worker(r))

-----------------------------------------------------------------------------
\* Every stream at work is a subscriber and knows how many bytes there are,
\* except while the last change is being told: one that registers while others
\* are told, or leave, misses nothing (registr_subscriber, update_info,
\* unregistr_subscriber).
SubscribersKnow ==
  \A r \in Requests : step[r] \in {"test", "asleep", "read"} =>
     \E i \in DOMAIN subs :
        /\ subs[i] = r
        /\ \/ seen[r] = avaliable
           \/ ~LockFree /\ (i > telling \/ (i = telling /\ ~told))

\* Of the range it was asked for a stream sends only bytes that have been
\* announced, however the writes, the announcements and the reads interleave.
RangeIsReady ==
  \A r \in Requests : unready[r] \cap (range[r].start .. range[r].end - 1) = {}

\* A request that ended well has sent its whole range, without a gap.
OkIsComplete ==
  \A r \in Requests :
     step[r] \in {"leave", "ok"} => range[r].start .. range[r].end - 1 \subseteq sent[r]

-----------------------------------------------------------------------------
(* Why: a stream keeps the number it got, and no stream is ever erased.     *)

Fresh(r) == step[r] \in {"idle", "found"}

\* A stream sits where its number says, and only there.
Numbers ==
  /\ \A r \in Requests : ~Fresh(r) => sid[r] \in DOMAIN subs /\ subs[sid[r]] = r
  /\ \A i \in DOMAIN subs : ~Fresh(subs[i]) /\ sid[subs[i]] = i

\* Only what is told right now may be unknown to a stream, and to no other one.
Informed ==
  /\ LockFree => ~told
  /\ \A r \in Requests : ~Fresh(r) =>
        \/ seen[r] = avaliable
        \/ telling > 0 /\ (sid[r] > telling \/ (sid[r] = telling /\ ~told))

\* What a stream believes to be there is there.
Announced ==
  /\ 0 .. avaliable - 1 \subseteq disk
  /\ \A r \in Requests : seen[r] <= avaliable
  /\ \A r \in Requests : step[r] = "read" => BytesWait(r) <= seen[r]

\* What was sent reaches up to the position.
Gapless ==
  \A r \in Requests : step[r] \in {"idle", "found", "test", "asleep", "read"} =>
     seek[r] >= range[r].start /\ range[r].start .. seek[r] - 1 \subseteq sent[r]

StreamInv == /\ StreamTypeOK /\ Numbers /\ Informed /\ Announced
       /\ Gapless /\ RangeIsReady /\ OkIsComplete

-----------------------------------------------------------------------------
\* A sleeping stream whose bytes were announced is woken by the notification,
\* not by its deadline: update_info forgets no stream and loses no wakeup.
AnnouncedWakes ==
  \A r \in Requests :
     step[r] = "asleep" /\ BytesWait(r) <= avaliable ~> step[r] # "asleep"

\* What the comment of write_content_impl says: a block is sent if its bytes are
\* available (of a range that is not empty, of which nothing should be sent).
OnlyAvaliableSent ==
  \A r \in Requests : range[r].start < range[r].end => unready[r] = {}
=============================================================================
