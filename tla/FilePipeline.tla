---------------------------- MODULE FilePipeline ----------------------------
(***************************************************************************)
(* The way of a number from the torrent core to a reader: the controller   *)
(* announces files and available bytes through hc_event_source_adapter,    *)
(* the notification center carries the messages (Mailboxes.tla, which      *)
(* NotificationCenter.tla implements), and the realtime updater enters     *)
(* them into the file_info_buffer that the HTTP requests read.             *)
(*                                                                         *)
(* What the controller counts of a file is here any growing number;        *)
(* FileInfo.tla has how it comes about, and that a complete file is not    *)
(* announced smaller again.  A file is added once: its path begins with a  *)
(* random sandbox.  The buffer's lock_ makes one step of what              *)
(* ContentStream.tla takes apart.  Nothing removes a file, and the only    *)
(* receiver is registered before the first torrent is added.               *)
(***************************************************************************)
EXTENDS Integers, Sequences

CONSTANTS
  Files,            \* the paths of the files
  Bytes,            \* the size of each
  Excess,           \* bound: how far the counted bytes may exceed the size
  Readers,          \* requests for a file
  MaxNotifications, \* max_notifications_per_recv
  NoFile            \* of a reader that has found no file yet

ASSUME PipelineAssumption ==
  /\ Bytes \in [Files -> Nat \ {0}] /\ Excess \in Nat
  /\ MaxNotifications \in Nat /\ NoFile \notin Files

VARIABLES
  counted,    \* avaliable_bytes of the file_info, or None before file_info_add
  announced,  \* history: the number last announced of each file, or None
  complete,   \* the files announced complete
  addLost,    \* history: the files whose file_add was dropped
  lastLost,   \* history: those whose last message was dropped
  open, queue, got,  \* the mailbox of the updater
  size,       \* file_size of each hc_file_info
  avaliableBytes,  \* its avaliable_bytes, or None if the buffer has none
  file,       \* the file of each reader, which subscribes to it for good
  known       \* ex_data_.avaliable_bytes of each reader's stream

coreVars == <<counted, announced, complete>>
lossVars == <<addLost, lastLost>>
boxVars == <<open, queue, got>>
bufferVars == <<size, avaliableBytes, file, known>>
vars == <<coreVars, lossVars, boxVars, bufferVars>>

None == -1
Updater == "hcore_notification_recv"

FileAdd(f) == [type |-> "file_add", file |-> f, size |-> Bytes[f], avaliable |-> 0]

\* The size of an update is not set, and not used.
FileUpdate(f, n) == [type |-> "file_update", file |-> f, avaliable |-> n]

Messages == {FileAdd(f) : f \in Files}
              \cup UNION {{FileUpdate(f, n) : n \in 0 .. Bytes[f]} : f \in Files}

\* Those that wait and those the updater's thread has taken at once.
Capacity == 2 * (MaxNotifications + 1)

Box == INSTANCE Mailboxes WITH Receivers <- {Updater}

Init ==
  /\ counted = [f \in Files |-> None] /\ announced = [f \in Files |-> None]
  /\ complete = {} /\ addLost = {} /\ lastLost = {}
  /\ open = {Updater} /\ queue = [r \in {Updater} |-> <<>>] /\ got = [r \in {Updater} |-> <<>>]
  /\ size = [f \in Files |-> 0] /\ avaliableBytes = [f \in Files |-> None]
  /\ file = [r \in Readers |-> NoFile] /\ known = [r \in Readers |-> 0]

-----------------------------------------------------------------------------
(* The torrent core.  send_message's answer is thrown away: a message is    *)
(* dropped if too many wait that the updater has not taken.                 *)

Accepted(m) ==
  /\ Box!Put(Updater, m)
  /\ lastLost' = lastLost \ {m.file}
  /\ UNCHANGED addLost

Dropped(m) ==
  /\ Len(queue[Updater]) > MaxNotifications
  /\ lastLost' = lastLost \cup {m.file}
  /\ addLost' = IF m.type = "file_add" THEN addLost \cup {m.file} ELSE addLost
  /\ UNCHANGED boxVars

Announce(m) ==
  /\ Accepted(m) \/ Dropped(m)
  /\ announced' = [announced EXCEPT ![m.file] = m.avaliable]
  /\ UNCHANGED bufferVars

\* Variant of OnAddTorrent: the files of a torrent that is there are added again.
OnAddTorrentAgain(f) ==
  /\ counted[f] \in {None, 1}
  /\ counted' = [counted EXCEPT ![f] = 0]
  /\ Announce(FileAdd(f))
  /\ UNCHANGED complete

\* on_add_torrent, for one of the torrent's files
OnAddTorrent(f) ==
  /\ counted[f] = None
  /\ counted' = [counted EXCEPT ![f] = 0]
  /\ Announce(FileAdd(f))
  /\ UNCHANGED complete

\* Variant of Clipped: the count as it is.
ClippedNot(f, n) == n

Clipped(f, n) == IF n > Bytes[f] THEN Bytes[f] ELSE n

\* on_piece_finished, when file_info_update has returned the file
OnPieceFinished(f, n) ==
  /\ counted[f] # None /\ f \notin complete
  /\ counted[f] < n /\ n <= Bytes[f] + Excess
  /\ counted' = [counted EXCEPT ![f] = n]
  /\ Announce(FileUpdate(f, Clipped(f, n)))
  /\ UNCHANGED complete

\* Variant of OnFileComplete: what was counted so far is announced.
OnFileCompleteReset(f) ==
  /\ counted[f] # None /\ f \notin complete
  /\ complete' = complete \cup {f}
  /\ counted' = [counted EXCEPT ![f] = 0]
  /\ Announce(FileUpdate(f, counted'[f]))

\* on_file_complete; avaliable_bytes of the file_info stays as it is.
OnFileComplete(f) ==
  /\ counted[f] # None /\ f \notin complete
  /\ complete' = complete \cup {f}
  /\ Announce(FileUpdate(f, Bytes[f]))
  /\ UNCHANGED counted

-----------------------------------------------------------------------------
(* The updater's thread and the HTTP requests.                              *)

\* on_file_add: a file that is there is overwritten, and its subscribers are not told.
OnFileAdd(m) ==
  /\ size' = [size EXCEPT ![m.file] = m.size]
  /\ avaliableBytes' = [avaliableBytes EXCEPT ![m.file] = m.avaliable]
  /\ UNCHANGED <<file, known>>

\* Variant of OnFileUpdate: a file nobody reads is not updated.
OnFileUpdateRead(m) ==
  /\ IF \A r \in Readers : file[r] # m.file
     THEN UNCHANGED <<avaliableBytes, known>>
     ELSE /\ avaliableBytes' = [avaliableBytes EXCEPT ![m.file] = m.avaliable]
          /\ known' = [r \in Readers |-> IF file[r] = m.file THEN m.avaliable ELSE known[r]]
  /\ UNCHANGED <<size, file>>

\* on_file_update, update_info: an unknown file is passed over, the subscribers are told.
OnFileUpdate(m) ==
  /\ IF avaliableBytes[m.file] = None
     THEN UNCHANGED <<avaliableBytes, known>>
     ELSE /\ avaliableBytes' = [avaliableBytes EXCEPT ![m.file] = m.avaliable]
          /\ known' = [r \in Readers |-> IF file[r] = m.file THEN m.avaliable ELSE known[r]]
  /\ UNCHANGED <<size, file>>

OnNotify ==
  /\ Box!Get(Updater)
  /\ LET m == Head(queue[Updater])
     IN  \/ m.type = "file_add" /\ OnFileAdd(m)
         \/ m.type = "file_update" /\ OnFileUpdate(m)
  /\ UNCHANGED <<coreVars, lossVars>>

\* get_info has found the file; registr_subscriber tells the stream what there is.
FindFile(r, f) ==
  /\ file[r] = NoFile /\ avaliableBytes[f] # None
  /\ file' = [file EXCEPT ![r] = f]
  /\ known' = [known EXCEPT ![r] = avaliableBytes[f]]
  /\ UNCHANGED <<coreVars, lossVars, boxVars, size, avaliableBytes>>

-----------------------------------------------------------------------------
Next ==
  \/ \E f \in Files : \/ OnAddTorrent(f) \/ OnFileComplete(f)
                      \/ \E n \in 1 .. Bytes[f] + Excess : OnPieceFinished(f, n)
  \/ OnNotify
  \/ \E r \in Readers, f \in Files : FindFile(r, f)

Spec == Init /\ [][Next]_vars

\* The thread of the notification_unit runs.
FairSpec == Spec /\ WF_vars(OnNotify)

-----------------------------------------------------------------------------
TypeOK ==
  /\ counted \in [Files -> Int] /\ \A f \in Files : counted[f] \in None .. Bytes[f] + Excess
  /\ announced \in [Files -> Int] /\ \A f \in Files : announced[f] \in None .. Bytes[f]
  /\ complete \in SUBSET Files /\ addLost \in SUBSET Files /\ lastLost \in SUBSET Files
  /\ open = {Updater}
  /\ queue \in [{Updater} -> Seq(Messages)] /\ Len(queue[Updater]) <= Capacity
  /\ avaliableBytes \in [Files -> Int] /\ \A f \in Files : avaliableBytes[f] \in None .. Bytes[f]
  /\ size \in [Files -> Nat]
  /\ file \in [Readers -> Files \cup {NoFile}] /\ known \in [Readers -> Int]

\* Whatever is dropped on the way, the buffer knows a file with its size and with no
\* more bytes than were announced of it, and every reader knows what the buffer knows,
\* although on_file_add tells nobody (file_info_buffer.hpp:86).
BufferIsTrue ==
  /\ TypeOK
  /\ \A f \in Files : avaliableBytes[f] # None =>
        size[f] = Bytes[f] /\ avaliableBytes[f] <= announced[f]
  /\ \A r \in Readers : file[r] # NoFile =>
        avaliableBytes[file[r]] # None /\ known[r] = avaliableBytes[file[r]]

\* The buffer takes no byte back and forgets no file: what ContentStream.tla and the
\* readers' waiting rest on (hc_event_source_adapter, file_info_buffer_realtime_updater).
BufferGrows == [][\A f \in Files : avaliableBytes'[f] >= avaliableBytes[f]]_vars

\* A file whose add was accepted is known with all the bytes announced of it in the
\* end, if the last of the messages about it was accepted: what was dropped in between
\* makes no difference (notification_center.cpp:75).
AnnouncedArrives ==
  \A f \in Files : \A n \in 0 .. Bytes[f] :
     f \notin addLost \cup lastLost /\ announced[f] = n ~> avaliableBytes[f] >= n
-----------------------------------------------------------------------------
(* Why: the messages of a file wait in the order of their numbers, between  *)
(* what the buffer knows and what was announced last.                       *)

\* The numbers announced never fall.
AnnouncedGrow ==
  \A f \in Files :
     /\ counted[f] = None <=> announced[f] = None
     /\ avaliableBytes[f] <= announced[f]
     /\ f \notin complete /\ counted[f] # None => announced[f] = Clipped(f, counted[f])

Fits(m) ==
  /\ counted[m.file] # None
  /\ avaliableBytes[m.file] <= m.avaliable /\ m.avaliable <= announced[m.file]
  /\ m.type = "file_add" => avaliableBytes[m.file] = None

QueueFits ==
  LET q == queue[Updater]
  IN  /\ \A i \in 1 .. Len(q) : Fits(q[i])
      /\ \A i, j \in 1 .. Len(q) : i < j /\ q[i].file = q[j].file =>
            q[j].type # "file_add" /\ q[i].avaliable <= q[j].avaliable

Inv == BufferIsTrue /\ AnnouncedGrow /\ QueueFits
=============================================================================
