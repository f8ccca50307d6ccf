------------------------------ MODULE FileInfo ------------------------------
(***************************************************************************)
(* How many bytes of each file the torrent core announces as available:    *)
(* the file_info records of one torrent (torrent_info.cpp) and the two     *)
(* alert handlers of sequential_torrent_controller that drive them.        *)
(*                                                                         *)
(* av_pieces is read only after its used part has been sorted, and a piece *)
(* finishes once, so a set stands for the vector: position i holds the     *)
(* element with i smaller ones, the other positions hold INT_MAX.          *)
(* last_av_pieces_pos is total_pieces_download_count: both are stepped and *)
(* reset together.  Raising the priority of pieces only changes the order  *)
(* in which pieces finish, and any order is possible here.                 *)
(***************************************************************************)
EXTENDS Integers, FiniteSets

CONSTANTS
  NumFiles,     \* the files of the torrent, in the order of its list
  First,        \* the first and the last piece with bytes of each file; two
  Last,         \*   neighbours may share a piece
  Bytes,        \* the size of each file
  PieceLength,  \* the torrent's piece length
  MaxPartial,   \* tc_max_partial_download_size
  Window        \* bound: how far ahead of a missing piece each piece may finish

Files == 1 .. NumFiles

ASSUME LayoutAssumption ==
  /\ NumFiles \in Nat
  /\ First \in [Files -> Nat] /\ Last \in [Files -> Nat]
  /\ \A f \in Files : First[f] <= Last[f]
  /\ \A f, g \in Files : f < g => Last[f] <= First[g]
  /\ Bytes \in [Files -> Nat \ {0}]
  /\ PieceLength \in Nat \ {0}
  /\ MaxPartial \in Nat

OffRecheck == -1
RecheckLimit == 5

PieceRange(f) == First[f] .. Last[f]

\* pieces: one less than the number of pieces the file has bytes in.
Pieces(f) == Last[f] - First[f]

BlockSize(f) == IF PieceLength > Bytes[f] THEN Bytes[f] ELSE PieceLength

\* file_info_get_download_offset
DownloadOffset(f) ==
  LET offset == MaxPartial \div BlockSize(f)
  IN  IF offset < 10 THEN 10
      ELSE IF MaxPartial >= Bytes[f] \/ offset >= Pieces(f) THEN Pieces(f) ELSE offset

\* chocked_range
Chocked == [f \in Files |-> DownloadOffset(f)]

AllPieces == UNION {PieceRange(f) : f \in Files}

ASSUME WindowAssumption == Window \in [AllPieces -> Nat]

VARIABLES
  avPieces,   \* av_pieces of each file, as a set
  total,      \* total_pieces_download_count
  count,      \* pieces_download_count
  lastPos,    \* last_av_pos
  endPos,     \* end_av_pos
  recheck,    \* recheck_av
  avaliable,  \* avaliable_bytes
  published,  \* what the event handler was last told of each file
  threw,      \* history: av_pieces.at() was called past the end
  have,       \* the pieces libtorrent has verified
  inOrder,    \* history: every piece so far came after all pieces before it
  due         \* the alerts of the last verified piece not handled yet

infoVars == <<avPieces, total, count, lastPos, endPos, recheck, avaliable>>
vars == <<infoVars, published, threw, have, inOrder, due>>

PieceAlerts == {[type |-> "piece", of |-> p] : p \in AllPieces}
FileAlerts == {[type |-> "file", of |-> f] : f \in Files}

TypeOK ==
  /\ avPieces \in [Files -> SUBSET AllPieces]
  /\ total \in [Files -> Nat] /\ count \in [Files -> Nat]
  /\ lastPos \in [Files -> Nat] /\ endPos \in [Files -> Nat]
  /\ recheck \in [Files -> Int]
  /\ avaliable \in [Files -> Nat] /\ published \in [Files -> Nat]
  /\ threw \in BOOLEAN
  /\ have \in SUBSET AllPieces /\ inOrder \in BOOLEAN
  /\ due \in SUBSET (PieceAlerts \cup FileAlerts)

\* file_info_add for each file of a torrent nothing of which is on the disk.
Init ==
  /\ avPieces = [f \in Files |-> {}]
  /\ total = [f \in Files |-> 0] /\ count = [f \in Files |-> 0]
  /\ lastPos = [f \in Files |-> 0] /\ endPos = Chocked
  /\ recheck = [f \in Files |-> OffRecheck]
  /\ avaliable = [f \in Files |-> 0] /\ published = [f \in Files |-> 0]
  /\ threw = FALSE /\ have = {} /\ inOrder = TRUE /\ due = {}

-----------------------------------------------------------------------------
(* libtorrent: a piece passes its hash check; its alert and those of the   *)
(* files it completes are posted together.                                 *)

Missing(p) == {q \in AllPieces : q < p} \ have

Verify(p) ==
  /\ due = {} /\ p \notin have
  /\ \A q \in Missing(p) : p <= q + Window[p]
  /\ have' = have \cup {p}
  /\ inOrder' = (inOrder /\ Missing(p) = {})
  /\ due' = {[type |-> "piece", of |-> p]} \cup
              {[type |-> "file", of |-> f] :
                 f \in {g \in Files : p \in PieceRange(g) /\ PieceRange(g) \subseteq have'}}
  /\ UNCHANGED <<infoVars, published, threw>>

PieceVerified == \E p \in AllPieces : Verify(p)

-----------------------------------------------------------------------------
(* file_info_update                                                        *)

\* The first file of the list with the piece: only that one is updated.
FileOf(p) == CHOOSE f \in Files : /\ p \in PieceRange(f)
                                  /\ \A g \in Files : p \in PieceRange(g) => f <= g

\* The positions of the sorted set s with a consecutive piece at the next one.
Links(s) == {Cardinality({y \in s : y < x}) : x \in {z \in s : z + 1 \in s}}

\* Variant of Scan: the rest of the range is always looked at.
ScanPastGaps(s, first, end, rechecking) == (first .. end - 1) \cap Links(s)

\* The positions from first up to end that the loop finds linked: without recheck
\* it leaves at the first gap, in a recheck it looks behind the gaps too.
Scan(s, first, end, rechecking) ==
  LET linked == (first .. end - 1) \cap Links(s)
  IN  IF rechecking THEN linked
      ELSE {i \in linked : first .. i \subseteq linked}

\* The loop asks for the position after the last one of the vector.
PastEnd(f, found) ==
  /\ Pieces(f) \in lastPos[f] .. endPos[f] - 1
  /\ recheck[f] # OffRecheck \/ lastPos[f] .. Pieces(f) - 1 \subseteq found

LastOf(found, first) ==
  IF found = {} THEN first ELSE CHOOSE i \in found : \A j \in found : j <= i

\* The available bytes are computed anew with total n, count c, recheck r.
Due(f, n, c, r) == (c >= Chocked[f] \/ r > RecheckLimit) /\ n < Pieces(f)

RangeComplete(last, end) == last >= end - 1

\* Variant of NextPos: the range after the next one.
NextPosSkips(f, last) ==
  IF RangeComplete(last, endPos[f]) THEN endPos[f] + Chocked[f] ELSE last

\* last_av_pos after the loop has found the position last.
NextPos(f, last) == IF RangeComplete(last, endPos[f]) THEN endPos[f] ELSE last

\* Variant of NextRange: what was counted for the full range stays counted.
NextRangeKeeps(f, last, c, r) ==
  /\ endPos' = [endPos EXCEPT ![f] = IF RangeComplete(last, @) THEN @ + Chocked[f] ELSE @]
  /\ count' = [count EXCEPT ![f] = c]
  /\ recheck' = [recheck EXCEPT ![f] = r + 1]

NextRange(f, last, c, r) ==
  LET full == RangeComplete(last, endPos[f])
  IN  /\ endPos' = [endPos EXCEPT ![f] = IF full THEN @ + Chocked[f] ELSE @]
      /\ count' = [count EXCEPT ![f] = IF full THEN 0 ELSE c]
      /\ recheck' = [recheck EXCEPT ![f] = IF full THEN OffRecheck ELSE r + 1]

\* on_progress_update for a file whose available bytes have grown to b.
Publish(f, b) ==
  IF avaliable[f] < b
  THEN /\ avaliable' = [avaliable EXCEPT ![f] = b]
       /\ published' = [published EXCEPT ![f] = IF b > Bytes[f] THEN Bytes[f] ELSE b]
  ELSE UNCHANGED <<avaliable, published>>

\* The loop over the sorted pieces has found the linked positions found: it threw,
\* or the range is stepped and the bytes announced.
Recount(f, c, r, found) ==
  LET last == LastOf(found, lastPos[f])
  IN  \/ /\ PastEnd(f, found)
         /\ threw' = TRUE
         /\ lastPos' = [lastPos EXCEPT ![f] = last]
         /\ count' = [count EXCEPT ![f] = c] /\ recheck' = [recheck EXCEPT ![f] = r]
         /\ UNCHANGED <<endPos, avaliable, published>>
      \/ /\ ~PastEnd(f, found)
         /\ NextRange(f, last, c, r)
         /\ lastPos' = [lastPos EXCEPT ![f] = NextPos(f, last)]
         /\ Publish(f, NextPos(f, last) * BlockSize(f))
         /\ UNCHANGED threw

\* file_info_update of the file f: file_info_update_counters_, and the recount
\* of the available bytes when it is due.
Update(f, p) ==
  LET capped == total[f] + 1 > Pieces(f)
      n == IF capped THEN Pieces(f) ELSE total[f] + 1
      c == IF capped THEN count[f] ELSE count[f] + 1
      r == IF capped \/ recheck[f] = OffRecheck THEN recheck[f] ELSE recheck[f] + 1
  IN  /\ avPieces' = [avPieces EXCEPT ![f] = @ \cup {p}]
      /\ total' = [total EXCEPT ![f] = n]
      /\ \/ /\ ~Due(f, n, c, r)
            /\ count' = [count EXCEPT ![f] = c] /\ recheck' = [recheck EXCEPT ![f] = r]
            /\ UNCHANGED <<lastPos, endPos, avaliable, published, threw>>
         \/ /\ Due(f, n, c, r)
            /\ \E found \in {Scan(avPieces[f] \cup {p}, lastPos[f], endPos[f], r # OffRecheck)} :
                  Recount(f, c, r, found)

OnPieceFinished ==
  \E p \in AllPieces :
     LET alert == [type |-> "piece", of |-> p]
     IN  /\ alert \in due /\ due' = due \ {alert}
         /\ Update(FileOf(p), p)
         /\ UNCHANGED <<have, inOrder>>

\* Variant of Reinit: the scan starts over before the first position.
ReinitBeforeFirst(f) ==
  /\ avPieces' = [avPieces EXCEPT ![f] = {}]
  /\ total' = [total EXCEPT ![f] = 0] /\ count' = [count EXCEPT ![f] = 0]
  /\ lastPos' = [lastPos EXCEPT ![f] = -1]
  /\ recheck' = [recheck EXCEPT ![f] = OffRecheck]
  /\ UNCHANGED <<endPos, avaliable>>

\* file_info_reinit: neither end_av_pos nor avaliable_bytes is reset.
Reinit(f) ==
  /\ avPieces' = [avPieces EXCEPT ![f] = {}]
  /\ total' = [total EXCEPT ![f] = 0] /\ count' = [count EXCEPT ![f] = 0]
  /\ lastPos' = [lastPos EXCEPT ![f] = 0]
  /\ recheck' = [recheck EXCEPT ![f] = OffRecheck]
  /\ UNCHANGED <<endPos, avaliable>>

\* Variant of OnFileComplete: the bytes counted so far are announced, after the
\* record was reset.
OnFileCompleteCounted(f) ==
  /\ [type |-> "file", of |-> f] \in due
  /\ due' = due \ {[type |-> "file", of |-> f]}
  /\ Reinit(f)
  /\ published' = [published EXCEPT ![f] = lastPos'[f] * BlockSize(f)]
  /\ UNCHANGED <<threw, have, inOrder>>

\* on_file_complete
OnFileComplete(f) ==
  /\ [type |-> "file", of |-> f] \in due
  /\ due' = due \ {[type |-> "file", of |-> f]}
  /\ published' = [published EXCEPT ![f] = Bytes[f]]
  /\ Reinit(f)
  /\ UNCHANGED <<threw, have, inOrder>>

-----------------------------------------------------------------------------
Handler == OnPieceFinished \/ \E f \in Files : OnFileComplete(f)

Next == PieceVerified \/ Handler
Spec == Init /\ [][Next]_vars

\* The main loop dispatches every alert it has popped.
FairSpec == Spec /\ WF_vars(Handler)

-----------------------------------------------------------------------------
\* file_info_update never reads av_pieces past its end, where at() would throw
\* and the announcement be lost: the range under scan always ends before the
\* vector does, although endPos only ever grows and a reset does not touch it.
NeverPastEnd == ~threw

\* The available bytes never exceed the volume of the pieces the file has,
\* whatever the order in which they came; so they are sequential bytes as long
\* as the pieces come in order (file_info_update).
VolumeBounded ==
  \A f \in Files : avaliable[f] <= Cardinality(have \cap PieceRange(f)) * BlockSize(f)

-----------------------------------------------------------------------------
(* Why no read passes the end: the range under scan began after as many     *)
(* pieces as it has positions before it.                                    *)

\* The completion of the file has been handled.
Done(f) == PieceRange(f) \subseteq have /\ [type |-> "file", of |-> f] \notin due

Waiting(p) == [type |-> "piece", of |-> p] \in due

AlertsMatch ==
  /\ \A p, q \in AllPieces : Waiting(p) /\ Waiting(q) => p = q
  /\ \A p \in AllPieces : Waiting(p) => p \in have
  /\ \A f \in Files : [type |-> "file", of |-> f] \in due => PieceRange(f) \subseteq have

\* Until the completion the counters tell where the range began; after it, the
\* last piece alone may still be counted.
Counters(f) ==
  /\ total[f] <= Pieces(f) /\ count[f] <= total[f]
  /\ recheck[f] = OffRecheck \/ (recheck[f] >= 0 /\ count[f] >= Chocked[f])
  /\ Done(f) => /\ total[f] <= 1
                /\ \A p \in AllPieces : Waiting(p) /\ FileOf(p) = f => total[f] = 0
  /\ ~Done(f) => /\ endPos[f] - Chocked[f] + count[f] <= total[f]
                 /\ published[f] = IF avaliable[f] > Bytes[f] THEN Bytes[f] ELSE avaliable[f]

CountersFit == \A f \in Files : Counters(f)

Inv == TypeOK /\ NeverPastEnd /\ AlertsMatch /\ CountersFit

-----------------------------------------------------------------------------
\* What is announced of a file never shrinks: the reset at its completion and a
\* late alert of its last piece do not take bytes back from a reader.
PublishedGrows == [][\A f \in Files : published'[f] >= published[f]]_vars

\* A file all pieces of which are there is announced with its whole size, also
\* when its pieces were counted for its neighbour or the counters stopped.
WholeAnnounced ==
  \A f \in Files : PieceRange(f) \subseteq have ~> published[f] = Bytes[f]

\* What torrent_info.hpp says avaliable_bytes is: bytes from the start of the
\* file on, without a gap, that have been downloaded.
SequentialBytes ==
  \A f \in Files :
     \E k \in 0 .. Pieces(f) + 1 : /\ First[f] .. First[f] + k - 1 \subseteq have
                                   /\ avaliable[f] <= k * BlockSize(f)

\* The announcement lags at most a range and a piece behind the count.
LagBounded ==
  \A f \in Files :
     total[f] < Pieces(f) => avaliable[f] >= (total[f] - Chocked[f] - 1) * BlockSize(f)

\* The promise holds as long as the pieces come in the order that
\* tc_sequential_download asks libtorrent for, and the reader of such a download gets
\* on: what is announced is never far behind what is there.
SequentialInOrder == inOrder => SequentialBytes /\ LagBounded

\* So the count is true to what is there: never more than its volume, and for pieces
\* that come in order neither too much nor too little (file_info_update).
CountsTrue == VolumeBounded /\ SequentialInOrder
=============================================================================
