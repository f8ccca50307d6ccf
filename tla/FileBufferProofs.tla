--------------------------- MODULE FileBufferProofs ---------------------------
(***************************************************************************)
(* The file_info_buffer and its readers, for any files, any number of      *)
(* readers and any limit of the mailbox, whatever it drops: the buffer is  *)
(* true and grows (FilePipeline.tla); and for any file, chunk size and     *)
(* ranges and any number of requests: every stream knows what is there,    *)
(* sends nothing of its range too early and all of it when it reports      *)
(* success (ContentStream.tla).                                            *)
(***************************************************************************)
EXTENDS FilePipeline, ContentStream, TLAPS, FiniteSetTheorems

-----------------------------------------------------------------------------
(* From the torrent core to the buffer.                                     *)

\* What a message is.
LEMMA MessageParts ==
  ASSUME NEW m \in Messages
  PROVE  /\ m.file \in Files /\ m.avaliable \in 0 .. Bytes[m.file]
         /\ m.type = "file_add" => m.size = Bytes[m.file] /\ m.avaliable = 0
<1>1. CASE \E f \in Files : m = FileAdd(f)
  <2>1. PICK f \in Files : m = FileAdd(f)
    BY <1>1
  <2>2. 0 \in 0 .. Bytes[f]
    BY PipelineAssumption
  <2> QED
    BY <2>1, <2>2 DEF FileAdd
<1>2. CASE \E f \in Files : \E n \in 0 .. Bytes[f] : m = FileUpdate(f, n)
  <2>1. PICK f \in Files : \E n \in 0 .. Bytes[f] : m = FileUpdate(f, n)
    BY <1>2
  <2>2. PICK n \in 0 .. Bytes[f] : m = FileUpdate(f, n)
    BY <2>1
  <2> QED
    BY <2>2 DEF FileUpdate
<1> QED
  BY <1>1, <1>2 DEF Messages

\* A message behind a queue, and the queue behind its first message.
LEMMA AppendParts ==
  ASSUME NEW S, NEW q \in Seq(S), NEW m \in S
  PROVE  /\ Append(q, m) \in Seq(S) /\ Len(Append(q, m)) = Len(q) + 1
         /\ \A i \in 1 .. Len(q) : Append(q, m)[i] = q[i]
         /\ Append(q, m)[Len(q) + 1] = m
OBVIOUS

LEMMA TailParts ==
  ASSUME NEW S, NEW q \in Seq(S), q # <<>>
  PROVE  /\ Len(q) \in Nat /\ Len(q) >= 1 /\ Head(q) = q[1] /\ q[1] \in S
         /\ Tail(q) \in Seq(S) /\ Len(Tail(q)) = Len(q) - 1
         /\ \A i \in 1 .. Len(q) - 1 : Tail(q)[i] = q[i + 1]
OBVIOUS

\* Fits(m) after the step, for a message taken before it.
FitsAfter(m) ==
  /\ counted'[m.file] # None
  /\ avaliableBytes'[m.file] <= m.avaliable /\ m.avaliable <= announced'[m.file]
  /\ m.type = "file_add" => avaliableBytes'[m.file] = None

\* The queue fits if each message and each pair does.
LEMMA QueueFitsAfter ==
  ASSUME NEW q, q = queue'[Updater],
         \A i \in 1 .. Len(q) : FitsAfter(q[i]),
         \A i, j \in 1 .. Len(q) : i < j /\ q[i].file = q[j].file =>
           q[j].type # "file_add" /\ q[i].avaliable <= q[j].avaliable
  PROVE  QueueFits'
BY DEF QueueFits, Fits, FitsAfter

LEMMA InvInit == Init => Inv
<1> SUFFICES ASSUME Init PROVE Inv
  OBVIOUS
<1>1. queue = [r \in {Updater} |-> <<>>] /\ queue[Updater] = <<>>
  BY DEF Init
<1>2. TypeOK
  <2>1. queue \in [{Updater} -> Seq(Messages)] /\ Len(queue[Updater]) = 0
    BY <1>1
  <2>2. 0 <= Capacity
    BY PipelineAssumption DEF Capacity
  <2> QED
    BY <2>1, <2>2, PipelineAssumption DEF Init, TypeOK, None
<1>3. BufferIsTrue /\ AnnouncedGrow
  BY <1>2, PipelineAssumption DEF Init, BufferIsTrue, AnnouncedGrow, None
<1>4. QueueFits
  BY <1>1 DEF QueueFits
<1> QED
  BY <1>3, <1>4 DEF Inv

-----------------------------------------------------------------------------
\* An announcement that is not below the last one of its file keeps the invariant,
\* accepted or dropped.
LEMMA AnnounceKeeps ==
  ASSUME Inv, NEW m \in Messages, Announce(m),
         counted' \in [Files -> Int],
         \A f \in Files : counted'[f] \in None .. Bytes[f] + Excess,
         \A f \in Files : f # m.file => counted'[f] = counted[f],
         counted'[m.file] # None,
         complete' \in SUBSET Files,
         \A f \in Files : f # m.file => (f \in complete' <=> f \in complete),
         announced[m.file] <= m.avaliable,
         m.file \notin complete' => m.avaliable = Clipped(m.file, counted'[m.file]),
         m.type = "file_add" => counted[m.file] = None
  PROVE  Inv'
<1> DEFINE q == queue[Updater]
           a == announced
<1>1. /\ m.file \in Files /\ m.avaliable \in 0 .. Bytes[m.file] /\ Bytes[m.file] \in Nat
  BY MessageParts, PipelineAssumption
<1>2. /\ a \in [Files -> Int] /\ q \in Seq(Messages) /\ Len(q) \in Nat
      /\ queue \in [{Updater} -> Seq(Messages)] /\ Len(q) <= Capacity
  BY DEF Inv, BufferIsTrue, TypeOK
<1>3. /\ announced' = [announced EXCEPT ![m.file] = m.avaliable]
      /\ UNCHANGED <<size, avaliableBytes, file, known>> /\ open' = open
  BY DEF Announce, Accepted, Dropped, boxVars, bufferVars, Box!Put
<1>4. /\ \A f \in Files : announced'[f] = IF f = m.file THEN m.avaliable ELSE a[f]
      /\ \A f \in Files : a[f] <= announced'[f]
      /\ announced' \in [Files -> Int]
  BY <1>1, <1>2, <1>3
<1>5. \/ q' = q /\ queue' = queue
      \/ /\ q' = Append(q, m) /\ Len(q) < Capacity
         /\ queue' = [queue EXCEPT ![Updater] = Append(q, m)]
  BY <1>2 DEF Announce, Accepted, Dropped, boxVars, Box!Put
<1>6. TypeOK'
  <2>1. /\ queue' \in [{Updater} -> Seq(Messages)] /\ Len(queue'[Updater]) <= Capacity
    <3>1. CASE queue' = queue
      BY <3>1, <1>2
    <3>2. CASE /\ queue' = [queue EXCEPT ![Updater] = Append(q, m)]
               /\ Len(q) < Capacity
      <4>1. Append(q, m) \in Seq(Messages) /\ Len(Append(q, m)) = Len(q) + 1
        BY <1>2, AppendParts
      <4>2. queue'[Updater] = Append(q, m)
        BY <1>2, <3>2
      <4>3. Capacity \in Int
        BY PipelineAssumption DEF Capacity
      <4> HIDE DEF q
      <4> QED
        BY <1>2, <3>2, <4>1, <4>2, <4>3
    <3> QED
      BY <1>5, <3>1, <3>2
  <2>2. addLost' \in SUBSET Files /\ lastLost' \in SUBSET Files
    BY <1>1 DEF Announce, Accepted, Dropped, Inv, BufferIsTrue, TypeOK
  <2>3. \A f \in Files : announced'[f] \in None .. Bytes[f]
    <3>1. \A f \in Files : a[f] \in None .. Bytes[f]
      BY DEF Inv, BufferIsTrue, TypeOK
    <3>2. m.avaliable \in None .. Bytes[m.file]
      BY <1>1 DEF None
    <3> QED
      BY <1>4, <3>1, <3>2
  <2> QED
    BY <1>3, <1>4, <2>1, <2>2, <2>3 DEF Inv, BufferIsTrue, TypeOK
<1>7. BufferIsTrue'
  <2>1. ASSUME NEW f \in Files, avaliableBytes[f] # None
        PROVE  size[f] = Bytes[f] /\ avaliableBytes[f] <= announced'[f]
    BY <1>2, <1>4, <2>1 DEF Inv, BufferIsTrue, TypeOK
  <2> QED
    BY <1>3, <1>6, <2>1 DEF Inv, BufferIsTrue
<1>8. AnnouncedGrow'
  <2> SUFFICES ASSUME NEW f \in Files
               PROVE  /\ counted'[f] = None <=> announced'[f] = None
                      /\ avaliableBytes[f] <= announced'[f]
                      /\ f \notin complete' /\ counted'[f] # None =>
                           announced'[f] = Clipped(f, counted'[f])
    BY <1>3 DEF AnnouncedGrow, Clipped
  <2>1. avaliableBytes[f] \in Int /\ avaliableBytes[f] <= a[f] /\ a[f] \in Int /\ announced'[f] \in Int
    BY <1>2, <1>4 DEF Inv, BufferIsTrue, TypeOK, AnnouncedGrow
  <2>2. avaliableBytes[f] <= announced'[f]
    BY <2>1, <1>4
  <2>3. CASE f = m.file
    BY <1>1, <1>4, <2>2, <2>3 DEF None
  <2>4. CASE f # m.file
    BY <1>4, <2>2, <2>4 DEF Inv, AnnouncedGrow, Clipped
  <2> QED
    BY <2>3, <2>4
<1>9. QueueFits'
  <2>1. ASSUME NEW i \in 1 .. Len(q)
        PROVE  /\ counted'[q[i].file] # None
               /\ avaliableBytes[q[i].file] <= q[i].avaliable
               /\ q[i].avaliable <= announced'[q[i].file]
               /\ q[i].type = "file_add" => avaliableBytes[q[i].file] = None
               /\ q[i].file = m.file => m.type # "file_add" /\ q[i].avaliable <= m.avaliable
    <3>1. q[i] \in Messages
      BY <1>2
    <3>2. q[i].file \in Files /\ q[i].avaliable \in Int
      BY <3>1, MessageParts, PipelineAssumption
    <3>3. /\ counted[q[i].file] # None
          /\ avaliableBytes[q[i].file] <= q[i].avaliable
          /\ q[i].avaliable <= a[q[i].file]
          /\ q[i].type = "file_add" => avaliableBytes[q[i].file] = None
      BY DEF Inv, QueueFits, Fits
    <3>4. a[q[i].file] \in Int /\ announced'[q[i].file] \in Int /\ a[q[i].file] <= announced'[q[i].file]
      BY <1>2, <1>4, <3>2
    <3> HIDE DEF q, a
    <3>5. q[i].avaliable <= announced'[q[i].file]
      BY <3>2, <3>3, <3>4
    <3>6. q[i].file = m.file => m.type # "file_add" /\ q[i].avaliable <= m.avaliable
      BY <1>1, <3>2, <3>3, <3>4 DEF a
    <3> QED
      BY <3>2, <3>3, <3>5, <3>6
  <2>2. CASE q' = q
    BY <1>3, <2>1, <2>2 DEF Inv, QueueFits, Fits
  <2>3. CASE q' = Append(q, m)
    <3>1. /\ Len(q') = Len(q) + 1
          /\ \A i \in 1 .. Len(q) : q'[i] = q[i]
          /\ q'[Len(q) + 1] = m
      BY <1>2, <2>3, AppendParts
    <3>2. FitsAfter(m)
      <4>1. avaliableBytes[m.file] \in Int /\ avaliableBytes[m.file] <= a[m.file] /\ a[m.file] \in Int
        BY <1>1, <1>2 DEF Inv, BufferIsTrue, TypeOK, AnnouncedGrow
      <4>2. avaliableBytes[m.file] <= m.avaliable
        BY <1>1, <4>1
      <4>3. m.type = "file_add" => avaliableBytes[m.file] = None
        <5>1. avaliableBytes[m.file] \in None .. Bytes[m.file]
          BY <1>1 DEF Inv, BufferIsTrue, TypeOK
        <5>2. m.type = "file_add" => a[m.file] = None
          BY <1>1 DEF Inv, AnnouncedGrow
        <5> QED
          BY <1>1, <4>1, <5>1, <5>2 DEF None
      <4> QED
        BY <1>1, <1>3, <1>4, <4>2, <4>3 DEF FitsAfter
    <3>3. \A i \in 1 .. Len(q) : FitsAfter(q[i])
      BY <1>3, <2>1 DEF FitsAfter
    <3> DEFINE n == Len(q)
    <3>4. \A i, j \in 1 .. n : i < j /\ q[i].file = q[j].file =>
            q[j].type # "file_add" /\ q[i].avaliable <= q[j].avaliable
      BY DEF Inv, QueueFits
    <3>5. \A i \in 1 .. n : q[i].file = m.file =>
            m.type # "file_add" /\ q[i].avaliable <= m.avaliable
      BY <2>1
    <3>6. n \in Nat /\ \A i \in 1 .. n : i # n + 1
      BY <1>2
    <3>7. /\ Len(q') = n + 1 /\ q'[n + 1] = m
          /\ \A i \in 1 .. n : q'[i] = q[i]
      BY <3>1
    <3>8. \A i \in 1 .. Len(q') : FitsAfter(q'[i])
      <4>1. \A i \in 1 .. n + 1 : i = n + 1 \/ i \in 1 .. n
        BY <3>6
      <4> QED
        BY <3>2, <3>3, <3>7, <4>1
    <3>9. \A i, j \in 1 .. Len(q') : i < j /\ q'[i].file = q'[j].file =>
            q'[j].type # "file_add" /\ q'[i].avaliable <= q'[j].avaliable
      <4> HIDE DEF q, n
      <4> SUFFICES ASSUME NEW i \in 1 .. n + 1, NEW j \in 1 .. n + 1,
                          i < j, q'[i].file = q'[j].file
                   PROVE  q'[j].type # "file_add" /\ q'[i].avaliable <= q'[j].avaliable
        BY <3>7
      <4>1. i \in 1 .. n /\ (j = n + 1 \/ j \in 1 .. n)
        BY <3>6
      <4> QED
        BY <3>4, <3>5, <3>7, <4>1
    <3> QED
      BY <3>8, <3>9, QueueFitsAfter
  <2> QED
    BY <1>5, <2>2, <2>3
<1> QED
  BY <1>7, <1>8, <1>9 DEF Inv

\* A new file, and a file's bytes: what is announced is a message and grows.
LEMMA CoreKeeps ==
  ASSUME Inv, NEW f \in Files,
         \/ OnAddTorrent(f) \/ OnFileComplete(f)
         \/ \E n \in 1 .. Bytes[f] + Excess : OnPieceFinished(f, n)
  PROVE  Inv'
<1>1. /\ Bytes[f] \in Nat /\ Excess \in Nat /\ Bytes[f] > 0
      /\ counted \in [Files -> Int] /\ announced[f] \in None .. Bytes[f]
      /\ complete \in SUBSET Files
      /\ \A g \in Files : counted[g] \in None .. Bytes[g] + Excess
  BY PipelineAssumption DEF Inv, BufferIsTrue, TypeOK
<1>2. CASE OnAddTorrent(f)
  <2>1. /\ FileAdd(f) \in Messages /\ FileAdd(f).file = f
        /\ FileAdd(f).avaliable = 0 /\ FileAdd(f).type = "file_add"
    BY DEF FileAdd, Messages
  <2>2. announced[f] = None /\ counted[f] = None
    BY <1>2 DEF OnAddTorrent, Inv, AnnouncedGrow
  <2>3. counted' = [counted EXCEPT ![f] = 0] /\ complete' = complete /\ Announce(FileAdd(f))
    BY <1>2 DEF OnAddTorrent
  <2>4. counted' \in [Files -> Int] /\ counted'[f] = 0
        /\ \A g \in Files : g # f => counted'[g] = counted[g]
    BY <1>1, <2>3
  <2>5. \A g \in Files : counted'[g] \in None .. Bytes[g] + Excess
    BY <1>1, <2>4 DEF None
  <2>6. Clipped(f, counted'[f]) = 0
    BY <1>1, <2>4 DEF Clipped
  <2> QED
    BY <1>1, <2>1, <2>2, <2>3, <2>4, <2>5, <2>6, AnnounceKeeps DEF None
<1>3. CASE OnFileComplete(f)
  <2> DEFINE m == FileUpdate(f, Bytes[f])
  <2>1. m \in Messages /\ m.file = f /\ m.avaliable = Bytes[f] /\ m.type # "file_add"
    <3>1. Bytes[f] \in 0 .. Bytes[f]
      BY <1>1
    <3> QED
      BY <3>1 DEF FileUpdate, Messages
  <2>2. /\ counted' = counted /\ complete' = complete \cup {f}
        /\ Announce(m) /\ counted[f] # None
    BY <1>3 DEF OnFileComplete
  <2>3. announced[f] <= Bytes[f]
    BY <1>1 DEF None
  <2> HIDE DEF m
  <2> QED
    BY <1>1, <2>1, <2>2, <2>3, AnnounceKeeps
<1>4. ASSUME NEW n \in 1 .. Bytes[f] + Excess, OnPieceFinished(f, n)
      PROVE  Inv'
  <2> DEFINE m == FileUpdate(f, Clipped(f, n))
  <2>1. Clipped(f, n) \in 0 .. Bytes[f]
    BY <1>1 DEF Clipped
  <2>2. m \in Messages /\ m.file = f /\ m.avaliable = Clipped(f, n) /\ m.type # "file_add"
    BY <2>1 DEF FileUpdate, Messages
  <2>3. /\ counted' = [counted EXCEPT ![f] = n] /\ complete' = complete
        /\ Announce(m) /\ counted[f] # None /\ counted[f] < n /\ f \notin complete
    BY <1>4 DEF OnPieceFinished
  <2>4. announced[f] <= Clipped(f, n)
    <3>1. announced[f] = Clipped(f, counted[f])
      BY <2>3 DEF Inv, AnnouncedGrow
    <3> QED
      BY <1>1, <2>3, <3>1 DEF Clipped
  <2>5. counted' \in [Files -> Int] /\ counted'[f] = n
        /\ \A g \in Files : g # f => counted'[g] = counted[g]
    BY <1>1, <2>3
  <2>6. \A g \in Files : counted'[g] \in None .. Bytes[g] + Excess
    BY <1>1, <2>5 DEF None
  <2>7. n # None
    BY <1>1 DEF None
  <2> HIDE DEF m
  <2> QED
    BY <1>1, <2>2, <2>3, <2>4, <2>5, <2>6, <2>7, AnnounceKeeps
<1> QED
  BY <1>2, <1>3, <1>4

-----------------------------------------------------------------------------
\* What the updater does with the first message, and what then holds of the others.
LEMMA OnNotifyParts ==
  ASSUME Inv, OnNotify,
         NEW q, q = queue[Updater], NEW m, m = Head(q)
  PROVE  /\ m \in Messages /\ m = q[1] /\ q \in Seq(Messages) /\ Len(q) \in Nat
         /\ queue' \in [{Updater} -> Seq(Messages)]
         /\ Len(queue'[Updater]) = Len(q) - 1
         /\ \A i \in 1 .. Len(q) - 1 : queue'[Updater][i] = q[i + 1]
         /\ Fits(m)
         /\ \A i \in 1 .. Len(q) - 1 :
              /\ q[i + 1] \in Messages /\ Fits(q[i + 1])
              /\ q[i + 1].file = m.file =>
                   q[i + 1].type # "file_add" /\ m.avaliable <= q[i + 1].avaliable
<1>1. q \in Seq(Messages) /\ q # <<>> /\ queue \in [{Updater} -> Seq(Messages)]
  BY DEF OnNotify, Box!Get, Inv, BufferIsTrue, TypeOK
<1>2. queue' = [queue EXCEPT ![Updater] = Tail(q)]
  BY <1>1 DEF OnNotify, Box!Get
<1>3. /\ Len(q) \in Nat /\ Len(q) >= 1 /\ m = q[1] /\ q[1] \in Messages
      /\ Tail(q) \in Seq(Messages) /\ Len(Tail(q)) = Len(q) - 1
      /\ \A i \in 1 .. Len(q) - 1 : Tail(q)[i] = q[i + 1]
  BY <1>1, TailParts
<1>4. queue'[Updater] = Tail(q) /\ queue' \in [{Updater} -> Seq(Messages)]
  BY <1>1, <1>2, <1>3
<1>5. /\ \A i \in 1 .. Len(q) : Fits(q[i])
      /\ \A i, j \in 1 .. Len(q) : i < j /\ q[i].file = q[j].file =>
           q[j].type # "file_add" /\ q[i].avaliable <= q[j].avaliable
  BY DEF Inv, QueueFits
<1>6. 1 \in 1 .. Len(q) /\ \A i \in 1 .. Len(q) - 1 : i + 1 \in 1 .. Len(q) /\ 1 < i + 1
  BY <1>3
<1>7. Fits(m)
  BY <1>3, <1>5, <1>6
<1>8. ASSUME NEW i \in 1 .. Len(q) - 1
      PROVE  /\ q[i + 1] \in Messages /\ Fits(q[i + 1])
             /\ q[i + 1].file = m.file =>
                  q[i + 1].type # "file_add" /\ m.avaliable <= q[i + 1].avaliable
  <2>1. q[i + 1] \in Messages
    BY <1>1, <1>6
  <2>2. Fits(q[i + 1])
    BY <1>5, <1>6
  <2>3. q[i + 1].file = m.file =>
          q[i + 1].type # "file_add" /\ m.avaliable <= q[i + 1].avaliable
    BY <1>3, <1>5, <1>6
  <2> QED
    BY <2>1, <2>2, <2>3
<1> QED
  BY <1>1, <1>3, <1>4, <1>7, <1>8

\* The number of one file changes: the new one is neither below the old one nor above
\* what was announced, and its readers and the messages behind know.
LEMMA OnNotifyKeeps ==
  ASSUME Inv, OnNotify
  PROVE  Inv' /\ \A f \in Files : avaliableBytes'[f] >= avaliableBytes[f]
<1> DEFINE q == queue[Updater]
           m == Head(q)
<1>1. /\ m \in Messages /\ q \in Seq(Messages) /\ Len(q) \in Nat
      /\ queue' \in [{Updater} -> Seq(Messages)]
      /\ Len(q') = Len(q) - 1
      /\ \A i \in 1 .. Len(q) - 1 : q'[i] = q[i + 1]
      /\ Fits(m)
      /\ \A i \in 1 .. Len(q) - 1 :
           /\ q[i + 1] \in Messages /\ Fits(q[i + 1])
           /\ q[i + 1].file = m.file =>
                q[i + 1].type # "file_add" /\ m.avaliable <= q[i + 1].avaliable
  BY OnNotifyParts
<1>2. /\ m.file \in Files /\ m.avaliable \in 0 .. Bytes[m.file] /\ Bytes[m.file] \in Nat
      /\ m.type = "file_add" => m.size = Bytes[m.file] /\ m.avaliable = 0
  BY <1>1, MessageParts, PipelineAssumption
<1>3. /\ counted[m.file] # None
      /\ avaliableBytes[m.file] <= m.avaliable /\ m.avaliable <= announced[m.file]
      /\ m.type = "file_add" => avaliableBytes[m.file] = None
  BY <1>1 DEF Fits
<1>4. /\ TypeOK /\ avaliableBytes \in [Files -> Int] /\ size \in [Files -> Nat]
      /\ known \in [Readers -> Int] /\ file \in [Readers -> Files \cup {NoFile}]
      /\ announced \in [Files -> Int]
  BY DEF Inv, BufferIsTrue, TypeOK
<1>5. UNCHANGED <<counted, announced, complete, addLost, lastLost, open, file>>
  BY DEF OnNotify, OnFileAdd, OnFileUpdate, Box!Get, coreVars, lossVars
<1>6. /\ size' \in [Files -> Nat] /\ avaliableBytes' \in [Files -> Int] /\ known' \in [Readers -> Int]
      /\ \A f \in Files : f # m.file => avaliableBytes'[f] = avaliableBytes[f] /\ size'[f] = size[f]
      /\ avaliableBytes'[m.file] \in {avaliableBytes[m.file], m.avaliable}
      /\ avaliableBytes'[m.file] # avaliableBytes[m.file] => avaliableBytes'[m.file] = m.avaliable
      /\ avaliableBytes'[m.file] # None =>
           \/ size'[m.file] = Bytes[m.file]
           \/ size' = size /\ avaliableBytes[m.file] # None
      /\ \A r \in Readers :
           IF file[r] = m.file /\ avaliableBytes[m.file] # None
           THEN known'[r] = avaliableBytes'[m.file] ELSE known'[r] = known[r]
  <2>1. CASE m.type = "file_add" /\ OnFileAdd(m)
    <3>1. m.size = Bytes[m.file] /\ avaliableBytes[m.file] = None
      BY <1>2, <1>3, <2>1
    <3>2. /\ size' = [size EXCEPT ![m.file] = m.size]
          /\ avaliableBytes' = [avaliableBytes EXCEPT ![m.file] = m.avaliable]
          /\ known' = known
      BY <2>1 DEF OnFileAdd
    <3> HIDE DEF m
    <3> QED
      BY <1>2, <1>4, <3>1, <3>2
  <2>2. CASE m.type = "file_update" /\ OnFileUpdate(m)
    <3>1. CASE avaliableBytes[m.file] = None
      <4>1. UNCHANGED <<avaliableBytes, known, size>>
        BY <2>2, <3>1 DEF OnFileUpdate
      <4> HIDE DEF m
      <4> QED
        BY <1>2, <1>4, <3>1, <4>1
    <3>2. CASE avaliableBytes[m.file] # None
      <4>1. /\ avaliableBytes' = [avaliableBytes EXCEPT ![m.file] = m.avaliable]
            /\ known' = [r \in Readers |-> IF file[r] = m.file THEN m.avaliable ELSE known[r]]
            /\ size' = size
        BY <2>2, <3>2 DEF OnFileUpdate
      <4> HIDE DEF m
      <4> QED
        BY <1>2, <1>4, <3>2, <4>1
    <3> QED
      BY <3>1, <3>2
  <2> QED
    BY <2>1, <2>2 DEF OnNotify
<1>7. /\ avaliableBytes[m.file] \in None .. Bytes[m.file] /\ announced[m.file] \in Int
      /\ avaliableBytes'[m.file] \in None .. Bytes[m.file]
      /\ avaliableBytes[m.file] <= avaliableBytes'[m.file]
      /\ avaliableBytes'[m.file] <= m.avaliable
      /\ avaliableBytes'[m.file] <= announced[m.file]
  <2>1. avaliableBytes[m.file] \in None .. Bytes[m.file] /\ announced[m.file] \in Int
    BY <1>2, <1>4 DEF TypeOK
  <2> HIDE DEF m
  <2> QED
    BY <1>2, <1>3, <1>6, <2>1 DEF None
<1> HIDE DEF m
<1>8. \A f \in Files : /\ avaliableBytes'[f] >= avaliableBytes[f]
                       /\ avaliableBytes'[f] \in None .. Bytes[f]
                       /\ avaliableBytes'[f] <= announced[f]
  <2>1. \A f \in Files : avaliableBytes[f] \in None .. Bytes[f] /\ avaliableBytes[f] <= announced[f]
    BY <1>4 DEF TypeOK, Inv, AnnouncedGrow
  <2>2. \A f \in Files : avaliableBytes[f] \in Int /\ avaliableBytes[f] <= avaliableBytes[f]
    BY <1>4
  <2> QED
    BY <1>6, <1>7, <2>1, <2>2
<1>9. TypeOK'
  <2>1. Len(queue'[Updater]) <= Capacity
    <3>1. Len(q) <= Capacity /\ Capacity \in Int
      BY <1>4, PipelineAssumption DEF TypeOK, Capacity
    <3> HIDE DEF q
    <3>2. Len(q') <= Capacity
      BY <1>1, <3>1
    <3> QED
      BY <3>2 DEF q
  <2> QED
    BY <1>1, <1>4, <1>5, <1>6, <1>8, <2>1 DEF TypeOK
<1>10. BufferIsTrue'
  <2>1. ASSUME NEW f \in Files, avaliableBytes'[f] # None
        PROVE  size'[f] = Bytes[f]
    BY <1>2, <1>6, <2>1 DEF Inv, BufferIsTrue
  <2>2. ASSUME NEW r \in Readers, file[r] # NoFile
        PROVE  avaliableBytes'[file[r]] # None /\ known'[r] = avaliableBytes'[file[r]]
    <3>1. file[r] \in Files /\ avaliableBytes[file[r]] # None /\ known[r] = avaliableBytes[file[r]]
      BY <1>4, <2>2 DEF Inv, BufferIsTrue
    <3>2. /\ avaliableBytes[file[r]] \in None .. Bytes[file[r]]
          /\ avaliableBytes'[file[r]] >= avaliableBytes[file[r]]
          /\ avaliableBytes'[file[r]] \in Int
      BY <1>4, <1>6, <1>8, <3>1 DEF TypeOK
    <3>3. avaliableBytes'[file[r]] # None
      BY <3>1, <3>2, PipelineAssumption DEF None
    <3> QED
      BY <1>6, <3>1, <3>3
  <2> QED
    BY <1>5, <1>8, <1>9, <2>1, <2>2 DEF BufferIsTrue
<1>11. AnnouncedGrow'
  BY <1>5, <1>8 DEF Inv, AnnouncedGrow, Clipped
<1>12. QueueFits'
  <2> DEFINE n == Len(q) - 1
  <2>1. ASSUME NEW i \in 1 .. n
        PROVE  FitsAfter(q[i + 1])
    <3> DEFINE x == q[i + 1]
    <3>1. /\ x \in Messages /\ Fits(x)
          /\ x.file = m.file => x.type # "file_add" /\ m.avaliable <= x.avaliable
      BY <1>1
    <3>2. x.file \in Files /\ x.avaliable \in Int
      BY <3>1, MessageParts, PipelineAssumption
    <3> HIDE DEF x
    <3>3. avaliableBytes'[x.file] <= x.avaliable
      <4>1. CASE x.file = m.file
        BY <1>2, <1>6, <1>7, <3>1, <3>2, <4>1
      <4>2. CASE x.file # m.file
        BY <1>6, <3>1, <3>2, <4>2 DEF Fits
      <4> QED
        BY <4>1, <4>2
    <3>4. x.type = "file_add" => avaliableBytes'[x.file] = None
      BY <1>6, <3>1, <3>2 DEF Fits
    <3>5. FitsAfter(x)
      BY <1>5, <3>1, <3>3, <3>4 DEF Fits, FitsAfter
    <3> QED
      BY <3>5 DEF x
  <2>2. \A i \in 1 .. n : FitsAfter(q'[i])
    BY <1>1, <2>1
  <2>3. \A i, j \in 1 .. Len(q) : i < j /\ q[i].file = q[j].file =>
          q[j].type # "file_add" /\ q[i].avaliable <= q[j].avaliable
    BY DEF Inv, QueueFits
  <2>4. \A i, j \in 1 .. n : i < j =>
          i + 1 \in 1 .. Len(q) /\ j + 1 \in 1 .. Len(q) /\ i + 1 < j + 1
    BY <1>1
  <2>5. \A i, j \in 1 .. n : i < j /\ q'[i].file = q'[j].file =>
          q'[j].type # "file_add" /\ q'[i].avaliable <= q'[j].avaliable
    BY <1>1, <2>3, <2>4
  <2>6. Len(q') = n
    BY <1>1
  <2> QED
    BY <2>2, <2>5, <2>6, QueueFitsAfter
<1> QED
  BY <1>8, <1>10, <1>11, <1>12 DEF Inv

\* A reader finds a file.
LEMMA FindFileKeeps ==
  ASSUME Inv, NEW r \in Readers, NEW f \in Files, FindFile(r, f)
  PROVE  Inv'
<1>1. TypeOK' /\ BufferIsTrue'
  BY DEF FindFile, coreVars, lossVars, boxVars, Inv, BufferIsTrue, TypeOK
<1>2. AnnouncedGrow' /\ QueueFits'
  BY DEF FindFile, coreVars, lossVars, boxVars, Inv, AnnouncedGrow, QueueFits, Fits, Clipped
<1> QED
  BY <1>1, <1>2 DEF Inv

\* Every step keeps the invariant.
LEMMA InvNext == Inv /\ [Next]_vars => Inv'
<1> SUFFICES ASSUME Inv, [Next]_vars PROVE Inv'
  OBVIOUS
<1>1. ASSUME NEW f \in Files,
             \/ OnAddTorrent(f) \/ OnFileComplete(f)
             \/ \E n \in 1 .. Bytes[f] + Excess : OnPieceFinished(f, n)
      PROVE  Inv'
  BY <1>1, CoreKeeps
<1>2. CASE OnNotify
  BY <1>2, OnNotifyKeeps
<1>3. ASSUME NEW r \in Readers, NEW f \in Files, FindFile(r, f)
      PROVE  Inv'
  BY <1>3, FindFileKeeps
<1>4. CASE UNCHANGED vars
  BY <1>4 DEF vars, coreVars, lossVars, boxVars, bufferVars, Inv, BufferIsTrue, TypeOK,
              AnnouncedGrow, QueueFits, Fits, Clipped
<1> QED
  BY <1>1, <1>2, <1>3, <1>4 DEF Next

-----------------------------------------------------------------------------
\* The invariant: the messages of each file wait in the order of their numbers.
THEOREM InvHolds == Spec => []Inv
<1> QED
  BY InvInit, InvNext, PTL DEF Spec

\* The buffer never knows more of a file than was announced, nor less than a reader.
THEOREM BufferStaysTrue == Spec => []BufferIsTrue
<1>1. Inv => BufferIsTrue
  BY DEF Inv
<1> QED
  BY <1>1, InvHolds, PTL

\* No step of the updater, the core or a reader takes a byte of a file back.
LEMMA StepGrows == Inv /\ [Next]_vars => [\A f \in Files : avaliableBytes'[f] >= avaliableBytes[f]]_vars
<1> SUFFICES ASSUME Inv, [Next]_vars, NEW f \in Files
             PROVE  avaliableBytes'[f] >= avaliableBytes[f]
  OBVIOUS
<1>1. avaliableBytes[f] \in Int
  BY DEF Inv, BufferIsTrue, TypeOK
<1>2. CASE OnNotify
  BY <1>2, OnNotifyKeeps
<1>3. CASE avaliableBytes' = avaliableBytes
  BY <1>1, <1>3
<1> QED
  BY <1>2, <1>3 DEF Next, OnAddTorrent, OnFileComplete, OnPieceFinished, Announce, FindFile,
                    vars, bufferVars

\* Bytes that a reader may wait for stay announced.
THEOREM BytesAreKept == Spec => BufferGrows
<1> QED
  BY InvHolds, StepGrows, PTL DEF Spec, BufferGrows

-----------------------------------------------------------------------------
(* From the buffer to a response.                                           *)

\* The types that the proofs of the single steps need again and again.
LEMMA Types ==
  ASSUME StreamTypeOK, NEW r \in Requests
  PROVE  /\ range[r].start \in Nat /\ range[r].end \in Nat
         /\ seek[r] \in Nat /\ seen[r] \in Nat /\ avaliable \in Nat
         /\ ChunkSize \in Nat \ {0} /\ FileSize \in Nat \ {0}
         /\ BytesWait(r) \in Nat
BY StreamAssumption DEF StreamTypeOK, BytesWait

\* No file is being served: nothing has been announced.
LEMMA StreamInvInit == StreamInit => StreamInv
<1> SUFFICES ASSUME StreamInit PROVE StreamInv
  OBVIOUS
<1>1. StreamTypeOK
  <2>1. \A r \in Requests : range[r].start \in Nat
    BY StreamAssumption DEF StreamInit
  <2>2. seek \in [Requests -> Nat]
    BY <2>1 DEF StreamInit
  <2>3. avaliable \in 0 .. FileSize /\ seen \in [Requests -> 0 .. FileSize]
    BY StreamAssumption DEF StreamInit
  <2>4. subs \in Seq(Requests) /\ telling \in 0 .. Len(subs) /\ told \in BOOLEAN
    <3>1. subs = <<>> /\ telling = 0 /\ told = FALSE
      BY DEF StreamInit
    <3>2. <<>> \in Seq(Requests) /\ 0 \in 0 .. Len(<<>>)
      OBVIOUS
    <3> QED
      BY <3>1, <3>2
  <2>5. /\ step \in [Requests -> Steps] /\ sid \in [Requests -> Nat]
        /\ range \in [Requests -> Ranges]
    BY DEF StreamInit, Steps
  <2>6. /\ disk \in SUBSET Positions
        /\ sent \in [Requests -> SUBSET Positions]
        /\ unready \in [Requests -> SUBSET Positions]
    BY DEF StreamInit
  <2> QED
    BY <2>2, <2>3, <2>4, <2>5, <2>6 DEF StreamTypeOK
<1>2. Numbers /\ Informed /\ OkIsComplete
  BY DEF StreamInit, Numbers, Informed, OkIsComplete, Fresh, LockFree
<1>3. Announced /\ Gapless /\ RangeIsReady
  BY <1>1, StreamAssumption DEF StreamInit, StreamTypeOK, Announced, Gapless, RangeIsReady
<1> QED
  BY <1>1, <1>2, <1>3 DEF StreamInv

\* Bytes are written to the disk.
LEMMA WriteKeeps ==
  ASSUME StreamInv, NEW p \in Positions, Write(p)
  PROVE  StreamInv'
<1>1. StreamTypeOK' /\ Announced'
  BY DEF Write, bufVars, reqVars, StreamInv, StreamTypeOK, Announced, BytesWait, AtEnd
<1>2. Numbers' /\ Informed' /\ Gapless' /\ RangeIsReady' /\ OkIsComplete'
  BY DEF Write, bufVars, reqVars, StreamInv, Numbers, Informed, Gapless, RangeIsReady,
         OkIsComplete, Fresh, LockFree
<1> QED
  BY <1>1, <1>2 DEF StreamInv

\* A new number: no stream has been told it yet.
LEMMA UpdateInfoKeeps ==
  ASSUME StreamInv, NEW n \in 1 .. FileSize, UpdateInfo(n)
  PROVE  StreamInv'
<1> USE DEF UpdateInfo, reqVars
<1>1. /\ subs \in Seq(Requests) /\ Len(subs) \in Nat
      /\ subs # <<>> => Len(subs) >= 1
  BY DEF StreamInv, StreamTypeOK
<1>2. StreamTypeOK'
  <2>1. avaliable' \in 0 .. FileSize
    BY StreamAssumption
  <2>2. subs' \in Seq(Requests) /\ telling' \in 0 .. Len(subs')
    BY <1>1
  <2> QED
    BY <2>1, <2>2 DEF StreamInv, StreamTypeOK
<1>3. Announced'
  <2>1. \A r \in Requests : seen[r] \in Nat /\ seen[r] <= avaliable /\ avaliable \in Nat
    BY Types DEF StreamInv, Announced
  <2>2. \A r \in Requests : seen'[r] <= avaliable'
    BY <2>1, StreamAssumption
  <2>3. \A r \in Requests : step'[r] = "read" => BytesWait(r)' <= seen'[r]
    BY DEF StreamInv, Announced, BytesWait, AtEnd
  <2> QED
    BY <2>2, <2>3 DEF Announced
<1>4. Informed'
  <2>1. ~told
    BY DEF StreamInv, Informed
  <2>2. \A r \in Requests : ~Fresh(r)' => sid[r] \in 1 .. Len(subs)
    BY <1>1 DEF StreamInv, Numbers, Fresh
  <2> QED
    BY <1>1, <2>1, <2>2 DEF Informed, LockFree, Fresh
<1>5. Numbers' /\ Gapless' /\ RangeIsReady' /\ OkIsComplete'
  BY DEF StreamInv, Numbers, Gapless, RangeIsReady, OkIsComplete, Fresh
<1> QED
  BY <1>2, <1>3, <1>4, <1>5 DEF StreamInv

\* The subscriber whose turn it is gets the number.
LEMMA TellBytesKeeps ==
  ASSUME StreamInv, TellBytes
  PROVE  StreamInv'
<1> USE DEF TellBytes, fileVars
<1>1. telling \in DOMAIN subs /\ subs[telling] \in Requests
  BY DEF StreamInv, StreamTypeOK, LockFree
<1>2. StreamTypeOK'
  BY <1>1, Types DEF StreamInv, StreamTypeOK
<1>3. Announced'
  <2>1. \A r \in Requests : seen[r] <= seen'[r] /\ seen'[r] <= avaliable
    BY <1>1, Types DEF StreamInv, StreamTypeOK, Announced
  <2>2. \A r \in Requests : step'[r] = "read" => BytesWait(r)' <= seen'[r]
    <3> SUFFICES ASSUME NEW r \in Requests, step[r] = "read"
                 PROVE  BytesWait(r) <= seen'[r]
      BY DEF BytesWait, AtEnd
    <3>1. BytesWait(r) <= seen[r]
      BY DEF StreamInv, Announced
    <3>2. BytesWait(r) \in Nat /\ seen[r] \in Nat /\ seen'[r] \in Nat
      BY <1>2, Types DEF StreamInv, StreamTypeOK
    <3> QED
      BY <3>1, <3>2, <2>1
  <2> QED
    BY <2>1, <2>2 DEF StreamInv, Announced
<1>4. Informed'
  <2> SUFFICES ASSUME NEW r \in Requests, ~Fresh(r)'
               PROVE  (\/ seen[r] = avaliable
                       \/ telling > 0 /\ (sid[r] > telling \/ (sid[r] = telling /\ ~told)))'
    BY DEF Informed, LockFree
  <2>1. CASE r = subs[telling]
    BY <2>1 DEF StreamInv, StreamTypeOK
  <2>2. CASE r # subs[telling]
    <3>1. sid[r] # telling
      BY <2>2 DEF StreamInv, Numbers, Fresh
    <3> QED
      BY <2>2, <3>1 DEF StreamInv, StreamTypeOK, Informed, Fresh
  <2> QED
    BY <2>1, <2>2
<1>5. Numbers' /\ Gapless' /\ RangeIsReady' /\ OkIsComplete'
  BY DEF StreamInv, Numbers, Gapless, RangeIsReady, OkIsComplete, Fresh
<1> QED
  BY <1>2, <1>3, <1>4, <1>5 DEF StreamInv

\* It is notified, and the next one is due.
LEMMA NotifyWaiterKeeps ==
  ASSUME StreamInv, NotifyWaiter
  PROVE  StreamInv'
<1> USE DEF NotifyWaiter, fileVars
<1>1. /\ telling \in DOMAIN subs /\ Len(subs) \in Nat /\ subs \in Seq(Requests)
      /\ telling' \in 0 .. Len(subs)
  BY DEF StreamInv, StreamTypeOK, LockFree
<1>2. \A r \in Requests : \/ step'[r] = step[r]
                          \/ step[r] = "asleep" /\ step'[r] = "test"
  BY DEF Wakes
<1>3. StreamTypeOK'
  BY <1>1 DEF StreamInv, StreamTypeOK, Steps, Wakes
<1>4. Announced'
  BY <1>2 DEF StreamInv, StreamTypeOK, Announced, BytesWait, AtEnd
<1>5. Informed'
  <2> SUFFICES ASSUME NEW r \in Requests, ~Fresh(r)'
               PROVE  (\/ seen[r] = avaliable
                       \/ telling > 0 /\ (sid[r] > telling \/ (sid[r] = telling /\ ~told)))'
    BY DEF Informed, LockFree
  <2>1. ~Fresh(r)
    BY <1>2 DEF Fresh
  <2>2. sid[r] \in 1 .. Len(subs)
    BY <1>1, <2>1 DEF StreamInv, Numbers
  <2> QED
    BY <1>1, <2>1, <2>2 DEF StreamInv, Informed
<1>6. Numbers'
  BY <1>1, <1>2 DEF StreamInv, Numbers, Fresh
<1>7. Gapless' /\ RangeIsReady' /\ OkIsComplete'
  BY <1>2 DEF StreamInv, Gapless, RangeIsReady, OkIsComplete
<1> QED
  BY <1>3, <1>4, <1>5, <1>6, <1>7 DEF StreamInv

\* A step of one worker that moves neither its position nor a subscriber.
LEMMA GotoKeeps ==
  ASSUME StreamInv, NEW r \in Requests, NEW there \in Steps, Goto(r, there),
         step[r] \in {"idle", "found"} <=> there \in {"idle", "found"},
         there = "read" => BytesWait(r) <= seen[r],
         there \in {"leave", "ok"} => step[r] = "leave",
         there \in {"idle", "found", "test", "asleep", "read"} =>
            step[r] \in {"idle", "found", "test", "asleep", "read"},
         UNCHANGED <<fileVars, bufVars, range, seek, seen, sid, sent, unready>>
  PROVE  StreamInv'
<1> USE DEF Goto, fileVars, bufVars
<1>1. \A q \in Requests \ {r} : step'[q] = step[q]
  BY DEF StreamInv, StreamTypeOK
<1>2. step'[r] = there
  BY DEF StreamInv, StreamTypeOK
<1>3. StreamTypeOK'
  BY DEF StreamInv, StreamTypeOK
<1>4. Numbers' /\ Informed'
  <2>1. \A q \in Requests : Fresh(q)' <=> Fresh(q)
    BY <1>1, <1>2 DEF Fresh
  <2>2. subs \in Seq(Requests)
    BY DEF StreamInv, StreamTypeOK
  <2>3. \A i \in DOMAIN subs : subs[i] \in Requests
    BY <2>2
  <2> QED
    BY <2>1, <2>3 DEF StreamInv, Numbers, Informed, LockFree
<1>5. Announced'
  BY <1>1, <1>2 DEF StreamInv, Announced, BytesWait, AtEnd
<1>6. Gapless' /\ RangeIsReady' /\ OkIsComplete'
  BY <1>1, <1>2 DEF StreamInv, Gapless, RangeIsReady, OkIsComplete
<1> QED
  BY <1>3, <1>4, <1>5, <1>6 DEF StreamInv

\* A new stream is the last subscriber, and nobody is being told.
LEMMA RegistrKeeps ==
  ASSUME StreamInv, NEW r \in Requests, RegistrSubscriber(r)
  PROVE  StreamInv'
<1> USE DEF RegistrSubscriber, Goto, fileVars
<1>1. /\ subs \in Seq(Requests) /\ Len(subs) \in Nat
      /\ subs' \in Seq(Requests) /\ Len(subs') = Len(subs) + 1
      /\ \A i \in 1 .. Len(subs) : subs'[i] = subs[i]
      /\ subs'[Len(subs) + 1] = r
  BY DEF StreamInv, StreamTypeOK
<1>2. \A q \in Requests \ {r} : step'[q] = step[q] /\ seen'[q] = seen[q] /\ sid'[q] = sid[q]
  BY DEF StreamInv, StreamTypeOK
<1>3. /\ step'[r] \in {"test", "fail"} /\ seen'[r] = avaliable
      /\ sid'[r] = Len(subs) + 1
  BY DEF StreamInv, StreamTypeOK
<1>4. StreamTypeOK'
  <2>1. telling' \in 0 .. Len(subs')
    BY <1>1 DEF StreamInv, StreamTypeOK
  <2>2. step' \in [Requests -> Steps]
    BY DEF StreamInv, StreamTypeOK, Steps
  <2>3. /\ seen' \in [Requests -> 0 .. FileSize]
        /\ sid' \in [Requests -> Nat]
    BY <1>1 DEF StreamInv, StreamTypeOK
  <2> QED
    BY <1>1, <2>1, <2>2, <2>3 DEF StreamInv, StreamTypeOK
<1>5. Numbers'
  <2>1. \A i \in 1 .. Len(subs) : subs[i] \in Requests /\ subs[i] # r
    BY <1>1 DEF StreamInv, Numbers, Fresh
  <2>2. \A q \in Requests \ {r} : ~Fresh(q)' =>
           sid'[q] \in 1 .. Len(subs) /\ subs'[sid'[q]] = q
    BY <1>1, <1>2 DEF StreamInv, Numbers, Fresh
  <2>3. \A i \in 1 .. Len(subs) : (~Fresh(subs[i]) /\ sid[subs[i]] = i)'
    <3> SUFFICES ASSUME NEW i \in 1 .. Len(subs)
                 PROVE  (~Fresh(subs[i]) /\ sid[subs[i]] = i)'
      OBVIOUS
    <3>1. ~Fresh(subs[i]) /\ sid[subs[i]] = i
      BY <1>1 DEF StreamInv, Numbers
    <3> QED
      BY <3>1, <2>1, <1>1, <1>2 DEF Fresh
  <2>4. DOMAIN subs' = 1 .. Len(subs) + 1
    BY <1>1
  <2>5. sid'[r] \in DOMAIN subs' /\ subs'[sid'[r]] = r
    BY <1>1, <1>3, <2>4
  <2>6. \A i \in DOMAIN subs' : (~Fresh(subs[i]) /\ sid[subs[i]] = i)'
    <3> SUFFICES ASSUME NEW i \in 1 .. Len(subs) + 1, i \notin 1 .. Len(subs)
                 PROVE  (~Fresh(subs[i]) /\ sid[subs[i]] = i)'
      BY <2>3, <2>4
    <3>1. i = Len(subs) + 1
      BY <1>1
    <3> QED
      BY <3>1, <1>1, <1>3 DEF Fresh
  <2> QED
    BY <1>1, <2>2, <2>4, <2>5, <2>6 DEF Numbers
<1>6. Informed'
  BY <1>2, <1>3 DEF StreamInv, Informed, LockFree, Fresh
<1>7. Announced'
  BY <1>2, <1>3, Types DEF StreamInv, Announced, BytesWait, AtEnd
<1>8. Gapless' /\ RangeIsReady' /\ OkIsComplete'
  BY <1>2, <1>3 DEF StreamInv, Gapless, RangeIsReady, OkIsComplete
<1> QED
  BY <1>4, <1>5, <1>6, <1>7, <1>8 DEF StreamInv

\* No number is above the last, so none is erased.
LEMMA UnregistrKeeps ==
  ASSUME StreamInv, NEW r \in Requests, UnregistrSubscriber(r)
  PROVE  StreamInv'
<1>1. sid[r] <= Len(subs)
  <2>1. subs \in Seq(Requests) /\ Len(subs) \in Nat
    BY DEF StreamInv, StreamTypeOK
  <2>2. sid[r] \in DOMAIN subs
    BY DEF UnregistrSubscriber, StreamInv, Numbers, Fresh
  <2> QED
    BY <2>1, <2>2
<1>2. subs' = subs
  BY <1>1 DEF UnregistrSubscriber, StreamInv, StreamTypeOK
<1>3. PICK there \in {"ok", "failed"} : /\ Goto(r, there)
                                        /\ there = "ok" => step[r] = "leave"
  BY DEF UnregistrSubscriber
<1> QED
  BY <1>2, <1>3, GotoKeeps DEF UnregistrSubscriber, Steps, bufVars

\* A chunk that is not the last is read whole; the last one has all of the range
\* that is left.
LEMMA FoundIsThere ==
  ASSUME StreamInv, NEW r \in Requests, step[r] = "read"
  PROVE  /\ Found(r) \subseteq Positions
         /\ seek[r] .. BytesWait(r) - 1 \subseteq Found(r)
         /\ ~AtEnd(r) => /\ Found(r) = seek[r] .. seek[r] + ChunkSize - 1
                         /\ Cardinality(Found(r)) = ChunkSize
<1>1. /\ seek[r] \in Nat /\ avaliable \in Nat /\ range[r].end \in Nat
      /\ ChunkSize \in Nat \ {0} /\ FileSize \in Nat \ {0} /\ BytesWait(r) \in Nat
      /\ seen[r] \in Nat
  BY Types DEF StreamInv
<1>2. BytesWait(r) <= avaliable
  BY <1>1 DEF StreamInv, Announced
<1>3. seek[r] .. BytesWait(r) - 1 \subseteq disk
  BY <1>1, <1>2 DEF StreamInv, Announced
<1>4. BytesWait(r) <= seek[r] + ChunkSize
  BY <1>1 DEF BytesWait, AtEnd
<1>5. seek[r] .. BytesWait(r) - 1 \subseteq Found(r)
  BY <1>1, <1>3, <1>4 DEF Found
<1>6. Found(r) \subseteq Positions
  BY <1>1 DEF Found, Positions, StreamInv, StreamTypeOK
<1>7. ASSUME ~AtEnd(r)
      PROVE  /\ Found(r) = seek[r] .. seek[r] + ChunkSize - 1
             /\ Cardinality(Found(r)) = ChunkSize
  <2>1. BytesWait(r) = seek[r] + ChunkSize
    BY <1>7 DEF BytesWait
  <2>2. Found(r) = seek[r] .. seek[r] + ChunkSize - 1
    BY <1>1, <1>5, <2>1 DEF Found
  <2> DEFINE last == seek[r] + ChunkSize - 1
  <2>3. seek[r] \in Int /\ last \in Int /\ ~(seek[r] > last)
    BY <1>1
  <2>4. last - seek[r] + 1 = ChunkSize
    BY <1>1
  <2> HIDE DEF last
  <2>5. Cardinality(seek[r] .. last) = last - seek[r] + 1
    BY ONLY <2>3, FS_Interval, Zenon
  <2> QED
    BY <2>2, <2>4, <2>5 DEF last
<1> QED
  BY <1>5, <1>6, <1>7

\* What is read of the range was announced, and leaves no gap.
LEMMA SendChunkKeeps ==
  ASSUME StreamInv, NEW r \in Requests, SendChunk(r)
  PROVE  StreamInv'
<1> USE DEF SendChunk, Goto, fileVars, bufVars
<1> DEFINE S == range[r].start
           E == range[r].end
<1>1. /\ seek[r] \in Nat /\ avaliable \in Nat /\ S \in Nat /\ E \in Nat
      /\ ChunkSize \in Nat \ {0} /\ BytesWait(r) \in Nat /\ seen[r] \in Nat
  BY Types DEF StreamInv
<1>2. /\ Found(r) \subseteq Positions
      /\ seek[r] .. BytesWait(r) - 1 \subseteq Found(r)
      /\ ~AtEnd(r) => /\ Found(r) = seek[r] .. seek[r] + ChunkSize - 1
                      /\ Cardinality(Found(r)) = ChunkSize
  BY FoundIsThere
<1>3. BytesWait(r) <= avaliable
  BY <1>1 DEF StreamInv, Announced
<1>4. \A q \in Requests \ {r} : /\ step'[q] = step[q] /\ sent'[q] = sent[q]
                                /\ unready'[q] = unready[q] /\ seek'[q] = seek[q]
  BY DEF StreamInv, StreamTypeOK
<1>5. /\ step'[r] = IF AtEnd(r) THEN "leave" ELSE "test"
      /\ sent'[r] = sent[r] \cup Found(r)
      /\ unready'[r] = unready[r] \cup {p \in Found(r) : p >= avaliable}
  BY DEF StreamInv, StreamTypeOK
<1>6. seek'[r] = IF AtEnd(r) THEN seek[r] ELSE seek[r] + ChunkSize
  BY <1>2 DEF StreamInv, StreamTypeOK
<1>7. StreamTypeOK'
  <2>1. seek' \in [Requests -> Nat]
    BY <1>1, <1>2 DEF StreamInv, StreamTypeOK
  <2>2. sent' \in [Requests -> SUBSET Positions] /\ unready' \in [Requests -> SUBSET Positions]
    BY <1>2 DEF StreamInv, StreamTypeOK
  <2>3. step' \in [Requests -> Steps]
    BY DEF StreamInv, StreamTypeOK, Steps
  <2> QED
    BY <2>1, <2>2, <2>3 DEF StreamInv, StreamTypeOK
<1>8. Numbers' /\ Informed'
  <2>1. \A q \in Requests : Fresh(q)' <=> Fresh(q)
    BY <1>4, <1>5 DEF Fresh
  <2>2. subs \in Seq(Requests)
    BY DEF StreamInv, StreamTypeOK
  <2>3. \A i \in DOMAIN subs : subs[i] \in Requests
    BY <2>2
  <2> QED
    BY <2>1, <2>3 DEF StreamInv, Numbers, Informed, LockFree
<1>9. Announced'
  BY <1>4, <1>5 DEF StreamInv, Announced, BytesWait, AtEnd
<1>10. RangeIsReady'
  <2>1. {p \in Found(r) : p >= avaliable} \cap (S .. E - 1) = {}
    <3>1. CASE AtEnd(r)
      BY <1>1, <1>3, <3>1 DEF BytesWait
    <3>2. CASE ~AtEnd(r)
      BY <1>1, <1>2, <1>3, <3>2 DEF BytesWait
    <3> QED
      BY <3>1, <3>2
  <2> QED
    BY <1>4, <1>5, <2>1 DEF StreamInv, RangeIsReady
<1>11. Gapless' /\ OkIsComplete'
  <2>1. seek[r] >= S /\ S .. seek[r] - 1 \subseteq sent[r]
    BY DEF StreamInv, Gapless
  <2>2. S .. BytesWait(r) - 1 \subseteq sent'[r]
    BY <1>1, <1>2, <1>5, <2>1
  <2>3. CASE AtEnd(r)
    BY <1>4, <1>5, <2>2, <2>3 DEF StreamInv, Gapless, OkIsComplete, BytesWait
  <2>4. CASE ~AtEnd(r)
    BY <1>1, <1>4, <1>5, <1>6, <2>1, <2>2, <2>4 DEF StreamInv, Gapless, OkIsComplete, BytesWait
  <2> QED
    BY <2>3, <2>4
<1> QED
  BY <1>7, <1>8, <1>9, <1>10, <1>11 DEF StreamInv

\* Every step keeps the invariant.
LEMMA StreamInvNext == StreamInv /\ [StreamNext]_streamVars => StreamInv'
<1> SUFFICES ASSUME StreamInv, [StreamNext]_streamVars PROVE StreamInv'
  OBVIOUS
<1>1. ASSUME NEW p \in Positions, Write(p) PROVE StreamInv'
  BY <1>1, WriteKeeps
<1>2. ASSUME NEW n \in 1 .. FileSize, UpdateInfo(n) PROVE StreamInv'
  BY <1>2, UpdateInfoKeeps
<1>3. CASE TellBytes
  BY <1>3, TellBytesKeeps
<1>4. CASE NotifyWaiter
  BY <1>4, NotifyWaiterKeeps
<1>5. ASSUME NEW r \in Requests, GetInfo(r) \/ WaitTimeout(r) \/ Worker(r)
      PROVE  StreamInv'
  <2>1. CASE GetInfo(r)
    BY <2>1, GotoKeeps DEF GetInfo, Steps
  <2>2. CASE WaitTimeout(r)
    BY <2>2, GotoKeeps DEF WaitTimeout, Steps
  <2>3. CASE RegistrSubscriber(r)
    BY <2>3, RegistrKeeps
  <2>4. CASE WaitForBytes(r)
    <3>1. CASE BytesWait(r) <= seen[r]
      BY <2>4, <3>1, GotoKeeps DEF WaitForBytes, Steps
    <3>2. CASE ~(BytesWait(r) <= seen[r])
      BY <2>4, <3>2, GotoKeeps DEF WaitForBytes, Steps
    <3> QED
      BY <3>1, <3>2
  <2>5. CASE SendChunk(r)
    BY <2>5, SendChunkKeeps
  <2>6. CASE SendFails(r)
    BY <2>6, GotoKeeps DEF SendFails, Steps
  <2>7. CASE SendThrows(r)
    BY <2>7, GotoKeeps DEF SendThrows, Steps
  <2>8. CASE UnregistrSubscriber(r)
    BY <2>8, UnregistrKeeps
  <2> QED
    BY <1>5, <2>1, <2>2, <2>3, <2>4, <2>5, <2>6, <2>7, <2>8 DEF Worker
<1>6. CASE UNCHANGED streamVars
  <2> USE <1>6 DEF streamVars, fileVars, bufVars, reqVars, StreamInv
  <2>1. StreamTypeOK' /\ Announced'
    BY DEF StreamTypeOK, Announced, BytesWait, AtEnd
  <2>2. Numbers' /\ Informed'
    BY DEF Numbers, Informed, Fresh, LockFree
  <2>3. Gapless'
    BY DEF Gapless
  <2>4. RangeIsReady' /\ OkIsComplete'
    BY DEF RangeIsReady, OkIsComplete
  <2> QED
    BY <2>1, <2>2, <2>3, <2>4
<1> QED
  BY <1>1, <1>2, <1>3, <1>4, <1>5, <1>6 DEF StreamNext

\* The invariant holds throughout.
THEOREM StreamInvHolds == StreamSpec => []StreamInv
BY StreamInvInit, StreamInvNext, PTL DEF StreamSpec

\* Type correctness, for every file, chunk size and set of requests.
THEOREM TypeCorrect == StreamSpec => []StreamTypeOK
<1>1. StreamInv => StreamTypeOK
  BY DEF StreamInv
<1> QED
  BY <1>1, StreamInvHolds, PTL

\* A stream at work is among the subscribers and knows the number last announced,
\* unless update_info is on its way to it.
THEOREM StreamsAreInformed == StreamSpec => []SubscribersKnow
<1>1. StreamInv => SubscribersKnow
  <2> SUFFICES ASSUME StreamInv, NEW r \in Requests, step[r] \in {"test", "asleep", "read"}
               PROVE  \E i \in DOMAIN subs :
                        /\ subs[i] = r
                        /\ \/ seen[r] = avaliable
                           \/ ~LockFree /\ (i > telling \/ (i = telling /\ ~told))
    BY DEF SubscribersKnow
  <2>1. sid[r] \in DOMAIN subs /\ subs[sid[r]] = r
    BY DEF StreamInv, Numbers, Fresh
  <2>2. \/ seen[r] = avaliable
        \/ telling > 0 /\ (sid[r] > telling \/ (sid[r] = telling /\ ~told))
    BY DEF StreamInv, Informed, Fresh
  <2> QED
    BY <2>1, <2>2 DEF LockFree
<1> QED
  BY <1>1, StreamInvHolds, PTL

\* No byte of a range is sent before it was announced, however the writes, the
\* announcements and the reads interleave.
THEOREM RangesAreReady == StreamSpec => []RangeIsReady
<1>1. StreamInv => RangeIsReady
  BY DEF StreamInv
<1> QED
  BY <1>1, StreamInvHolds, PTL

\* A request that reports success has sent its range without a gap.
THEOREM SuccessIsComplete == StreamSpec => []OkIsComplete
<1>1. StreamInv => OkIsComplete
  BY DEF StreamInv
<1> QED
  BY <1>1, StreamInvHolds, PTL
=============================================================================
