---------------------------- MODULE FileInfoProofs ----------------------------
(***************************************************************************)
(* file_info_update for any layout of files and any order of pieces: the   *)
(* vector is never read past its end, the announcements only grow, and no  *)
(* more is announced than is there: no more pieces in any order, and only  *)
(* bytes from the start of the file on as long as they come in order.      *)
(***************************************************************************)
EXTENDS FileInfo, TLAPS, WellFoundedInduction, FiniteSetTheorems

\* A nonempty set of numbers below a bound has a greatest member.
LEMMA GreatestExists ==
  ASSUME NEW b \in Int, NEW S \in SUBSET Int, S # {}, \A i \in S : i <= b
  PROVE  \E m \in S : \A i \in S : i <= m
  <1> DEFINE T == {b - i : i \in S}
  <1>1. T \subseteq Nat /\ T # {}
    <2>1. \A i \in S : i \in Int /\ b - i \in Nat
      OBVIOUS
    <2> QED  BY <2>1
  <1>2. PICK t \in T : \A u \in T : ~ (<<u, t>> \in OpToRel(<, Nat))
    BY <1>1, NatLessThanWellFounded, WFMin
  <1>3. \A u \in T : t <= u
    <2> SUFFICES ASSUME NEW u \in T, u < t PROVE FALSE
      BY <1>1
    <2>1. <<u, t>> \in OpToRel(<, Nat)
      BY <1>1 DEF OpToRel
    <2> QED  BY <2>1, <1>2
  <1>4. PICK m \in S : t = b - m
    BY <1>2
  <1>5. \A i \in S : i <= m
    <2> SUFFICES ASSUME NEW i \in S PROVE i <= m
      OBVIOUS
    <2>1. b - m <= b - i
      BY <1>3, <1>4
    <2>2. i \in Int /\ m \in Int
      OBVIOUS
    <2> QED  BY <2>1, <2>2
  <1> QED  BY <1>5

\* The position the loop stops at is the first one or one it found.
LEMMA LastOfInside ==
  ASSUME NEW first \in Nat, NEW end \in Int,
         NEW found \in SUBSET (first .. end - 1)
  PROVE  LastOf(found, first) \in Nat /\ LastOf(found, first) >= first
  <1>1. CASE found = {}
    BY <1>1 DEF LastOf
  <1>2. CASE found # {}
    <2>1. \E m \in found : \A i \in found : i <= m
      BY <1>2, GreatestExists
    <2>2. LastOf(found, first) \in found
      BY <1>2, <2>1 DEF LastOf
    <2>3. \A i \in first .. end - 1 : i \in Nat /\ i >= first
      OBVIOUS
    <2> QED  BY <2>2, <2>3
  <1> QED  BY <1>1, <1>2

\* The range of a scan has at least ten positions, or all the file has.
LEMMA ChockedSize ==
  ASSUME NEW f \in Files
  PROVE  /\ Pieces(f) \in Nat /\ BlockSize(f) \in Nat \ {0}
         /\ Chocked[f] \in Nat
         /\ Chocked[f] >= 10 \/ Chocked[f] = Pieces(f)
  <1> USE LayoutAssumption
  <1>1. Pieces(f) \in Nat /\ BlockSize(f) \in Nat \ {0}
    BY DEF Pieces, BlockSize
  <1>2. MaxPartial \div BlockSize(f) \in Int
    BY <1>1
  <1>3. DownloadOffset(f) \in Nat /\ (DownloadOffset(f) >= 10 \/ DownloadOffset(f) = Pieces(f))
    BY <1>1, <1>2 DEF DownloadOffset
  <1> QED  BY <1>1, <1>3 DEF Chocked

\* A piece of the torrent belongs to the file it is counted for.
LEMMA FileOfPiece ==
  ASSUME NEW p \in AllPieces
  PROVE  /\ FileOf(p) \in Files /\ p \in PieceRange(FileOf(p))
         /\ \A g \in Files : p \in PieceRange(g) => FileOf(p) <= g
  <1> DEFINE H == {f \in Files : p \in PieceRange(f)}
  <1>1. H # {} /\ H \subseteq Nat
    BY LayoutAssumption DEF AllPieces, Files
  <1>2. PICK f \in H : \A g \in H : ~ (<<g, f>> \in OpToRel(<, Nat))
    BY <1>1, NatLessThanWellFounded, WFMin
  <1>3. \A g \in H : f <= g
    <2> SUFFICES ASSUME NEW g \in H, g < f PROVE FALSE
      BY <1>1
    <2>1. <<g, f>> \in OpToRel(<, Nat)
      BY <1>1 DEF OpToRel
    <2> QED  BY <2>1, <1>2
  <1> QED  BY <1>2, <1>3 DEF FileOf

-----------------------------------------------------------------------------
\* Nothing is downloaded and nothing counted at first.
LEMMA InitInv == Init => Inv
  <1> SUFFICES ASSUME Init PROVE Inv
    OBVIOUS
  <1> USE DEF Init, infoVars
  <1>1. TypeOK
    <2>1. Chocked \in [Files -> Nat]
      BY ChockedSize DEF Chocked
    <2>2. OffRecheck \in Int
      BY DEF OffRecheck
    <2> QED  BY <2>1, <2>2 DEF TypeOK
  <1>2. NeverPastEnd /\ AlertsMatch
    BY DEF NeverPastEnd, AlertsMatch, Waiting
  <1>3. ASSUME NEW f \in Files PROVE Counters(f)
    <2>1. ~Done(f)
      BY LayoutAssumption DEF Done, PieceRange
    <2>2. Pieces(f) \in Nat /\ Chocked[f] \in Nat /\ Bytes[f] \in Nat
      BY ChockedSize, LayoutAssumption
    <2> QED  BY <2>1, <2>2 DEF Counters
  <1> QED  BY <1>1, <1>2, <1>3 DEF Inv, CountersFit

\* A verified piece belongs to no file whose completion was handled, and it
\* completes no file without an alert.
LEMMA VerifyInv == Inv /\ PieceVerified => Inv'
  <1> SUFFICES ASSUME Inv, NEW p \in AllPieces, Verify(p) PROVE Inv'
    BY DEF PieceVerified
  <1> USE DEF Verify, infoVars
  <1>1. TypeOK' /\ NeverPastEnd'
    BY DEF Inv, TypeOK, NeverPastEnd, PieceAlerts, FileAlerts
  <1>2. AlertsMatch'
    BY DEF Inv, AlertsMatch, Waiting
  <1>3. ASSUME NEW f \in Files PROVE Counters(f)'
    <2>1. Counters(f) /\ total[f] \in Nat
      BY DEF Inv, CountersFit, TypeOK
    <2>2. CASE Done(f)
      <3>1. Done(f)'
        BY <2>2 DEF Done
      <3>2. p \notin PieceRange(f)
        BY <2>2 DEF Done
      <3>3. \A q \in AllPieces : Waiting(q)' => FileOf(q) # f
        BY <3>2, FileOfPiece DEF Waiting
      <3> QED  BY <2>1, <2>2, <3>1, <3>3 DEF Counters
    <2>3. CASE ~Done(f)
      <3>1. ~Done(f)'
        BY <2>3 DEF Done
      <3> QED  BY <2>1, <2>3, <3>1 DEF Counters
    <2> QED  BY <2>2, <2>3
  <1> QED  BY <1>1, <1>2, <1>3 DEF Inv, CountersFit

\* The reset at the completion leaves at most one piece to be counted.
LEMMA CompleteInv ==
  ASSUME NEW f \in Files, Inv, OnFileComplete(f)
  PROVE  Inv' /\ \A g \in Files : published'[g] >= published[g]
  <1> USE DEF OnFileComplete, Reinit
  <1>1. TypeOK'
    <2>1. OffRecheck \in Int /\ Bytes[f] \in Nat
      BY LayoutAssumption DEF OffRecheck
    <2> QED  BY <2>1 DEF Inv, TypeOK
  <1>2. NeverPastEnd' /\ AlertsMatch'
    BY DEF Inv, NeverPastEnd, AlertsMatch, Waiting
  <1>3. Counters(f)'
    <2>1. Done(f)'
      BY DEF Inv, AlertsMatch, Done
    <2>2. total'[f] = 0 /\ count'[f] = 0 /\ recheck'[f] = OffRecheck
      BY DEF Inv, TypeOK
    <2>3. Pieces(f) \in Nat
      BY ChockedSize
    <2> QED  BY <2>1, <2>2, <2>3 DEF Counters
  <1>4. ASSUME NEW g \in Files, g # f PROVE Counters(g)'
    <2>1. Done(g)' <=> Done(g)
      BY <1>4 DEF Done
    <2>2. \A q \in AllPieces : Waiting(q)' <=> Waiting(q)
      BY DEF Waiting
    <2> QED  BY <1>4, <2>1, <2>2 DEF Inv, CountersFit, Counters, TypeOK
  <1>5. ASSUME NEW g \in Files PROVE published'[g] >= published[g]
    <2>1. ~Done(f)
      BY DEF Done
    <2>2. published[f] <= Bytes[f] /\ published[g] \in Nat /\ Bytes[f] \in Nat
      <3>1. published[f] = IF avaliable[f] > Bytes[f] THEN Bytes[f] ELSE avaliable[f]
        BY <2>1 DEF Inv, CountersFit, Counters
      <3>2. Bytes[f] \in Nat /\ avaliable[f] \in Nat /\ published[g] \in Nat
        BY LayoutAssumption DEF Inv, TypeOK
      <3> QED  BY <3>1, <3>2
    <2> QED  BY <2>2 DEF Inv, TypeOK
  <1> QED  BY <1>1, <1>2, <1>3, <1>4, <1>5 DEF Inv, CountersFit

\* Counting a piece: before the completion the range under scan ends before the
\* count, hence before the vector; after it no scan is due.
LEMMA CountInv ==
  ASSUME NEW p \in AllPieces, Inv, Waiting(p),
         due' = due \ {[type |-> "piece", of |-> p]}, UNCHANGED <<have, inOrder>>,
         Update(FileOf(p), p)
  PROVE  Inv' /\ \A g \in Files : published'[g] >= published[g]
  <1> DEFINE f == FileOf(p)
             capped == total[f] + 1 > Pieces(f)
             n == IF capped THEN Pieces(f) ELSE total[f] + 1
             c == IF capped THEN count[f] ELSE count[f] + 1
             r == IF capped \/ recheck[f] = OffRecheck THEN recheck[f] ELSE recheck[f] + 1
  <1>1. f \in Files
    BY FileOfPiece
  <1>2. /\ Pieces(f) \in Nat /\ Chocked[f] \in Nat /\ BlockSize(f) \in Nat
        /\ Chocked[f] >= 10 \/ Chocked[f] = Pieces(f)
        /\ Bytes[f] \in Nat
    BY <1>1, ChockedSize, LayoutAssumption
  <1>3. /\ total[f] \in Nat /\ count[f] \in Nat /\ recheck[f] \in Int
        /\ lastPos[f] \in Nat /\ endPos[f] \in Nat
        /\ avaliable[f] \in Nat /\ published[f] \in Nat
    BY <1>1 DEF Inv, TypeOK
  <1>4. Counters(f)
    BY <1>1 DEF Inv, CountersFit
  <1>5. /\ n \in Nat /\ n <= Pieces(f) /\ n <= total[f] + 1
        /\ c \in Nat /\ c <= n
    BY <1>2, <1>3, <1>4 DEF Counters
  <1>6. r \in Int /\ (r = OffRecheck \/ (r >= 0 /\ c >= Chocked[f]))
    BY <1>2, <1>3, <1>4 DEF Counters, OffRecheck
  <1>7. ASSUME Done(f) PROVE n <= 1 /\ ~Due(f, n, c, r)
    <2>1. total[f] = 0
      BY <1>4, <1>7 DEF Counters
    <2>2. n <= 1
      BY <2>1, <1>5
    <2>3. ASSUME Due(f, n, c, r) PROVE FALSE
      <3>1. n < Pieces(f) /\ c >= Chocked[f]
        BY <2>3, <1>2, <1>5, <1>6 DEF Due, OffRecheck, RecheckLimit
      <3> HIDE DEF n, c, r
      <3> QED  BY <2>2, <3>1, <1>2, <1>5
    <2> QED  BY <2>2, <2>3
  <1>8. ASSUME ~Done(f) PROVE endPos[f] - Chocked[f] + c <= n
    BY <1>2, <1>3, <1>4, <1>8 DEF Counters
  <1>9. ASSUME Due(f, n, c, r) PROVE ~Done(f) /\ c >= Chocked[f] /\ endPos[f] <= n /\ n < Pieces(f)
    <2>1. ~Done(f)
      BY <1>7, <1>9
    <2>2. c >= Chocked[f] /\ n < Pieces(f)
      BY <1>9, <1>2, <1>5, <1>6 DEF Due, OffRecheck, RecheckLimit
    <2>3. endPos[f] - Chocked[f] + c <= n
      BY <2>1, <1>8
    <2> HIDE DEF n, c, r
    <2> QED  BY <2>1, <2>2, <2>3, <1>2, <1>3, <1>5
  <1>10. /\ avPieces' = [avPieces EXCEPT ![f] = avPieces[f] \cup {p}]
         /\ total' = [total EXCEPT ![f] = n]
    BY DEF Update
  <1>11. /\ avPieces' \in [Files -> SUBSET AllPieces] /\ total' \in [Files -> Nat]
         /\ have' \in SUBSET AllPieces /\ due' \in SUBSET (PieceAlerts \cup FileAlerts)
         /\ AlertsMatch'
    <2>1. avPieces' \in [Files -> SUBSET AllPieces] /\ total' \in [Files -> Nat]
      BY <1>1, <1>5, <1>10 DEF Inv, TypeOK
    <2> QED  BY <2>1 DEF Inv, TypeOK, AlertsMatch, Waiting
  <1>12. \A g \in Files : /\ Done(g)' <=> Done(g)
                          /\ \A q \in AllPieces : ~Waiting(q)'
    BY DEF Done, Inv, AlertsMatch, Waiting
  <1>13. CASE ~Due(f, n, c, r)
    <2>1. /\ count' = [count EXCEPT ![f] = c] /\ recheck' = [recheck EXCEPT ![f] = r]
          /\ UNCHANGED <<lastPos, endPos, avaliable, published, threw>>
      BY <1>13 DEF Update
    <2> HIDE DEF n, c, r
    <2>2. TypeOK' /\ NeverPastEnd'
      BY <1>1, <1>5, <1>6, <1>11, <2>1 DEF Inv, TypeOK, NeverPastEnd
    <2>3. Counters(f)'
      BY <1>1, <1>2, <1>3, <1>4, <1>5, <1>6, <1>7, <1>8, <1>10, <1>12, <2>1
      DEF Counters, Inv, TypeOK
    <2>4. ASSUME NEW g \in Files, g # f PROVE Counters(g)'
      BY <1>10, <1>12, <2>1, <2>4 DEF Counters, Inv, CountersFit, TypeOK
    <2>5. \A g \in Files : published'[g] >= published[g]
      BY <2>1 DEF Inv, TypeOK
    <2> QED  BY <1>11, <2>2, <2>3, <2>4, <2>5 DEF Inv, CountersFit
  <1>14. CASE Due(f, n, c, r)
    <2>1. PICK found \in {Scan(avPieces[f] \cup {p}, lastPos[f], endPos[f], r # OffRecheck)} :
             Recount(f, c, r, found)
      BY <1>14 DEF Update
    <2> DEFINE last == LastOf(found, lastPos[f])
               full == RangeComplete(last, endPos[f])
               b == NextPos(f, last) * BlockSize(f)
    <2>2. ~PastEnd(f, found)
      BY <1>2, <1>3, <1>5, <1>9, <1>14 DEF PastEnd
    <2>3. /\ NextRange(f, last, c, r)
          /\ lastPos' = [lastPos EXCEPT ![f] = NextPos(f, last)]
          /\ Publish(f, b)
          /\ UNCHANGED threw
      BY <2>1, <2>2 DEF Recount
    <2>4. found \in SUBSET (lastPos[f] .. endPos[f] - 1)
      BY <2>1 DEF Scan
    <2>5. last \in Nat
      <3>1. lastPos[f] \in Nat /\ endPos[f] \in Int
        BY <1>3
      <3> QED  BY ONLY <3>1, <2>4, LastOfInside, Zenon
    <2>6. NextPos(f, last) \in Nat
      BY <1>3, <2>5 DEF NextPos
    <2>7. b \in Nat
      BY <1>2, <2>6
    <2> HIDE DEF n, c, r, last, b
    <2>8. /\ endPos' = [endPos EXCEPT ![f] = IF full THEN endPos[f] + Chocked[f] ELSE endPos[f]]
          /\ count' = [count EXCEPT ![f] = IF full THEN 0 ELSE c]
          /\ recheck' = [recheck EXCEPT ![f] = IF full THEN OffRecheck ELSE r + 1]
      BY <2>3 DEF NextRange
    <2> HIDE DEF full
    <2>9. /\ ~Done(f) /\ c >= Chocked[f] /\ endPos[f] <= n /\ n < Pieces(f)
          /\ endPos[f] - Chocked[f] + c <= n
      BY <1>8, <1>9, <1>14
    <2>10. /\ endPos'[f] \in Nat /\ count'[f] \in Nat /\ recheck'[f] \in Int
           /\ count'[f] <= n
           /\ endPos'[f] - Chocked[f] + count'[f] <= n
           /\ recheck'[f] = OffRecheck \/ (recheck'[f] >= 0 /\ count'[f] >= Chocked[f])
      <3>0. OffRecheck = -1
        BY DEF OffRecheck
      <3>1. /\ endPos'[f] = IF full THEN endPos[f] + Chocked[f] ELSE endPos[f]
            /\ count'[f] = IF full THEN 0 ELSE c
            /\ recheck'[f] = IF full THEN OffRecheck ELSE r + 1
        BY <1>1, <2>8 DEF Inv, TypeOK
      <3>2. CASE full
        BY <3>0, <3>1, <3>2, <1>2, <1>3, <1>5, <2>9
      <3>3. CASE ~full
        BY <3>0, <3>1, <3>3, <1>2, <1>3, <1>5, <1>6, <2>9
      <3> QED  BY <3>2, <3>3
    <2>11. /\ avaliable' \in [Files -> Nat] /\ published' \in [Files -> Nat]
           /\ published'[f] = IF avaliable'[f] > Bytes[f] THEN Bytes[f] ELSE avaliable'[f]
           /\ \A g \in Files : published'[g] >= published[g]
           /\ \A g \in Files \ {f} : /\ published'[g] = published[g]
                                     /\ avaliable'[g] = avaliable[g]
      <3>1. published[f] = IF avaliable[f] > Bytes[f] THEN Bytes[f] ELSE avaliable[f]
        BY <1>4, <2>9 DEF Counters
      <3>2. CASE avaliable[f] < b
        BY <3>1, <3>2, <1>1, <1>2, <1>3, <2>3, <2>7 DEF Publish, Inv, TypeOK
      <3>3. CASE ~(avaliable[f] < b)
        BY <3>1, <3>3, <2>3 DEF Publish, Inv, TypeOK
      <3> QED  BY <3>2, <3>3
    <2>12. TypeOK' /\ NeverPastEnd'
      <3>1. /\ endPos' \in [Files -> Nat] /\ count' \in [Files -> Nat]
            /\ recheck' \in [Files -> Int]
        BY <1>1, <2>8, <2>10 DEF Inv, TypeOK
      <3>2. lastPos' \in [Files -> Nat]
        BY <1>1, <2>3, <2>6 DEF Inv, TypeOK
      <3> QED  BY <1>11, <2>3, <2>11, <3>1, <3>2 DEF Inv, TypeOK, NeverPastEnd
    <2>13. Counters(f)'
      <3>1. total'[f] = n
        BY <1>1, <1>10 DEF Inv, TypeOK
      <3> QED  BY <3>1, <1>5, <1>12, <2>9, <2>10, <2>11, <1>1 DEF Counters
    <2>14. ASSUME NEW g \in Files, g # f PROVE Counters(g)'
      <3>1. /\ total'[g] = total[g] /\ count'[g] = count[g] /\ recheck'[g] = recheck[g]
            /\ endPos'[g] = endPos[g] /\ avaliable'[g] = avaliable[g]
            /\ published'[g] = published[g]
        BY <1>10, <2>8, <2>11, <2>14 DEF Inv, TypeOK
      <3>2. Counters(g)
        BY DEF Inv, CountersFit
      <3> QED  BY <3>1, <3>2, <1>12 DEF Counters
    <2> QED  BY <1>11, <2>11, <2>12, <2>13, <2>14 DEF Inv, CountersFit
  <1> QED  BY <1>13, <1>14

\* No step breaks the invariant, and none announces less than before.
LEMMA StepInv ==
  Inv /\ [Next]_vars => Inv' /\ \A f \in Files : published'[f] >= published[f]
  <1> SUFFICES ASSUME Inv, [Next]_vars
               PROVE  Inv' /\ \A f \in Files : published'[f] >= published[f]
    OBVIOUS
  <1>0. \A f \in Files : published[f] \in Nat
    BY DEF Inv, TypeOK
  <1>1. CASE PieceVerified
    BY <1>0, <1>1, VerifyInv DEF PieceVerified, Verify
  <1>2. CASE OnPieceFinished
    <2>1. PICK p \in AllPieces : /\ Waiting(p) /\ due' = due \ {[type |-> "piece", of |-> p]}
                                 /\ Update(FileOf(p), p) /\ UNCHANGED <<have, inOrder>>
      BY <1>2 DEF OnPieceFinished, Waiting
    <2> QED  BY <2>1, CountInv
  <1>3. CASE \E f \in Files : OnFileComplete(f)
    BY <1>3, CompleteInv
  <1>4. CASE UNCHANGED vars
    <2>1. Inv'
      BY <1>4 DEF vars, infoVars, Inv, TypeOK, NeverPastEnd, AlertsMatch, Waiting,
         CountersFit, Counters, Done
    <2> QED  BY <1>0, <1>4, <2>1 DEF vars
  <1> QED  BY <1>1, <1>2, <1>3, <1>4 DEF Next, Handler

-----------------------------------------------------------------------------
\* Every reachable state satisfies the inductive invariant.
THEOREM InvHolds == Spec => []Inv
  BY InitInv, StepInv, PTL DEF Spec

\* The counters and positions keep their types.
THEOREM TypeCorrect == Spec => []TypeOK
  <1>1. Inv => TypeOK
    BY DEF Inv
  <1> QED  BY <1>1, InvHolds, PTL

\* For every layout of files, piece length and partial download size, the scan
\* of av_pieces stays inside the vector.
THEOREM ScanStaysInside == Spec => []NeverPastEnd
  <1>1. Inv => NeverPastEnd
    BY DEF Inv
  <1> QED  BY <1>1, InvHolds, PTL

\* For every layout and every order of pieces the announcements of a file grow.
THEOREM AnnouncementsGrow == Spec => PublishedGrows
  <1>1. Inv /\ [Next]_vars => [\A f \in Files : published'[f] >= published[f]]_vars
    BY StepInv
  <1> QED  BY <1>1, InvHolds, PTL DEF Spec, PublishedGrows

-----------------------------------------------------------------------------
(* The count is true: what the pieces that are there have to do with it     *)

\* A nonempty set of numbers without a hole is an interval.
LEMMA Segment ==
  ASSUME NEW S \in SUBSET Nat, NEW b \in Nat, S # {}, \A x \in S : x <= b,
         \A x, y \in S, z \in Nat : x <= z /\ z <= y => z \in S
  PROVE  \E a \in S : S = a .. (a + Cardinality(S) - 1)
  <1>1. PICK a \in S : \A x \in S : ~ (<<x, a>> \in OpToRel(<, Nat))
    BY NatLessThanWellFounded, WFMin
  <1>2. \A x \in S : a <= x
    <2> SUFFICES ASSUME NEW x \in S, x < a PROVE FALSE
      OBVIOUS
    <2>1. <<x, a>> \in OpToRel(<, Nat)
      BY DEF OpToRel
    <2> QED  BY <2>1, <1>1
  <1>3. PICK m \in S : \A x \in S : x <= m
    <2>1. b \in Int /\ S \in SUBSET Int
      OBVIOUS
    <2> QED  BY <2>1, GreatestExists
  <1>4. S = a .. m /\ a \in Nat /\ m \in Nat /\ a <= m
    <2>1. a \in Nat /\ m \in Nat /\ a <= m
      BY <1>2
    <2>2. \A x \in S : x \in a .. m
      BY <1>2, <1>3, <2>1
    <2>3. \A z \in a .. m : z \in Nat /\ a <= z /\ z <= m
      BY <2>1
    <2>4. \A z \in a .. m : z \in S
      BY <2>3
    <2> QED  BY <2>1, <2>2, <2>4
  <1>5. Cardinality(S) = m - a + 1
    BY <1>4, FS_Interval
  <1> QED  BY <1>4, <1>5

\* Every position of an interval but the last is linked to the next.
LEMMA IntervalLinked ==
  ASSUME NEW a \in Nat, NEW n \in Nat
  PROVE  0 .. n - 2 \subseteq Links(a .. (a + n - 1))
  <1> SUFFICES ASSUME NEW i \in 0 .. n - 2 PROVE i \in Links(a .. (a + n - 1))
    OBVIOUS
  <1> DEFINE s == a .. (a + n - 1)
             x == a + i
  <1>1. x \in s /\ x + 1 \in s
    OBVIOUS
  <1>2. {y \in s : y < x} = a .. (x - 1)
    OBVIOUS
  <1>3. Cardinality(a .. (x - 1)) = i
    BY FS_Interval
  <1> QED  BY <1>1, <1>2, <1>3 DEF Links

\* A scan without a gap before it reaches the end of its range.
LEMMA ScanReaches ==
  ASSUME NEW s, NEW first \in Nat, NEW end \in Nat, first <= end, NEW n \in Nat, end < n,
         0 .. n - 2 \subseteq Links(s), NEW rechecking \in BOOLEAN
  PROVE  LastOf(Scan(s, first, end, rechecking), first) >= end - 1
  <1>1. first .. end - 1 \subseteq Links(s)
    <2>1. first .. end - 1 \subseteq 0 .. n - 2
      OBVIOUS
    <2> QED  BY <2>1
  <1>2. Scan(s, first, end, rechecking) = first .. end - 1
    <2> DEFINE linked == (first .. end - 1) \cap Links(s)
    <2>1. linked = first .. end - 1
      BY <1>1
    <2>2. \A i \in first .. end - 1 : first .. i \subseteq first .. end - 1
      OBVIOUS
    <2>3. {i \in linked : first .. i \subseteq linked} = linked
      BY <2>1, <2>2
    <2> HIDE DEF linked
    <2>4. Scan(s, first, end, rechecking) =
            IF rechecking THEN linked ELSE {i \in linked : first .. i \subseteq linked}
      BY DEF Scan, linked
    <2> QED  BY <2>1, <2>3, <2>4
  <1>3. CASE first = end
    BY <1>2, <1>3 DEF LastOf
  <1>4. CASE first # end
    <2>1. end - 1 \in first .. end - 1 /\ \A j \in first .. end - 1 : j <= end - 1
      BY <1>4
    <2> DEFINE found == first .. end - 1
    <2>2. found # {} /\ \E i \in found : \A j \in found : j <= i
      BY <2>1
    <2>3. \A j \in found : j <= LastOf(found, first)
      <3> HIDE DEF found
      <3> QED  BY <2>2 DEF LastOf
    <2>4. end - 1 <= LastOf(found, first)
      BY <2>1, <2>3
    <2>5. LastOf(found, first) \in Nat
      <3>1. end \in Int /\ found \in SUBSET (first .. end - 1)
        OBVIOUS
      <3> HIDE DEF found
      <3> QED  BY ONLY <3>1, first \in Nat, LastOfInside
    <2> HIDE DEF found
    <2> QED  BY <1>2, <2>4, <2>5 DEF found
  <1> QED  BY <1>3, <1>4

\* What the file has of its pieces.
Held(f) == Cardinality(have \cap PieceRange(f))

LEMMA HeldGrows ==
  ASSUME NEW f \in Files, NEW h, NEW p
  PROVE  /\ IsFiniteSet(h \cap PieceRange(f))
         /\ Cardinality(h \cap PieceRange(f)) \in Nat
         /\ Cardinality(h \cap PieceRange(f)) <= Cardinality((h \cup {p}) \cap PieceRange(f))
         /\ (p \in PieceRange(f) /\ p \notin h) =>
              Cardinality((h \cup {p}) \cap PieceRange(f)) = Cardinality(h \cap PieceRange(f)) + 1
  <1>1. IsFiniteSet(PieceRange(f))
    BY LayoutAssumption, FS_Interval DEF PieceRange
  <1> DEFINE held == h \cap PieceRange(f)
             more == (h \cup {p}) \cap PieceRange(f)
  <1>2. held \in SUBSET PieceRange(f) /\ more \in SUBSET PieceRange(f)
    OBVIOUS
  <1>3. IsFiniteSet(held) /\ IsFiniteSet(more)
    BY <1>1, <1>2, FS_Subset
  <1>4. held \in SUBSET more
    OBVIOUS
  <1>5. Cardinality(held) <= Cardinality(more)
    BY <1>3, <1>4, FS_Subset
  <1>6. ASSUME p \in PieceRange(f), p \notin h
        PROVE  Cardinality(more) = Cardinality(held) + 1
    <2>1. more = held \cup {p} /\ p \notin held
      BY <1>6
    <2> QED  BY <1>3, <2>1, FS_AddElement
  <1> QED  BY <1>3, <1>5, <1>6, FS_CardinalityType

\* What counting a piece does to the record of its file: nothing is computed anew, or
\* the range under scan is behind the count and the scan goes on from where it was.
Recounted(f, p) ==
  \E found, last, rechecking :
    /\ rechecking \in BOOLEAN
    /\ ~Done(f) /\ total'[f] = total[f] + 1 /\ endPos[f] <= total'[f]
    /\ count[f] + 1 >= Chocked[f]
    /\ found = Scan(avPieces[f] \cup {p}, lastPos[f], endPos[f], rechecking)
    /\ last = LastOf(found, lastPos[f]) /\ last \in Nat /\ last >= lastPos[f]
    /\ lastPos'[f] = NextPos(f, last)
    /\ RangeComplete(last, endPos[f]) => endPos'[f] = endPos[f] + Chocked[f] /\ count'[f] = 0
    /\ ~RangeComplete(last, endPos[f]) => endPos'[f] = endPos[f] /\ count'[f] = count[f] + 1
    /\ avaliable'[f] \in {avaliable[f], NextPos(f, last) * BlockSize(f)}
    /\ avaliable'[f] >= NextPos(f, last) * BlockSize(f) /\ avaliable'[f] >= avaliable[f]

OnlyCounted(f) ==
  /\ UNCHANGED <<lastPos, endPos, avaliable>>
  /\ total'[f] < Pieces(f) =>
       total'[f] = total[f] + 1 /\ count'[f] = count[f] + 1 /\ count'[f] < Chocked[f]

LEMMA UpdateCases ==
  ASSUME NEW p \in AllPieces, Inv, Waiting(p), NEW f, f = FileOf(p), Update(f, p)
  PROVE  /\ f \in Files /\ total'[f] \in Nat /\ total'[f] <= total[f] + 1
         /\ avPieces'[f] = avPieces[f] \cup {p}
         /\ \A g \in Files \ {f} :
              /\ avPieces'[g] = avPieces[g] /\ total'[g] = total[g] /\ count'[g] = count[g]
              /\ lastPos'[g] = lastPos[g] /\ endPos'[g] = endPos[g]
              /\ avaliable'[g] = avaliable[g]
         /\ OnlyCounted(f) \/ Recounted(f, p)
  <1> DEFINE capped == total[f] + 1 > Pieces(f)
             n == IF capped THEN Pieces(f) ELSE total[f] + 1
             c == IF capped THEN count[f] ELSE count[f] + 1
             r == IF capped \/ recheck[f] = OffRecheck THEN recheck[f] ELSE recheck[f] + 1
  <1>1. f \in Files
    BY FileOfPiece
  <1>2. /\ Pieces(f) \in Nat /\ Chocked[f] \in Nat /\ BlockSize(f) \in Nat
        /\ Chocked[f] >= 10 \/ Chocked[f] = Pieces(f)
    BY <1>1, ChockedSize
  <1>3. /\ total[f] \in Nat /\ count[f] \in Nat /\ recheck[f] \in Int
        /\ lastPos[f] \in Nat /\ endPos[f] \in Nat /\ avaliable[f] \in Nat
    BY <1>1 DEF Inv, TypeOK
  <1>4. Counters(f)
    BY <1>1 DEF Inv, CountersFit
  <1>5. /\ n \in Nat /\ n <= Pieces(f) /\ n <= total[f] + 1
        /\ c \in Nat /\ c <= n
        /\ n < Pieces(f) => n = total[f] + 1 /\ c = count[f] + 1
    BY <1>2, <1>3, <1>4 DEF Counters
  <1>6. r \in Int /\ (r = OffRecheck \/ (r >= 0 /\ c >= Chocked[f]))
    BY <1>2, <1>3, <1>4 DEF Counters, OffRecheck
  <1>7. total' = [total EXCEPT ![f] = n] /\ avPieces' = [avPieces EXCEPT ![f] = avPieces[f] \cup {p}]
    BY DEF Update
  <1>8. /\ total'[f] = n /\ avPieces'[f] = avPieces[f] \cup {p}
        /\ \A g \in Files \ {f} : total'[g] = total[g] /\ avPieces'[g] = avPieces[g]
    BY <1>1, <1>5, <1>7 DEF Inv, TypeOK
  <1>9. CASE ~Due(f, n, c, r)
    <2>1. count' = [count EXCEPT ![f] = c] /\ UNCHANGED <<lastPos, endPos, avaliable>>
      BY <1>9 DEF Update
    <2>2. n < Pieces(f) => c < Chocked[f]
      BY <1>2, <1>5, <1>9 DEF Due
    <2> HIDE DEF n, c, r
    <2>3. count'[f] = c /\ \A g \in Files \ {f} : count'[g] = count[g]
      BY <1>1, <2>1 DEF Inv, TypeOK
    <2>4. OnlyCounted(f)
      BY <1>5, <1>8, <2>1, <2>2, <2>3 DEF OnlyCounted
    <2> QED  BY <1>1, <1>5, <1>8, <2>1, <2>3, <2>4
  <1>10. CASE Due(f, n, c, r)
    <2>1. n < Pieces(f) /\ c >= Chocked[f]
      BY <1>2, <1>5, <1>6, <1>10 DEF Due, OffRecheck, RecheckLimit
    <2>2. ~Done(f)
      <3>1. ASSUME Done(f) PROVE FALSE
        <4>1. total[f] = 0
          BY <1>4, <3>1 DEF Counters
        <4> HIDE DEF n, c, r
        <4> QED  BY <4>1, <2>1, <1>2, <1>5
      <3> QED  BY <3>1
    <2>3. endPos[f] <= n
      <3>1. endPos[f] - Chocked[f] + count[f] <= total[f]
        BY <1>4, <2>2 DEF Counters
      <3> HIDE DEF n, c, r
      <3> QED  BY <3>1, <2>1, <1>2, <1>3, <1>5
    <2> DEFINE found == Scan(avPieces[f] \cup {p}, lastPos[f], endPos[f], r # OffRecheck)
               last == LastOf(found, lastPos[f])
               b == NextPos(f, last) * BlockSize(f)
    <2>4. Recount(f, c, r, found)
      BY <1>10 DEF Update
    <2>5. ~PastEnd(f, found)
      <3> HIDE DEF n, c, r, found
      <3> QED  BY <1>2, <1>3, <2>1, <2>3, <1>5 DEF PastEnd
    <2>6. /\ NextRange(f, last, c, r) /\ Publish(f, b)
          /\ lastPos' = [lastPos EXCEPT ![f] = NextPos(f, last)]
      BY <2>4, <2>5 DEF Recount
    <2>7. last \in Nat /\ last >= lastPos[f]
      <3>1. found \in SUBSET (lastPos[f] .. endPos[f] - 1)
        BY DEF Scan
      <3>2. lastPos[f] \in Nat /\ endPos[f] \in Int
        BY <1>3
      <3> HIDE DEF found
      <3> QED  BY ONLY <3>1, <3>2, LastOfInside, Zenon
    <2>8. found = Scan(avPieces[f] \cup {p}, lastPos[f], endPos[f], r # OffRecheck)
          /\ last = LastOf(found, lastPos[f])
      OBVIOUS
    <2> HIDE DEF n, c, r, found, last
    <2>9. NextPos(f, last) \in Nat /\ b \in Nat
      BY <1>2, <1>3, <2>7 DEF NextPos
    <2> DEFINE full == RangeComplete(last, endPos[f])
    <2>10. /\ endPos' = [endPos EXCEPT ![f] = IF full THEN endPos[f] + Chocked[f] ELSE endPos[f]]
           /\ count' = [count EXCEPT ![f] = IF full THEN 0 ELSE c]
      BY <2>6 DEF NextRange
    <2> HIDE DEF full, b
    <2>11. /\ endPos'[f] = IF full THEN endPos[f] + Chocked[f] ELSE endPos[f]
           /\ count'[f] = IF full THEN 0 ELSE c
           /\ lastPos'[f] = NextPos(f, last)
           /\ \A g \in Files \ {f} : /\ endPos'[g] = endPos[g] /\ count'[g] = count[g]
                                      /\ lastPos'[g] = lastPos[g]
      BY <1>1, <2>6, <2>10 DEF Inv, TypeOK
    <2>12. /\ avaliable'[f] \in {avaliable[f], b} /\ avaliable'[f] >= b
           /\ avaliable'[f] >= avaliable[f]
           /\ \A g \in Files \ {f} : avaliable'[g] = avaliable[g]
      BY <1>1, <1>3, <2>6, <2>9 DEF Publish, Inv, TypeOK
    <2>13. Recounted(f, p)
      <3> DEFINE rechecking == (r # OffRecheck)
      <3>1. rechecking \in BOOLEAN /\ found = Scan(avPieces[f] \cup {p}, lastPos[f], endPos[f], rechecking)
        BY <2>8
      <3> HIDE DEF rechecking
      <3>2. n = total[f] + 1 /\ c = count[f] + 1
        BY <1>5, <2>1
      <3>3. total'[f] = total[f] + 1 /\ endPos[f] <= total'[f] /\ count[f] + 1 >= Chocked[f]
        BY <1>8, <2>1, <2>3, <3>2
      <3>4. /\ full => endPos'[f] = endPos[f] + Chocked[f] /\ count'[f] = 0
            /\ ~full => endPos'[f] = endPos[f] /\ count'[f] = count[f] + 1
        BY <2>11, <3>2
      <3>5. /\ RangeComplete(last, endPos[f]) => endPos'[f] = endPos[f] + Chocked[f] /\ count'[f] = 0
            /\ ~RangeComplete(last, endPos[f]) => endPos'[f] = endPos[f] /\ count'[f] = count[f] + 1
        BY <3>4 DEF full
      <3>6. /\ avaliable'[f] \in {avaliable[f], NextPos(f, last) * BlockSize(f)}
            /\ avaliable'[f] >= NextPos(f, last) * BlockSize(f) /\ avaliable'[f] >= avaliable[f]
        BY <2>12 DEF b
      <3>7. last = LastOf(found, lastPos[f]) /\ lastPos'[f] = NextPos(f, last)
        BY <2>8, <2>11
      <3> QED
        BY ONLY <2>2, <2>7, <3>1, <3>3, <3>5, <3>6, <3>7, Zenon DEF Recounted
    <2> QED  BY <1>1, <1>5, <1>8, <2>11, <2>12, <2>13
  <1> QED  BY <1>9, <1>10

-----------------------------------------------------------------------------
(* Never more than the volume of what is there                              *)

\* A piece of the file has been verified and not been counted yet.
Uncounted(f) == \E p \in AllPieces : Waiting(p) /\ FileOf(p) = f

Volume(f) ==
  /\ ~Done(f) => total[f] <= Held(f)
  /\ (~Done(f) /\ Uncounted(f)) => total[f] + 1 <= Held(f)
  /\ avaliable[f] <= Held(f) * BlockSize(f)

VolumeInv == \A f \in Files : Volume(f)

LEMMA TimesGrows ==
  ASSUME NEW a \in Int, NEW b \in Int, NEW k \in Nat, a <= b
  PROVE  a * k <= b * k
  <1> DEFINE d == b - a
  <1>1. d \in Nat /\ b = a + d
    OBVIOUS
  <1> HIDE DEF d
  <1>2. b * k = a * k + d * k /\ a * k \in Int /\ d * k \in Nat
    BY <1>1
  <1> QED  BY <1>2

LEMMA VolumeInit == Init => VolumeInv
  <1> SUFFICES ASSUME Init, NEW f \in Files PROVE Volume(f)
    BY DEF VolumeInv
  <1>1. total[f] = 0 /\ avaliable[f] = 0 /\ ~Uncounted(f)
    BY DEF Init, Uncounted, Waiting
  <1>2. Held(f) \in Nat /\ BlockSize(f) \in Nat
    BY HeldGrows, ChockedSize DEF Held
  <1>3. 0 <= Held(f) * BlockSize(f)
    BY <1>2
  <1> QED  BY <1>1, <1>2, <1>3 DEF Volume

\* A verified piece adds to what is there and waits to be counted for one file.
LEMMA VolumeVerify ==
  ASSUME Inv, VolumeInv, NEW p \in AllPieces, Verify(p)
  PROVE  VolumeInv'
  <1> SUFFICES ASSUME NEW f \in Files PROVE Volume(f)'
    BY DEF VolumeInv
  <1>1. Volume(f) /\ total[f] \in Nat /\ avaliable[f] \in Nat
    BY DEF VolumeInv, Inv, TypeOK
  <1>2. /\ have' = have \cup {p} /\ p \notin have /\ due = {}
        /\ UNCHANGED <<total, avaliable>>
    BY DEF Verify, infoVars
  <1>3. /\ Held(f) \in Nat /\ Held(f)' \in Nat /\ Held(f) <= Held(f)'
        /\ p \in PieceRange(f) => Held(f)' = Held(f) + 1
    BY <1>2, HeldGrows DEF Held
  <1>4. BlockSize(f) \in Nat /\ Held(f) * BlockSize(f) <= Held(f)' * BlockSize(f)
    BY <1>3, ChockedSize, TimesGrows
  <1>5. Done(f) => Done(f)'
    BY DEF Done, Verify
  <1>6. Uncounted(f)' => p \in PieceRange(f)
    <2>1. \A q \in AllPieces : Waiting(q)' => q = p
      BY DEF Waiting, Verify
    <2> QED  BY <2>1, FileOfPiece DEF Uncounted
  <1>7. /\ ~Done(f)' => total'[f] <= Held(f)'
        /\ (~Done(f)' /\ Uncounted(f)') => total'[f] + 1 <= Held(f)'
    BY <1>1, <1>2, <1>3, <1>5, <1>6 DEF Volume
  <1>8. avaliable'[f] <= Held(f)' * BlockSize(f)
    <2> DEFINE a == Held(f) * BlockSize(f)
               b == Held(f)' * BlockSize(f)
    <2>1. a \in Nat /\ b \in Nat /\ a <= b /\ avaliable[f] <= a
      BY <1>1, <1>3, <1>4 DEF Volume
    <2> HIDE DEF a
    <2>2. avaliable[f] <= b
      BY <1>1, <2>1
    <2> QED  BY <1>2, <2>2
  <1> QED  BY <1>7, <1>8 DEF Volume

LEMMA VolumeComplete ==
  ASSUME Inv, VolumeInv, NEW g \in Files, OnFileComplete(g)
  PROVE  VolumeInv'
  <1> SUFFICES ASSUME NEW f \in Files PROVE Volume(f)'
    BY DEF VolumeInv
  <1>1. Volume(f)
    BY DEF VolumeInv
  <1>2. UNCHANGED <<have, avaliable>> /\ due' = due \ {[type |-> "file", of |-> g]}
    BY DEF OnFileComplete, Reinit
  <1>3. Held(f)' = Held(f)
    BY <1>2 DEF Held
  <1>4. Uncounted(f)' => Uncounted(f)
    BY <1>2 DEF Uncounted, Waiting
  <1>5. CASE f = g
    <2>1. Done(f)'
      BY <1>2, <1>5 DEF Inv, AlertsMatch, Done, OnFileComplete
    <2> QED  BY <1>1, <1>2, <1>3, <2>1 DEF Volume
  <1>6. CASE f # g
    <2>1. total'[f] = total[f] /\ (Done(f)' <=> Done(f))
      BY <1>2, <1>6 DEF OnFileComplete, Reinit, Inv, TypeOK, Done
    <2> QED  BY <1>1, <1>2, <1>3, <1>4, <2>1 DEF Volume
  <1> QED  BY <1>5, <1>6

\* The alert of a piece has been handled: no other is there to be counted.
LEMMA NoneWaits ==
  ASSUME Inv, NEW p \in AllPieces, Waiting(p), due' = due \ {[type |-> "piece", of |-> p]},
         UNCHANGED have
  PROVE  /\ \A q \in AllPieces : (Waiting(q) <=> q = p) /\ ~Waiting(q)'
         /\ \A f \in Files : Done(f)' <=> Done(f)
  BY DEF Inv, AlertsMatch, Waiting, Done

\* The bytes are computed from a position that is behind the count.
LEMMA VolumeCount ==
  ASSUME Inv, VolumeInv, NEW p \in AllPieces, Waiting(p),
         due' = due \ {[type |-> "piece", of |-> p]}, UNCHANGED have, Update(FileOf(p), p)
  PROVE  VolumeInv'
  <1> SUFFICES ASSUME NEW f \in Files PROVE Volume(f)'
    BY DEF VolumeInv
  <1>1. /\ Volume(f) /\ Held(f) \in Nat /\ Held(f)' = Held(f) /\ BlockSize(f) \in Nat
        /\ total[f] \in Nat /\ endPos[f] \in Nat
    BY HeldGrows, ChockedSize DEF VolumeInv, Held, Inv, TypeOK
  <1>2. (Done(f)' <=> Done(f)) /\ ~Uncounted(f)'
    BY NoneWaits DEF Uncounted
  <1>3. CASE f = FileOf(p)
    <2>1. /\ total'[f] \in Nat /\ total'[f] <= total[f] + 1
          /\ OnlyCounted(f) \/ Recounted(f, p)
      BY <1>3, UpdateCases
    <2>2. ~Done(f) => total'[f] <= Held(f)
      <3>1. ~Done(f) => total[f] + 1 <= Held(f)
        BY <1>1, <1>3 DEF Volume, Uncounted
      <3> QED  BY <1>1, <2>1, <3>1
    <2>3. avaliable'[f] <= Held(f) * BlockSize(f)
      <3>1. CASE OnlyCounted(f)
        BY <1>1, <3>1 DEF OnlyCounted, Volume
      <3>2. CASE Recounted(f, p)
        <4>1. PICK last \in Nat : /\ ~Done(f) /\ endPos[f] <= total'[f]
                 /\ avaliable'[f] \in {avaliable[f], NextPos(f, last) * BlockSize(f)}
          BY <3>2 DEF Recounted
        <4>2. NextPos(f, last) \in Nat /\ NextPos(f, last) <= endPos[f]
          BY <1>1 DEF NextPos, RangeComplete
        <4>3. NextPos(f, last) <= Held(f)
          BY <1>1, <2>1, <2>2, <4>1, <4>2
        <4>4. NextPos(f, last) * BlockSize(f) <= Held(f) * BlockSize(f)
          BY ONLY <1>1, <4>2, <4>3, TimesGrows
        <4> QED  BY <1>1, <4>1, <4>4 DEF Volume
      <3> QED  BY <2>1, <3>1, <3>2
    <2> QED  BY <1>1, <1>2, <2>2, <2>3 DEF Volume
  <1>4. CASE f # FileOf(p)
    <2>1. total'[f] = total[f] /\ avaliable'[f] = avaliable[f]
      BY <1>4, UpdateCases
    <2> QED  BY <1>1, <1>2, <2>1 DEF Volume
  <1> QED  BY <1>3, <1>4

LEMMA VolumeStep == Inv /\ VolumeInv /\ [Next]_vars => VolumeInv'
  <1> SUFFICES ASSUME Inv, VolumeInv, [Next]_vars PROVE VolumeInv'
    OBVIOUS
  <1>1. CASE PieceVerified
    BY <1>1, VolumeVerify DEF PieceVerified
  <1>2. CASE OnPieceFinished
    <2>1. PICK p \in AllPieces : /\ Waiting(p) /\ due' = due \ {[type |-> "piece", of |-> p]}
                                 /\ Update(FileOf(p), p) /\ UNCHANGED <<have, inOrder>>
      BY <1>2 DEF OnPieceFinished, Waiting
    <2> QED  BY <2>1, VolumeCount
  <1>3. CASE \E f \in Files : OnFileComplete(f)
    BY <1>3, VolumeComplete
  <1>4. CASE UNCHANGED vars
    BY <1>4 DEF vars, infoVars, VolumeInv, Volume, Held, Uncounted, Waiting, Done
  <1> QED  BY <1>1, <1>2, <1>3, <1>4 DEF Next, Handler

-----------------------------------------------------------------------------
(* Pieces that come in order: neither too much nor too little               *)

Taken(f) == {q \in have : FileOf(q) = f /\ ~Waiting(q)}

\* The record of a file keeps step with the pieces: the vector has no gap, the scan has
\* passed every full range, and the counters lag behind by one.
InStep(f) ==
  /\ avPieces[f] = Taken(f) /\ Cardinality(avPieces[f]) = total[f]
  /\ endPos[f] - Chocked[f] <= lastPos[f] /\ lastPos[f] <= endPos[f]
  /\ total[f] <= endPos[f] - Chocked[f] + count[f] + 1
  /\ count[f] <= Chocked[f] /\ (count[f] = Chocked[f] => total[f] = endPos[f])
  /\ avaliable[f] >= lastPos[f] * BlockSize(f)

NoGap == \A q \in have, z \in AllPieces : z < q => z \in have

OrderInv ==
  inOrder => NoGap /\ \A f \in Files : ~Done(f) /\ total[f] < Pieces(f) => InStep(f)

LEMMA OrderInit == Init => OrderInv
  <1> SUFFICES ASSUME Init PROVE OrderInv
    OBVIOUS
  <1>1. NoGap
    BY DEF Init, NoGap
  <1>2. ASSUME NEW f \in Files PROVE InStep(f)
    <2>1. /\ avPieces[f] = {} /\ Taken(f) = {} /\ total[f] = 0 /\ count[f] = 0
          /\ lastPos[f] = 0 /\ endPos[f] = Chocked[f] /\ avaliable[f] = 0
      BY DEF Init, Taken
    <2>2. Chocked[f] \in Nat /\ BlockSize(f) \in Nat
      BY ChockedSize
    <2>3. Cardinality({}) = 0
      BY FS_EmptySet
    <2> QED  BY <2>1, <2>2, <2>3 DEF InStep
  <1> QED  BY <1>1, <1>2 DEF OrderInv

LEMMA OrderVerify ==
  ASSUME Inv, OrderInv, NEW p \in AllPieces, Verify(p)
  PROVE  OrderInv'
  <1> SUFFICES ASSUME inOrder'
               PROVE  NoGap' /\ \A f \in Files :
                                  ~Done(f)' /\ total'[f] < Pieces(f) => InStep(f)'
    BY DEF OrderInv
  <1>1. /\ inOrder /\ Missing(p) = {} /\ have' = have \cup {p} /\ p \notin have /\ due = {}
        /\ UNCHANGED <<avPieces, total, count, lastPos, endPos, avaliable>>
    BY DEF Verify, infoVars
  <1>2. NoGap /\ \A f \in Files : ~Done(f) /\ total[f] < Pieces(f) => InStep(f)
    BY <1>1 DEF OrderInv
  <1>3. NoGap'
    BY <1>1, <1>2 DEF NoGap, Missing
  <1>4. ASSUME NEW f \in Files, ~Done(f)', total'[f] < Pieces(f) PROVE InStep(f)'
    <2>1. ~Done(f)
      BY <1>4 DEF Done, Verify
    <2>2. InStep(f)
      BY <1>1, <1>2, <1>4, <2>1
    <2>3. Taken(f)' = Taken(f)
      <3>1. Waiting(p)' /\ \A q \in have : ~Waiting(q) /\ ~Waiting(q)'
        BY <1>1 DEF Waiting, Verify
      <3> QED  BY <1>1, <3>1 DEF Taken
    <2> QED  BY <1>1, <2>2, <2>3 DEF InStep
  <1> QED  BY <1>3, <1>4

LEMMA OrderComplete ==
  ASSUME Inv, OrderInv, NEW g \in Files, OnFileComplete(g)
  PROVE  OrderInv'
  <1> SUFFICES ASSUME inOrder'
               PROVE  NoGap' /\ \A f \in Files :
                                  ~Done(f)' /\ total'[f] < Pieces(f) => InStep(f)'
    BY DEF OrderInv
  <1>1. /\ inOrder /\ UNCHANGED <<have, endPos, avaliable>>
        /\ due' = due \ {[type |-> "file", of |-> g]}
    BY DEF OnFileComplete, Reinit
  <1>2. NoGap /\ \A f \in Files : ~Done(f) /\ total[f] < Pieces(f) => InStep(f)
    BY <1>1 DEF OrderInv
  <1>3. NoGap'
    BY <1>1, <1>2 DEF NoGap
  <1>4. ASSUME NEW f \in Files, ~Done(f)', total'[f] < Pieces(f) PROVE InStep(f)'
    <2>1. f # g
      BY <1>1, <1>4 DEF Inv, AlertsMatch, Done, OnFileComplete
    <2>2. ~Done(f) /\ Taken(f)' = Taken(f)
      BY <1>1, <1>4, <2>1 DEF Done, Taken, Waiting
    <2>3. /\ avPieces'[f] = avPieces[f] /\ total'[f] = total[f] /\ count'[f] = count[f]
          /\ lastPos'[f] = lastPos[f]
      BY <2>1 DEF OnFileComplete, Reinit, Inv, TypeOK
    <2>4. InStep(f)
      BY <1>2, <1>4, <2>2, <2>3
    <2> QED  BY <1>1, <2>2, <2>3, <2>4 DEF InStep
  <1> QED  BY <1>3, <1>4

\* The pieces of a file that are there are an interval.
LEMMA TakenInterval ==
  ASSUME Inv, NoGap, NEW f \in Files, NEW S, S = {q \in have : FileOf(q) = f}, S # {}
  PROVE  \E a \in Nat : S = a .. (a + Cardinality(S) - 1)
  <1>1. have \subseteq AllPieces /\ AllPieces \subseteq Nat
    BY LayoutAssumption DEF Inv, TypeOK, AllPieces, PieceRange
  <1>2. S \in SUBSET Nat /\ Last[f] \in Nat /\ First[f] \in Nat
    BY <1>1, LayoutAssumption
  <1>3. ASSUME NEW x \in S PROVE First[f] <= x /\ x <= Last[f]
    BY <1>1, FileOfPiece DEF PieceRange
  <1>4. ASSUME NEW x \in S, NEW y \in S, NEW z \in Nat, x <= z, z <= y PROVE z \in S
    <2>1. CASE z = x
      BY <2>1
    <2>2. CASE z # x
      <3>1. First[f] < z /\ z <= Last[f]
        BY <1>2, <1>3, <1>4, <2>2
      <3>2. z \in PieceRange(f) /\ z \in AllPieces
        BY <1>2, <3>1 DEF PieceRange, AllPieces
      <3>3. z \in have
        <4>1. y \in have /\ y \in Nat /\ (z < y \/ z = y)
          BY <1>2, <1>4
        <4> QED  BY <3>2, <4>1 DEF NoGap
      <3> DEFINE g == FileOf(z)
      <3>4. g \in Files /\ z \in PieceRange(g) /\ g <= f
        BY <3>2, FileOfPiece
      <3> HIDE DEF g
      <3>5. g = f
        <4> SUFFICES ASSUME g < f PROVE FALSE
          BY <3>4 DEF Files
        <4>1. Last[g] <= First[f] /\ z <= Last[g] /\ Last[g] \in Nat
          BY <3>4, LayoutAssumption DEF PieceRange
        <4> QED  BY <1>2, <3>1, <4>1
      <3> QED  BY <3>3, <3>5 DEF g
    <2> QED  BY <2>1, <2>2
  <1>5. \A x \in S : x <= Last[f]
    BY <1>3
  <1>6. \A x, y \in S, z \in Nat : x <= z /\ z <= y => z \in S
    BY <1>4
  <1>7. \E a \in S : S = a .. (a + Cardinality(S) - 1)
    BY ONLY <1>2, <1>5, <1>6, S # {}, Segment
  <1> QED  BY <1>2, <1>7

\* A piece counted in order: a scan that is due reaches the end of its range, now or
\* with the next piece.
LEMMA StepKept ==
  ASSUME Inv, NoGap, NEW p \in AllPieces, Waiting(p), NEW f, f = FileOf(p),
         due' = due \ {[type |-> "piece", of |-> p]}, UNCHANGED have, Update(f, p),
         InStep(f), ~Done(f), total'[f] < Pieces(f)
  PROVE  InStep(f)'
  <1> DEFINE n == total'[f]
             s == avPieces[f] \cup {p}
  <1>1. /\ f \in Files /\ n \in Nat /\ avPieces'[f] = s
        /\ OnlyCounted(f) \/ Recounted(f, p)
    BY UpdateCases
  <1>2. /\ Pieces(f) \in Nat /\ Chocked[f] \in Nat \ {0} /\ BlockSize(f) \in Nat
        /\ total[f] \in Nat /\ count[f] \in Nat /\ lastPos[f] \in Nat /\ endPos[f] \in Nat
        /\ avaliable[f] \in Nat
    BY <1>1, ChockedSize DEF Inv, TypeOK
  <1>3. n = total[f] + 1
    BY <1>1 DEF OnlyCounted, Recounted
  <1>4. endPos[f] - Chocked[f] + count[f] <= total[f]
    BY <1>1 DEF Inv, CountersFit, Counters
  <1>5. s = Taken(f)' /\ s = {q \in have : FileOf(q) = f} /\ p \notin avPieces[f]
    <2>1. /\ p \in have
          /\ \A q \in have : (Waiting(q) <=> q = p) /\ ~Waiting(q)'
      BY NoneWaits DEF Inv, AlertsMatch, TypeOK
    <2> QED  BY <2>1 DEF InStep, Taken
  <1>6. Cardinality(s) = n
    <2>1. IsFiniteSet(avPieces[f])
      <3>1. avPieces[f] \in SUBSET (have \cap PieceRange(f))
        BY FileOfPiece DEF InStep, Taken, Inv, TypeOK
      <3>2. IsFiniteSet(have \cap PieceRange(f))
        BY <1>1, HeldGrows
      <3> QED  BY <3>1, <3>2, FS_Subset
    <2>2. Cardinality(avPieces[f]) = total[f]
      BY DEF InStep
    <2>3. Cardinality(avPieces[f] \cup {p}) = Cardinality(avPieces[f]) + 1
      BY ONLY <1>5, <2>1, FS_AddElement
    <2> QED  BY ONLY <1>3, <2>2, <2>3
  <1>7. 0 .. n - 2 \subseteq Links(s)
    <2>1. s # {}
      OBVIOUS
    <2> HIDE DEF s, n
    <2>2. PICK a \in Nat : s = a .. (a + n - 1)
      BY <1>1, <1>5, <1>6, <2>1, TakenInterval
    <2> QED  BY <1>1, <2>2, IntervalLinked
  <1> HIDE DEF s, n
  <1>8. CASE OnlyCounted(f)
    <2>1. /\ UNCHANGED <<lastPos, endPos, avaliable>>
          /\ count'[f] = count[f] + 1 /\ count'[f] < Chocked[f]
      BY <1>8 DEF OnlyCounted
    <2>2. /\ n <= endPos[f] - Chocked[f] + count'[f] + 1
          /\ count'[f] <= Chocked[f] /\ count'[f] # Chocked[f]
      BY <1>2, <1>3, <2>1 DEF InStep
    <2> QED  BY <1>1, <1>5, <1>6, <2>1, <2>2 DEF InStep, n
  <1>9. CASE Recounted(f, p)
    <2>1. PICK found, last, rechecking :
            /\ rechecking \in BOOLEAN /\ endPos[f] <= n /\ count[f] + 1 >= Chocked[f]
            /\ found = Scan(s, lastPos[f], endPos[f], rechecking)
            /\ last = LastOf(found, lastPos[f]) /\ last \in Nat /\ last >= lastPos[f]
            /\ lastPos'[f] = NextPos(f, last)
            /\ RangeComplete(last, endPos[f]) => endPos'[f] = endPos[f] + Chocked[f] /\ count'[f] = 0
            /\ ~RangeComplete(last, endPos[f]) => endPos'[f] = endPos[f] /\ count'[f] = count[f] + 1
            /\ avaliable'[f] >= NextPos(f, last) * BlockSize(f)
      BY <1>9, Zenon DEF Recounted, n, s
    <2>2. /\ endPos[f] - Chocked[f] <= lastPos[f] /\ lastPos[f] <= endPos[f]
          /\ total[f] <= endPos[f] - Chocked[f] + count[f] + 1
          /\ count[f] <= Chocked[f] /\ (count[f] = Chocked[f] => total[f] = endPos[f])
      BY DEF InStep
    <2>3. endPos[f] < n => RangeComplete(last, endPos[f])
      <3> SUFFICES ASSUME endPos[f] < n PROVE last >= endPos[f] - 1
        BY DEF RangeComplete
      <3> QED  BY ONLY <1>1, <1>2, <1>7, <2>1, <2>2, endPos[f] < n, ScanReaches
    <2>4. /\ endPos'[f] - Chocked[f] <= lastPos'[f] /\ lastPos'[f] <= endPos'[f]
          /\ n <= endPos'[f] - Chocked[f] + count'[f] + 1
          /\ count'[f] <= Chocked[f] /\ (count'[f] = Chocked[f] => n = endPos'[f])
      <3>1. CASE RangeComplete(last, endPos[f])
        <4>1. endPos'[f] = endPos[f] + Chocked[f] /\ count'[f] = 0 /\ lastPos'[f] = endPos[f]
          BY <2>1, <3>1 DEF NextPos
        <4>2. n <= endPos[f] + 1
          BY <1>2, <1>3, <2>1, <2>2
        <4> QED  BY ONLY <1>1, <1>2, <4>1, <4>2
      <3>2. CASE ~RangeComplete(last, endPos[f])
        <4>1. /\ endPos'[f] = endPos[f] /\ count'[f] = count[f] + 1 /\ lastPos'[f] = last
              /\ n = endPos[f] /\ last < endPos[f]
          BY <1>1, <1>2, <2>1, <2>3, <3>2 DEF NextPos, RangeComplete
        <4>2. last \in Nat /\ last >= lastPos[f]
          BY <2>1
        <4> QED  BY ONLY <1>1, <1>2, <1>3, <1>4, <2>2, <4>1, <4>2
      <3> QED  BY <3>1, <3>2
    <2>5. avaliable'[f] >= lastPos'[f] * BlockSize(f)
      BY <2>1
    <2> QED  BY <1>1, <1>5, <1>6, <2>4, <2>5 DEF InStep, n
  <1> QED  BY <1>1, <1>8, <1>9

LEMMA OrderCount ==
  ASSUME Inv, OrderInv, NEW p \in AllPieces, Waiting(p),
         due' = due \ {[type |-> "piece", of |-> p]}, UNCHANGED <<have, inOrder>>,
         Update(FileOf(p), p)
  PROVE  OrderInv'
  <1> SUFFICES ASSUME inOrder'
               PROVE  NoGap' /\ \A f \in Files :
                                  ~Done(f)' /\ total'[f] < Pieces(f) => InStep(f)'
    BY DEF OrderInv
  <1>1. NoGap /\ \A f \in Files : ~Done(f) /\ total[f] < Pieces(f) => InStep(f)
    BY DEF OrderInv
  <1>2. NoGap'
    BY <1>1 DEF NoGap
  <1>3. ASSUME NEW f \in Files, ~Done(f)', total'[f] < Pieces(f) PROVE InStep(f)'
    <2>1. ~Done(f)
      BY <1>3, NoneWaits
    <2>2. CASE f = FileOf(p)
      <3>1. total'[f] \in Nat /\ (OnlyCounted(f) \/ Recounted(f, p))
        BY <2>2, UpdateCases
      <3>2. total'[f] = total[f] + 1
        BY <1>3, <3>1 DEF OnlyCounted, Recounted
      <3>3. total[f] < Pieces(f)
        <4>1. total[f] \in Nat /\ Pieces(f) \in Nat
          BY ChockedSize DEF Inv, TypeOK
        <4> QED  BY <1>3, <3>2, <4>1
      <3>4. InStep(f)
        BY <1>1, <2>1, <3>3
      <3> QED  BY <1>1, <1>3, <2>1, <2>2, <3>4, StepKept
    <2>3. CASE f # FileOf(p)
      <3>1. /\ avPieces'[f] = avPieces[f] /\ total'[f] = total[f] /\ count'[f] = count[f]
            /\ lastPos'[f] = lastPos[f] /\ endPos'[f] = endPos[f]
            /\ avaliable'[f] = avaliable[f]
        BY <2>3, UpdateCases
      <3>2. InStep(f)
        BY <1>1, <1>3, <2>1, <3>1
      <3>3. Taken(f)' = Taken(f)
        <4>1. \A q \in have : FileOf(q) = f => ~Waiting(q) /\ ~Waiting(q)'
          BY <2>3, NoneWaits DEF Inv, TypeOK
        <4> QED  BY <4>1 DEF Taken
      <3> QED  BY <3>1, <3>2, <3>3 DEF InStep
    <2> QED  BY <2>2, <2>3
  <1> QED  BY <1>2, <1>3

LEMMA OrderStep == Inv /\ OrderInv /\ [Next]_vars => OrderInv'
  <1> SUFFICES ASSUME Inv, OrderInv, [Next]_vars PROVE OrderInv'
    OBVIOUS
  <1>1. CASE PieceVerified
    BY <1>1, OrderVerify DEF PieceVerified
  <1>2. CASE OnPieceFinished
    <2>1. PICK p \in AllPieces : /\ Waiting(p) /\ due' = due \ {[type |-> "piece", of |-> p]}
                                 /\ Update(FileOf(p), p) /\ UNCHANGED <<have, inOrder>>
      BY <1>2 DEF OnPieceFinished, Waiting
    <2> QED  BY <2>1, OrderCount
  <1>3. CASE \E f \in Files : OnFileComplete(f)
    BY <1>3, OrderComplete
  <1>4. CASE UNCHANGED vars
    BY <1>4 DEF vars, infoVars, OrderInv, NoGap, InStep, Taken, Waiting, Done
  <1> QED  BY <1>1, <1>2, <1>3, <1>4 DEF Next, Handler

\* What is there of a file, in order, are its first pieces.
LEMMA FirstPieces ==
  ASSUME Inv, NoGap, NEW f \in Files
  PROVE  Held(f) \in 0 .. Pieces(f) + 1 /\ First[f] .. First[f] + Held(f) - 1 \subseteq have
  <1> DEFINE S == have \cap PieceRange(f)
  <1>1. /\ First[f] \in Nat /\ Last[f] \in Nat /\ First[f] <= Last[f]
        /\ Pieces(f) = Last[f] - First[f] /\ PieceRange(f) \in SUBSET Nat
    BY LayoutAssumption DEF Pieces, PieceRange
  <1>2. Held(f) \in 0 .. Pieces(f) + 1
    <2>1. IsFiniteSet(PieceRange(f)) /\ Cardinality(PieceRange(f)) = Pieces(f) + 1
      <3>1. First[f] \in Int /\ Last[f] \in Int /\ ~(First[f] > Last[f])
        BY <1>1
      <3>2. IsFiniteSet(First[f] .. Last[f])
            /\ Cardinality(First[f] .. Last[f]) = Last[f] - First[f] + 1
        BY ONLY <3>1, FS_Interval
      <3> QED  BY ONLY <1>1, <3>2 DEF PieceRange
    <2>2. S \in SUBSET PieceRange(f)
      OBVIOUS
    <2>3. Cardinality(S) \in Nat /\ Cardinality(S) <= Pieces(f) + 1
      BY <2>1, <2>2, FS_Subset, FS_CardinalityType
    <2> HIDE DEF S
    <2> QED  BY <1>1, <2>3 DEF Held, S
  <1>3. CASE S = {}
    <2>1. Held(f) = 0
      BY <1>3, FS_EmptySet DEF Held
    <2> QED  BY <1>1, <1>2, <2>1
  <1>4. CASE S # {}
    <2>1. S \in SUBSET Nat /\ \A x \in S : First[f] <= x /\ x <= Last[f]
      BY <1>1 DEF PieceRange
    <2>2. PieceRange(f) \subseteq AllPieces
      BY DEF AllPieces
    <2>3. \A x, y \in S, z \in Nat : x <= z /\ z <= y => z \in S
      <3> SUFFICES ASSUME NEW x \in S, NEW y \in S, NEW z \in Nat, x <= z, z <= y
                   PROVE  z \in S
        OBVIOUS
      <3>1. z \in PieceRange(f) /\ (z < y \/ z = y)
        BY <1>1, <2>1 DEF PieceRange
      <3> QED  BY <2>2, <3>1 DEF NoGap
    <2>4. PICK a \in S : S = a .. (a + Cardinality(S) - 1)
      <3> HIDE DEF S
      <3> QED  BY ONLY <1>1, <1>4, <2>1, <2>3, Segment
    <2>5. First[f] \in S
      <3>1. a \in have /\ First[f] <= a /\ a \in Nat
        BY <2>1
      <3>2. First[f] \in PieceRange(f) /\ (First[f] < a \/ First[f] = a)
        BY <1>1, <3>1 DEF PieceRange
      <3> QED  BY <2>2, <3>1, <3>2 DEF NoGap
    <2>6. a = First[f]
      <3>1. a \in Nat /\ First[f] <= a
        BY <2>1
      <3>2. a <= First[f]
        <4> HIDE DEF S
        <4>1. First[f] \in a .. (a + Cardinality(S) - 1)
          BY <2>4, <2>5
        <4> QED  BY <4>1
      <3> QED  BY <1>1, <3>1, <3>2
    <2>7. First[f] .. First[f] + Held(f) - 1 = S
      BY <2>4, <2>6 DEF Held
    <2> QED  BY <1>2, <2>7
  <1> QED  BY <1>3, <1>4

\* For every layout and every order of pieces the available bytes of a file are at most
\* the volume of what is there of it, and in order they are its first bytes and lag
\* behind the count by no more than a range and a piece.
THEOREM CountIsTrue == Spec => []CountsTrue
  <1>1. Inv /\ VolumeInv /\ OrderInv => CountsTrue
    <2> SUFFICES ASSUME Inv, VolumeInv, OrderInv PROVE CountsTrue
      OBVIOUS
    <2>1. VolumeBounded
      BY DEF VolumeInv, Volume, VolumeBounded, Held
    <2>2. ASSUME inOrder PROVE SequentialBytes
      <3>1. NoGap
        BY <2>2 DEF OrderInv
      <3> SUFFICES ASSUME NEW f \in Files
                   PROVE  \E k \in 0 .. Pieces(f) + 1 :
                             /\ First[f] .. First[f] + k - 1 \subseteq have
                             /\ avaliable[f] <= k * BlockSize(f)
        BY DEF SequentialBytes
      <3>2. avaliable[f] <= Held(f) * BlockSize(f)
        BY DEF VolumeInv, Volume
      <3> QED  BY <3>1, <3>2, FirstPieces
    <2>3. ASSUME inOrder PROVE LagBounded
      <3> SUFFICES ASSUME NEW f \in Files, total[f] < Pieces(f)
                   PROVE  avaliable[f] >= (total[f] - Chocked[f] - 1) * BlockSize(f)
        BY DEF LagBounded
      <3>1. /\ Chocked[f] \in Nat /\ BlockSize(f) \in Nat /\ total[f] \in Nat
            /\ lastPos[f] \in Nat /\ avaliable[f] \in Nat /\ endPos[f] \in Nat
            /\ count[f] \in Nat
        BY ChockedSize DEF Inv, TypeOK
      <3>2. PICK k \in Nat : total[f] - Chocked[f] - 1 <= k /\ k * BlockSize(f) <= avaliable[f]
        <4>1. CASE Done(f)
          <5>1. total[f] <= 1
            BY <4>1 DEF Inv, CountersFit, Counters
          <5>2. total[f] - Chocked[f] - 1 <= 0 /\ 0 * BlockSize(f) <= avaliable[f]
            BY <3>1, <5>1
          <5> QED  BY <5>2
        <4>2. CASE ~Done(f)
          <5>1. InStep(f)
            BY <2>3, <4>2 DEF OrderInv
          <5>2. total[f] - Chocked[f] - 1 <= lastPos[f]
            BY <3>1, <5>1 DEF InStep
          <5>3. lastPos[f] * BlockSize(f) <= avaliable[f]
            <6> DEFINE b == lastPos[f] * BlockSize(f)
            <6>1. b \in Nat /\ avaliable[f] >= b
              BY <3>1, <5>1 DEF InStep
            <6> HIDE DEF b
            <6>2. b <= avaliable[f]
              BY <3>1, <6>1
            <6> QED  BY <6>2 DEF b
          <5> QED  BY <3>1, <5>2, <5>3
        <4> QED  BY <4>1, <4>2
      <3> DEFINE a == total[f] - Chocked[f] - 1
                 low == a * BlockSize(f)
                 high == k * BlockSize(f)
      <3>3. a \in Int /\ a <= k
        BY <3>1, <3>2
      <3> HIDE DEF a
      <3>4. low \in Int /\ high \in Int /\ low <= high
        BY <3>1, <3>3, TimesGrows
      <3>5. high <= avaliable[f]
        BY <3>2
      <3> HIDE DEF low, high
      <3>6. avaliable[f] >= low
        BY ONLY <3>1, <3>4, <3>5
      <3> QED  BY <3>6 DEF low, a
    <2> QED  BY <2>1, <2>2, <2>3 DEF CountsTrue, SequentialInOrder
  <1> QED
    BY <1>1, VolumeInit, VolumeStep, OrderInit, OrderStep, InvHolds, PTL DEF Spec
=============================================================================
