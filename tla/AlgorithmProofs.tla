--------------------------- MODULE AlgorithmProofs ---------------------------
(***************************************************************************)
(* What the algorithms do for every input, not only for the words TLC goes *)
(* through: the error resolver with every history of updates, however long *)
(* and whatever the day, the delay and the checkout are; the search for    *)
(* the end of a request in every stream; the Range header, the replies and *)
(* their figures for every text and every size; every history of the       *)
(* console; the names of files and the decoders for every text; the writes *)
(* of a chunk whatever the socket takes; every sequence of calls of a      *)
(* reply.  RequestParserProofs.tla goes on with the parser of requests.    *)
(*                                                                         *)
(* An induction, over the updates or the characters, is one over a set of  *)
(* numbers: it holds 0 and with n also n + 1, so that no number outside of *)
(* it is the least.  A recursive function of the model is shown to exist   *)
(* first: RecursionExists for one that goes from each number to the next,  *)
(* DescentExists for one that leads from each place to lower ones.         *)
(***************************************************************************)
EXTENDS MCAlgorithms, TLAPS, WellFoundedInduction

\* Induction over the natural numbers, for a set of them.
LEMMA SetInduction ==
  ASSUME NEW S, 0 \in S, \A n \in Nat : n \in S => n + 1 \in S
  PROVE  Nat \subseteq S
  <1> SUFFICES ASSUME Nat \ S # {} PROVE FALSE
    OBVIOUS
  <1>1. PICK m \in Nat \ S : \A u \in Nat \ S : ~ (<<u, m>> \in OpToRel(<, Nat))
    BY NatLessThanWellFounded, WFMin
  <1>2. m \in Nat /\ m # 0
    <2>1. m \in Nat \ S
      OBVIOUS
    <2> QED  BY ONLY <2>1, 0 \in S
  <1>3. m - 1 \in Nat /\ m - 1 < m /\ m - 1 + 1 = m
    BY ONLY <1>2
  <1>4. m - 1 \in S
    <2>1. <<m - 1, m>> \in OpToRel(<, Nat)
      BY <1>2, <1>3 DEF OpToRel
    <2> QED  BY <1>1, <1>3, <2>1, Zenon
  <1> QED  BY ONLY <1>3, <1>4, m \in Nat \ S, \A n \in Nat : n \in S => n + 1 \in S

\* The same for the numbers of an interval.
LEMMA RangeInduction ==
  ASSUME NEW S, NEW lo \in Nat, NEW hi \in Nat, lo \in S,
         \A n \in lo..(hi - 1) : n \in S => n + 1 \in S
  PROVE  \A n \in lo..hi : n \in S
  <1> DEFINE T == {k \in Nat : lo + k <= hi => lo + k \in S}
  <1>1. 0 \in T
    OBVIOUS
  <1>2. ASSUME NEW k \in Nat, k \in T PROVE k + 1 \in T
    <2> SUFFICES ASSUME lo + (k + 1) <= hi PROVE lo + (k + 1) \in S
      OBVIOUS
    <2>1. lo + k \in lo..(hi - 1) /\ lo + k <= hi /\ (lo + k) + 1 = lo + (k + 1)
      OBVIOUS
    <2> QED  BY <1>2, <2>1
  <1> HIDE DEF T
  <1>3. Nat \subseteq T
    BY <1>1, <1>2, SetInduction
  <1> SUFFICES ASSUME NEW n \in lo..hi PROVE n \in S
    OBVIOUS
  <1>4. n - lo \in Nat /\ lo + (n - lo) = n /\ n <= hi
    OBVIOUS
  <1> QED  BY <1>3, <1>4 DEF T

\* There is a function that begins with x and takes one step after the other, up to m.
Iterates(T, x, m, step) ==
  \E f \in [0..m -> T] : f[0] = x /\ \A n \in 1..m : f[n] = step[n][f[n - 1]]

\* There is one if the steps stay in T.
LEMMA RecursionExists ==
  ASSUME NEW T, NEW x \in T, NEW m \in Nat, NEW step \in [1..m -> [T -> T]]
  PROVE  Iterates(T, x, m, step)
  <1> DEFINE P(k, f) == f[0] = x /\ \A n \in 1..k : f[n] = step[n][f[n - 1]]
             S == {k \in 0..m : \E f \in [0..m -> T] : P(k, f)}
  <1>1. 0 \in S
    <2> DEFINE f == [n \in 0..m |-> x]
    <2>1. f \in [0..m -> T] /\ P(0, f)
      OBVIOUS
    <2> HIDE DEF f
    <2> QED  BY <2>1
  <1>2. ASSUME NEW k \in 0..(m - 1), k \in S PROVE k + 1 \in S
    <2>1. PICK f \in [0..m -> T] : P(k, f)
      BY <1>2
    <2>2. k + 1 \in 0..m /\ k + 1 \in 1..m /\ k \in 0..m /\ (k + 1) - 1 = k
      OBVIOUS
    <2> DEFINE y == step[k + 1][f[k]]
               g == [n \in 0..m |-> IF n = k + 1 THEN y ELSE f[n]]
    <2>3. y \in T
      BY <2>1, <2>2
    <2> HIDE DEF y
    <2>4. g \in [0..m -> T] /\ g[k + 1] = y /\ \A n \in 0..k : g[n] = f[n]
      BY <2>1, <2>2, <2>3
    <2> HIDE DEF g
    <2>5. g[0] = x
      BY <2>1, <2>4
    <2>6. ASSUME NEW n \in 1..(k + 1) PROVE g[n] = step[n][g[n - 1]]
      <3>1. CASE n = k + 1
        <4>1. g[k] = f[k]
          BY <2>4
        <4> QED  BY <2>2, <2>4, <3>1, <4>1 DEF y
      <3>2. CASE n # k + 1
        <4>1. n \in 1..k /\ n \in 0..k /\ n - 1 \in 0..k
          BY <3>2
        <4>2. f[n] = step[n][f[n - 1]]
          BY <2>1, <4>1
        <4> QED  BY <2>4, <4>1, <4>2
      <3> QED  BY <3>1, <3>2
    <2>7. P(k + 1, g)
      BY <2>5, <2>6
    <2> QED  BY <2>2, <2>4, <2>7
  <1> HIDE DEF S
  <1>3. m \in S
    <2>1. 0 \in Nat /\ m \in 0..m
      OBVIOUS
    <2>2. \A n \in 0..(m - 1) : n \in S => n + 1 \in S
      BY <1>2
    <2>3. \A n \in 0..m : n \in S
      BY ONLY m \in Nat, <1>1, <2>1, <2>2, RangeInduction
    <2> QED  BY <2>1, <2>3
  <1>4. \E f \in [0..m -> T] : P(m, f)
    BY <1>3 DEF S
  <1> QED  BY ONLY <1>4 DEF Iterates, P

-----------------------------------------------------------------------------
\* One update of the history, with the time of day.
Step(info, u) ==
  OnUpdate(info, [now |-> u.elapsed % Day, status |-> u.status, handleValid |-> u.handleValid])

\* The states of the first m updates, if f are those before.
StatesOf(history, f, m) ==
  [n \in 0..m |-> IF n = 0 THEN ExInfo(0)
                  ELSE CHOOSE s \in {Step(before, history[n]) : before \in {f[n - 1]}} : TRUE]

\* The states of a history are what its recursive definition says.
LEMMA StatesExist ==
  ASSUME NEW history, NEW m \in Nat
  PROVE  \E f : f = StatesOf(history, f, m)
  <1> DEFINE S == {k \in Nat : \E f : f = StatesOf(history, f, k)}
  <1>1. 0 \in S
    <2> DEFINE f == [n \in 0..0 |-> ExInfo(0)]
    <2>1. f = StatesOf(history, f, 0)
      BY DEF StatesOf
    <2> QED  BY <2>1
  <1>2. ASSUME NEW k \in Nat, k \in S PROVE k + 1 \in S
    <2>1. PICK f : f = StatesOf(history, f, k)
      BY <1>2
    <2> DEFINE g == StatesOf(history, f, k + 1)
    <2>2. \A n \in 0..k : g[n] = f[n]
      <3>1. \A n \in 0..k : n \in 0..(k + 1)
        OBVIOUS
      <3>2. \A n \in 0..(k + 1) : g[n] = IF n = 0 THEN ExInfo(0) ELSE
              CHOOSE s \in {Step(before, history[n]) : before \in {f[n - 1]}} : TRUE
        BY DEF StatesOf
      <3>3. \A n \in 0..k : f[n] = IF n = 0 THEN ExInfo(0) ELSE
              CHOOSE s \in {Step(before, history[n]) : before \in {f[n - 1]}} : TRUE
        BY <2>1 DEF StatesOf
      <3> QED  BY ONLY <3>1, <3>2, <3>3, Zenon
    <2>3. \A n \in 0..(k + 1) : n # 0 => f[n - 1] = g[n - 1]
      <3> HIDE DEF g
      <3>1. \A n \in 0..(k + 1) : n # 0 => n - 1 \in 0..k
        OBVIOUS
      <3> QED  BY <2>2, <3>1
    <2>4. g = StatesOf(history, g, k + 1)
      <3> DEFINE v(h, n) == IF n = 0 THEN ExInfo(0) ELSE
              CHOOSE s \in {Step(before, history[n]) : before \in {h[n - 1]}} : TRUE
      <3>1. \A n \in 0..(k + 1) : v(f, n) = v(g, n)
        <4> HIDE DEF g
        <4> QED  BY <2>3, Zenon
      <3>2. [n \in 0..(k + 1) |-> v(f, n)] = [n \in 0..(k + 1) |-> v(g, n)]
        <4> HIDE DEF g, v
        <4> QED  BY <3>1, Zenon
      <3> QED  BY <3>2, Zenon DEF StatesOf
    <2> HIDE DEF g
    <2> QED  BY <2>4
  <1> HIDE DEF S
  <1>3. Nat \subseteq S
    BY <1>1, <1>2, SetInduction
  <1> QED  BY <1>3 DEF S

\* The state after an update comes from the state before it.
LEMMA AfterSteps ==
  ASSUME NEW history, Len(history) \in Nat
  PROVE  /\ After(history)[0] = ExInfo(0)
         /\ \A n \in 1..Len(history) :
              After(history)[n] = Step(After(history)[n - 1], history[n])
  <1> DEFINE m == Len(history)
             a == After(history)
  <1>1. a = CHOOSE f : f = StatesOf(history, f, m)
    BY Zenon DEF After, StatesAfter, StatesOf, Step
  <1>2. \E f : f = StatesOf(history, f, m)
    BY StatesExist
  <1>3. a = StatesOf(history, a, m)
    <2> HIDE DEF a, m
    <2> QED  BY <1>1, <1>2
  <1> HIDE DEF a
  <1>4. \A n \in 0..m : a[n] = IF n = 0 THEN ExInfo(0) ELSE
          CHOOSE s \in {Step(before, history[n]) : before \in {a[n - 1]}} : TRUE
    <2> DEFINE v(n) == IF n = 0 THEN ExInfo(0) ELSE
          CHOOSE s \in {Step(before, history[n]) : before \in {a[n - 1]}} : TRUE
    <2>1. a = [n \in 0..m |-> v(n)]
      BY <1>3, Zenon DEF StatesOf
    <2> HIDE DEF v
    <2>2. \A n \in 0..m : a[n] = v(n)
      BY <2>1, Zenon
    <2> QED  BY <2>2 DEF v
  <1>5. \A n \in 0..m : n # 0 => a[n] = Step(a[n - 1], history[n])
    <2> TAKE n \in 0..m
    <2> HAVE n # 0
    <2> DEFINE t == Step(a[n - 1], history[n])
    <2>1. {Step(before, history[n]) : before \in {a[n - 1]}} = {t}
      BY Zenon
    <2> HIDE DEF t
    <2>2. (CHOOSE s \in {t} : TRUE) = t
      OBVIOUS
    <2> QED  BY <1>4, <2>1, <2>2, Zenon DEF t
  <1>6. 0 \in 0..m /\ \A n \in 1..m : n \in 0..m /\ n # 0
    OBVIOUS
  <1>7. a[0] = ExInfo(0) /\ \A n \in 1..m : a[n] = Step(a[n - 1], history[n])
    BY <1>4, <1>5, <1>6, Zenon
  <1> QED  BY <1>7 DEF a

-----------------------------------------------------------------------------
(***************************************************************************)
(* One update.                                                             *)
(***************************************************************************)

\* The resolver a hanging torrent gets.
Hang(t) == [type |-> "hang_at_start_error", endOfDelay |-> t]

\* What a torrent_ex_info can be.
Info(s) ==
  /\ s = [resolver |-> s.resolver, lastCheckout |-> s.lastCheckout, rechecks |-> s.rechecks]
  /\ s.resolver = NoResolver \/ \E t \in Nat : s.resolver = Hang(t)
  /\ s.lastCheckout \in Nat /\ s.rechecks \in Nat

\* An update that the resolver is not asked about, with the reason for that.
Passed(s, t, now) ==
  /\ t = s
  /\ AutoErrorResolving => now < s.lastCheckout

\* An update that sees no hanging, one that sees it, and those the resolver waits at.
Looked(s, t, status, now) ==
  /\ s.resolver = NoResolver /\ t.resolver = NoResolver /\ ~HangsAtStart(status)
  /\ t.lastCheckout = now + ResolveCheckout /\ t.rechecks = s.rechecks

Noticed(s, t, status, now) ==
  /\ s.resolver = NoResolver /\ t.resolver = Hang(now + Delay) /\ HangsAtStart(status)
  /\ t.lastCheckout = now + ResolveCheckout /\ t.rechecks = s.rechecks

Waited(s, t, valid, now) ==
  /\ s.resolver # NoResolver /\ t = s
  /\ ~(valid /\ now >= s.resolver.endOfDelay)

Rechecked(s, t, valid, now) ==
  /\ s.resolver # NoResolver /\ t.resolver = NoResolver
  /\ valid /\ now >= s.resolver.endOfDelay
  /\ t.lastCheckout = s.lastCheckout /\ t.rechecks = s.rechecks + 1

\* No resolver is of another type than the one that hangs.
LEMMA OneResolver ==
  ASSUME NEW t
  PROVE  Hang(t) # NoResolver /\ Hang(t).type = "hang_at_start_error" /\ Hang(t).endOfDelay = t
  <1>1. Hang(t).type = "hang_at_start_error" /\ NoResolver.type = "none"
    BY DEF Hang, NoResolver
  <1> QED  BY <1>1 DEF Hang

\* The factory makes the resolver of a hanging torrent and no other.
LEMMA Resolver ==
  ASSUME NEW status, NEW now
  PROVE  GetResolver(status, now) = IF HangsAtStart(status) THEN Hang(now + Delay) ELSE NoResolver
  <1> DEFINE needed == {i \in DOMAIN ResolverTypes :
               ResolverTypes[i] \in Registered /\ IsNeedResolve(ResolverTypes[i], status)}
  <1>1. /\ DOMAIN ResolverTypes = 1..3 /\ ResolverTypes[1] = "hang_at_start_error"
        /\ ResolverTypes[2] = "connection_error" /\ ResolverTypes[3] = "unknown_error"
    BY DEF ResolverTypes
  <1>2. needed = IF HangsAtStart(status) THEN {1} ELSE {}
    <2>1. \A i \in 1..3 : i = 1 \/ i = 2 \/ i = 3
      OBVIOUS
    <2> QED  BY <1>1, <2>1 DEF IsNeedResolve, Registered
  <1> HIDE DEF needed
  <1>3. GetResolver(status, now) =
          IF needed = {} THEN NoResolver
          ELSE Clone(ResolverTypes[CHOOSE i \in needed : \A j \in needed : i <= j], now)
    BY Zenon DEF GetResolver, needed
  <1>4. needed = {1} => (CHOOSE i \in needed : \A j \in needed : i <= j) = 1
    OBVIOUS
  <1>5. Clone("hang_at_start_error", now) = Hang(now + Delay)
    BY DEF Clone, Hang
  <1> QED  BY <1>1, <1>2, <1>3, <1>4, <1>5

\* An update is of one of these kinds.
LEMMA UpdateKinds ==
  ASSUME NEW s, Info(s), NEW u, u.elapsed \in Nat, u.handleValid \in BOOLEAN,
         NEW now, now = u.elapsed % Day
  PROVE  LET t == Step(s, u)
         IN  /\ Info(t) /\ now \in Nat
             /\ \/ Passed(s, t, now)
                \/ /\ AutoErrorResolving /\ now >= s.lastCheckout
                   /\ \/ Looked(s, t, u.status, now)
                      \/ Noticed(s, t, u.status, now)
                      \/ Waited(s, t, u.handleValid, now)
                      \/ Rechecked(s, t, u.handleValid, now)
  <1> DEFINE t == Step(s, u)
             valid == u.handleValid
             hangs == HangsAtStart(u.status)
             checked == IF s.resolver = NoResolver
                          THEN [s EXCEPT !.lastCheckout = now + ResolveCheckout] ELSE s
             r == IF checked.resolver # NoResolver THEN checked.resolver
                  ELSE GetResolver(u.status, now)
  <1>1. now \in Nat
    BY ResolverAssumption
  <1>2. /\ AutoErrorResolving \in BOOLEAN /\ Day \in Nat /\ Delay \in Nat /\ Delay > 0
        /\ ResolveCheckout \in Nat
    BY ResolverAssumption
  <1>3. t = IF ~AutoErrorResolving \/ now < s.lastCheckout THEN s
            ELSE LookupError(checked, u.status, valid, now)
    BY DEF Step, OnUpdate
  <1>4. LookupError(checked, u.status, valid, now) =
          IF r # NoResolver /\ Resolve(r, valid, now)
          THEN [checked EXCEPT !.resolver = NoResolver, !.rechecks = @ + Rechecks(r)]
          ELSE [checked EXCEPT !.resolver = r]
    BY Zenon DEF LookupError
  <1>5. CASE ~AutoErrorResolving \/ now < s.lastCheckout
    <2>1. Passed(s, t, now)
      BY <1>1, <1>2, <1>3, <1>5 DEF Passed, Info
    <2> QED  BY <1>1, <1>3, <1>5, <2>1
  <1>8. s.lastCheckout \in Nat
    BY DEF Info
  <1>9. AutoErrorResolving /\ now >= s.lastCheckout =>
          t = LookupError(checked, u.status, valid, now)
    <2> HIDE DEF t, checked
    <2> QED  BY <1>1, <1>2, <1>3, <1>8
  <1>6. CASE AutoErrorResolving /\ now >= s.lastCheckout /\ s.resolver # NoResolver
    <2>1. PICK e \in Nat : s.resolver = Hang(e)
      BY <1>6 DEF Info
    <2>2. checked = s /\ r = Hang(e)
      BY <1>6, <2>1
    <2>3. Resolve(r, valid, now) <=> valid /\ now >= e
      BY <2>2, OneResolver DEF Resolve
    <2>4. Rechecks(r) = 1
      BY <2>2, OneResolver DEF Rechecks
    <2>5. /\ s.resolver.endOfDelay = e /\ s.rechecks \in Nat /\ s.lastCheckout \in Nat
          /\ s = [resolver |-> s.resolver, lastCheckout |-> s.lastCheckout,
                  rechecks |-> s.rechecks]
      BY <2>1, OneResolver DEF Info
    <2>6. t = IF valid /\ now >= e THEN [s EXCEPT !.resolver = NoResolver, !.rechecks = @ + 1]
              ELSE [s EXCEPT !.resolver = r]
      <3> HIDE DEF t, checked, r
      <3> QED  BY <1>4, <1>6, <1>9, <2>1, <2>2, <2>3, <2>4, OneResolver
    <2>7. CASE valid /\ now >= e
      <3>1. t = [resolver |-> NoResolver, lastCheckout |-> s.lastCheckout,
                 rechecks |-> s.rechecks + 1]
        <4> HIDE DEF t
        <4> QED  BY <2>5, <2>6, <2>7
      <3> HIDE DEF t
      <3>2. t.resolver = NoResolver /\ t.lastCheckout = s.lastCheckout
            /\ t.rechecks = s.rechecks + 1
        BY <3>1
      <3>3. Info(t)
        BY <2>5, <3>1, <3>2 DEF Info
      <3>4. Rechecked(s, t, valid, now)
        BY <1>6, <2>5, <2>7, <3>2 DEF Rechecked
      <3> QED  BY <1>1, <1>6, <3>3, <3>4 DEF t
    <2>8. CASE ~(valid /\ now >= e)
      <3>1. t = s
        <4> HIDE DEF t, r
        <4> QED  BY <2>1, <2>2, <2>5, <2>6, <2>8
      <3> HIDE DEF t
      <3>2. Waited(s, t, valid, now)
        BY <1>6, <2>5, <2>8, <3>1 DEF Waited
      <3> QED  BY <1>1, <1>6, <3>1, <3>2 DEF t
    <2> QED  BY <2>7, <2>8
  <1>7. CASE AutoErrorResolving /\ now >= s.lastCheckout /\ s.resolver = NoResolver
    <2>1. /\ s = [resolver |-> NoResolver, lastCheckout |-> s.lastCheckout,
                  rechecks |-> s.rechecks]
          /\ s.rechecks \in Nat /\ s.lastCheckout \in Nat
      BY <1>7 DEF Info
    <2>2. checked = [resolver |-> NoResolver, lastCheckout |-> now + ResolveCheckout,
                     rechecks |-> s.rechecks]
      BY <1>7, <2>1
    <2>3. r = IF hangs THEN Hang(now + Delay) ELSE NoResolver
      BY <2>2, Resolver
    <2>4. now + Delay \in Nat /\ ~(now >= now + Delay)
      BY <1>1, <1>2
    <2>5. r # NoResolver => ~Resolve(r, valid, now)
      BY <2>3, <2>4, OneResolver DEF Resolve
    <2>6. t = [resolver |-> r, lastCheckout |-> now + ResolveCheckout, rechecks |-> s.rechecks]
      <3> HIDE DEF t, r
      <3>1. t = [checked EXCEPT !.resolver = r]
        <4> HIDE DEF checked
        <4> QED  BY <1>4, <1>7, <1>9, <2>5
      <3> QED  BY <3>1, <2>2
    <2>7. CASE hangs
      <3>1. t = [resolver |-> Hang(now + Delay), lastCheckout |-> now + ResolveCheckout,
                 rechecks |-> s.rechecks]
        <4> HIDE DEF t, r
        <4> QED  BY <2>3, <2>6, <2>7
      <3> HIDE DEF t
      <3>2. t.resolver = Hang(now + Delay) /\ t.lastCheckout = now + ResolveCheckout
            /\ t.rechecks = s.rechecks
        BY <3>1
      <3>3. Info(t)
        BY <1>1, <1>2, <2>1, <2>4, <3>1, <3>2 DEF Info
      <3>4. Noticed(s, t, u.status, now)
        BY <1>7, <2>7, <3>2 DEF Noticed
      <3> QED  BY <1>1, <1>7, <3>3, <3>4 DEF t
    <2>8. CASE ~hangs
      <3>1. t = [resolver |-> NoResolver, lastCheckout |-> now + ResolveCheckout,
                 rechecks |-> s.rechecks]
        <4> HIDE DEF t, r
        <4> QED  BY <2>3, <2>6, <2>8
      <3> HIDE DEF t
      <3>2. t.resolver = NoResolver /\ t.lastCheckout = now + ResolveCheckout
            /\ t.rechecks = s.rechecks
        BY <3>1
      <3>3. Info(t)
        BY <1>1, <1>2, <2>1, <3>1, <3>2 DEF Info
      <3>4. Looked(s, t, u.status, now)
        BY <1>7, <2>8, <3>2 DEF Looked
      <3> QED  BY <1>1, <1>7, <3>3, <3>4 DEF t
    <2> QED  BY <2>7, <2>8
  <1> QED  BY <1>1, <1>2, <1>5, <1>6, <1>7, <1>8

-----------------------------------------------------------------------------
(***************************************************************************)
(* A whole history: the seconds since the midnight before it never go back.*)
(***************************************************************************)
IsHistory(h) ==
  /\ Len(h) \in Nat /\ DOMAIN h = 1..Len(h)
  /\ \A n \in 1..Len(h) : h[n].elapsed \in Nat /\ h[n].handleValid \in BOOLEAN
  /\ \A m, n \in 1..Len(h) : m <= n => h[m].elapsed <= h[n].elapsed

Now(h, n) == h[n].elapsed % Day

\* The resolver that waits after n updates was made by an update i that saw the torrent hang,
\* and no update since then has rechecked.
SeenBefore(h, a, n) ==
  a[n].resolver # NoResolver =>
    \E i \in 1..n :
      /\ HangsAtStart(h[i].status) /\ a[n].resolver = Hang(Now(h, i) + Delay)
      /\ \A k \in 1..n : a[k].rechecks > a[k - 1].rechecks => k < i

\* The kind of the update n.
KindOf(h, a, n) ==
  \/ Passed(a[n - 1], a[n], Now(h, n))
  \/ /\ AutoErrorResolving /\ Now(h, n) >= a[n - 1].lastCheckout
     /\ \/ Looked(a[n - 1], a[n], h[n].status, Now(h, n))
        \/ Noticed(a[n - 1], a[n], h[n].status, Now(h, n))
        \/ Waited(a[n - 1], a[n], h[n].handleValid, Now(h, n))
        \/ Rechecked(a[n - 1], a[n], h[n].handleValid, Now(h, n))

\* Every update of a history is of one of the kinds.
LEMMA HistoryKinds ==
  ASSUME NEW h, IsHistory(h), NEW a, a = After(h)
  PROVE  /\ a[0] = ExInfo(0) /\ \A n \in 0..Len(h) : Info(a[n])
         /\ \A n \in 1..Len(h) : Now(h, n) \in Nat /\ KindOf(h, a, n)
  <1> DEFINE m == Len(h)
             S == {n \in Nat : n <= m => Info(a[n])}
  <1>1. m \in Nat
    BY DEF IsHistory
  <1>2. a[0] = ExInfo(0) /\ \A n \in 1..m : a[n] = Step(a[n - 1], h[n])
    BY <1>1, AfterSteps
  <1>3. 0 \in S
    BY <1>2 DEF ExInfo, Info
  <1>4. ASSUME NEW n \in 1..m, Info(a[n - 1])
        PROVE  Info(a[n]) /\ Now(h, n) \in Nat /\ KindOf(h, a, n)
    <2>1. h[n].elapsed \in Nat /\ h[n].handleValid \in BOOLEAN /\ a[n] = Step(a[n - 1], h[n])
      BY <1>2 DEF IsHistory
    <2> DEFINE s == a[n - 1]
               u == h[n]
               now == Now(h, n)
               t == a[n]
    <2>2. now = u.elapsed % Day
      BY DEF Now
    <2>3. /\ Info(t) /\ now \in Nat
          /\ \/ Passed(s, t, now)
             \/ /\ AutoErrorResolving /\ now >= s.lastCheckout
                /\ \/ Looked(s, t, u.status, now)
                   \/ Noticed(s, t, u.status, now)
                   \/ Waited(s, t, u.handleValid, now)
                   \/ Rechecked(s, t, u.handleValid, now)
      <3>1. Info(s) /\ u.elapsed \in Nat /\ u.handleValid \in BOOLEAN /\ t = Step(s, u)
        BY <1>4, <2>1
      <3> HIDE DEF s, u, now, t
      <3> QED  BY ONLY <2>2, <3>1, UpdateKinds, ResolverAssumption
    <2> QED  BY <2>3 DEF KindOf
  <1>5. ASSUME NEW n \in Nat, n \in S PROVE n + 1 \in S
    <2> SUFFICES ASSUME n + 1 <= m PROVE Info(a[n + 1])
      OBVIOUS
    <2>1. n + 1 \in 1..m /\ (n + 1) - 1 = n /\ n <= m
      BY <1>1
    <2>2. Info(a[n])
      BY <1>5, <2>1
    <2> QED  BY <1>4, <2>1, <2>2
  <1>6. \A n \in 0..m : Info(a[n])
    <2> HIDE DEF S
    <2>1. Nat \subseteq S
      BY <1>3, <1>5, SetInduction
    <2> QED  BY <1>1, <2>1 DEF S
  <1>7. \A n \in 1..m : n - 1 \in 0..m
    BY <1>1
  <1> QED  BY <1>2, <1>4, <1>6, <1>7

\* A resolver that waits has seen the torrent hang.
LEMMA SeenHanging ==
  ASSUME NEW h, IsHistory(h), NEW a, a = After(h)
  PROVE  \A n \in 0..Len(h) : SeenBefore(h, a, n)
  <1> DEFINE m == Len(h)
             S == {n \in Nat : n <= m => SeenBefore(h, a, n)}
  <1>1. m \in Nat
    BY DEF IsHistory
  <1>2. 0 \in S
    BY HistoryKinds DEF ExInfo, SeenBefore
  <1>3. ASSUME NEW n \in 1..m, SeenBefore(h, a, n - 1) PROVE SeenBefore(h, a, n)
    <2>1. /\ Info(a[n - 1]) /\ Info(a[n]) /\ KindOf(h, a, n)
          /\ n - 1 \in 0..m /\ n \in 1..n
      BY <1>1, HistoryKinds
    <2>2. a[n].rechecks \in Nat /\ a[n - 1].rechecks \in Nat
      BY <2>1 DEF Info
    <2> SUFFICES ASSUME a[n].resolver # NoResolver
                 PROVE  \E i \in 1..n :
                          /\ HangsAtStart(h[i].status) /\ a[n].resolver = Hang(Now(h, i) + Delay)
                          /\ \A k \in 1..n : a[k].rechecks > a[k - 1].rechecks => k < i
      BY DEF SeenBefore
    <2>3. CASE Noticed(a[n - 1], a[n], h[n].status, Now(h, n))
      <3>1. ~(a[n].rechecks > a[n - 1].rechecks)
        BY <2>2, <2>3 DEF Noticed
      <3>2. \A k \in 1..n : a[k].rechecks > a[k - 1].rechecks => k < n
        BY <3>1
      <3>3. HangsAtStart(h[n].status) /\ a[n].resolver = Hang(Now(h, n) + Delay)
        BY <2>3 DEF Noticed
      <3> QED  BY ONLY <2>1, <3>2, <3>3, Zenon
    <2>4. CASE a[n] = a[n - 1]
      <3>1. ~(a[n].rechecks > a[n - 1].rechecks)
        BY <2>2, <2>4
      <3>2. PICK i \in 1..(n - 1) :
              /\ HangsAtStart(h[i].status) /\ a[n - 1].resolver = Hang(Now(h, i) + Delay)
              /\ \A k \in 1..(n - 1) : a[k].rechecks > a[k - 1].rechecks => k < i
        BY <1>3, <2>4 DEF SeenBefore
      <3>3. \A k \in 1..n : a[k].rechecks > a[k - 1].rechecks => k < i
        <4>1. \A k \in 1..n : k = n \/ k \in 1..(n - 1)
          OBVIOUS
        <4> QED  BY <3>1, <3>2, <4>1
      <3>4. i \in 1..n
        OBVIOUS
      <3> QED  BY <2>4, <3>2, <3>3, <3>4, Zenon
    <2> QED  BY <2>1, <2>3, <2>4 DEF KindOf, Passed, Looked, Waited, Rechecked
  <1>4. ASSUME NEW n \in Nat, n \in S PROVE n + 1 \in S
    <2> SUFFICES ASSUME n + 1 <= m PROVE SeenBefore(h, a, n + 1)
      OBVIOUS
    <2>1. n + 1 \in 1..m /\ (n + 1) - 1 = n /\ n <= m
      BY <1>1
    <2>2. SeenBefore(h, a, n)
      BY <1>4, <2>1
    <2> QED  BY <1>3, <2>1, <2>2
  <1> HIDE DEF S
  <1>5. Nat \subseteq S
    BY <1>2, <1>4, SetInduction
  <1> QED  BY <1>1, <1>5 DEF S

\* Between two updates at least as many seconds go by as the time of day says.
LEMMA TimeOfDay ==
  ASSUME NEW x \in Nat, NEW y \in Nat, x <= y
  PROVE  (y % Day) - (x % Day) <= y - x
  <1>1. Day \in Nat /\ Day > 0
    BY ResolverAssumption
  <1>2. /\ x % Day \in 0..(Day - 1) /\ x \div Day \in Nat /\ x = (Day * (x \div Day)) + (x % Day)
        /\ y % Day \in 0..(Day - 1) /\ y \div Day \in Nat /\ y = (Day * (y \div Day)) + (y % Day)
    BY <1>1
  <1> DEFINE p == x \div Day
             q == y \div Day
             r == x % Day
             t == y % Day
             d == Day
  <1> HIDE DEF p, q, r, t, d
  <1>3. /\ d \in Nat /\ d > 0 /\ p \in Nat /\ q \in Nat /\ r \in 0..(d - 1) /\ t \in 0..(d - 1)
        /\ x = d * p + r /\ y = d * q + t
    BY <1>1, <1>2 DEF p, q, r, t, d
  <1>4. p <= q
    <2> SUFFICES ASSUME q + 1 <= p PROVE FALSE
      BY <1>3
    <2>1. d * (q + 1) <= d * p
      BY <1>3
    <2>2. d * (q + 1) = d * q + d
      BY <1>3
    <2> QED  BY <1>3, <2>1, <2>2
  <1>5. d * p <= d * q
    BY <1>3, <1>4
  <1>6. t - r <= y - x
    BY <1>3, <1>5
  <1> QED  BY <1>6 DEF r, t

\* Before midnight the time of day is the number of seconds gone by.
LEMMA BeforeMidnight ==
  ASSUME NEW x \in 0..(Day - 1)
  PROVE  x % Day = x
  <1>1. Day \in Nat /\ Day > 0
    BY ResolverAssumption
  <1>2. x % Day \in 0..(Day - 1) /\ x \div Day \in Nat /\ x = (Day * (x \div Day)) + (x % Day)
    BY <1>1
  <1> DEFINE p == x \div Day
             r == x % Day
             d == Day
  <1> HIDE DEF p, r, d
  <1>3. /\ d \in Nat /\ d > 0 /\ p \in Nat /\ r \in 0..(d - 1) /\ x \in 0..(d - 1)
        /\ x = d * p + r
    BY <1>1, <1>2 DEF p, r, d
  <1>4. p = 0
    <2> SUFFICES ASSUME p >= 1 PROVE FALSE
      BY <1>3
    <2>1. d * p >= d
      BY <1>3
    <2> QED  BY <1>3, <2>1
  <1>5. x = r
    BY <1>3, <1>4
  <1> QED  BY <1>5 DEF r

\* A torrent is rechecked only if it was seen hanging at least Delay ago, once for each time,
\* and only while its handle is valid, in every history and over every midnight
\* (error_resolvers_types.cpp, lookup_error of sequential_torrent_controller.cpp).
THEOREM RecheckIsEarned ==
  ASSUME NEW h, IsHistory(h)
  PROVE  RecheckEarned(h)
  <1> DEFINE a == After(h)
             m == Len(h)
             rechecks == {j \in DOMAIN h : a[j].rechecks > a[j - 1].rechecks}
  <1>1. DOMAIN h = 1..m /\ m \in Nat
    BY DEF IsHistory
  <1>2. /\ \A n \in 0..m : Info(a[n]) /\ SeenBefore(h, a, n)
        /\ \A n \in 1..m : Now(h, n) \in Nat /\ KindOf(h, a, n)
    <2> HIDE DEF a
    <2>1. a = After(h)
      BY DEF a
    <2> QED  BY <2>1, HistoryKinds, SeenHanging
  <1>3. RecheckEarned(h) <=>
          \A j \in rechecks :
            /\ h[j].handleValid
            /\ \E i \in 1..(j - 1) :
                 /\ HangsAtStart(h[i].status)
                 /\ h[j].elapsed - h[i].elapsed >= Delay
                 /\ \A k \in rechecks : k < j => k < i
    BY Zenon DEF RecheckEarned
  <1> HIDE DEF a
  <1> SUFFICES ASSUME NEW j \in 1..m, a[j].rechecks > a[j - 1].rechecks
               PROVE  /\ h[j].handleValid
                      /\ \E i \in 1..(j - 1) :
                           /\ HangsAtStart(h[i].status)
                           /\ h[j].elapsed - h[i].elapsed >= Delay
                           /\ \A k \in rechecks : k < j => k < i
    BY <1>1, <1>3
  <1>4. j - 1 \in 0..m /\ j \in 0..m
    BY <1>1
  <1>5. a[j].rechecks \in Nat /\ a[j - 1].rechecks \in Nat
    BY <1>2, <1>4 DEF Info
  <1>6. Rechecked(a[j - 1], a[j], h[j].handleValid, Now(h, j))
    <2>1. KindOf(h, a, j)
      BY <1>2
    <2> QED  BY <1>5, <2>1 DEF KindOf, Passed, Looked, Noticed, Waited
  <1>7. PICK i \in 1..(j - 1) :
          /\ HangsAtStart(h[i].status) /\ a[j - 1].resolver = Hang(Now(h, i) + Delay)
          /\ \A k \in 1..(j - 1) : a[k].rechecks > a[k - 1].rechecks => k < i
    BY <1>2, <1>4, <1>6 DEF Rechecked, SeenBefore
  <1>8. h[j].elapsed - h[i].elapsed >= Delay
    <2>1. i \in 1..m /\ i <= j
      BY <1>1
    <2>2. h[i].elapsed \in Nat /\ h[j].elapsed \in Nat /\ h[i].elapsed <= h[j].elapsed
      BY <2>1 DEF IsHistory
    <2>3. Now(h, j) - Now(h, i) <= h[j].elapsed - h[i].elapsed
      BY <2>2, TimeOfDay DEF Now
    <2>4. Now(h, j) >= Now(h, i) + Delay
      BY <1>6, <1>7, OneResolver DEF Rechecked
    <2>5. Now(h, i) \in Nat /\ Now(h, j) \in Nat /\ Delay \in Nat
      BY <1>2, <2>1, ResolverAssumption
    <2> QED  BY ONLY <2>2, <2>3, <2>4, <2>5
  <1>9. \A k \in rechecks : k < j => k < i
    <2> SUFFICES ASSUME NEW k \in rechecks, k < j PROVE k < i
      OBVIOUS
    <2>1. k \in 1..(j - 1) /\ a[k].rechecks > a[k - 1].rechecks
      BY <1>1
    <2> QED  BY <1>7, <2>1
  <1>10. h[j].handleValid
    BY <1>6 DEF Rechecked
  <1> HIDE DEF rechecks
  <1> QED  BY ONLY <1>7, <1>8, <1>9, <1>10, Zenon

-----------------------------------------------------------------------------
(***************************************************************************)
(* Before midnight: the time of day is the time that has gone by.          *)
(***************************************************************************)

\* The controller looks again at the torrent at most ResolveCheckout after the update n.
CheckedSoon(h, a, n) ==
  a[n].lastCheckout <= (IF n = 0 THEN 0 ELSE h[n].elapsed + ResolveCheckout)

\* Until midnight no checkout is further away than that, and no resolver waits longer than
\* Delay.
LEMMA Soon ==
  ASSUME NEW h, IsHistory(h), NEW a, a = After(h), NEW j \in 1..Len(h), h[j].elapsed < Day
  PROVE  /\ \A n \in 1..j : Now(h, n) = h[n].elapsed
         /\ \A n \in 0..j : CheckedSoon(h, a, n)
         /\ \A n \in 0..j : a[n].resolver # NoResolver =>
              a[n].resolver.endOfDelay \in Nat /\ n # 0
              /\ a[n].resolver.endOfDelay <= h[n].elapsed + Delay
  <1> DEFINE m == Len(h)
  <1>1. /\ m \in Nat /\ Delay \in Nat /\ ResolveCheckout \in Nat /\ Day \in Nat
        /\ \A n \in 1..j : n \in 1..m /\ h[n].elapsed \in Nat /\ h[n].elapsed <= h[j].elapsed
        /\ \A n \in 2..j : n - 1 \in 1..m /\ h[n - 1].elapsed \in Nat
                           /\ h[n - 1].elapsed <= h[n].elapsed
    BY ResolverAssumption DEF IsHistory
  <1>2. \A n \in 1..j : Now(h, n) = h[n].elapsed
    <2> SUFFICES ASSUME NEW n \in 1..j PROVE Now(h, n) = h[n].elapsed
      OBVIOUS
    <2>1. h[n].elapsed \in 0..(Day - 1)
      <3>1. h[n].elapsed \in Nat /\ h[n].elapsed <= h[j].elapsed
        BY <1>1
      <3>2. h[j].elapsed \in Nat
        BY DEF IsHistory
      <3> QED  BY <1>1, <3>1, <3>2
    <2> QED  BY <2>1, BeforeMidnight DEF Now
  <1>3. /\ a[0] = ExInfo(0) /\ \A n \in 0..m : Info(a[n]) /\ SeenBefore(h, a, n)
        /\ \A n \in 1..m : KindOf(h, a, n)
    BY HistoryKinds, SeenHanging
  <1> DEFINE S == {n \in 0..j : CheckedSoon(h, a, n)}
  <1>4. 0 \in S
    BY <1>3 DEF ExInfo, CheckedSoon
  <1>5. ASSUME NEW n \in 0..(j - 1), n \in S PROVE n + 1 \in S
    <2>1. n + 1 \in 1..j /\ n + 1 \in 0..j /\ (n + 1) - 1 = n /\ n <= j /\ n \in 0..m
          /\ n + 1 \in 0..m /\ n + 1 \in 1..m
      <3>1. m \in Nat /\ j \in 1..m
        BY <1>1
      <3> HIDE DEF m
      <3> QED  BY ONLY <3>1, n \in 0..(j - 1)
    <2>2. CheckedSoon(h, a, n)
      BY <1>5, <2>1
    <2>3. /\ KindOf(h, a, n + 1) /\ a[n].lastCheckout \in Nat /\ a[n + 1].lastCheckout \in Nat
          /\ Now(h, n + 1) = h[n + 1].elapsed /\ h[n + 1].elapsed \in Nat
      BY <1>1, <1>2, <1>3, <2>1 DEF Info
    <2>4. a[n].lastCheckout <= h[n + 1].elapsed + ResolveCheckout
      <3>1. CASE n = 0
        BY <1>1, <2>2, <2>3, <3>1 DEF CheckedSoon
      <3>2. CASE n # 0
        <4>1. n + 1 \in 2..j
          BY <2>1, <3>2
        <4>2. h[n].elapsed \in Nat /\ h[n].elapsed <= h[n + 1].elapsed
          BY <1>1, <2>1, <4>1
        <4>3. a[n].lastCheckout <= h[n].elapsed + ResolveCheckout
          BY <2>2, <3>2 DEF CheckedSoon
        <4> QED  BY ONLY ResolverAssumption, <2>3, <4>2, <4>3 DEF ResolverAssumption
      <3> QED  BY <3>1, <3>2
    <2>5. a[n + 1].lastCheckout = a[n].lastCheckout
          \/ a[n + 1].lastCheckout = h[n + 1].elapsed + ResolveCheckout
      BY <2>1, <2>3 DEF KindOf, Passed, Looked, Noticed, Waited, Rechecked
    <2>6. n + 1 # 0 /\ a[n + 1].lastCheckout <= h[n + 1].elapsed + ResolveCheckout
      BY ONLY <1>1, <2>1, <2>3, <2>4, <2>5
    <2> QED  BY <2>1, <2>6 DEF CheckedSoon
  <1>6. \A n \in 0..j : CheckedSoon(h, a, n)
    <2> HIDE DEF S
    <2>1. j \in Nat /\ \A n \in 0..(j - 1) : n \in S => n + 1 \in S
      BY <1>1, <1>5
    <2>2. \A n \in 0..j : n \in S
      BY <1>4, <2>1, RangeInduction
    <2> QED  BY <2>2 DEF S
  <1>7. ASSUME NEW n \in 0..j, a[n].resolver # NoResolver
        PROVE  a[n].resolver.endOfDelay \in Nat /\ n # 0
               /\ a[n].resolver.endOfDelay <= h[n].elapsed + Delay
    <2>1. PICK i \in 1..n : a[n].resolver = Hang(Now(h, i) + Delay)
      BY <1>1, <1>3, <1>7 DEF SeenBefore
    <2>2. n # 0 /\ i \in 1..j /\ n \in 1..j /\ i <= n
      OBVIOUS
    <2>3. h[i].elapsed \in Nat /\ h[n].elapsed \in Nat /\ h[i].elapsed <= h[n].elapsed
      BY <1>1, <2>2 DEF IsHistory
    <2>4. a[n].resolver.endOfDelay = h[i].elapsed + Delay
      BY <1>2, <2>1, <2>2, OneResolver
    <2> QED  BY <1>1, <2>2, <2>3, <2>4
  <1> QED  BY <1>2, <1>6, <1>7

\* Before midnight a torrent that keeps hanging for ResolveCheckout is noticed, and a noticed
\* one is rechecked by the first update that comes both Delay and ResolveCheckout later
\* (on_update, sequential_torrent_controller.cpp).
THEOREM RecheckDoesCome ==
  ASSUME NEW h, IsHistory(h)
  PROVE  RecheckComes(h)
  <1> DEFINE a == After(h)
             m == Len(h)
             noticed(i) == a[i].resolver # NoResolver
             later(i, j, seconds) == h[j].elapsed - h[i].elapsed >= seconds
             found(i, j) == noticed(j) \/ a[j].rechecks > a[i - 1].rechecks
             resolved(i, j) == a[j].rechecks > a[i].rechecks
  <1>1. DOMAIN h = 1..m /\ m \in Nat /\ ResolveCheckout \in Nat /\ Delay \in Nat
    BY ResolverAssumption DEF IsHistory
  <1>2. RecheckComes(h) <=>
          (AutoErrorResolving =>
            \A j \in DOMAIN h : \A i \in 1..(j - 1) :
              h[j].elapsed < Day =>
                /\ (later(i, j, ResolveCheckout) /\ \A k \in i..j : HangsAtStart(h[k].status))
                     => found(i, j)
                /\ (/\ noticed(i) /\ h[j].handleValid
                    /\ later(i, j, Delay) /\ later(i, j, ResolveCheckout))
                     => resolved(i, j))
    BY Zenon DEF RecheckComes
  <1>3. a = After(h)
    OBVIOUS
  <1> HIDE DEF a
  <1> SUFFICES ASSUME AutoErrorResolving, NEW j \in 1..m, NEW i \in 1..(j - 1),
                      h[j].elapsed < Day, later(i, j, ResolveCheckout)
               PROVE  /\ (\A k \in i..j : HangsAtStart(h[k].status)) => found(i, j)
                      /\ noticed(i) /\ h[j].handleValid /\ later(i, j, Delay) => resolved(i, j)
    BY <1>1, <1>2
  <1>4. /\ \A n \in 0..m : Info(a[n])
        /\ \A n \in 1..m : KindOf(h, a, n)
    BY <1>3, HistoryKinds
  <1>5. /\ \A n \in 1..j : Now(h, n) = h[n].elapsed /\ h[n].elapsed \in Nat
        /\ \A n \in 0..j : CheckedSoon(h, a, n)
        /\ \A n \in 0..j : a[n].resolver # NoResolver =>
             a[n].resolver.endOfDelay \in Nat /\ n # 0
             /\ a[n].resolver.endOfDelay <= h[n].elapsed + Delay
    <2>1. \A n \in 1..j : n \in 1..m
      BY <1>1
    <2>2. \A n \in 1..j : h[n].elapsed \in Nat
      BY <2>1 DEF IsHistory
    <2>3. /\ \A n \in 1..j : Now(h, n) = h[n].elapsed
          /\ \A n \in 0..j : CheckedSoon(h, a, n)
          /\ \A n \in 0..j : a[n].resolver # NoResolver =>
               a[n].resolver.endOfDelay \in Nat /\ n # 0
               /\ a[n].resolver.endOfDelay <= h[n].elapsed + Delay
      BY <1>3, Soon
    <2> QED  BY <2>2, <2>3
  <1>6. \A n \in 0..j : n \in 0..m /\ a[n].rechecks \in Nat /\ a[n].lastCheckout \in Nat
    <2>1. \A n \in 0..j : n \in 0..m
      BY <1>1
    <2> QED  BY <1>4, <2>1 DEF Info
  <1> DEFINE e == h[i].elapsed
  <1>7. e \in Nat /\ i \in 1..j /\ h[j].elapsed \in Nat
    BY <1>5
  <1>8. ASSUME NEW n \in 1..j
        PROVE  /\ n - 1 \in 0..j /\ n \in 0..j
               /\ a[n].rechecks >= a[n - 1].rechecks
               /\ \/ a[n] = a[n - 1] /\ h[n].elapsed < a[n - 1].lastCheckout
                  \/ /\ ~noticed(n - 1) /\ (HangsAtStart(h[n].status) => noticed(n))
                  \/ /\ noticed(n - 1) /\ a[n] = a[n - 1]
                     /\ ~(h[n].handleValid /\ h[n].elapsed >= a[n].resolver.endOfDelay)
                  \/ /\ noticed(n - 1) /\ a[n].rechecks = a[n - 1].rechecks + 1
    <2>1. n - 1 \in 0..j /\ n \in 0..j /\ n \in 1..m
      BY <1>1
    <2>2. /\ KindOf(h, a, n) /\ a[n].rechecks \in Nat /\ a[n - 1].rechecks \in Nat
          /\ Now(h, n) = h[n].elapsed
      BY <1>4, <1>5, <1>6, <2>1
    <2>3. \A t : Hang(t) # NoResolver
      BY OneResolver
    <2>4. CASE Passed(a[n - 1], a[n], Now(h, n))
      BY <2>1, <2>2, <2>4 DEF Passed
    <2>5. CASE Looked(a[n - 1], a[n], h[n].status, Now(h, n))
      BY <2>1, <2>2, <2>5 DEF Looked
    <2>6. CASE Noticed(a[n - 1], a[n], h[n].status, Now(h, n))
      BY <2>1, <2>2, <2>3, <2>6 DEF Noticed
    <2>7. CASE Waited(a[n - 1], a[n], h[n].handleValid, Now(h, n))
      BY <2>1, <2>2, <2>7 DEF Waited
    <2>8. CASE Rechecked(a[n - 1], a[n], h[n].handleValid, Now(h, n))
      BY <2>1, <2>2, <2>8 DEF Rechecked
    <2> QED  BY <2>2, <2>4, <2>5, <2>6, <2>7, <2>8 DEF KindOf
  <1>9. ASSUME \A k \in i..j : HangsAtStart(h[k].status)
        PROVE  found(i, j)
    <2> DEFINE Q(n) == /\ a[n].rechecks >= a[i - 1].rechecks
                       /\ found(i, n) \/ a[n].lastCheckout <= e + ResolveCheckout
               S == {n \in 0..j : Q(n)}
    <2>1. i - 1 \in 0..j /\ i - 1 \in Nat /\ j - 1 \in Nat /\ j - 1 \in (i - 1)..(j - 1)
      BY <1>1
    <2>2. Q(i - 1)
      <3>1. CheckedSoon(h, a, i - 1)
        BY <1>5, <2>1
      <3>2. i # 1 => i - 1 \in 1..m /\ i \in 1..m /\ i - 1 <= i
        BY <1>1
      <3>3. i # 1 => h[i - 1].elapsed \in Nat /\ h[i - 1].elapsed <= h[i].elapsed
        BY <3>2 DEF IsHistory
      <3>4. a[i - 1].rechecks \in Nat /\ a[i - 1].lastCheckout \in Nat
        BY <1>6, <2>1
      <3>5. a[i - 1].lastCheckout <= e + ResolveCheckout
        <4>1. CASE i = 1
          BY <1>1, <1>7, <3>1, <3>4, <4>1 DEF CheckedSoon
        <4>2. CASE i # 1
          <5> DEFINE before == h[i - 1].elapsed
                     checkout == a[i - 1].lastCheckout
          <5>1. checkout <= before + ResolveCheckout
            BY <3>1, <4>2 DEF CheckedSoon
          <5>2. before \in Nat /\ before <= e /\ checkout \in Nat
            BY <3>3, <3>4, <4>2
          <5>3. e \in Nat /\ ResolveCheckout \in Nat
            BY <1>1, <1>7
          <5> HIDE DEF before, checkout, e
          <5>4. checkout <= e + ResolveCheckout
            BY ONLY <5>1, <5>2, <5>3
          <5> QED  BY ONLY <5>4 DEF checkout
        <4> QED  BY <4>1, <4>2
      <3> QED  BY <3>4, <3>5
    <2>3. ASSUME NEW n \in i..j, Q(n - 1)
          PROVE  /\ a[n].rechecks >= a[i - 1].rechecks
                 /\ found(i, n) \/ (/\ a[n].lastCheckout <= e + ResolveCheckout
                                    /\ h[n].elapsed < e + ResolveCheckout)
      <3>1. n \in 1..j /\ n - 1 \in 0..j /\ n \in 0..j /\ HangsAtStart(h[n].status)
        BY <1>1, <1>9
      <3>2. /\ a[n].rechecks \in Nat /\ a[n - 1].rechecks \in Nat /\ a[i - 1].rechecks \in Nat
            /\ a[n].lastCheckout \in Nat /\ a[n - 1].lastCheckout \in Nat /\ h[n].elapsed \in Nat
        BY <1>5, <1>6, <2>1, <3>1
      <3>3. a[n].rechecks >= a[n - 1].rechecks
        BY <1>8, <3>1
      <3> HIDE DEF e
      <3>4. CASE a[n] = a[n - 1] /\ h[n].elapsed < a[n - 1].lastCheckout
        BY <1>1, <1>7, <2>3, <3>2, <3>4
      <3>5. CASE ~noticed(n - 1) /\ (HangsAtStart(h[n].status) => noticed(n))
        BY <2>3, <3>1, <3>2, <3>3, <3>5
      <3>6. CASE noticed(n - 1) /\ a[n] = a[n - 1]
        BY <2>3, <3>6
      <3>7. CASE noticed(n - 1) /\ a[n].rechecks = a[n - 1].rechecks + 1
        BY <2>3, <3>2, <3>7
      <3> QED  BY <1>8, <3>1, <3>4, <3>5, <3>6, <3>7
    <2>4. \A n \in (i - 1)..((j - 1) - 1) : n \in S => n + 1 \in S
      <3> SUFFICES ASSUME NEW n \in (i - 1)..((j - 1) - 1), Q(n) PROVE n + 1 \in S
        OBVIOUS
      <3>1. n + 1 \in i..j /\ (n + 1) - 1 = n /\ n + 1 \in 0..j
        BY <1>1
      <3> HIDE DEF e
      <3> QED  BY <2>3, <3>1
    <2>5. Q(j - 1)
      <3>1. i - 1 \in S
        BY <2>1, <2>2
      <3> HIDE DEF S
      <3>2. j - 1 \in S
        BY <2>1, <2>4, <3>1, RangeInduction
      <3> QED  BY <3>2 DEF S
    <2>6. j \in i..j
      BY <1>1
    <2> QED  BY <1>1, <1>7, <2>3, <2>5, <2>6
  <1>10. ASSUME noticed(i), h[j].handleValid, later(i, j, Delay)
         PROVE  resolved(i, j)
    <2> DEFINE Q(n) == /\ a[n].rechecks >= a[i].rechecks
                       /\ resolved(i, n)
                          \/ (/\ noticed(n) /\ a[n].resolver.endOfDelay <= e + Delay
                              /\ a[n].lastCheckout <= e + ResolveCheckout)
               S == {n \in 0..j : Q(n)}
    <2>1. i \in 0..j /\ i \in Nat /\ j - 1 \in Nat /\ j - 1 \in i..(j - 1) /\ i # 0
      BY <1>1
    <2>2. Q(i)
      <3>1. CheckedSoon(h, a, i) /\ a[i].rechecks \in Nat
        BY <1>5, <1>6, <2>1
      <3>2. a[i].lastCheckout <= h[i].elapsed + ResolveCheckout
        BY <2>1, <3>1 DEF CheckedSoon
      <3>3. a[i].resolver.endOfDelay <= h[i].elapsed + Delay
        BY <1>5, <1>10, <2>1
      <3> QED  BY <1>10, <3>1, <3>2, <3>3
    <2>3. ASSUME NEW n \in (i + 1)..j, Q(n - 1)
          PROVE  /\ a[n].rechecks >= a[i].rechecks
                 /\ \/ resolved(i, n)
                    \/ /\ noticed(n) /\ a[n].resolver.endOfDelay <= e + Delay
                       /\ a[n].lastCheckout <= e + ResolveCheckout
                       /\ \/ h[n].elapsed < e + ResolveCheckout
                          \/ ~(h[n].handleValid /\ h[n].elapsed >= e + Delay)
      <3>1. n \in 1..j /\ n - 1 \in 0..j /\ n \in 0..j
        BY <1>1
      <3>2. /\ a[n].rechecks \in Nat /\ a[n - 1].rechecks \in Nat /\ a[i].rechecks \in Nat
            /\ a[n].lastCheckout \in Nat /\ a[n - 1].lastCheckout \in Nat /\ h[n].elapsed \in Nat
        BY <1>5, <1>6, <2>1, <3>1
      <3>3. a[n].rechecks >= a[n - 1].rechecks
        BY <1>8, <3>1
      <3>4. noticed(n) => a[n].resolver.endOfDelay \in Nat
        BY <1>5, <3>1
      <3> HIDE DEF e
      <3>5. CASE resolved(i, n - 1)
        <4>1. resolved(i, n) /\ a[n].rechecks >= a[i].rechecks
          BY ONLY <3>2, <3>3, <3>5
        <4> QED  BY ONLY <4>1
      <3>6. CASE ~resolved(i, n - 1)
        <4>1. /\ noticed(n - 1) /\ a[n - 1].resolver.endOfDelay <= e + Delay
              /\ a[n - 1].lastCheckout <= e + ResolveCheckout
              /\ a[n - 1].rechecks >= a[i].rechecks
          BY <2>3, <3>6
        <4>2. CASE a[n] = a[n - 1] /\ h[n].elapsed < a[n - 1].lastCheckout
          BY <1>1, <1>7, <3>2, <4>1, <4>2
        <4>3. CASE /\ a[n] = a[n - 1]
                   /\ ~(h[n].handleValid /\ h[n].elapsed >= a[n].resolver.endOfDelay)
          BY <1>1, <1>7, <3>2, <3>4, <4>1, <4>3
        <4>4. CASE a[n].rechecks = a[n - 1].rechecks + 1
          <5>1. resolved(i, n) /\ a[n].rechecks >= a[i].rechecks
            BY ONLY <3>2, <4>1, <4>4
          <5> QED  BY ONLY <5>1
        <4> QED  BY <1>8, <3>1, <4>1, <4>2, <4>3, <4>4
      <3> QED  BY <3>5, <3>6
    <2>4. \A n \in i..((j - 1) - 1) : n \in S => n + 1 \in S
      <3> SUFFICES ASSUME NEW n \in i..((j - 1) - 1), Q(n) PROVE n + 1 \in S
        OBVIOUS
      <3>1. n + 1 \in (i + 1)..j /\ (n + 1) - 1 = n /\ n + 1 \in 0..j
        BY <1>1
      <3> HIDE DEF e
      <3> QED  BY <2>3, <3>1
    <2>5. Q(j - 1)
      <3>1. i \in S
        BY <2>1, <2>2
      <3> HIDE DEF S
      <3>2. j - 1 \in S
        BY <2>1, <2>4, <3>1, RangeInduction
      <3> QED  BY <3>2 DEF S
    <2>6. j \in (i + 1)..j
      BY <1>1
    <2>7. h[j].elapsed >= e + Delay /\ h[j].elapsed >= e + ResolveCheckout
      <3>1. h[j].elapsed - h[i].elapsed >= Delay /\ h[j].elapsed - h[i].elapsed >= ResolveCheckout
        BY <1>10
      <3> HIDE DEF e
      <3> QED  BY <1>1, <1>7, <3>1 DEF e
    <2>8. /\ e + Delay \in Nat /\ e + ResolveCheckout \in Nat
          /\ ~(h[j].elapsed < e + ResolveCheckout)
      <3> HIDE DEF e
      <3> QED  BY <1>1, <1>7, <2>7
    <2> HIDE DEF e
    <2> QED  BY <1>10, <2>3, <2>5, <2>6, <2>7, <2>8
  <1> QED  BY <1>9, <1>10

-----------------------------------------------------------------------------
(***************************************************************************)
(* The histories that the words of updates stand for.                      *)
(***************************************************************************)
Update == [gap : {1, 3, 4}, status : {Hanging, Recovered}, handleValid : BOOLEAN]

UpdatesTyped == kind = "updates" => word \in Seq(Update)

\* The sums of the first m gaps of the word, if f are those before.
SumsOf(f, m) == [n \in 0..m |-> IF n = 0 THEN 0 ELSE f[n - 1] + word[n].gap]

LEMMA SumsExist ==
  ASSUME word \in Seq(Update)
  PROVE  \E f : f = SumsOf(f, Len(word))
  <1> DEFINE m == Len(word)
             step == [n \in 1..m |-> [x \in Nat |-> x + word[n].gap]]
  <1>1. m \in Nat /\ \A n \in 1..m : word[n].gap \in Nat
    <2>1. \A n \in 1..m : word[n] \in Update
      OBVIOUS
    <2> QED  BY <2>1 DEF Update
  <1> HIDE DEF m
  <1>2. step \in [1..m -> [Nat -> Nat]]
    BY <1>1
  <1>3. \A x \in Nat, n \in 1..m : step[n][x] = x + word[n].gap
    BY <1>1
  <1> HIDE DEF step
  <1>4. PICK f \in [0..m -> Nat] : f[0] = 0 /\ \A n \in 1..m : f[n] = step[n][f[n - 1]]
    <2>1. m \in Nat /\ 0 \in Nat
      BY <1>1
    <2>2. Iterates(Nat, 0, m, step)
      BY ONLY <1>2, <2>1, RecursionExists
    <2> QED  BY ONLY <2>2 DEF Iterates
  <1>5. \A n \in 0..m : n # 0 => n \in 1..m /\ n - 1 \in 0..m
    BY <1>1
  <1>6. \A n \in 0..m : f[n] = IF n = 0 THEN 0 ELSE f[n - 1] + word[n].gap
    BY <1>3, <1>4, <1>5
  <1>7. f = SumsOf(f, m)
    BY <1>4, <1>6 DEF SumsOf
  <1> QED  BY <1>7 DEF m

\* A word of updates stands for a history.
LEMMA HistoryOfWord ==
  ASSUME word \in Seq(Update)
  PROVE  IsHistory(History)
  <1> DEFINE m == Len(word)
             elapsed == CHOOSE f : f = SumsOf(f, m)
  <1>1. m \in Nat /\ DOMAIN word = 1..m
    OBVIOUS
  <1>2. elapsed = SumsOf(elapsed, m)
    <2>1. \E f : f = SumsOf(f, m)
      BY SumsExist
    <2> QED  BY ONLY <2>1
  <1>3. History = [n \in DOMAIN word |->
          [elapsed |-> elapsed[n], status |-> word[n].status, handleValid |-> word[n].handleValid]]
    BY Zenon DEF History, SumsOf
  <1> HIDE DEF elapsed
  <1>4. /\ elapsed[0] = 0
        /\ \A n \in 1..m : elapsed[n] = elapsed[n - 1] + word[n].gap
    <2>1. \A n \in 0..m : elapsed[n] = IF n = 0 THEN 0 ELSE elapsed[n - 1] + word[n].gap
      <3> DEFINE v(n) == IF n = 0 THEN 0 ELSE elapsed[n - 1] + word[n].gap
      <3>1. elapsed = [n \in 0..m |-> v(n)]
        BY <1>2, Zenon DEF SumsOf
      <3> HIDE DEF v
      <3>2. \A n \in 0..m : elapsed[n] = v(n)
        BY <3>1, Zenon
      <3> QED  BY <3>2 DEF v
    <2>2. 0 \in 0..m /\ \A n \in 1..m : n \in 0..m /\ n # 0
      BY <1>1
    <2> QED  BY <2>1, <2>2, Zenon
  <1>5. \A n \in 1..m : word[n].gap \in Nat /\ word[n].handleValid \in BOOLEAN
    <2>1. \A n \in 1..m : word[n] \in Update
      BY <1>1
    <2> QED  BY <2>1 DEF Update
  <1> HIDE DEF m
  <1>6. \A n \in 0..m : elapsed[n] \in Nat
    <2> DEFINE S == {n \in 0..m : elapsed[n] \in Nat}
    <2>1. 0 \in S
      BY <1>1, <1>4
    <2>2. ASSUME NEW n \in 0..(m - 1), n \in S PROVE n + 1 \in S
      <3>1. n + 1 \in 1..m /\ n + 1 \in 0..m /\ (n + 1) - 1 = n
        BY <1>1
      <3>2. elapsed[n + 1] = elapsed[n] + word[n + 1].gap
        BY <1>4, <3>1
      <3> QED  BY <1>5, <2>2, <3>1, <3>2
    <2> HIDE DEF S
    <2>3. \A n \in 0..m : n \in S
      BY <1>1, <2>1, <2>2, RangeInduction
    <2> QED  BY <2>3 DEF S
  <1>7. ASSUME NEW i \in 1..m PROVE \A n \in i..m : elapsed[i] <= elapsed[n]
    <2> DEFINE S == {n \in i..m : elapsed[i] <= elapsed[n]}
    <2>1. i \in S
      BY <1>1, <1>6
    <2>2. ASSUME NEW n \in i..(m - 1), n \in S PROVE n + 1 \in S
      <3>1. n + 1 \in 1..m /\ n + 1 \in i..m /\ (n + 1) - 1 = n /\ n \in 0..m /\ i \in 0..m
        BY <1>1
      <3>2. elapsed[n + 1] = elapsed[n] + word[n + 1].gap /\ word[n + 1].gap \in Nat
        BY <1>4, <1>5, <3>1
      <3>3. elapsed[i] \in Nat /\ elapsed[n] \in Nat /\ elapsed[i] <= elapsed[n]
        BY <1>6, <2>2, <3>1
      <3> QED  BY <3>1, <3>2, <3>3
    <2> HIDE DEF S
    <2>3. i \in Nat
      OBVIOUS
    <2>4. \A n \in i..m : n \in S
      BY <1>1, <2>1, <2>2, <2>3, RangeInduction
    <2> QED  BY <2>4 DEF S
  <1> DEFINE h == History
  <1>8. \A n \in 1..m : n \in 0..m /\ h[n].elapsed = elapsed[n]
                        /\ h[n].handleValid = word[n].handleValid
    BY <1>1, <1>3
  <1>9. DOMAIN h = 1..m /\ Len(h) = m
    <2>1. \A n \in 1..m : [elapsed |-> elapsed[n], status |-> word[n].status,
                           handleValid |-> word[n].handleValid] \in
                          [elapsed : Nat, status : {word[k].status : k \in 1..m}, handleValid : BOOLEAN]
      <3>1. \A n \in 1..m : n \in 0..m
        BY <1>1
      <3> QED  BY <1>5, <1>6, <3>1
    <2> DEFINE M == [elapsed : Nat, status : {word[k].status : k \in 1..m}, handleValid : BOOLEAN]
    <2>2. h \in [1..m -> M]
      BY <1>1, <1>3, <2>1
    <2> HIDE DEF h, M
    <2>3. h \in Seq(M) /\ DOMAIN h = 1..m
      BY <1>1, <2>2
    <2> QED  BY <1>1, <2>3
  <1> HIDE DEF h
  <1>10. \A n \in 1..m : h[n].elapsed \in Nat /\ h[n].handleValid \in BOOLEAN
    BY <1>5, <1>6, <1>8
  <1>11. \A i, n \in 1..m : i <= n => h[i].elapsed <= h[n].elapsed
    <2> SUFFICES ASSUME NEW i \in 1..m, NEW n \in 1..m, i <= n
                 PROVE  h[i].elapsed <= h[n].elapsed
      OBVIOUS
    <2>1. n \in i..m
      BY <1>1
    <2> QED  BY <1>7, <1>8, <2>1
  <1>12. IsHistory(h)
    BY ONLY <1>1, <1>9, <1>10, <1>11 DEF IsHistory
  <1> QED  BY <1>12 DEF h

\* What every word of updates leads to, however many updates there are.
THEOREM HangsFound == Spec => []HangsResolved
<1>1. Init => UpdatesTyped
  <2> SUFFICES ASSUME Init, kind = "updates" PROVE word \in Seq(Update)
    BY DEF UpdatesTyped
  <2>1. word \in Starts("updates")
    BY DEF Init
  <2>2. Starts("updates") = {<<>>}
    BY DEF Starts
  <2>3. word = <<>>
    BY <2>1, <2>2
  <2> QED  BY <2>3
<1>2. UpdatesTyped /\ [Next]_<<kind, word, left>> => UpdatesTyped'
  <2> SUFFICES ASSUME UpdatesTyped, [Next]_<<kind, word, left>>, kind' = "updates"
               PROVE  word' \in Seq(Update)
    BY DEF UpdatesTyped
  <2>1. CASE Grow
    <3>1. kind = "updates" /\ word \in Seq(Update)
      BY <2>1 DEF Grow, UpdatesTyped
    <3>2. PICK symbol \in Symbols("updates") : word' = Append(word, symbol)
      BY <2>1, <3>1 DEF Grow
    <3>3. Symbols("updates") =
            [gap : {1, 3, 4}, status : {Hanging, Recovered}, handleValid : {TRUE}]
              \cup [gap : {1, 3, 4}, status : {Hanging}, handleValid : {FALSE}]
      BY Zenon DEF Symbols
    <3>4. symbol \in Update
      BY <3>2, <3>3 DEF Update
    <3> QED  BY <3>1, <3>2, <3>4
  <2>2. CASE UNCHANGED <<kind, word, left>>
    BY <2>2 DEF UpdatesTyped
  <2> QED  BY <2>1, <2>2 DEF Next
<1>3. UpdatesTyped => HangsResolved
  BY HistoryOfWord, RecheckIsEarned, RecheckDoesCome, Zenon DEF UpdatesTyped, HangsResolved
<1> QED  BY <1>1, <1>2, <1>3, PTL DEF Spec

-----------------------------------------------------------------------------
(***************************************************************************)
(* How mongoose finds the end of a request.                                *)
(***************************************************************************)

\* A set of natural numbers has a least one.
LEMMA LeastExists ==
  ASSUME NEW S \in SUBSET Nat, S # {}
  PROVE  \E x \in S : \A y \in S : x <= y
  <1>1. PICK x \in S : \A u \in S : ~ (<<u, x>> \in OpToRel(<, Nat))
    BY NatLessThanWellFounded, WFMin
  <1>2. ASSUME NEW y \in S PROVE x <= y
    <2> SUFFICES ASSUME y < x PROVE FALSE
      OBVIOUS
    <2>1. <<y, x>> \in OpToRel(<, Nat)
      BY DEF OpToRel
    <2> QED  BY <1>1, <2>1
  <1> QED  BY ONLY <1>2, x \in S

\* Where the empty line ends that begins at i, and where a text may be decided.
LineEnd(text, i) ==
  CASE text[i] # Wire!LF -> 0
    [] text[i + 1] = Wire!LF -> i + 1
    [] i + 2 <= Len(text) /\ text[i + 1] = Wire!CR /\ text[i + 2] = Wire!LF -> i + 2
    [] OTHER -> 0

Deciding(text) ==
  {i \in 1..(Len(text) - 1) : ~Wire!IsAllowed(text[i]) \/ LineEnd(text, i) # 0}

\* The end of a request is where its text is decided first.
LEMMA FirstDecides ==
  ASSUME NEW text, Len(text) \in Nat
  PROVE  \/ Deciding(text) = {} /\ Wire!RequestLen(text) = 0
         \/ \E i \in Deciding(text) :
              /\ \A k \in Deciding(text) : i <= k
              /\ Wire!RequestLen(text) =
                   IF Wire!IsAllowed(text[i]) THEN LineEnd(text, i) ELSE -1
  <1> DEFINE D == Deciding(text)
             first == Wire!Min(D)
  <1>1. Wire!RequestLen(text) = IF D = {} THEN 0
          ELSE IF Wire!IsAllowed(text[first]) THEN LineEnd(text, first) ELSE -1
    BY Zenon DEF Wire!RequestLen, Deciding, LineEnd
  <1>2. D \in SUBSET Nat
    BY DEF Deciding
  <1>3. D # {} => first \in D /\ \A k \in D : first <= k
    <2> HIDE DEF D
    <2> QED  BY <1>2, LeastExists, Zenon DEF Wire!Min
  <1> HIDE DEF D, first
  <1>4. \/ D = {} /\ Wire!RequestLen(text) = 0
        \/ \E i \in D :
             /\ \A k \in D : i <= k
             /\ Wire!RequestLen(text) =
                  IF Wire!IsAllowed(text[i]) THEN LineEnd(text, i) ELSE -1
    BY <1>1, <1>3, Zenon
  <1> QED  BY <1>4, Zenon DEF D

\* However the bytes of a request arrive, it is the same request: once the first n bytes have
\* decided where it ends, or that it is refused, no later byte changes that, in every text
\* (read_request and get_request_len, mongoose.c).
THEOREM RequestEndsOnce ==
  ASSUME NEW S, NEW text \in Seq(S), NEW n \in 0..Len(text),
         Wire!RequestLen(SubSeq(text, 1, n)) # 0
  PROVE  Wire!RequestLen(text) = Wire!RequestLen(SubSeq(text, 1, n))
  <1> DEFINE part == SubSeq(text, 1, n)
  <1>1. Len(text) \in Nat /\ n \in Nat /\ n <= Len(text) /\ Len(part) = n
        /\ \A i \in 1..n : part[i] = text[i]
    OBVIOUS
  <1> HIDE DEF part
  <1>2. \A i \in 1..(n - 1) : LineEnd(part, i) # 0 => LineEnd(text, i) = LineEnd(part, i)
    <2> SUFFICES ASSUME NEW i \in 1..(n - 1), LineEnd(part, i) # 0
                 PROVE  LineEnd(text, i) = LineEnd(part, i)
      OBVIOUS
    <2>1. part[i] = text[i] /\ part[i + 1] = text[i + 1]
      BY <1>1
    <2>2. i + 2 <= n => i + 2 <= Len(text) /\ part[i + 2] = text[i + 2]
      BY <1>1
    <2> QED  BY <1>1, <2>1, <2>2 DEF LineEnd
  <1>3. \A i \in 1..(n - 2) : LineEnd(text, i) = LineEnd(part, i)
    <2> SUFFICES ASSUME NEW i \in 1..(n - 2) PROVE LineEnd(text, i) = LineEnd(part, i)
      OBVIOUS
    <2>1. part[i] = text[i] /\ part[i + 1] = text[i + 1] /\ part[i + 2] = text[i + 2]
          /\ i + 2 <= n /\ i + 2 <= Len(text)
      BY <1>1
    <2> QED  BY <1>1, <2>1 DEF LineEnd
  <1>4. PICK i \in Deciding(part) :
          /\ \A k \in Deciding(part) : i <= k
          /\ Wire!RequestLen(part) = IF Wire!IsAllowed(part[i]) THEN LineEnd(part, i) ELSE -1
    BY <1>1, FirstDecides DEF part
  <1>5. i \in 1..(n - 1) /\ i \in 1..(Len(text) - 1) /\ part[i] = text[i]
    BY <1>1 DEF Deciding
  <1>6. i \in Deciding(text)
    BY <1>2, <1>4, <1>5 DEF Deciding
  <1>7. PICK j \in Deciding(text) :
          /\ \A k \in Deciding(text) : j <= k
          /\ Wire!RequestLen(text) = IF Wire!IsAllowed(text[j]) THEN LineEnd(text, j) ELSE -1
    BY <1>1, <1>6, FirstDecides
  <1>8. i = j
    <2>1. j \in 1..(Len(text) - 1) /\ j <= i
      BY <1>6, <1>7 DEF Deciding
    <2> SUFFICES ASSUME j < i PROVE FALSE
      BY <1>5, <2>1
    <2>2. j \in 1..(n - 2) /\ j \in 1..n /\ j \in 1..(n - 1)
      BY <1>1, <1>5, <2>1
    <2>3. j \in Deciding(part)
      BY <1>1, <1>3, <1>7, <2>2 DEF Deciding
    <2> QED  BY <1>4, <1>5, <2>1, <2>3
  <1>9. Wire!IsAllowed(text[i]) => LineEnd(text, i) = LineEnd(part, i)
    BY <1>2, <1>4, <1>5 DEF Deciding
  <1>10. Wire!RequestLen(text) = Wire!RequestLen(part)
    BY <1>4, <1>5, <1>7, <1>8, <1>9
  <1> QED  BY <1>10 DEF part

\* The same for the last byte.
THEOREM ReadsInParts ==
  ASSUME NEW S, NEW text \in Seq(S)
  PROVE  Wire!ReadInParts(text)
  <1> SUFFICES ASSUME text # <<>>, Wire!RequestLen(Wire!Front(text)) # 0
               PROVE  Wire!RequestLen(text) = Wire!RequestLen(Wire!Front(text))
    BY DEF Wire!ReadInParts
  <1>1. Len(text) - 1 \in 0..Len(text)
    OBVIOUS
  <1>2. Wire!Front(text) = SubSeq(text, 1, Len(text) - 1)
    BY DEF Wire!Front
  <1> QED  BY <1>1, <1>2, RequestEndsOnce

-----------------------------------------------------------------------------
(***************************************************************************)
(* The Range header and the replies.                                       *)
(***************************************************************************)

\* The position of a character is that of its first occurrence.
LEMMA PositionIs ==
  ASSUME NEW S, NEW text \in Seq(S), NEW c
  PROVE  LET p == Requests!Position(text, c)
         IN  \/ p = 0 /\ \A i \in 1..Len(text) : text[i] # c
             \/ p \in 1..Len(text) /\ text[p] = c
  <1> DEFINE I == {i \in 1..Len(text) : text[i] = c}
             p == Requests!Position(text, c)
  <1>1. p = IF I # {} THEN Requests!Min(I) ELSE 0
    BY Zenon DEF Requests!Position, Requests!SelectInSeq
  <1>2. I # {} => Requests!Min(I) \in I
    <2>1. I \in SUBSET Nat
      OBVIOUS
    <2> HIDE DEF I
    <2> QED  BY <2>1, LeastExists, Zenon DEF Requests!Min
  <1>3. I # {} => p \in I
    <2> HIDE DEF I, p
    <2> QED  BY <1>1, <1>2
  <1>4. I = {} => p = 0
    <2> HIDE DEF I, p
    <2> QED  BY <1>1
  <1> HIDE DEF p
  <1>5. \/ p = 0 /\ \A i \in 1..Len(text) : text[i] # c
        \/ p \in 1..Len(text) /\ text[p] = c
    BY <1>3, <1>4
  <1> QED  BY <1>5 DEF p

\* A bound with an '=' in it is none.
LEMMA EqualsIsBad ==
  ASSUME NEW S, NEW text \in Seq(S), NEW i \in 1..Len(text), text[i] = "="
  PROVE  Requests!Cast(text) = Requests!Bad
  <1>1. "=" \notin DOMAIN Requests!DigitOf
    BY DEF Requests!DigitOf
  <1>2. text \notin {<<>>, <<"*">>}
    OBVIOUS
  <1>3. ~Requests!IsNumber(text)
    BY <1>1 DEF Requests!IsNumber
  <1>4. ASSUME text[1] \in {"-", "+"} PROVE ~Requests!IsNumber(Tail(text))
    <2>1. i # 1
      BY <1>4
    <2>2. Tail(text) \in Seq(S) /\ i - 1 \in DOMAIN Tail(text) /\ Tail(text)[i - 1] = text[i]
      BY <2>1
    <2>3. Tail(text)[i - 1] = "="
      BY <2>2
    <2> QED  BY <1>1, <2>2, <2>3, Zenon DEF Requests!IsNumber
  <1> QED  BY <1>2, <1>3, <1>4, Zenon DEF Requests!Cast

\* A part with an '=' in it is refused.
LEMMA EqualsIsRefused ==
  ASSUME NEW S, NEW value \in Seq(S), NEW first \in Nat \ {0}, first <= Len(value) + 1,
         NEW i \in first..Len(value), value[i] = "="
  PROVE  Requests!Part(value, first, Len(value)).outcome = "refused"
  <1> DEFINE n == Len(value)
             text == SubSeq(value, first, n)
             dash == Requests!Position(text, "-")
             ahead == SubSeq(text, 1, dash - 1)
             behind == SubSeq(text, dash + 1, Len(text))
             start == Requests!Cast(ahead)
             end == Requests!Cast(behind)
  <1>1. ~(n < first - 1)
    OBVIOUS
  <1>2. Requests!Part(value, first, n) =
          IF n < first - 1 THEN [outcome |-> "throws"]
          ELSE IF dash = 0 \/ start = Requests!Bad \/ end = Requests!Bad THEN [outcome |-> "refused"]
          ELSE [outcome |-> "taken", start |-> start, end |-> end]
    BY Zenon DEF Requests!Part
  <1> DEFINE k == i - first + 1
  <1>3. text \in Seq(S) /\ k \in 1..Len(text) /\ text[k] = "="
    OBVIOUS
  <1> HIDE DEF text, k
  <1>4. dash = 0 \/ (dash \in 1..Len(text) /\ text[dash] = "-")
    BY <1>3, PositionIs
  <1> HIDE DEF dash
  <1>5. CASE dash \in 1..Len(text) /\ text[dash] = "-"
    <2>1. k # dash
      BY <1>3, <1>5
    <2>2. CASE k < dash
      <3>1. ahead \in Seq(S) /\ k \in 1..Len(ahead) /\ ahead[k] = text[k]
        BY <1>3, <1>5, <2>2
      <3> HIDE DEF ahead
      <3> QED  BY <1>1, <1>2, <1>3, <3>1, EqualsIsBad
    <2>3. CASE k > dash
      <3>1. behind \in Seq(S) /\ k - dash \in 1..Len(behind) /\ behind[k - dash] = text[k]
        BY <1>3, <1>5, <2>3
      <3> HIDE DEF behind
      <3> QED  BY <1>1, <1>2, <1>3, <3>1, EqualsIsBad
    <2> QED  BY <1>3, <1>5, <2>1, <2>2, <2>3
  <1> QED  BY <1>1, <1>2, <1>4, <1>5

\* No header makes the copy of a part run off the value.
LEMMA NoHeaderThrows ==
  ASSUME NEW S, NEW value \in Seq(S)
  PROVE  Requests!Translate(value).outcome \in {"refused", "taken"}
  <1> DEFINE n == Len(value)
             equals == Requests!Position(value, "=")
             comma == Requests!Position(value, ",")
             second == IF comma = 0 THEN Requests!NoPart ELSE Requests!Part(value, comma + 1, n)
             first == Requests!Part(value, equals + 1, IF comma = 0 THEN n ELSE comma - 1)
             outcome == IF equals = 0 \/ (comma # 0 /\ comma = n) THEN "refused"
                        ELSE IF second.outcome \in {"refused", "throws"} THEN second.outcome
                        ELSE first.outcome
  <1>1. Requests!Translate(value) =
          IF outcome = "taken" THEN [outcome |-> outcome, first |-> first, second |-> second]
          ELSE [outcome |-> outcome]
    BY Zenon DEF Requests!Translate
  <1>2. Requests!Translate(value).outcome = outcome
    <2> HIDE DEF outcome, first, second
    <2> QED  BY <1>1
  <1>3. \A a, b : Requests!Part(value, a, b).outcome \in {"throws", "refused", "taken"}
                  /\ (Requests!Part(value, a, b).outcome = "throws" => b < a - 1)
    BY DEF Requests!Part
  <1>4. /\ equals = 0 \/ (equals \in 1..n /\ value[equals] = "=")
        /\ comma = 0 \/ (comma \in 1..n /\ value[comma] = ",")
    BY PositionIs
  <1> HIDE DEF equals, comma
  <1>5. n \in Nat
    OBVIOUS
  <1> SUFFICES ASSUME equals # 0, ~(comma # 0 /\ comma = n)
               PROVE  outcome \in {"refused", "taken"}
    BY <1>2
  <1>6. /\ equals \in 1..n /\ value[equals] = "="
        /\ comma # 0 => comma \in 1..n /\ comma # equals
    BY <1>4
  <1>7. CASE comma = 0
    <2>1. second.outcome = "absent"
      BY <1>7 DEF Requests!NoPart
    <2>2. first = Requests!Part(value, equals + 1, n)
      BY <1>7
    <2> HIDE DEF first, second, n
    <2>3. ~(n < (equals + 1) - 1)
      BY <1>5, <1>6
    <2>4. first.outcome \in {"refused", "taken"}
      BY ONLY <1>3, <2>2, <2>3
    <2> QED  BY <2>1, <2>4
  <1>8. CASE comma # 0 /\ equals < comma
    <2>1. second = Requests!Part(value, comma + 1, n)
      BY <1>8
    <2>2. first = Requests!Part(value, equals + 1, comma - 1)
      BY <1>8
    <2> HIDE DEF first, second, n
    <2>3. ~(n < (comma + 1) - 1) /\ ~(comma - 1 < (equals + 1) - 1)
      BY <1>5, <1>6, <1>8
    <2>4. first.outcome \in {"refused", "taken"} /\ second.outcome \in {"refused", "taken"}
      BY ONLY <1>3, <2>1, <2>2, <2>3
    <2> QED  BY <2>4
  <1>9. CASE comma # 0 /\ comma < equals
    <2>1. second = Requests!Part(value, comma + 1, n)
      BY <1>9
    <2>2. comma + 1 \in Nat \ {0} /\ comma + 1 <= n + 1 /\ equals \in (comma + 1)..n
      <3> HIDE DEF n
      <3> QED  BY <1>5, <1>6, <1>9
    <2>3. Requests!Part(value, comma + 1, n).outcome = "refused"
      BY <1>6, <2>2, EqualsIsRefused
    <2> HIDE DEF first, second
    <2> QED  BY <2>1, <2>3
  <1> HIDE DEF n, outcome
  <1>10. comma # 0 => equals < comma \/ comma < equals
    BY <1>5, <1>6
  <1> QED  BY <1>7, <1>8, <1>9, <1>10

\* The first handler that throws, of those that are due: what SelectInSeq gives.
LEMMA FirstThrower ==
  ASSUME NEW due, Len(due) \in Nat, NEW throwing
  PROVE  LET I == {i \in 1..Len(due) : due[i] \in throwing}
             thrower == IF I # {} THEN Requests!Min(I) ELSE 0
         IN  \/ thrower = 0 /\ \A i \in 1..Len(due) : due[i] \notin throwing
             \/ /\ thrower \in 1..Len(due) /\ due[thrower] \in throwing
                /\ \A i \in 1..(thrower - 1) : due[i] \notin throwing
  <1> DEFINE I == {i \in 1..Len(due) : due[i] \in throwing}
             thrower == IF I # {} THEN Requests!Min(I) ELSE 0
  <1>1. I # {} => Requests!Min(I) \in I /\ \A i \in I : Requests!Min(I) <= i
    <2>1. I \in SUBSET Nat
      OBVIOUS
    <2> HIDE DEF I
    <2> QED  BY <2>1, LeastExists, Zenon DEF Requests!Min
  <1>2. I # {} => thrower \in I /\ \A i \in I : thrower <= i
    <2> HIDE DEF I
    <2> QED  BY <1>1
  <1>3. I = {} => thrower = 0
    <2> HIDE DEF I
    <2> QED  OBVIOUS
  <1> HIDE DEF thrower
  <1>4. \/ thrower = 0 /\ \A i \in 1..Len(due) : due[i] \notin throwing
        \/ /\ thrower \in 1..Len(due) /\ due[thrower] \in throwing
           /\ \A i \in 1..(thrower - 1) : due[i] \notin throwing
    BY <1>2, <1>3
  <1> QED  BY <1>4 DEF thrower

\* The first of a sequence, or all of it when it is short, is what SubSeq leaves of it.
LEMMA FirstOnes ==
  ASSUME NEW S, NEW s \in Seq(S), Len(s) \in {1, 2}
  PROVE  SubSeq(s, 1, 1) = <<s[1]>> /\ SubSeq(s, 1, Len(s)) = s
  <1> DEFINE t == SubSeq(s, 1, 1)
  <1>1. Len(s) \in Nat /\ 1 \in 1..Len(s)
    OBVIOUS
  <1>2. t \in Seq(S)
    BY <1>1
  <1>3. Len(t) = 1
    BY <1>1
  <1>4. t[1] = s[1]
    BY <1>1
  <1>5. s[1] \in S
    BY <1>1
  <1> HIDE DEF t
  <1>6. t = <<s[1]>>
    BY ONLY <1>2, <1>3, <1>4, <1>5
  <1>7. SubSeq(s, 1, Len(s)) = s
    OBVIOUS
  <1> QED  BY <1>6, <1>7 DEF t

\* The handlers that are due for a request, whatever its Range header is, and those of them
\* that are called: up to the first one that throws (dispatch_http_message).
LEMMA HandlersCalled ==
  ASSUME NEW q, q.method \in {"GET", "HEAD", "POST", "OPTIONS"}, q.version \in {"1.0", "1.1"},
         q.range.outcome \in {"refused", "taken", "absent"},
         q.range = Requests!NoRange => q.range.outcome = "absent",
         NEW throwing \in SUBSET Requests!Senders
  PROVE  LET taken == q.method = "GET" /\ q.version = "1.1" /\ q.range.outcome = "taken"
             d == Requests!Dispatch(q, throwing)
         IN  /\ q.method = "HEAD" => d.served /\ d.handlers = <<"on_head_request">>
             /\ q.method = "OPTIONS" => d.served /\ d.handlers = <<>>
             /\ q.method \notin {"HEAD", "OPTIONS"} /\ ~taken =>
                  /\ d.served <=> "on_content_request" \notin throwing
                  /\ d.handlers = <<"on_content_request">>
             /\ taken =>
                  /\ d.served <=> throwing = {}
                  /\ d.handlers = IF "on_partial_content_request" \in throwing
                                    THEN <<"on_partial_content_request">>
                                    ELSE <<"on_partial_content_request", "on_content_request">>
  <1> DEFINE taken == q.method = "GET" /\ q.version = "1.1" /\ q.range.outcome = "taken"
             outcome == IF Requests!IsRange(q) THEN q.range.outcome ELSE "absent"
             called(condition, handler) == IF condition THEN <<handler>> ELSE <<>>
             due == called(outcome = "taken", "on_partial_content_request")
                      \o called(Requests!IsHead(q), "on_head_request")
                      \o called(Requests!IsContent(q), "on_content_request")
             I == {i \in 1..Len(due) : due[i] \in throwing}
             thrower == IF I # {} THEN Requests!Min(I) ELSE 0
             d == Requests!Dispatch(q, throwing)
  <1>1. outcome # "throws" /\ (outcome = "taken" <=> taken)
    BY Zenon DEF Requests!IsRange
  <1>2. d = IF outcome = "throws" THEN [served |-> FALSE, handlers |-> <<>>]
            ELSE IF thrower = 0 THEN [served |-> TRUE, handlers |-> due]
            ELSE [served |-> FALSE, handlers |-> SubSeq(due, 1, thrower)]
    BY Zenon DEF Requests!Dispatch, Requests!SelectInSeq
  <1>3. due = IF q.method = "HEAD" THEN <<"on_head_request">>
              ELSE IF q.method = "OPTIONS" THEN <<>>
              ELSE IF taken THEN <<"on_partial_content_request", "on_content_request">>
              ELSE <<"on_content_request">>
    <2>1. Requests!IsHead(q) <=> q.method = "HEAD"
      BY DEF Requests!IsHead
    <2>2. Requests!IsContent(q) <=> q.method \in {"GET", "POST"}
      BY DEF Requests!IsContent
    <2>3. due = called(taken, "on_partial_content_request")
                  \o called(q.method = "HEAD", "on_head_request")
                  \o called(q.method \in {"GET", "POST"}, "on_content_request")
      <3> HIDE DEF outcome, taken
      <3> QED  BY <1>1, <2>1, <2>2
    <2> HIDE DEF due
    <2> QED  BY <2>3
  <1> HIDE DEF outcome, due
  <1>4. \/ thrower = 0 /\ \A i \in 1..Len(due) : due[i] \notin throwing
        \/ /\ thrower \in 1..Len(due) /\ due[thrower] \in throwing
           /\ \A i \in 1..(thrower - 1) : due[i] \notin throwing
    <2>1. Len(due) \in Nat
      BY <1>3
    <2> QED  BY <2>1, FirstThrower, Zenon
  <1> HIDE DEF thrower, d
  <1>5. /\ thrower = 0 => d.served /\ d.handlers = due
        /\ thrower # 0 => ~d.served /\ d.handlers = SubSeq(due, 1, thrower)
    BY ONLY <1>1, <1>2
  <1>6. CASE q.method = "HEAD"
    <2>1. due = <<"on_head_request">> /\ "on_head_request" \notin throwing
      BY <1>3, <1>6 DEF Requests!Senders
    <2>2. thrower = 0
      BY <1>4, <2>1
    <2> QED  BY <1>5, <1>6, <2>1, <2>2 DEF d
  <1>7. CASE q.method = "OPTIONS"
    <2>1. due = <<>>
      BY <1>3, <1>7
    <2>2. thrower = 0
      BY <1>4, <2>1
    <2> QED  BY <1>5, <1>7, <2>1, <2>2 DEF d
  <1>8. CASE q.method \notin {"HEAD", "OPTIONS"} /\ ~taken
    <2>1. due = <<"on_content_request">>
      BY <1>3, <1>8
    <2>2. \/ "on_content_request" \in throwing /\ thrower = 1 /\ thrower # 0
          \/ "on_content_request" \notin throwing /\ thrower = 0
      BY <1>4, <2>1
    <2>3. SubSeq(due, 1, 1) = <<"on_content_request">>
      <3>1. due \in Seq(Requests!Senders) /\ Len(due) = 1 /\ due[1] = "on_content_request"
        BY <2>1 DEF Requests!Senders
      <3> QED  BY <3>1, FirstOnes
    <2>4. (d.served <=> "on_content_request" \notin throwing)
          /\ d.handlers = <<"on_content_request">>
      BY ONLY <1>5, <2>1, <2>2, <2>3, Zenon
    <2> QED  BY <1>8, <2>4 DEF d
  <1>9. CASE taken
    <2>1. due = <<"on_partial_content_request", "on_content_request">>
      BY <1>3, <1>9
    <2>2. SubSeq(due, 1, 1) = <<"on_partial_content_request">> /\ SubSeq(due, 1, 2) = due
      <3>1. due \in Seq(Requests!Senders) /\ Len(due) = 2
            /\ due[1] = "on_partial_content_request"
        BY <2>1 DEF Requests!Senders
      <3> QED  BY <3>1, FirstOnes
    <2>3. CASE "on_partial_content_request" \in throwing
      <3>1. thrower = 1
        BY <1>4, <2>1, <2>3
      <3>2. ~d.served /\ d.handlers = <<"on_partial_content_request">>
        <4>1. thrower # 0
          BY <3>1
        <4> QED  BY ONLY <1>5, <2>2, <3>1, <4>1, Zenon
      <3> QED  BY <1>9, <2>3, <3>2 DEF d
    <2>4. CASE "on_partial_content_request" \notin throwing /\ "on_content_request" \in throwing
      <3>1. thrower = 2
        BY <1>4, <2>1, <2>4
      <3> QED  BY <1>5, <1>9, <2>1, <2>4, <2>2, <3>1 DEF d
    <2>5. CASE "on_partial_content_request" \notin throwing /\ "on_content_request" \notin throwing
      <3>1. thrower = 0
        BY <1>4, <2>1, <2>5
      <3>2. throwing = {}
        BY <2>5 DEF Requests!Senders
      <3> QED  BY <1>5, <1>9, <2>1, <2>5, <3>1, <3>2 DEF d
    <2> QED  BY <2>3, <2>4, <2>5
  <1> QED  BY <1>6, <1>7, <1>8, <1>9 DEF d

\* Whichever handlers throw, a request gets the replies RepliesFor names and is served exactly
\* as none that is reached throws, for every Range header and every size of the file
\* (dispatch_http_message, http_translate_range_header).
THEOREM EveryRequestAnswered ==
  ASSUME NEW S, NEW value \in Seq(S), NEW size \in Nat
  PROVE  Requests!RepliesFor(value, size)
  <1> DEFINE whole == [status |-> 200, length |-> size, body |-> TRUE, start |-> 0, to |-> size]
             headers == [whole EXCEPT !.body = FALSE]
             taken(q) == q.method = "GET" /\ q.version = "1.1" /\ q.range.outcome = "taken"
             Q == [method : {"GET", "HEAD", "POST", "OPTIONS"}, version : {"1.0", "1.1"},
                   range : {Requests!Translate(value), Requests!NoRange}]
  <1> SUFFICES ASSUME NEW q \in Q, NEW throwing \in SUBSET Requests!Senders
               PROVE  LET replies == Requests!Replies(q, size, throwing)
                          served == Requests!Dispatch(q, throwing).served
                      IN  CASE q.method = "HEAD" -> served /\ replies = <<headers>>
                            [] q.method = "OPTIONS" -> served /\ replies = <<>>
                            [] taken(q) ->
                                 /\ served <=> throwing = {}
                                 /\ Len(replies) =
                                      IF "on_partial_content_request" \in throwing THEN 1 ELSE 2
                                 /\ replies[1].status = 206
                                 /\ Len(replies) = 2 => replies[2] = whole
                            [] OTHER ->
                                 /\ served <=> "on_content_request" \notin throwing
                                 /\ replies = <<whole>>
    BY Zenon DEF Requests!RepliesFor
  <1> DEFINE served == Requests!Dispatch(q, throwing).served
             handlers == Requests!Dispatch(q, throwing).handlers
             replies == Requests!Replies(q, size, throwing)
             partial == Requests!PartialReply(q.range.first, size)
             reply(handler) ==
               CASE handler = "on_partial_content_request" -> partial
                 [] handler = "on_head_request" -> Requests!HeadReply(size)
                 [] handler = "on_content_request" -> Requests!ContentReply(size)
  <1>1. /\ q.method \in {"GET", "HEAD", "POST", "OPTIONS"} /\ q.version \in {"1.0", "1.1"}
        /\ q.range \in {Requests!Translate(value), Requests!NoRange}
    OBVIOUS
  <1>2. q.range.outcome \in {"refused", "taken", "absent"}
        /\ (q.range = Requests!NoRange => q.range.outcome = "absent")
    BY <1>1, NoHeaderThrows DEF Requests!NoRange
  <1>3. /\ q.method = "HEAD" => served /\ handlers = <<"on_head_request">>
        /\ q.method = "OPTIONS" => served /\ handlers = <<>>
        /\ q.method \notin {"HEAD", "OPTIONS"} /\ ~taken(q) =>
             /\ served <=> "on_content_request" \notin throwing
             /\ handlers = <<"on_content_request">>
        /\ taken(q) =>
             /\ served <=> throwing = {}
             /\ handlers = IF "on_partial_content_request" \in throwing
                             THEN <<"on_partial_content_request">>
                             ELSE <<"on_partial_content_request", "on_content_request">>
    <2> HIDE DEF Q
    <2> QED  BY <1>1, <1>2, HandlersCalled
  <1>4. replies = [i \in DOMAIN handlers |-> reply(handlers[i])]
    BY Zenon DEF Requests!Replies
  <1>5. /\ reply("on_partial_content_request") = partial
        /\ reply("on_head_request") = headers
        /\ reply("on_content_request") = whole
    <2>1. reply("on_partial_content_request") = partial
      OBVIOUS
    <2>2. reply("on_head_request") = Requests!HeadReply(size)
      OBVIOUS
    <2>3. reply("on_content_request") = Requests!ContentReply(size)
      OBVIOUS
    <2> HIDE DEF reply, partial
    <2> QED  BY <2>1, <2>2, <2>3 DEF Requests!HeadReply, Requests!ContentReply
  <1>6. partial.status = 206
    BY DEF Requests!PartialReply
  <1> HIDE DEF served, handlers, reply, partial, replies, whole, headers
  <1>7. CASE q.method = "HEAD"
    <2>1. handlers = <<"on_head_request">>
      BY <1>3, <1>7
    <2>2. replies = <<headers>>
      BY <1>4, <1>5, <2>1
    <2> QED  BY <1>3, <1>7, <2>2 DEF served, replies
  <1>8. CASE q.method = "OPTIONS"
    <2>1. handlers = <<>>
      BY <1>3, <1>8
    <2>2. replies = <<>>
      BY <1>4, <2>1
    <2> QED  BY <1>3, <1>8, <2>2 DEF served, replies
  <1>9. CASE taken(q)
    <2>1. CASE "on_partial_content_request" \in throwing
      <3>1. handlers = <<"on_partial_content_request">>
        BY <1>3, <1>9, <2>1
      <3>2. replies = <<partial>>
        BY <1>4, <1>5, <3>1
      <3>3. Len(replies) = 1 /\ replies[1].status = 206
        BY <1>6, <3>2
      <3> QED  BY <1>3, <1>9, <2>1, <3>3 DEF served, replies
    <2>2. CASE "on_partial_content_request" \notin throwing
      <3>1. handlers = <<"on_partial_content_request", "on_content_request">>
        BY <1>3, <1>9, <2>2
      <3>2. replies = <<partial, whole>>
        BY <1>4, <1>5, <3>1
      <3>3. Len(replies) = 2 /\ replies[1].status = 206 /\ replies[2] = whole
        BY <1>6, <3>2
      <3> QED  BY <1>3, <1>9, <2>2, <3>3 DEF served, replies
    <2> QED  BY <2>1, <2>2
  <1>10. CASE q.method \notin {"HEAD", "OPTIONS"} /\ ~taken(q)
    <2>1. handlers = <<"on_content_request">>
      BY <1>3, <1>10
    <2>2. replies = <<whole>>
      BY <1>4, <1>5, <2>1
    <2> QED  BY <1>3, <1>10, <2>2 DEF served, replies
  <1> QED  BY <1>7, <1>8, <1>9, <1>10

\* A range inside the file is answered with the bytes it names, and the figures of the reply
\* are those of the range, but for the one byte too many of an open range that does not begin
\* at 0 (on_partial_content_request, partial_content_reply.cpp).
THEOREM RangeFigures ==
  ASSUME NEW part, part.start \in Int, part.end \in Int, NEW size \in Nat
  PROVE  Requests!PartFigures(part, size)
  <1> DEFINE open == part.end = Requests!All
             first == IF part.start = Requests!All THEN 0 ELSE part.start
             last == IF open THEN size - 1 ELSE part.end
             extra == IF open /\ first > 0 THEN 1 ELSE 0
             to == IF open THEN size ELSE part.end
             asked == to - first + 1
  <1> SUFFICES ASSUME 0 <= first, first <= last, last < size
               PROVE  Requests!PartialReply(part, size) =
                        [status |-> 206, first |-> first, last |-> last,
                         length |-> last - first + 1 + extra, body |-> TRUE, start |-> first,
                         to |-> IF open THEN last + 1 ELSE last]
    BY Zenon DEF Requests!PartFigures
  <1>1. Requests!PartialReply(part, size) =
          [status |-> 206, first |-> first, last |-> IF to = size THEN to - 1 ELSE to,
           length |-> IF asked > size THEN size ELSE asked, body |-> TRUE, start |-> first,
           to |-> to]
    <2>1. Requests!Bounds(part, size) = [start |-> first, to |-> to]
      BY Zenon DEF Requests!Bounds
    <2> DEFINE b == Requests!Bounds(part, size)
    <2>2. b.start = first /\ b.to = to
      <3> HIDE DEF first, to
      <3> QED  BY <2>1
    <2>3. Requests!PartialReply(part, size) =
            [status |-> 206, first |-> b.start, last |-> IF b.to = size THEN b.to - 1 ELSE b.to,
             length |-> IF b.to - b.start + 1 > size THEN size ELSE b.to - b.start + 1,
             body |-> TRUE, start |-> b.start, to |-> b.to]
      BY Zenon DEF Requests!PartialReply
    <2> HIDE DEF b, first, to
    <2> QED  BY ONLY <2>2, <2>3
  <1>2. /\ (IF to = size THEN to - 1 ELSE to) = last
        /\ (IF asked > size THEN size ELSE asked) = last - first + 1 + extra
        /\ to = IF open THEN last + 1 ELSE last
    <2>1. CASE open
      <3>1. to = size /\ last = size - 1 /\ extra = IF first > 0 THEN 1 ELSE 0
        BY <2>1
      <3>2. first \in Nat
        <4>1. first \in Int
          OBVIOUS
        <4> HIDE DEF first
        <4> QED  BY <4>1
      <3> HIDE DEF first, last, to, extra, open
      <3> QED  BY <2>1, <3>1, <3>2
    <2>2. CASE ~open
      <3>1. to = last /\ extra = 0 /\ last \in Int /\ first \in Int
        BY <2>2
      <3> HIDE DEF first, last, to, extra, open
      <3> QED  BY <2>2, <3>1
    <2> QED  BY <2>1, <2>2
  <1> DEFINE reply(l, n, t) == [status |-> 206, first |-> first, last |-> l, length |-> n,
                                body |-> TRUE, start |-> first, to |-> t]
  <1>3. reply(IF to = size THEN to - 1 ELSE to, IF asked > size THEN size ELSE asked, to)
          = reply(last, last - first + 1 + extra, IF open THEN last + 1 ELSE last)
    <2> HIDE DEF first, last, to, asked, extra, open, reply
    <2> QED  BY ONLY <1>2, Zenon
  <1>4. Requests!PartialReply(part, size)
          = reply(last, last - first + 1 + extra, IF open THEN last + 1 ELSE last)
    <2>1. Requests!PartialReply(part, size)
            = reply(IF to = size THEN to - 1 ELSE to, IF asked > size THEN size ELSE asked, to)
      BY ONLY <1>1
    <2> HIDE DEF first, last, to, asked, extra, open, reply
    <2> QED  BY ONLY <1>3, <2>1, Zenon
  <1> QED  BY ONLY <1>4

\* The number a text of digits stands for is a natural number.
LEMMA NumberTyped ==
  ASSUME NEW S, NEW text \in Seq(S), Requests!IsNumber(text)
  PROVE  Requests!NumberOf(text) \in Nat
  <1> DEFINE m == Len(text)
             UpTo(f) == [n \in 0..m |-> IF n = 0 THEN 0 ELSE f[n - 1] * 10 + Requests!DigitOf[text[n]]]
             digit == [n \in 1..m |-> Requests!DigitOf[text[n]]]
             step == [n \in 1..m |-> [x \in Nat |-> x * 10 + digit[n]]]
  <1>1. m \in Nat /\ DOMAIN text = 1..m
    OBVIOUS
  <1>2. \A c \in DOMAIN Requests!DigitOf : Requests!DigitOf[c] \in Nat
    BY DEF Requests!DigitOf
  <1>3. digit \in [1..m -> Nat]
    BY <1>1, <1>2 DEF Requests!IsNumber
  <1>4. \A n \in 1..m : Requests!DigitOf[text[n]] = digit[n]
    OBVIOUS
  <1>5. Requests!NumberOf(text) = (CHOOSE f : f = UpTo(f))[m]
    BY Zenon DEF Requests!NumberOf
  <1> HIDE DEF m, digit
  <1>6. step \in [1..m -> [Nat -> Nat]] /\ \A x \in Nat, n \in 1..m : step[n][x] = x * 10 + digit[n]
    BY <1>1, <1>3
  <1> HIDE DEF step
  <1>7. PICK f \in [0..m -> Nat] : f[0] = 0 /\ \A n \in 1..m : f[n] = step[n][f[n - 1]]
    <2>1. m \in Nat /\ 0 \in Nat /\ step \in [1..m -> [Nat -> Nat]]
      BY <1>1, <1>6
    <2>2. Iterates(Nat, 0, m, step)
      BY ONLY <2>1, RecursionExists
    <2> QED  BY ONLY <2>2 DEF Iterates
  <1>8. \A n \in 0..m : n # 0 => n \in 1..m /\ n - 1 \in 0..m
    BY <1>1
  <1>9. \A n \in 0..m : f[n] = IF n = 0 THEN 0 ELSE f[n - 1] * 10 + Requests!DigitOf[text[n]]
    <2> HIDE DEF UpTo
    <2> SUFFICES ASSUME NEW n \in 0..m, n # 0
                 PROVE  f[n] = f[n - 1] * 10 + Requests!DigitOf[text[n]]
      BY <1>7
    <2>1. n \in 1..m /\ f[n - 1] \in Nat /\ f[n] = step[n][f[n - 1]]
      BY <1>7, <1>8
    <2>2. step[n][f[n - 1]] = f[n - 1] * 10 + digit[n]
      BY ONLY <1>6, <2>1
    <2> QED  BY ONLY <1>4, <2>1, <2>2
  <1>10. f = UpTo(f)
    BY <1>7, <1>9
  <1> DEFINE g == CHOOSE h : h = UpTo(h)
  <1>11. g = UpTo(g)
    <2> HIDE DEF UpTo
    <2> QED  BY <1>10
  <1> HIDE DEF g
  <1>12. \A n \in 0..m : g[n] = IF n = 0 THEN 0 ELSE g[n - 1] * 10 + Requests!DigitOf[text[n]]
    <2> DEFINE v(n) == IF n = 0 THEN 0 ELSE g[n - 1] * 10 + Requests!DigitOf[text[n]]
    <2>1. g = [n \in 0..m |-> v(n)]
      BY <1>11
    <2> HIDE DEF v
    <2>2. \A n \in 0..m : g[n] = v(n)
      BY <2>1, Zenon
    <2> QED  BY <2>2 DEF v
  <1>13. \A n \in 0..m : g[n] \in Nat
    <2> DEFINE done == {n \in 0..m : g[n] \in Nat}
    <2>1. 0 \in done
      BY <1>1, <1>12
    <2>2. ASSUME NEW n \in 0..(m - 1), n \in done PROVE n + 1 \in done
      <3>1. n + 1 \in 1..m /\ n + 1 \in 0..m /\ n + 1 # 0 /\ (n + 1) - 1 = n
        BY <1>1
      <3>2. g[n + 1] = g[n] * 10 + digit[n + 1] /\ digit[n + 1] \in Nat
        BY <1>3, <1>4, <1>12, <3>1
      <3> QED  BY <2>2, <3>1, <3>2
    <2> HIDE DEF done
    <2>3. \A n \in 0..m : n \in done
      BY <1>1, <2>1, <2>2, RangeInduction
    <2> QED  BY <2>3 DEF done
  <1>14. g[m] \in Nat
    BY <1>1, <1>13
  <1> QED  BY <1>5, <1>14 DEF g

\* Every bound of a range is a number.
LEMMA BoundTyped ==
  ASSUME NEW S, NEW text \in Seq(S)
  PROVE  Requests!Cast(text) \in Int
  <1>1. Requests!All \in Int /\ Requests!Bad \in Int
    BY DEF Requests!All, Requests!Bad
  <1>2. CASE text \in {<<>>, <<"*">>}
    BY <1>1, <1>2 DEF Requests!Cast
  <1>3. CASE text \notin {<<>>, <<"*">>} /\ Requests!IsNumber(text)
    BY <1>3, NumberTyped DEF Requests!Cast
  <1>4. CASE text \notin {<<>>, <<"*">>} /\ ~Requests!IsNumber(text)
    <2>1. Tail(text) \in Seq(S)
      BY <1>4
    <2> DEFINE sign == IF text[1] = "-" THEN -1 ELSE 1
               value == Requests!NumberOf(Tail(text))
    <2>2. Requests!Cast(text) =
            IF text[1] \in {"-", "+"} /\ Requests!IsNumber(Tail(text))
              THEN sign * value ELSE Requests!Bad
      BY <1>4, Zenon DEF Requests!Cast
    <2>3. Requests!IsNumber(Tail(text)) => value \in Nat
      BY <2>1, NumberTyped
    <2>4. sign \in {-1, 1}
      OBVIOUS
    <2> HIDE DEF sign, value
    <2>5. Requests!IsNumber(Tail(text)) => sign * value \in Int
      BY <2>3, <2>4
    <2> QED  BY <1>1, <2>2, <2>5
  <1> QED  BY <1>2, <1>3, <1>4

\* Whatever the Range header is, the first range that is taken from it is answered with its
\* own bytes and figures if it lies inside the file.
THEOREM FiguresAlwaysAgree ==
  ASSUME NEW S, NEW value \in Seq(S), NEW size \in Nat
  PROVE  Requests!FiguresAgree(value, size)
  <1> DEFINE t == Requests!Translate(value)
             equals == Requests!Position(value, "=")
             comma == Requests!Position(value, ",")
             n == IF comma = 0 THEN Len(value) ELSE comma - 1
             first == Requests!Part(value, equals + 1, n)
  <1> SUFFICES ASSUME t.outcome = "taken" PROVE Requests!PartFigures(t.first, size)
    BY DEF Requests!FiguresAgree
  <1>1. t.first = first /\ first.outcome = "taken"
    <2> DEFINE second == IF comma = 0 THEN Requests!NoPart ELSE Requests!Part(value, comma + 1, Len(value))
               outcome == IF equals = 0 \/ (comma # 0 /\ comma = Len(value)) THEN "refused"
                          ELSE IF second.outcome \in {"refused", "throws"} THEN second.outcome
                          ELSE first.outcome
    <2>1. t = IF outcome = "taken" THEN [outcome |-> outcome, first |-> first, second |-> second]
              ELSE [outcome |-> outcome]
      BY Zenon DEF Requests!Translate
    <2> HIDE DEF t, first, second
    <2> QED  BY <2>1
  <1>2. equals \in 0..Len(value) /\ comma \in 0..Len(value)
    <2>1. /\ equals = 0 \/ equals \in 1..Len(value)
          /\ comma = 0 \/ comma \in 1..Len(value)
      BY PositionIs
    <2> HIDE DEF equals, comma
    <2> QED  BY <2>1
  <1>3. equals + 1 \in 1..(Len(value) + 1) /\ n \in -1..Len(value)
    <2> HIDE DEF equals, comma
    <2> QED  BY <1>2
  <1> DEFINE text == SubSeq(value, equals + 1, n)
             dash == Requests!Position(text, "-")
             ahead == SubSeq(text, 1, dash - 1)
             behind == SubSeq(text, dash + 1, Len(text))
  <1>4. first = IF n < (equals + 1) - 1 THEN [outcome |-> "throws"]
                ELSE IF dash = 0 \/ Requests!Cast(ahead) = Requests!Bad \/ Requests!Cast(behind) = Requests!Bad
                THEN [outcome |-> "refused"]
                ELSE [outcome |-> "taken", start |-> Requests!Cast(ahead), end |-> Requests!Cast(behind)]
    BY Zenon DEF Requests!Part
  <1> HIDE DEF n, equals
  <1>5. text \in Seq(S)
    BY <1>3
  <1> HIDE DEF text
  <1>6. dash \in 0..Len(text)
    BY <1>5, PositionIs
  <1> HIDE DEF dash
  <1>7. ahead \in Seq(S) /\ behind \in Seq(S)
    BY <1>5, <1>6
  <1> HIDE DEF ahead, behind, first, t
  <1>8. first.start = Requests!Cast(ahead) /\ first.end = Requests!Cast(behind)
    BY <1>1, <1>4
  <1>9. first.start \in Int /\ first.end \in Int
    BY <1>7, <1>8, BoundTyped
  <1> QED  BY <1>1, <1>9, RangeFigures

-----------------------------------------------------------------------------
(***************************************************************************)
(* The console of full_model.cpp: its texts, what one line does, what one  *)
(* event does, and what holds of every history.                            *)
(***************************************************************************)

\* The position of a character, if there is one.
LEMMA PositionIn ==
  ASSUME NEW S, NEW text \in Seq(S), NEW c
  PROVE  /\ Requests!Position(text, c) \in 0..Len(text)
         /\ Requests!Position(text, c) = 0 => \A i \in 1..Len(text) : text[i] # c
         /\ Requests!Position(text, c) # 0 => text[Requests!Position(text, c)] = c
  BY PositionIs

\* The console reads the numbers of a line as the Range header's are read.
LEMMA SameText ==
  ASSUME NEW t, NEW c
  PROVE  /\ Console!Text!Position(t, c) = Requests!Position(t, c)
         /\ Console!Text!NumberOf(t) = Requests!NumberOf(t)
         /\ Console!Text!IsNumber(t) <=> Requests!IsNumber(t)
  <1>1. Console!Text!Position(t, c) = Requests!Position(t, c)
    BY Zenon DEF Console!Text!Position, Requests!Position, Console!Text!SelectInSeq,
                 Requests!SelectInSeq, Console!Text!Min, Requests!Min
  <1>2. Console!Text!NumberOf(t) = Requests!NumberOf(t)
    BY Zenon DEF Console!Text!NumberOf, Requests!NumberOf, Console!Text!DigitOf, Requests!DigitOf
  <1>3. Console!Text!IsNumber(t) <=> Requests!IsNumber(t)
    BY Zenon DEF Console!Text!IsNumber, Requests!IsNumber, Console!Text!DigitOf, Requests!DigitOf
  <1> QED  BY <1>1, <1>2, <1>3

\* What a text is read as.
LEMMA PairIs ==
  ASSUME NEW text
  PROVE  LET comma == Requests!Position(text, ",")
             first == IF comma = 0 THEN text ELSE SubSeq(text, 1, comma - 1)
             second == SubSeq(text, comma + 1, Len(text))
         IN  Console!GetFromString(text) =
               IF Requests!IsNumber(first) /\ Requests!IsNumber(second)
                 THEN [state |-> TRUE, torrent |-> Requests!NumberOf(first),
                       file |-> Requests!NumberOf(second)]
                 ELSE [state |-> FALSE]
  <1> DEFINE comma == Requests!Position(text, ",")
             first == IF comma = 0 THEN text ELSE SubSeq(text, 1, comma - 1)
             second == SubSeq(text, comma + 1, Len(text))
             oldComma == Console!Text!Position(text, ",")
             oldFirst == IF oldComma = 0 THEN text ELSE SubSeq(text, 1, oldComma - 1)
             oldSecond == SubSeq(text, oldComma + 1, Len(text))
  <1>1. Console!GetFromString(text) =
               IF Console!Text!IsNumber(oldFirst) /\ Console!Text!IsNumber(oldSecond)
                 THEN [state |-> TRUE, torrent |-> Console!Text!NumberOf(oldFirst),
                       file |-> Console!Text!NumberOf(oldSecond)]
                 ELSE [state |-> FALSE]
    BY Zenon DEF Console!GetFromString
  <1>2. oldComma = comma
    BY SameText
  <1>3. oldFirst = first /\ oldSecond = second
    <2> HIDE DEF comma, oldComma
    <2> QED  BY <1>2
  <1> HIDE DEF first, second, oldFirst, oldSecond
  <1>4. /\ Console!Text!IsNumber(first) <=> Requests!IsNumber(first)
        /\ Console!Text!IsNumber(second) <=> Requests!IsNumber(second)
        /\ Console!Text!NumberOf(first) = Requests!NumberOf(first)
        /\ Console!Text!NumberOf(second) = Requests!NumberOf(second)
    BY SameText, Zenon
  <1>5. Console!GetFromString(text) =
               IF Requests!IsNumber(first) /\ Requests!IsNumber(second)
                 THEN [state |-> TRUE, torrent |-> Requests!NumberOf(first),
                       file |-> Requests!NumberOf(second)]
                 ELSE [state |-> FALSE]
    BY ONLY <1>1, <1>3, <1>4
  <1> QED  BY <1>5 DEF first, second

LEMMA PairTyped ==
  ASSUME NEW S, NEW text \in Seq(S), Console!GetFromString(text).state
  PROVE  Console!GetFromString(text).torrent \in Nat /\ Console!GetFromString(text).file \in Nat
  <1> DEFINE comma == Requests!Position(text, ",")
             first == IF comma = 0 THEN text ELSE SubSeq(text, 1, comma - 1)
             second == SubSeq(text, comma + 1, Len(text))
             pair == Console!GetFromString(text)
  <1>1. pair = IF Requests!IsNumber(first) /\ Requests!IsNumber(second)
                 THEN [state |-> TRUE, torrent |-> Requests!NumberOf(first),
                       file |-> Requests!NumberOf(second)]
                 ELSE [state |-> FALSE]
    BY PairIs
  <1>2. comma \in 0..Len(text)
    BY PositionIn, Zenon
  <1>3. first \in Seq(S) /\ second \in Seq(S)
    <2> HIDE DEF comma
    <2>1. comma # 0 => SubSeq(text, 1, comma - 1) \in Seq(S)
      BY <1>2
    <2>2. SubSeq(text, comma + 1, Len(text)) \in Seq(S)
      BY <1>2
    <2> QED  BY <2>1, <2>2
  <1> HIDE DEF first, second
  <1>4. Requests!IsNumber(first) /\ Requests!IsNumber(second)
        /\ pair.torrent = Requests!NumberOf(first) /\ pair.file = Requests!NumberOf(second)
    <2> HIDE DEF pair
    <2> QED  BY <1>1 DEF pair
  <1> QED  BY <1>3, <1>4, NumberTyped

\* A part of one character.
LEMMA OneCharacter ==
  ASSUME NEW S, NEW text \in Seq(S), NEW i \in 1..Len(text)
  PROVE  SubSeq(text, i, i) = <<text[i]>>
  <1> DEFINE s == SubSeq(text, i, i)
             t == <<text[i]>>
  <1>1. s \in Seq(S) /\ Len(s) = 1 /\ s[1] = text[i]
    OBVIOUS
  <1>2. t \in Seq(S) /\ Len(t) = 1 /\ t[1] = text[i]
    OBVIOUS
  <1> HIDE DEF s, t
  <1>3. s = t
    BY <1>1, <1>2
  <1> QED  BY <1>3 DEF s, t


\* A comma is no digit, and no text with one is a number.
Comma == ","

LEMMA CommaIsNone ==
  ASSUME NEW S, NEW text \in Seq(S), NEW i \in 1..Len(text), text[i] = Comma
  PROVE  ~Requests!IsNumber(text)
  <1>1. Comma \notin DOMAIN Requests!DigitOf
    <2>1. DOMAIN Requests!DigitOf = {"0", "1", "2", "3"}
      BY DEF Requests!DigitOf
    <2> QED  BY <2>1, Zenon DEF Comma
  <1>2. i \in DOMAIN text
    OBVIOUS
  <1> QED  BY <1>1, <1>2, Zenon DEF Requests!IsNumber

\* Two numbers of one digit with a comma between them.
LEMMA PairWritten ==
  ASSUME NEW a \in {"1", "2"}, NEW b \in {"1", "2"}
  PROVE  Console!GetFromString(<<a, ",", b>>) =
           [state |-> TRUE, torrent |-> Requests!NumberOf(<<a>>), file |-> Requests!NumberOf(<<b>>)]
  <1> DEFINE text == <<a, Comma, b>>
             S == {a, Comma, b}
  <1>2. text \in Seq(S) /\ Len(text) = 3 /\ text[1] = a /\ text[2] = Comma /\ text[3] = b
    OBVIOUS
  <1>3. a # Comma /\ b # Comma
    BY Zenon DEF Comma
  <1> HIDE DEF text, S
  <1>4. Requests!Position(text, Comma) = 2
    BY <1>2, <1>3, PositionIs
  <1>5. SubSeq(text, 1, 2 - 1) = <<a>> /\ SubSeq(text, 2 + 1, Len(text)) = <<b>>
    <2>1. 1 \in 1..Len(text) /\ 3 \in 1..Len(text) /\ 2 - 1 = 1 /\ 2 + 1 = 3
      BY <1>2
    <2> QED  BY <1>2, <2>1, OneCharacter
  <1>6. Requests!IsNumber(<<a>>) /\ Requests!IsNumber(<<b>>)
    <2>1. "1" \in DOMAIN Requests!DigitOf /\ "2" \in DOMAIN Requests!DigitOf
      BY DEF Requests!DigitOf
    <2> QED  BY <2>1 DEF Requests!IsNumber
  <1> DEFINE comma == Requests!Position(text, Comma)
             first == IF comma = 0 THEN text ELSE SubSeq(text, 1, comma - 1)
             second == SubSeq(text, comma + 1, Len(text))
  <1>7. Console!GetFromString(text) =
          IF Requests!IsNumber(first) /\ Requests!IsNumber(second)
            THEN [state |-> TRUE, torrent |-> Requests!NumberOf(first),
                  file |-> Requests!NumberOf(second)]
            ELSE [state |-> FALSE]
    BY PairIs, Zenon DEF Comma
  <1>8. Console!GetFromString(text) =
           [state |-> TRUE, torrent |-> Requests!NumberOf(<<a>>), file |-> Requests!NumberOf(<<b>>)]
    <2>1. comma # 0 /\ first = <<a>> /\ second = <<b>>
      <3>1. comma = 2
        BY <1>4
      <3> HIDE DEF comma
      <3> QED  BY <1>5, <3>1
    <2> HIDE DEF first, second
    <2> QED  BY ONLY <1>6, <1>7, <2>1
  <1> QED  BY <1>8, Zenon DEF text, Comma

\* Every text of a start is read as PairsRead says (get_from_string_, full_model.cpp).
THEOREM PairsAlwaysRead ==
  ASSUME NEW S, NEW text \in Seq(S)
  PROVE  Console!PairsRead(text)
  <1> DEFINE pair == Console!GetFromString(text)
             comma == Requests!Position(text, Comma)
             first == IF comma = 0 THEN text ELSE SubSeq(text, 1, comma - 1)
             second == SubSeq(text, comma + 1, Len(text))
             one == Requests!IsNumber(text)
             parts(k) == /\ text[k] = Comma
                         /\ Requests!IsNumber(SubSeq(text, 1, k - 1))
                         /\ Requests!IsNumber(SubSeq(text, k + 1, Len(text)))
  <1>1. pair = IF Requests!IsNumber(first) /\ Requests!IsNumber(second)
                 THEN [state |-> TRUE, torrent |-> Requests!NumberOf(first),
                       file |-> Requests!NumberOf(second)]
                 ELSE [state |-> FALSE]
    BY PairIs, Zenon DEF Comma
  <1>2. \/ comma = 0 /\ \A i \in 1..Len(text) : text[i] # Comma
        \/ comma \in 1..Len(text) /\ text[comma] = Comma
    BY PositionIs
  <1>3. one => \A i \in 1..Len(text) : text[i] # Comma
    BY CommaIsNone
  <1>4. one => first = text /\ second = text
    <2> SUFFICES ASSUME one PROVE first = text /\ second = text
      OBVIOUS
    <2>1. comma = 0
      BY <1>2, <1>3
    <2>2. SubSeq(text, 0 + 1, Len(text)) = text
      OBVIOUS
    <2> HIDE DEF comma
    <2> QED  BY <2>1, <2>2
  <1>5. \A k \in 1..Len(text) : parts(k) => k = comma
    <2> SUFFICES ASSUME NEW k \in 1..Len(text), parts(k), k # comma PROVE FALSE
      OBVIOUS
    <2>1. comma \in 1..Len(text) /\ text[comma] = Comma
      BY <1>2
    <2> HIDE DEF comma
    <2>2. CASE comma < k
      <3> DEFINE t == SubSeq(text, 1, k - 1)
      <3>1. t \in Seq(S) /\ comma \in 1..Len(t) /\ t[comma] = Comma
        BY <2>1, <2>2
      <3> HIDE DEF t
      <3>2. ~Requests!IsNumber(t)
        BY <3>1, CommaIsNone
      <3> QED  BY <3>2 DEF t
    <2>3. CASE comma > k
      <3> DEFINE t == SubSeq(text, k + 1, Len(text))
      <3>1. t \in Seq(S) /\ comma - k \in 1..Len(t) /\ t[comma - k] = Comma
        BY <2>1, <2>3
      <3> HIDE DEF t
      <3>2. ~Requests!IsNumber(t)
        BY <3>1, CommaIsNone
      <3> QED  BY <3>2 DEF t
    <2> QED  BY <2>1, <2>2, <2>3
  <1>6. Requests!IsNumber(first) /\ Requests!IsNumber(second) <=>
          one \/ \E k \in DOMAIN text : parts(k)
    <2>1. DOMAIN text = 1..Len(text)
      OBVIOUS
    <2> HIDE DEF comma
    <2>2. CASE comma = 0
      <3>1. first = text
        BY <2>2
      <3>2. \A k \in 1..Len(text) : text[k] # Comma
        BY <1>2, <2>2
      <3> HIDE DEF first, second
      <3> QED  BY <1>4, <2>1, <3>1, <3>2, Zenon
    <2>3. CASE comma # 0
      <3>1. first = SubSeq(text, 1, comma - 1) /\ comma \in 1..Len(text)
        BY <1>2, <2>3
      <3>2. ~one
        BY <1>2, <1>3, <2>3, <3>1
      <3>3. parts(comma) <=> Requests!IsNumber(first) /\ Requests!IsNumber(second)
        BY <1>2, <2>3, <3>1, Zenon
      <3> QED  BY <1>5, <2>1, <3>1, <3>2, <3>3, Zenon
    <2> QED  BY <2>2, <2>3
  <1>7. pair.state <=> one \/ \E k \in DOMAIN text : parts(k)
    <2> HIDE DEF first, second, one, parts, pair
    <2> QED  BY <1>1, <1>6
  <1>8. one => pair.torrent = Requests!NumberOf(text) /\ pair.file = pair.torrent
    <2> HIDE DEF first, second, pair
    <2> QED  BY <1>1, <1>4
  <1> HIDE DEF pair
  <1>9. Console!PairsRead(text) <=>
          /\ pair.state <=> Console!Text!IsNumber(text) \/ \E k \in DOMAIN text :
               /\ text[k] = Comma
               /\ Console!Text!IsNumber(SubSeq(text, 1, k - 1))
               /\ Console!Text!IsNumber(SubSeq(text, k + 1, Len(text)))
          /\ Console!Text!IsNumber(text) =>
               pair.torrent = Console!Text!NumberOf(text) /\ pair.file = pair.torrent
    BY Zenon DEF Console!PairsRead, pair, Comma
  <1> QED  BY <1>7, <1>8, <1>9, SameText, Zenon

\* What the core is asked for, and what the program is while it runs.
Operations == {"stop", "remove", "start", "resume", "add", "get_info"}

Calls == [op : Operations, id : Int, file : Int]

Program ==
  [at : {"input", "spinning", "ended", "stuck", "died"}, core : BOOLEAN, ids : SUBSET Nat,
   held : SUBSET Nat, made : Nat, calls : Seq(Calls), exit : BOOLEAN, sigExit : BOOLEAN,
   mute : BOOLEAN]

\* What may happen to it.  A text is a sequence, of whatever characters.
IsText(text) == \E S : text \in Seq(S)

IsLine(e) ==
  /\ e.event = "line" /\ e.option \in DOMAIN Console!Registered \cup {"none"}
  /\ e.option \in {"stop", "remove", "resume", "get_info"} => e.id \in Int
  /\ e.option = "start" => IsText(e.text)

IsEvent(e) ==
  \/ IsLine(e)
  \/ e.event = "end of input"
  \/ e.event = "interrupt" /\ e.atLoopTop \in BOOLEAN

\* The torrents it knows are those it has made, and those it no longer has were removed.
Known(s) ==
  /\ s \in Program
  /\ s.ids = 1..s.made /\ s.held \subseteq s.ids /\ (~s.core => s.ids = {})
  /\ \A id \in s.ids \ s.held :
       \E k \in DOMAIN s.calls : s.calls[k].op = "remove" /\ s.calls[k].id = id

\* Two states that differ at most in the torrents and the calls.
Alike(s, t) ==
  t.at = s.at /\ t.core = s.core /\ t.sigExit = s.sigExit

LEMMA CalledIs ==
  ASSUME NEW s \in Program, NEW op \in Operations, NEW id \in Int, NEW file \in Int
  PROVE  LET t == Console!Called(s, op, id, file)
         IN  /\ t \in Program /\ Alike(s, t) /\ t.ids = s.ids /\ t.held = s.held
             /\ t.made = s.made /\ t.exit = s.exit /\ t.mute = s.mute
             /\ [op |-> op, id |-> id, file |-> file] \in Calls
             /\ t.calls = Append(s.calls, [op |-> op, id |-> id, file |-> file])
  <1> DEFINE c == [op |-> op, id |-> id, file |-> file]
             t == Console!Called(s, op, id, file)
  <1>1. c \in Calls
    BY DEF Calls
  <1>2. t = [s EXCEPT !.calls = Append(@, c)]
    BY DEF Console!Called
  <1>3. s.calls \in Seq(Calls)
    BY DEF Program
  <1> HIDE DEF c
  <1>4. Append(s.calls, c) \in Seq(Calls)
    BY <1>1, <1>3
  <1>5. t \in Program /\ t.calls = Append(s.calls, c)
    BY <1>2, <1>4 DEF Program
  <1>6. Alike(s, t) /\ t.ids = s.ids /\ t.held = s.held
             /\ t.made = s.made /\ t.exit = s.exit /\ t.mute = s.mute
    BY <1>2, <1>4 DEF Program, Alike
  <1> HIDE DEF t
  <1> QED  BY <1>1, <1>5, <1>6 DEF c, t

LEMMA Options ==
  /\ DOMAIN Console!Registered = {"stop", "pause", "resume", "get_info", "remove", "add",
                                  "start", "get_ids", "quit", "help"}
  /\ \A o \in DOMAIN Console!Registered :
       Console!Registered[o] # Console!ReadAs[o] <=> o = "pause"
  <1>1. \A o \in DOMAIN Console!Registered :
       Console!Registered[o] # Console!ReadAs[o] <=> o = "pause"
   BY DEF Console!Registered, Console!ReadAs
  <1>2. DOMAIN Console!Registered = {"stop", "pause", "resume", "get_info", "remove", "add",
                                  "start", "get_ids", "quit", "help"}
    BY DEF Console!Registered
  <1> QED  BY <1>1, <1>2

\* A call that leaves out as many torrents as it removes keeps what is known.
LEMMA KnownKept ==
  ASSUME NEW s, Known(s), NEW t \in Program, NEW c \in Calls,
         t.core = s.core, t.ids = s.ids, t.made = s.made, t.held \subseteq s.held,
         t.calls = s.calls \/ t.calls = Append(s.calls, c),
         \A id \in s.held \ t.held : t.calls = Append(s.calls, c) /\ c.op = "remove" /\ c.id = id
  PROVE  Known(t)
  <1>1. s.calls \in Seq(Calls)
    BY DEF Known, Program
  <1>2. \A k \in DOMAIN s.calls : k \in DOMAIN t.calls /\ t.calls[k] = s.calls[k]
    BY <1>1
  <1>3. t.calls = Append(s.calls, c) =>
          Len(s.calls) + 1 \in DOMAIN t.calls /\ t.calls[Len(s.calls) + 1] = c
    BY <1>1
  <1>4. ASSUME NEW id \in t.ids \ t.held
        PROVE  \E k \in DOMAIN t.calls : t.calls[k].op = "remove" /\ t.calls[k].id = id
    <2>1. CASE id \in s.held
      BY <1>3, <2>1
    <2>2. CASE id \notin s.held
      <3>1. PICK k \in DOMAIN s.calls : s.calls[k].op = "remove" /\ s.calls[k].id = id
        BY <2>2 DEF Known
      <3> QED  BY <1>2, <3>1
    <2> QED  BY <2>1, <2>2
  <1> QED  BY <1>4 DEF Known

\* A call that was typed.
Pairs == {<<"1", ",", "2">>, <<"2", ",", "1">>}

AsTyped(c, line, made) ==
  /\ c.op = line.option /\ c.op # "pause"
  /\ c.op \in {"stop", "remove", "resume", "get_info"} => c.id = line.id
  /\ c.op = "resume" => c.file = 1
  /\ c.op = "start" =>
       /\ c.id \in 1..made
       /\ line.text \in Pairs => c.id = Requests!NumberOf(<<line.text[1]>>)
                                   /\ c.file = Requests!NumberOf(<<line.text[3]>>)

\* What a line does.
Does(s, t, line) ==
  /\ Known(t) /\ Alike(s, t)
  /\ \/ t.calls = s.calls
     \/ \E c \in Calls : t.calls = Append(s.calls, c) /\ AsTyped(c, line, t.made)
  /\ (line.option = "get_info" => line.id \in s.held) /\ ~s.mute => ~t.mute

LEMMA Nothing ==
  ASSUME NEW s, Known(s), NEW line
  PROVE  Does(s, s, line)
  BY DEF Does, Alike

\* A call with the number that was typed.
LEMMA Numbered ==
  ASSUME NEW s, Known(s), NEW line, NEW file \in Int, line.id \in Int,
         line.option \in {"stop", "remove", "resume", "get_info"},
         line.option = "resume" => file = 1
  PROVE  Does(s, Console!Called(s, line.option, line.id, file), line)
  <1> DEFINE t == Console!Called(s, line.option, line.id, file)
             c == [op |-> line.option, id |-> line.id, file |-> file]
  <1>1. s \in Program /\ line.option \in Operations
    BY DEF Known, Operations
  <1>2. /\ t \in Program /\ Alike(s, t) /\ t.ids = s.ids /\ t.held = s.held
        /\ t.made = s.made /\ t.mute = s.mute /\ c \in Calls /\ t.calls = Append(s.calls, c)
    BY <1>1, CalledIs
  <1>3. c.op = line.option /\ c.id = line.id /\ c.file = file
    OBVIOUS
  <1> HIDE DEF t, c
  <1>4. Known(t)
    BY <1>2, KnownKept DEF Alike
  <1>5. AsTyped(c, line, t.made)
    BY <1>3 DEF AsTyped
  <1>6. Does(s, t, line)
    BY <1>2, <1>4, <1>5 DEF Does
  <1> QED  BY <1>6 DEF t

LEMMA Asked ==
  ASSUME NEW s, Known(s), NEW line, line.id \in Int, line.option = "get_info"
  PROVE  Does(s, Console!GetInfo(s, line.id), line)
  <1> DEFINE u == Console!Called(s, "get_info", line.id, 0)
             t == Console!GetInfo(s, line.id)
             new == u.mute \/ line.id \notin s.held
  <1>1. Does(s, u, line)
    <2>1. 0 \in Int
      OBVIOUS
    <2> QED  BY <2>1, Numbered
  <1>2. t = [u EXCEPT !.mute = new]
    BY Zenon DEF Console!GetInfo
  <1>3. u \in Program /\ u.held = s.held /\ u.mute = s.mute
    <2>1. s \in Program /\ 0 \in Int /\ line.id \in Int /\ "get_info" \in Operations
      BY DEF Known, Operations
    <2> QED  BY <2>1, CalledIs
  <1> HIDE DEF u
  <1>4. new \in BOOLEAN
    BY <1>3 DEF Program
  <1>5. new = (s.mute \/ line.id \notin s.held)
    BY <1>3
  <1> HIDE DEF new
  <1>6. /\ t \in Program /\ t.mute = new /\ Alike(u, t) /\ t.calls = u.calls
        /\ t.ids = u.ids /\ t.held = u.held /\ t.made = u.made
    BY <1>2, <1>3, <1>4 DEF Program, Alike
  <1> HIDE DEF t
  <1>7. Known(t)
    BY <1>1, <1>6 DEF Does, Known, Alike
  <1>8. Does(s, t, line)
    BY <1>1, <1>5, <1>6, <1>7 DEF Does, Alike
  <1> QED  BY <1>8 DEF t

LEMMA Deleted ==
  ASSUME NEW s, Known(s), NEW line, line.id \in Int, line.option = "remove"
  PROVE  Does(s, Console!DeleteTorrent(s, line.id), line)
  <1> DEFINE u == Console!Called(s, "remove", line.id, 0)
             t == Console!DeleteTorrent(s, line.id)
             c == [op |-> "remove", id |-> line.id, file |-> 0]
             new == u.held \ {line.id}
  <1>1. t = [u EXCEPT !.held = new]
    BY Zenon DEF Console!DeleteTorrent
  <1>2. /\ u \in Program /\ Alike(s, u) /\ u.ids = s.ids /\ u.held = s.held
        /\ u.made = s.made /\ u.mute = s.mute /\ c \in Calls /\ u.calls = Append(s.calls, c)
    <2>1. s \in Program /\ 0 \in Int /\ line.id \in Int /\ "remove" \in Operations
      BY DEF Known, Operations
    <2> QED  BY <2>1, CalledIs
  <1>3. c.op = "remove" /\ c.id = line.id
    OBVIOUS
  <1> HIDE DEF u, c
  <1>4. new = s.held \ {line.id} /\ new \in SUBSET Nat
    BY <1>2 DEF Program
  <1> HIDE DEF new
  <1>5. /\ t \in Program /\ t.held = new /\ Alike(u, t) /\ t.calls = u.calls
        /\ t.ids = u.ids /\ t.mute = u.mute /\ t.made = u.made
    BY <1>1, <1>2, <1>4 DEF Program, Alike
  <1> HIDE DEF t
  <1>6. Known(t)
    BY <1>2, <1>3, <1>4, <1>5, KnownKept DEF Alike
  <1>7. AsTyped(c, line, t.made)
    BY <1>3 DEF AsTyped
  <1>8. Does(s, t, line)
    BY <1>2, <1>5, <1>6, <1>7 DEF Does, Alike
  <1> QED  BY <1>8 DEF t

LEMMA Started ==
  ASSUME NEW s, Known(s), NEW line, IsText(line.text), line.option = "start"
  PROVE  Does(s, Console!StartDownload(s, line.text), line)
  <1> DEFINE pair == Console!GetFromString(line.text)
             u == Console!Called(s, "start", pair.torrent, pair.file)
             c == [op |-> "start", id |-> pair.torrent, file |-> pair.file]
             t == Console!StartDownload(s, line.text)
  <1>1. t = IF pair.state THEN (IF pair.torrent \in s.ids THEN u ELSE s) ELSE s
    BY Zenon DEF Console!StartDownload
  <1>2. CASE pair.state /\ pair.torrent \in s.ids
    <2>1. pair.torrent \in Nat /\ pair.file \in Nat
      <3>1. PICK S : line.text \in Seq(S)
        BY DEF IsText
      <3> QED  BY <1>2, <3>1, PairTyped
    <2>2. line.text \in Pairs => pair.torrent = Requests!NumberOf(<<line.text[1]>>)
                                   /\ pair.file = Requests!NumberOf(<<line.text[3]>>)
      <3> DEFINE x == line.text
      <3>1. ASSUME NEW a \in {"1", "2"}, NEW b \in {"1", "2"}, x = <<a, ",", b>>
            PROVE  pair.torrent = Requests!NumberOf(<<x[1]>>)
                     /\ pair.file = Requests!NumberOf(<<x[3]>>)
        <4> DEFINE y == [state |-> TRUE, torrent |-> Requests!NumberOf(<<a>>),
                         file |-> Requests!NumberOf(<<b>>)]
        <4>1. pair = y
          BY <3>1, PairWritten, Zenon
        <4>2. y.torrent = Requests!NumberOf(<<a>>) /\ y.file = Requests!NumberOf(<<b>>)
          OBVIOUS
        <4>3. x = <<a, Comma, b>>
          BY <3>1, Zenon DEF Comma
        <4>4. x[1] = a /\ x[3] = b
          BY ONLY <4>3
        <4> HIDE DEF pair, x, y
        <4> QED  BY <4>1, <4>2, <4>4
      <3> HIDE DEF pair
      <3> QED  BY <3>1, Zenon DEF Pairs
    <2> HIDE DEF pair
    <2>3. /\ u \in Program /\ Alike(s, u) /\ u.ids = s.ids /\ u.held = s.held
          /\ u.made = s.made /\ u.mute = s.mute /\ c \in Calls /\ u.calls = Append(s.calls, c)
      <3>1. s \in Program /\ pair.torrent \in Int /\ pair.file \in Int /\ "start" \in Operations
        BY <2>1 DEF Known, Operations
      <3> QED  BY <3>1, CalledIs
    <2>4. c.op = "start" /\ c.id = pair.torrent /\ c.file = pair.file
      OBVIOUS
    <2> HIDE DEF u, c
    <2>5. Known(u)
      BY <2>3, KnownKept DEF Alike
    <2>6. pair.torrent \in 1..u.made
      BY <1>2, <2>3 DEF Known
    <2>7. AsTyped(c, line, u.made)
      BY <2>2, <2>4, <2>6 DEF AsTyped
    <2>8. Does(s, u, line)
      BY <2>3, <2>5, <2>7 DEF Does
    <2> HIDE DEF t
    <2>9. Does(s, t, line)
      BY <1>1, <1>2, <2>8
    <2> QED  BY <2>9 DEF t
  <1>3. CASE ~(pair.state /\ pair.torrent \in s.ids)
    <2>1. t = s
      <3> HIDE DEF t, pair, u
      <3> QED  BY <1>1, <1>3
    <2> HIDE DEF t
    <2>2. Does(s, t, line)
      BY <2>1, Nothing
    <2> QED  BY <2>2 DEF t
  <1> QED  BY <1>2, <1>3

\* A torrent that is added is known and not yet removed.
LEMMA Added ==
  ASSUME NEW s, Known(s), NEW answer
  PROVE  LET t == Console!AddTorrent(s, answer)
         IN  /\ Known(t) /\ Alike(s, t) /\ t.mute = s.mute /\ t.exit = s.exit
             /\ \E c \in Calls : t.calls = Append(s.calls, c) /\ c.op = "add"
  <1> DEFINE u == Console!Called(s, "add", 0, 0)
             c == [op |-> "add", id |-> 0, file |-> 0]
             t == Console!AddTorrent(s, answer)
             next == u.made + 1
             ids == u.ids \cup {next}
             held == u.held \cup {next}
             new == [u EXCEPT !.made = next, !.ids = ids, !.held = held]
  <1>1. t = IF s.core /\ answer = "ok" THEN new ELSE u
    BY Zenon DEF Console!AddTorrent, Console!Remembered
  <1>2. /\ u \in Program /\ Alike(s, u) /\ u.ids = s.ids /\ u.held = s.held /\ u.exit = s.exit
        /\ u.made = s.made /\ u.mute = s.mute /\ c \in Calls /\ u.calls = Append(s.calls, c)
    <2>1. s \in Program /\ 0 \in Int /\ "add" \in Operations
      BY DEF Known, Operations
    <2> QED  BY <2>1, CalledIs
  <1>3. c.op = "add"
    OBVIOUS
  <1> HIDE DEF u, c
  <1>4. Known(u)
    BY <1>2, KnownKept DEF Alike
  <1>5. CASE s.core /\ answer = "ok"
    <2>1. next \in Nat /\ ids \in SUBSET Nat /\ held \in SUBSET Nat
      BY <1>2 DEF Program
    <2>2. ids = 1..next /\ held \subseteq ids /\ ids \ held \subseteq u.ids \ u.held
      <3>1. u.made \in Nat /\ u.ids = 1..u.made /\ u.held \subseteq u.ids
        BY <1>4 DEF Known, Program
      <3> QED  BY <3>1
    <2>3. t = new
      <3> HIDE DEF t, new
      <3> QED  BY <1>1, <1>5
    <2> HIDE DEF next, ids, held
    <2>4. /\ new \in Program /\ Alike(u, new) /\ new.calls = u.calls /\ new.mute = u.mute
          /\ new.exit = u.exit /\ new.made = next /\ new.ids = ids /\ new.held = held
      BY <1>2, <2>1 DEF Program, Alike
    <2> HIDE DEF new
    <2>5. u.core
      BY <1>2, <1>5 DEF Alike
    <2>6. Known(new)
      BY <1>4, <2>2, <2>4, <2>5 DEF Known, Alike
    <2>7. /\ Alike(s, new) /\ new.mute = s.mute /\ new.exit = s.exit
          /\ new.calls = Append(s.calls, c)
      BY <1>2, <2>4 DEF Alike
    <2> QED  BY <1>2, <1>3, <2>3, <2>6, <2>7, Zenon DEF t
  <1>6. CASE ~(s.core /\ answer = "ok")
    <2>1. t = u
      <3> HIDE DEF t, new
      <3> QED  BY <1>1, <1>6
    <2> QED  BY <1>2, <1>3, <1>4, <2>1, Zenon DEF t
  <1> QED  BY <1>5, <1>6

\* Whatever the line says.
LEMMA DispatchDoes ==
  ASSUME NEW s, Known(s), NEW line, IsLine(line)
  PROVE  Does(s, Console!DispatchText(s, line), line)
  <1> DEFINE t == Console!DispatchText(s, line)
             v == Console!DispatchVm(s, line)
             o == line.option
  <1>1. Does(s, s, line)
    BY Nothing
  <1>2. t = IF o \in {"none", "help"} THEN s ELSE v
    BY Zenon DEF Console!DispatchText
  <1>3. v = CASE Console!Registered[o] # Console!ReadAs[o] -> s
              [] o = "stop" -> Console!Called(s, "stop", line.id, 0)
              [] o = "remove" -> Console!DeleteTorrent(s, line.id)
              [] o = "start" -> Console!StartDownload(s, line.text)
              [] o = "resume" -> Console!Called(s, "resume", line.id, 1)
              [] o = "add" -> Console!AddTorrent(s, line.answer)
              [] o = "get_info" -> Console!GetInfo(s, line.id)
              [] o = "quit" -> [s EXCEPT !.exit = TRUE]
              [] OTHER -> s
    BY Zenon DEF Console!DispatchVm
  <1>4. o = "none" \/ o \in DOMAIN Console!Registered
    BY DEF IsLine
  <1>5. o # "none" => (Console!Registered[o] # Console!ReadAs[o] <=> o = "pause")
    BY <1>4, Options, Zenon
  <1>6. o \in {"none", "stop", "pause", "resume", "get_info", "remove", "add", "start", "get_ids",
               "quit", "help"}
    BY <1>4, Options
  <1>7. /\ o \in {"stop", "remove", "resume", "get_info"} => line.id \in Int
        /\ o = "start" => IsText(line.text)
    BY DEF IsLine
  <1> HIDE DEF t, v
  <1>8. CASE o \in {"none", "help", "pause", "get_ids"}
    <2>1. t = s
      BY <1>2, <1>3, <1>5, <1>8
    <2> QED  BY <1>1, <2>1 DEF t
  <1>9. CASE o = "stop"
    <2>1. t = Console!Called(s, o, line.id, 0)
      BY <1>2, <1>3, <1>5, <1>9
    <2>2. line.id \in Int /\ 0 \in Int /\ o \in {"stop", "remove", "resume", "get_info"}
          /\ o # "resume"
      BY <1>7, <1>9
    <2>3. Does(s, Console!Called(s, o, line.id, 0), line)
      BY <2>2, Numbered
    <2> QED  BY <2>1, <2>3 DEF t
  <1>10. CASE o = "resume"
    <2>1. t = Console!Called(s, o, line.id, 1)
      BY <1>2, <1>3, <1>5, <1>10
    <2>2. line.id \in Int /\ 1 \in Int /\ o \in {"stop", "remove", "resume", "get_info"}
      BY <1>7, <1>10
    <2>3. Does(s, Console!Called(s, o, line.id, 1), line)
      BY <2>2, Numbered
    <2> QED  BY <2>1, <2>3 DEF t
  <1>11. CASE o = "remove"
    <2>1. t = Console!DeleteTorrent(s, line.id)
      BY <1>2, <1>3, <1>5, <1>11
    <2>2. Does(s, Console!DeleteTorrent(s, line.id), line)
      BY <1>7, <1>11, Deleted
    <2> QED  BY <2>1, <2>2 DEF t
  <1>12. CASE o = "start"
    <2>1. t = Console!StartDownload(s, line.text)
      BY <1>2, <1>3, <1>5, <1>12
    <2>2. Does(s, Console!StartDownload(s, line.text), line)
      BY <1>7, <1>12, Started
    <2> QED  BY <2>1, <2>2 DEF t
  <1>13. CASE o = "get_info"
    <2>1. t = Console!GetInfo(s, line.id)
      BY <1>2, <1>3, <1>5, <1>13
    <2>2. Does(s, Console!GetInfo(s, line.id), line)
      BY <1>7, <1>13, Asked
    <2> QED  BY <2>1, <2>2 DEF t
  <1>14. CASE o = "add"
    <2> DEFINE u == Console!AddTorrent(s, line.answer)
    <2>1. t = u
      BY <1>2, <1>3, <1>5, <1>14
    <2>2. /\ Known(u) /\ Alike(s, u) /\ u.mute = s.mute
          /\ \E c \in Calls : u.calls = Append(s.calls, c) /\ c.op = "add"
      BY Added
    <2> HIDE DEF u
    <2>3. \A c : c.op = "add" => AsTyped(c, line, u.made)
      BY <1>14 DEF AsTyped
    <2>4. Does(s, u, line)
      BY <2>2, <2>3 DEF Does
    <2> QED  BY <2>1, <2>4 DEF t
  <1>15. CASE o = "quit"
    <2> DEFINE u == [s EXCEPT !.exit = TRUE]
    <2>1. t = u
      BY <1>2, <1>3, <1>5, <1>15
    <2>2. /\ u \in Program /\ Alike(s, u) /\ u.calls = s.calls /\ u.mute = s.mute
          /\ u.ids = s.ids /\ u.held = s.held /\ u.made = s.made
      BY DEF Known, Program, Alike
    <2> HIDE DEF u
    <2>3. Known(u)
      BY <2>2 DEF Known, Alike
    <2>4. Does(s, u, line)
      BY <2>2, <2>3 DEF Does
    <2> QED  BY <2>1, <2>4 DEF t
  <1> QED  BY <1>6, <1>8, <1>9, <1>10, <1>11, <1>12, <1>13, <1>14, <1>15

\* The top of the loop changes nothing but where the program is.
LEMMA LoopTopDoes ==
  ASSUME NEW s, Known(s)
  PROVE  LET t == Console!LoopTop(s)
         IN  /\ Known(t) /\ t.core = s.core /\ t.sigExit = s.sigExit /\ t.calls = s.calls
             /\ t.mute = s.mute /\ t.made = s.made
             /\ t.at = IF s.exit \/ s.sigExit THEN "ended" ELSE s.at
  <1> DEFINE t == Console!LoopTop(s)
             u == [s EXCEPT !.at = "ended"]
  <1>1. t = IF s.exit \/ s.sigExit THEN u ELSE s
    BY Zenon DEF Console!LoopTop
  <1>2. /\ u \in Program /\ u.at = "ended" /\ u.core = s.core /\ u.ids = s.ids /\ u.held = s.held
        /\ u.made = s.made /\ u.calls = s.calls /\ u.sigExit = s.sigExit /\ u.mute = s.mute
    BY DEF Known, Program
  <1> HIDE DEF u, t
  <1>3. Known(u)
    BY <1>2 DEF Known
  <1> QED  BY <1>1, <1>2, <1>3 DEF t

\* What an event does.
Moves(s, t, e) ==
  /\ Known(t) /\ t.core = s.core
  /\ \/ t.calls = s.calls
     \/ /\ s.at = "input" /\ e.event = "line"
        /\ \E c \in Calls : t.calls = Append(s.calls, c) /\ AsTyped(c, e, t.made)
  /\ (e.event = "line" /\ e.option = "get_info" => e.id \in s.held) /\ ~s.mute => ~t.mute
  /\ s.sigExit => t.sigExit
  /\ s.at = "input" /\ s.sigExit =>
       /\ e.event = "line" => t.at = "ended"
       /\ e.event # "line" => t.at \in {"input", "ended", "stuck"}
  /\ s.at = "input" /\ e.event = "interrupt" /\ ~e.atLoopTop => t.at = "input" /\ t.sigExit
  /\ s.at = "spinning" /\ e.event = "interrupt" /\ ~e.atLoopTop => t.at = "ended" /\ t.sigExit
  /\ s.at = "spinning" /\ t.at = "ended" => e.event = "interrupt"
  /\ s.at \notin {"input", "spinning"} => t.at = s.at

LEMMA LineMoves ==
  ASSUME NEW s, Known(s), NEW e, IsLine(e)
  PROVE  Moves(s, Console!Line(s, e), e)
  <1> DEFINE u == Console!DispatchText(s, e)
             v == Console!LoopTop(u)
             t == Console!Line(s, e)
  <1>1. t = IF s.at = "input" THEN v ELSE s
    BY Zenon DEF Console!Line
  <1>2. Does(s, u, e)
    BY DispatchDoes
  <1>3. e.event = "line" /\ s \in Program
    BY DEF IsLine, Known
  <1> HIDE DEF u, t
  <1>4. CASE s.at = "input"
    <2>1. /\ Known(v) /\ v.core = u.core /\ v.sigExit = u.sigExit /\ v.calls = u.calls
          /\ v.mute = u.mute /\ v.made = u.made
          /\ v.at = IF u.exit \/ u.sigExit THEN "ended" ELSE u.at
      BY <1>2, LoopTopDoes DEF Does
    <2>2. t = v
      BY <1>1, <1>4
    <2> HIDE DEF v
    <2>3. Moves(s, v, e)
      BY <1>2, <1>3, <1>4, <2>1 DEF Does, Alike, Moves
    <2> QED  BY <2>2, <2>3 DEF t
  <1>5. CASE s.at # "input"
    <2>1. t = s
      BY <1>1, <1>5
    <2> HIDE DEF v
    <2>2. Moves(s, s, e)
      BY <1>3, <1>5 DEF Moves
    <2> QED  BY <2>1, <2>2 DEF t
  <1> QED  BY <1>4, <1>5

LEMMA EndMoves ==
  ASSUME NEW s, Known(s), NEW e, e.event = "end of input"
  PROVE  Moves(s, Console!EndOfInput(s), e)
  <1> DEFINE u == [s EXCEPT !.at = "spinning"]
             v == Console!LoopTop(u)
             t == Console!EndOfInput(s)
  <1>1. t = IF s.at = "input" THEN v ELSE s
    BY Zenon DEF Console!EndOfInput
  <1>2. /\ u \in Program /\ u.at = "spinning" /\ u.core = s.core /\ u.ids = s.ids /\ u.held = s.held
        /\ u.made = s.made /\ u.calls = s.calls /\ u.sigExit = s.sigExit /\ u.mute = s.mute
    BY DEF Known, Program
  <1> HIDE DEF u, t
  <1>3. CASE s.at = "input"
    <2>1. Known(u)
      BY ONLY Known(s), <1>2 DEF Known
    <2>2. /\ Known(v) /\ v.core = u.core /\ v.sigExit = u.sigExit /\ v.calls = u.calls
          /\ v.mute = u.mute
          /\ v.at = IF u.exit \/ u.sigExit THEN "ended" ELSE u.at
      BY <2>1, LoopTopDoes
    <2>3. t = v
      BY <1>1, <1>3
    <2> HIDE DEF v
    <2>4. Moves(s, v, e)
      BY <1>2, <1>3, <2>2 DEF Moves
    <2> QED  BY <2>3, <2>4 DEF t
  <1>4. CASE s.at # "input"
    <2>1. t = s
      BY <1>1, <1>4
    <2> HIDE DEF v
    <2>2. Moves(s, s, e)
      BY <1>4 DEF Moves
    <2> QED  BY <2>1, <2>2 DEF t
  <1> QED  BY <1>3, <1>4

LEMMA InterruptMoves ==
  ASSUME NEW s, Known(s), NEW e, e.event = "interrupt", e.atLoopTop \in BOOLEAN
  PROVE  Moves(s, Console!Interrupt(s, e.atLoopTop), e)
  <1> DEFINE u == [s EXCEPT !.sigExit = TRUE]
             stuck == [s EXCEPT !.at = "stuck"]
             v == Console!LoopTop(u)
             t == Console!Interrupt(s, e.atLoopTop)
  <1>1. t = IF s.at \notin {"input", "spinning"} THEN s
            ELSE IF e.atLoopTop THEN stuck
            ELSE IF s.at = "spinning" THEN v ELSE u
    BY Zenon DEF Console!Interrupt
  <1>2. /\ u \in Program /\ u.at = s.at /\ u.core = s.core /\ u.ids = s.ids /\ u.held = s.held
        /\ u.made = s.made /\ u.calls = s.calls /\ u.sigExit /\ u.mute = s.mute
    BY DEF Known, Program
  <1>3. /\ stuck \in Program /\ stuck.at = "stuck" /\ stuck.core = s.core /\ stuck.ids = s.ids
        /\ stuck.held = s.held /\ stuck.made = s.made /\ stuck.calls = s.calls
        /\ stuck.sigExit = s.sigExit /\ stuck.mute = s.mute
    BY DEF Known, Program
  <1> HIDE DEF u, stuck, t
  <1>4. Known(u) /\ Known(stuck)
    BY <1>2, <1>3 DEF Known
  <1>5. /\ Known(v) /\ v.core = u.core /\ v.sigExit = u.sigExit /\ v.calls = u.calls
        /\ v.mute = u.mute /\ v.at = IF u.exit \/ u.sigExit THEN "ended" ELSE u.at
    BY <1>4, LoopTopDoes
  <1> HIDE DEF v
  <1>6. CASE s.at \notin {"input", "spinning"}
    <2>1. t = s
      BY <1>1, <1>6
    <2>2. Moves(s, s, e)
      BY <1>6 DEF Moves
    <2> QED  BY <2>1, <2>2 DEF t
  <1>7. CASE s.at \in {"input", "spinning"} /\ e.atLoopTop
    <2>1. t = stuck
      BY <1>1, <1>7
    <2>2. Moves(s, stuck, e)
      BY <1>3, <1>4, <1>7 DEF Moves
    <2> QED  BY <2>1, <2>2 DEF t
  <1>8. CASE s.at = "spinning" /\ ~e.atLoopTop
    <2>1. t = v
      BY <1>1, <1>8
    <2>2. Moves(s, v, e)
      BY <1>2, <1>5, <1>8 DEF Moves
    <2> QED  BY <2>1, <2>2 DEF t
  <1>9. CASE s.at = "input" /\ ~e.atLoopTop
    <2>1. t = u
      BY <1>1, <1>9
    <2>2. Moves(s, u, e)
      BY <1>2, <1>4, <1>9 DEF Moves
    <2> QED  BY <2>1, <2>2 DEF t
  <1> QED  BY <1>6, <1>7, <1>8, <1>9

LEMMA HappenMoves ==
  ASSUME NEW s, Known(s), NEW e, IsEvent(e)
  PROVE  Moves(s, Console!Happen(s, e), e)
  <1> DEFINE t == Console!Happen(s, e)
             line == Console!Line(s, e)
             end == Console!EndOfInput(s)
             interrupt == Console!Interrupt(s, e.atLoopTop)
  <1>1. t = CASE e.event = "line" -> line
              [] e.event = "end of input" -> end
              [] e.event = "interrupt" -> interrupt
    BY Zenon DEF Console!Happen
  <1> HIDE DEF t, line, end, interrupt
  <1>2. CASE IsLine(e)
    <2>1. t = line
      BY <1>1, <1>2 DEF IsLine
    <2>2. Moves(s, line, e)
      BY <1>2, LineMoves DEF line
    <2> QED  BY <2>1, <2>2 DEF t
  <1>3. CASE e.event = "end of input"
    <2>1. t = end
      BY <1>1, <1>3
    <2>2. Moves(s, end, e)
      BY <1>3, EndMoves DEF end
    <2> QED  BY <2>1, <2>2 DEF t
  <1>4. CASE e.event = "interrupt" /\ e.atLoopTop \in BOOLEAN
    <2>1. t = interrupt
      BY <1>1, <1>4
    <2>2. Moves(s, interrupt, e)
      BY <1>4, InterruptMoves DEF interrupt
    <2> QED  BY <2>1, <2>2 DEF t
  <1> QED  BY <1>2, <1>3, <1>4 DEF IsEvent

\* What is known holds of every state the program is in.
KnownStates == {s \in Program : Known(s)}

\* The states of the console, if f are those before.
ConsoleStates(x, history, f, m) ==
  [n \in 0..m |-> IF n = 0 THEN x
                  ELSE CHOOSE s \in {Console!Happen(before, history[n]) : before \in {f[n - 1]}} : TRUE]

\* What is typed, what happens, and how it is started.
IsDialogue(history) ==
  /\ Len(history) \in Nat /\ DOMAIN history = 1..Len(history)
  /\ \A n \in 1..Len(history) : IsEvent(history[n])

LEMMA ConsoleStatesExist ==
  ASSUME NEW x, Known(x), NEW history, IsDialogue(history)
  PROVE  \E f : f = ConsoleStates(x, history, f, Len(history))
  <1> DEFINE m == Len(history)
             step == [n \in 1..m |-> [s \in KnownStates |-> Console!Happen(s, history[n])]]
  <1>1. m \in Nat /\ x \in KnownStates
    BY DEF IsDialogue, KnownStates, Known
  <1>2. \A n \in 1..m, s \in KnownStates : Console!Happen(s, history[n]) \in KnownStates
    <2> TAKE n \in 1..m, s \in KnownStates
    <2>1. Moves(s, Console!Happen(s, history[n]), history[n])
      BY HappenMoves DEF IsDialogue, KnownStates
    <2> QED  BY <2>1 DEF Moves, KnownStates, Known
  <1> HIDE DEF m
  <1>3. step \in [1..m -> [KnownStates -> KnownStates]]
    BY <1>2
  <1>4. \A s \in KnownStates, n \in 1..m : step[n][s] = Console!Happen(s, history[n])
    OBVIOUS
  <1> HIDE DEF step
  <1>5. PICK f \in [0..m -> KnownStates] : f[0] = x /\ \A n \in 1..m : f[n] = step[n][f[n - 1]]
    <2>1. Iterates(KnownStates, x, m, step)
      BY ONLY <1>1, <1>3, RecursionExists
    <2> QED  BY ONLY <2>1 DEF Iterates
  <1>6. \A n \in 0..m : n # 0 => n \in 1..m /\ n - 1 \in 0..m
    BY <1>1
  <1> DEFINE v(n) == IF n = 0 THEN x
                     ELSE CHOOSE s \in {Console!Happen(before, history[n]) : before \in {f[n - 1]}} : TRUE
  <1>7. \A n \in 0..m : f[n] = v(n)
    <2> TAKE n \in 0..m
    <2>1. CASE n = 0
      BY <1>5, <2>1
    <2>2. CASE n # 0
      <3> DEFINE y == Console!Happen(f[n - 1], history[n])
      <3>1. n \in 1..m /\ f[n - 1] \in KnownStates
        BY <1>5, <1>6, <2>2
      <3>2. f[n] = y
        BY <1>4, <1>5, <3>1
      <3>3. {Console!Happen(before, history[n]) : before \in {f[n - 1]}} = {y}
        BY Zenon
      <3> HIDE DEF y
      <3>4. (CHOOSE s \in {y} : TRUE) = y
        OBVIOUS
      <3>5. v(n) = CHOOSE s \in {Console!Happen(before, history[n]) : before \in {f[n - 1]}} : TRUE
        BY <2>2, Zenon
      <3> QED  BY ONLY <3>2, <3>3, <3>4, <3>5, Zenon
    <2> QED  BY <2>1, <2>2
  <1>8. f = [n \in 0..m |-> v(n)]
    <2> HIDE DEF v
    <2> QED  BY <1>5, <1>7
  <1>9. f = ConsoleStates(x, history, f, m)
    BY <1>8, Zenon DEF ConsoleStates
  <1> QED  BY <1>9 DEF m

\* The program begins as main leaves it and takes one event after the other.
LEMMA ConsoleSteps ==
  ASSUME NEW run, Known(Console!Main(run)), NEW history, IsDialogue(history)
  PROVE  LET after == Console!After(run, history)
         IN  /\ after[0] = Console!Main(run)
             /\ \A n \in 1..Len(history) :
                  Known(after[n - 1]) /\ Moves(after[n - 1], after[n], history[n])
  <1> DEFINE m == Len(history)
             x == Console!Main(run)
             a == Console!After(run, history)
  <1>1. a = CHOOSE f : f = ConsoleStates(x, history, f, m)
    BY Zenon DEF Console!After, Console!StatesAfter, ConsoleStates
  <1>2. m \in Nat
    BY DEF IsDialogue
  <1>3. \E f : f = ConsoleStates(x, history, f, m)
    <2> HIDE DEF x
    <2>1. Known(x)
      BY DEF x
    <2> QED  BY <2>1, ConsoleStatesExist
  <1> HIDE DEF a, m, x
  <1>4. a = ConsoleStates(x, history, a, m)
    BY ONLY <1>1, <1>3
  <1> DEFINE v(n) == IF n = 0 THEN x
                     ELSE CHOOSE s \in {Console!Happen(before, history[n]) : before \in {a[n - 1]}} : TRUE
  <1>5. a = [n \in 0..m |-> v(n)]
    BY <1>4, Zenon DEF ConsoleStates
  <1>6. \A n \in 0..m : a[n] = v(n)
    <2> HIDE DEF v
    <2> QED  BY <1>5, Zenon
  <1>7. a[0] = x
    <2>1. 0 \in 0..m
      BY <1>2
    <2> QED  BY <1>6, <2>1
  <1>8. \A n \in 1..m : a[n] = Console!Happen(a[n - 1], history[n])
    <2> TAKE n \in 1..m
    <2> DEFINE y == Console!Happen(a[n - 1], history[n])
    <2>1. {Console!Happen(before, history[n]) : before \in {a[n - 1]}} = {y}
      BY Zenon
    <2> HIDE DEF y
    <2>2. (CHOOSE s \in {y} : TRUE) = y
      OBVIOUS
    <2>3. n \in 0..m /\ n # 0
      BY <1>2
    <2>4. v(n) = CHOOSE s \in {Console!Happen(before, history[n]) : before \in {a[n - 1]}} : TRUE
      BY <2>3, Zenon
    <2>5. a[n] = v(n)
      BY <1>6, <2>3
    <2>6. a[n] = y
      BY ONLY <2>1, <2>2, <2>4, <2>5, Zenon
    <2> QED  BY <2>6 DEF y
  <1> HIDE DEF v
  <1>9. \A n \in 1..m : IsEvent(history[n])
    BY DEF m, IsDialogue
  <1>10. \A n \in 0..m : Known(a[n])
    <2> DEFINE S == {n \in 0..m : Known(a[n])}
    <2>1. 0 \in S
      BY <1>2, <1>7 DEF x
    <2>2. ASSUME NEW n \in 0..(m - 1), n \in S PROVE n + 1 \in S
      <3>1. n + 1 \in 1..m /\ n + 1 \in 0..m /\ (n + 1) - 1 = n /\ Known(a[n])
        BY <1>2, <2>2
      <3>2. a[n + 1] = Console!Happen(a[n], history[n + 1]) /\ IsEvent(history[n + 1])
        BY <1>8, <1>9, <3>1
      <3>3. Moves(a[n], a[n + 1], history[n + 1])
        BY <3>1, <3>2, HappenMoves
      <3> QED  BY <3>1, <3>3 DEF Moves
    <2> HIDE DEF S
    <2>3. \A n \in 0..m : n \in S
      BY <1>2, <2>1, <2>2, RangeInduction
    <2> QED  BY <2>3 DEF S
  <1>11. \A n \in 1..m : Known(a[n - 1]) /\ Moves(a[n - 1], a[n], history[n])
    <2> TAKE n \in 1..m
    <2>1. n - 1 \in 0..m
      BY <1>2
    <2> QED  BY <1>8, <1>9, <1>10, <2>1, HappenMoves
  <1> QED  BY <1>7, <1>11 DEF a, m, x

\* The states while the torrents of a directory are added.
DirectoryStates(x, files, f, m) ==
  [n \in 0..m |-> IF n = 0 THEN x
                  ELSE CHOOSE s \in {Console!AddTorrent(before, files[n]) : before \in {f[n - 1]}} : TRUE]

\* They differ from the first one in the torrents and the calls.
LikeStates(x) == {s \in KnownStates : Alike(x, s) /\ s.mute = x.mute}

LEMMA AddedAlike ==
  ASSUME NEW x, NEW s \in LikeStates(x), NEW answer
  PROVE  Console!AddTorrent(s, answer) \in LikeStates(x)
  <1> DEFINE t == Console!AddTorrent(s, answer)
  <1>1. Known(t) /\ Alike(s, t) /\ t.mute = s.mute
    BY Added DEF LikeStates, KnownStates
  <1> HIDE DEF t
  <1>2. t \in LikeStates(x)
    BY <1>1 DEF LikeStates, KnownStates, Known, Alike
  <1> QED  BY <1>2 DEF t

LEMMA DirectoryAdded ==
  ASSUME NEW x, Known(x), NEW files, Len(files) \in Nat
  PROVE  Console!AddFromDirectory(x, files) \in LikeStates(x)
  <1> DEFINE m == Len(files)
             T == LikeStates(x)
             step == [n \in 1..m |-> [s \in T |-> Console!AddTorrent(s, files[n])]]
  <1>1. m \in Nat /\ x \in T
    BY DEF LikeStates, KnownStates, Known, Alike
  <1>2. \A answer : \A s \in T : Console!AddTorrent(s, answer) \in T
    BY AddedAlike
  <1> HIDE DEF m, T
  <1>3. step \in [1..m -> [T -> T]] /\ \A s \in T, n \in 1..m : step[n][s] = Console!AddTorrent(s, files[n])
    BY <1>2
  <1> HIDE DEF step
  <1>4. PICK f \in [0..m -> T] : f[0] = x /\ \A n \in 1..m : f[n] = step[n][f[n - 1]]
    <2>1. Iterates(T, x, m, step)
      BY ONLY <1>1, <1>3, RecursionExists
    <2> QED  BY ONLY <2>1 DEF Iterates
  <1>5. \A n \in 0..m : n # 0 => n \in 1..m /\ n - 1 \in 0..m
    BY <1>1
  <1> DEFINE v(h, n) == IF n = 0 THEN x
               ELSE CHOOSE s \in {Console!AddTorrent(before, files[n]) : before \in {h[n - 1]}} : TRUE
  <1>6. ASSUME NEW h, NEW n \in 0..m, n # 0 PROVE v(h, n) = Console!AddTorrent(h[n - 1], files[n])
    <2> DEFINE y == Console!AddTorrent(h[n - 1], files[n])
    <2>1. {Console!AddTorrent(before, files[n]) : before \in {h[n - 1]}} = {y}
      BY Zenon
    <2> HIDE DEF y
    <2>2. (CHOOSE s \in {y} : TRUE) = y
      OBVIOUS
    <2>3. v(h, n) = CHOOSE s \in {Console!AddTorrent(before, files[n]) : before \in {h[n - 1]}} : TRUE
      BY <1>6, Zenon
    <2>4. v(h, n) = y
      BY ONLY <2>1, <2>2, <2>3, Zenon
    <2> QED  BY <2>4 DEF y
  <1>7. \A h : v(h, 0) = x
    OBVIOUS
  <1>8. f = [n \in 0..m |-> v(f, n)]
    <2> HIDE DEF v
    <2>1. ASSUME NEW n \in 0..m, n # 0 PROVE f[n] = v(f, n)
      <3>1. n \in 1..m /\ f[n - 1] \in T /\ f[n] = step[n][f[n - 1]]
        BY <1>4, <1>5, <2>1
      <3>2. step[n][f[n - 1]] = Console!AddTorrent(f[n - 1], files[n])
        BY ONLY <1>3, <3>1
      <3>3. v(f, n) = Console!AddTorrent(f[n - 1], files[n])
        BY <1>6, <2>1
      <3> QED  BY ONLY <3>1, <3>2, <3>3
    <2>2. \A n \in 0..m : f[n] = v(f, n)
      BY <1>4, <1>7, <2>1
    <2> QED  BY <1>4, <2>2
  <1>9. f = DirectoryStates(x, files, f, m)
    BY <1>8, Zenon DEF DirectoryStates
  <1> DEFINE a == CHOOSE h : h = DirectoryStates(x, files, h, m)
  <1>10. Console!AddFromDirectory(x, files) = a[m]
    BY Zenon DEF Console!AddFromDirectory, Console!StateAfter, Console!StatesAfter, DirectoryStates, m
  <1>11. a = DirectoryStates(x, files, a, m)
    BY <1>9
  <1> HIDE DEF a
  <1>12. a = [n \in 0..m |-> v(a, n)]
    BY <1>11, Zenon DEF DirectoryStates
  <1>13. \A n \in 0..m : a[n] = v(a, n)
    <2> HIDE DEF v
    <2> QED  BY <1>12, Zenon
  <1>14. \A n \in 0..m : a[n] \in T
    <2> DEFINE S == {n \in 0..m : a[n] \in T}
    <2> HIDE DEF v
    <2>1. 0 \in S
      BY <1>1, <1>7, <1>13
    <2>2. ASSUME NEW n \in 0..(m - 1), n \in S PROVE n + 1 \in S
      <3>1. n + 1 \in 0..m /\ n + 1 # 0 /\ (n + 1) - 1 = n /\ a[n] \in T
        BY <1>1, <2>2
      <3>2. a[n + 1] = Console!AddTorrent(a[n], files[n + 1])
        BY <1>6, <1>13, <3>1
      <3> QED  BY <1>2, <3>1, <3>2
    <2> HIDE DEF S
    <2>3. \A n \in 0..m : n \in S
      BY <1>1, <2>1, <2>2, RangeInduction
    <2> QED  BY <2>3 DEF S
  <1>15. a[m] \in T
    BY <1>1, <1>14
  <1> QED  BY <1>10, <1>15 DEF T

\* A program that has been started knows the torrents of its directory.
LEMMA MainLeaves ==
  ASSUME NEW run, run.core \in BOOLEAN, Len(run.files) \in Nat
  PROVE  LET s == Console!Main(run)
         IN  Known(s) /\ ~s.mute /\ s.core = run.core
  <1> DEFINE x == [at |-> "input", core |-> run.core, ids |-> {}, held |-> {}, made |-> 0,
                   calls |-> <<>>, exit |-> FALSE, sigExit |-> FALSE, mute |-> FALSE]
             died == [x EXCEPT !.at = "died"]
             added == Console!AddFromDirectory(x, run.files)
             s == Console!Main(run)
  <1>1. s = IF ~run.options \/ ~run.directory THEN died ELSE added
    BY Zenon DEF Console!Main
  <1>2. /\ x \in Program /\ x.ids = {} /\ x.held = {} /\ x.made = 0 /\ ~x.mute /\ x.core = run.core
        /\ died \in Program /\ died.ids = {} /\ died.held = {} /\ died.made = 0 /\ ~died.mute
        /\ died.core = run.core
    <2>1. <<>> \in Seq(Calls) /\ {} \in SUBSET Nat /\ 0 \in Nat
      OBVIOUS
    <2> QED  BY <2>1 DEF Program
  <1> HIDE DEF x, died, s
  <1>3. \A y \in Program : y.ids = {} /\ y.held = {} /\ y.made = 0 => Known(y)
    <2>1. 1..0 = {}
      OBVIOUS
    <2> QED  BY <2>1 DEF Known
  <1>4. Known(x) /\ Known(died)
    BY <1>2, <1>3
  <1>5. added \in LikeStates(x)
    BY <1>4, DirectoryAdded
  <1> HIDE DEF added
  <1>6. Known(added) /\ ~added.mute /\ added.core = run.core
    BY <1>2, <1>5 DEF LikeStates, KnownStates, Alike
  <1>7. Known(s) /\ ~s.mute /\ s.core = run.core
    BY <1>1, <1>2, <1>4, <1>6
  <1> QED  BY <1>7 DEF s

\* How a program may be started, and the states it goes through.
IsRun(run) == run.core \in BOOLEAN /\ Len(run.files) \in Nat

Follows(a, run, history) ==
  /\ ~a[0].mute /\ a[0].core = run.core
  /\ \A n \in 0..Len(history) : Known(a[n])
  /\ \A n \in 1..Len(history) : Moves(a[n - 1], a[n], history[n])

LEMMA HistoryFollows ==
  ASSUME NEW run, IsRun(run), NEW history, IsDialogue(history)
  PROVE  Follows(Console!After(run, history), run, history)
  <1> DEFINE a == Console!After(run, history)
             m == Len(history)
             x == Console!Main(run)
  <1>1. Known(x) /\ ~x.mute /\ x.core = run.core
    BY MainLeaves DEF IsRun
  <1>2. a[0] = x /\ \A n \in 1..m : Known(a[n - 1]) /\ Moves(a[n - 1], a[n], history[n])
    BY <1>1, ConsoleSteps
  <1> HIDE DEF a, x
  <1>3. \A n \in 0..m : Known(a[n])
    <2> TAKE n \in 0..m
    <2>1. CASE n = 0
      BY <1>1, <1>2, <2>1
    <2>2. CASE n # 0
      <3>1. n \in 1..m
        BY <2>2
      <3> QED  BY <1>2, <3>1 DEF Moves
    <2> QED  BY <2>1, <2>2
  <1>4. Follows(a, run, history)
    BY <1>1, <1>2, <1>3 DEF Follows
  <1> QED  BY <1>4 DEF a

\* The core is asked for what was typed, whatever is typed and however the program was
\* started (_dispatch_vm, full_model.cpp).
THEOREM CallsAlwaysAsTyped ==
  ASSUME NEW run, IsRun(run), NEW history, IsDialogue(history)
  PROVE  Console!CallsAsTyped(run, history)
  <1> DEFINE a == Console!After(run, history)
             m == Len(history)
             pairs == {<<"1", ",", "2">>, <<"2", ",", "1">>}
             call(i) == a[i].calls[Len(a[i].calls)]
  <1>1. Follows(a, run, history)
    BY HistoryFollows
  <1>2. m \in Nat /\ DOMAIN history = 1..m
    BY DEF IsDialogue
  <1>3. Console!CallsAsTyped(run, history) <=>
          \A i \in DOMAIN history : a[i].calls # a[i - 1].calls =>
            /\ a[i].calls = Append(a[i - 1].calls, call(i))
            /\ history[i].event = "line" /\ call(i).op = history[i].option
            /\ call(i).op \in {"stop", "remove", "resume", "get_info"} => call(i).id = history[i].id
            /\ call(i).op = "resume" => call(i).file = 1
            /\ call(i).op = "start" =>
                 /\ call(i).id \in 1..a[i].made
                 /\ history[i].text \in pairs =>
                      call(i).id = Console!Text!NumberOf(<<history[i].text[1]>>)
                        /\ call(i).file = Console!Text!NumberOf(<<history[i].text[3]>>)
    BY Zenon DEF Console!CallsAsTyped
  <1> HIDE DEF a, m
  <1>4. ASSUME NEW i \in 1..m, a[i].calls # a[i - 1].calls
        PROVE  /\ a[i].calls = Append(a[i - 1].calls, call(i))
               /\ history[i].event = "line" /\ AsTyped(call(i), history[i], a[i].made)
    <2>1. Moves(a[i - 1], a[i], history[i]) /\ Known(a[i - 1])
      <3>1. i - 1 \in 0..m
        BY <1>2
      <3> QED  BY <1>1, <3>1 DEF Follows, m
    <2>2. PICK c \in Calls : a[i].calls = Append(a[i - 1].calls, c) /\ AsTyped(c, history[i], a[i].made)
      BY <1>4, <2>1 DEF Moves
    <2>3. history[i].event = "line"
      BY <1>4, <2>1 DEF Moves
    <2>4. a[i - 1].calls \in Seq(Calls)
      BY <2>1 DEF Known, Program
    <2>5. call(i) = c
      BY <2>2, <2>4
    <2> QED  BY ONLY <2>2, <2>3, <2>5
  <1> HIDE DEF call
  <1>5. ASSUME NEW i \in 1..m, AsTyped(call(i), history[i], a[i].made)
        PROVE  /\ call(i).op = history[i].option
               /\ call(i).op \in {"stop", "remove", "resume", "get_info"} => call(i).id = history[i].id
               /\ call(i).op = "resume" => call(i).file = 1
               /\ call(i).op = "start" =>
                    /\ call(i).id \in 1..a[i].made
                    /\ history[i].text \in pairs =>
                         call(i).id = Console!Text!NumberOf(<<history[i].text[1]>>)
                           /\ call(i).file = Console!Text!NumberOf(<<history[i].text[3]>>)
    BY <1>5, SameText, Zenon DEF AsTyped, Pairs
  <1> QED  BY <1>2, <1>3, <1>4, <1>5, Zenon

\* A pause that is typed asks the core for nothing, in any history: what the run
\* console_pause finds for one (full_model.cpp:270).
THEOREM PauseNeverCalls ==
  ASSUME NEW run, IsRun(run), NEW history, IsDialogue(history), NEW i \in DOMAIN history,
         history[i].event = "line", history[i].option = "pause"
  PROVE  Console!After(run, history)[i].calls = Console!After(run, history)[i - 1].calls
  <1> DEFINE a == Console!After(run, history)
             m == Len(history)
  <1>1. Follows(a, run, history)
    BY HistoryFollows
  <1>2. m \in Nat /\ i \in 1..m
    BY DEF IsDialogue
  <1> HIDE DEF a, m
  <1>3. Moves(a[i - 1], a[i], history[i])
    BY <1>1, <1>2 DEF Follows, m
  <1>4. ASSUME NEW c \in Calls, AsTyped(c, history[i], a[i].made)
        PROVE  FALSE
    BY <1>4 DEF AsTyped
  <1>5. a[i].calls = a[i - 1].calls
    BY <1>3, <1>4 DEF Moves
  <1> QED  BY <1>5 DEF a

\* The console lists every torrent of the handle, and its answers are shown while only
\* those are asked about (t2h_get_torrent_files and add_torrent of full_model.cpp).
THEOREM TorrentsAlwaysListed ==
  ASSUME NEW run, IsRun(run), NEW history, IsDialogue(history)
  PROVE  Console!TorrentsListed(run, history)
  <1> DEFINE a == Console!After(run, history)
             m == Len(history)
             held(i) == \A k \in 1..i : history[k].event = "line" /\ history[k].option = "get_info" =>
                          history[k].id \in a[k - 1].held
  <1>1. Follows(a, run, history)
    BY HistoryFollows
  <1>2. m \in Nat /\ DOMAIN history = 1..m
    BY DEF IsDialogue
  <1>3. Console!TorrentsListed(run, history) <=>
          \A i \in 0..m :
            /\ a[i].held \subseteq a[i].ids /\ a[i].ids = 1..a[i].made
            /\ ~run.core => a[i].ids = {}
            /\ \A id \in a[i].ids \ a[i].held :
                 \E k \in DOMAIN a[i].calls : a[i].calls[k].op = "remove" /\ a[i].calls[k].id = id
            /\ held(i) => ~a[i].mute
    BY Zenon DEF Console!TorrentsListed
  <1> HIDE DEF a
  <1>4. \A n \in 1..m : Moves(a[n - 1], a[n], history[n])
    BY <1>1 DEF Follows
  <1>5. ~a[0].mute /\ a[0].core = run.core /\ \A n \in 0..m : Known(a[n])
    BY <1>1 DEF Follows
  <1> HIDE DEF m
  <1>6. \A i \in 0..m : a[i].core = run.core /\ (held(i) => ~a[i].mute)
    <2> DEFINE S == {n \in 0..m : a[n].core = run.core /\ (held(n) => ~a[n].mute)}
    <2>1. 0 \in S
      BY <1>2, <1>5
    <2>2. ASSUME NEW n \in 0..(m - 1), n \in S PROVE n + 1 \in S
      <3>1. n + 1 \in 1..m /\ n + 1 \in 0..m /\ (n + 1) - 1 = n /\ 1..n \subseteq 1..(n + 1)
            /\ n + 1 \in 1..(n + 1)
        BY <1>2
      <3>2. Moves(a[n], a[n + 1], history[n + 1])
        BY <1>4, <3>1
      <3>3. held(n + 1) => held(n)
        BY <3>1, Zenon
      <3>4. held(n + 1) => (history[n + 1].event = "line" /\ history[n + 1].option = "get_info" =>
                              history[n + 1].id \in a[n].held)
        BY <3>1
      <3> HIDE DEF held
      <3>5. a[n].core = run.core /\ (held(n) => ~a[n].mute)
        BY <2>2
      <3>6. a[n + 1].core = run.core /\ (held(n + 1) => ~a[n + 1].mute)
        BY ONLY <3>2, <3>3, <3>4, <3>5 DEF Moves
      <3> QED  BY <3>1, <3>6
    <2> HIDE DEF S
    <2>3. \A n \in 0..m : n \in S
      BY <1>2, <2>1, <2>2, RangeInduction
    <2> QED  BY <2>3 DEF S
  <1> HIDE DEF held
  <1>7. \A i \in 0..m :
            /\ a[i].held \subseteq a[i].ids /\ a[i].ids = 1..a[i].made
            /\ ~run.core => a[i].ids = {}
            /\ \A id \in a[i].ids \ a[i].held :
                 \E k \in DOMAIN a[i].calls : a[i].calls[k].op = "remove" /\ a[i].calls[k].id = id
            /\ held(i) => ~a[i].mute
    BY ONLY <1>5, <1>6 DEF Known
  <1> QED  BY <1>3, <1>7

\* A program that was told to end reads at most one more line.
EndsSoon(s, t) ==
  /\ t.sigExit
  /\ \/ t.at = "input" /\ t.calls = s.calls
     \/ t.at \in {"ended", "stuck"} /\ Len(t.calls) <= Len(s.calls) + 1

LEMMA EndsSoonKept ==
  ASSUME NEW s, Known(s), NEW t, Known(t), EndsSoon(s, t), NEW u, NEW e, Moves(t, u, e)
  PROVE  EndsSoon(s, u) /\ (e.event = "line" => u.at \in {"ended", "stuck"})
  <1>1. s.calls \in Seq(Calls)
    BY DEF Known, Program
  <1>2. \A c \in Calls : Len(Append(s.calls, c)) = Len(s.calls) + 1
    BY <1>1
  <1>3. Len(s.calls) \in Nat
    BY <1>1
  <1>4. u.sigExit
    BY DEF Moves, EndsSoon
  <1>5. CASE t.at = "input" /\ t.calls = s.calls
    <2>1. Len(u.calls) <= Len(s.calls) + 1 /\ (u.calls = s.calls \/ e.event = "line")
      BY <1>2, <1>3, <1>5 DEF Moves
    <2>2. (e.event = "line" => u.at = "ended") /\ (e.event # "line" => u.at \in {"input", "ended", "stuck"})
      BY <1>5 DEF Moves, EndsSoon
    <2> QED  BY <1>4, <2>1, <2>2 DEF EndsSoon
  <1>6. CASE t.at \in {"ended", "stuck"} /\ Len(t.calls) <= Len(s.calls) + 1
    <2>1. u.calls = t.calls /\ u.at = t.at
      BY <1>6 DEF Moves
    <2> QED  BY <1>4, <1>6, <2>1 DEF EndsSoon
  <1> QED  BY <1>5, <1>6 DEF EndsSoon

\* An interrupt ends the program within one line (sig_handler and console_controller,
\* full_model.cpp).
THEOREM InterruptAlwaysEnds ==
  ASSUME NEW run, IsRun(run), NEW history, IsDialogue(history)
  PROVE  Console!InterruptEnds(run, history)
  <1> DEFINE a == Console!After(run, history)
             m == Len(history)
             told(i) == history[i].event = "interrupt" /\ ~history[i].atLoopTop
                          /\ a[i - 1].at \in {"input", "spinning"}
  <1>1. Follows(a, run, history)
    BY HistoryFollows
  <1>2. m \in Nat /\ DOMAIN history = 1..m
    BY DEF IsDialogue
  <1>3. Console!InterruptEnds(run, history) <=>
          \A i \in DOMAIN history :
            /\ told(i) => a[i].at = IF a[i - 1].at = "input" THEN "input" ELSE "ended"
            /\ \A j \in (i + 1)..m : told(i) =>
                 /\ history[j].event = "line" => a[j].at \in {"ended", "stuck"}
                 /\ Len(a[j].calls) <= Len(a[i].calls) + 1
            /\ a[i - 1].at = "spinning" /\ a[i].at = "ended" => history[i].event = "interrupt"
    BY Zenon DEF Console!InterruptEnds
  <1> HIDE DEF a
  <1>4. /\ \A n \in 1..m : Moves(a[n - 1], a[n], history[n])
        /\ \A n \in 0..m : Known(a[n])
    BY <1>1 DEF Follows
  <1> HIDE DEF m
  <1>5. ASSUME NEW i \in 1..m, told(i)
        PROVE  a[i].at = IF a[i - 1].at = "input" THEN "input" ELSE "ended"
    BY <1>4, <1>5 DEF Moves
  <1>6. ASSUME NEW i \in 1..m, told(i)
        PROVE  \A j \in (i + 1)..m :
                 /\ history[j].event = "line" => a[j].at \in {"ended", "stuck"}
                 /\ Len(a[j].calls) <= Len(a[i].calls) + 1
    <2>1. Known(a[i]) /\ i \in Nat
      BY <1>2, <1>4
    <2>2. EndsSoon(a[i], a[i])
      <3>1. Moves(a[i - 1], a[i], history[i])
        BY <1>4
      <3>2. a[i].sigExit /\ a[i].at \in {"input", "ended"}
        BY <1>6, <3>1 DEF Moves
      <3>3. Len(a[i].calls) \in Nat
        BY <2>1 DEF Known, Program
      <3> QED  BY <3>2, <3>3 DEF EndsSoon
    <2> HIDE DEF told
    <2> DEFINE S == {n \in i..m : EndsSoon(a[i], a[n])}
    <2>3. i \in S
      BY <1>2, <2>1, <2>2
    <2>4. ASSUME NEW n \in i..(m - 1), EndsSoon(a[i], a[n])
          PROVE  EndsSoon(a[i], a[n + 1]) /\ (history[n + 1].event = "line" => a[n + 1].at \in {"ended", "stuck"})
      <3>1. n + 1 \in 1..m /\ n \in 0..m /\ (n + 1) - 1 = n
        BY <1>2
      <3>2. Moves(a[n], a[n + 1], history[n + 1]) /\ Known(a[n])
        BY <1>4, <3>1
      <3> QED  BY <2>1, <2>4, <3>2, EndsSoonKept
    <2>5. \A n \in i..(m - 1) : n \in S => n + 1 \in S
      <3> TAKE n \in i..(m - 1)
      <3> HAVE n \in S
      <3>1. n + 1 \in i..m
        BY <1>2
      <3> QED  BY <2>4, <3>1
    <2> HIDE DEF S
    <2>6. \A n \in i..m : n \in S
      BY <1>2, <2>1, <2>3, <2>5, RangeInduction
    <2> TAKE j \in (i + 1)..m
    <2>7. j - 1 \in i..(m - 1) /\ j - 1 \in i..m /\ (j - 1) + 1 = j
      BY <1>2
    <2>8. EndsSoon(a[i], a[j - 1])
      BY <2>6, <2>7 DEF S
    <2>9. EndsSoon(a[i], a[j]) /\ (history[j].event = "line" => a[j].at \in {"ended", "stuck"})
      <3>1. EndsSoon(a[i], a[(j - 1) + 1])
            /\ (history[(j - 1) + 1].event = "line" => a[(j - 1) + 1].at \in {"ended", "stuck"})
        BY <2>4, <2>7, <2>8
      <3> QED  BY <2>7, <3>1
    <2>10. Len(a[i].calls) \in Nat
      BY <2>1 DEF Known, Program
    <2> QED  BY <2>9, <2>10 DEF EndsSoon
  <1>7. ASSUME NEW i \in 1..m, a[i - 1].at = "spinning", a[i].at = "ended"
        PROVE  history[i].event = "interrupt"
    BY <1>4, <1>7 DEF Moves
  <1> HIDE DEF told
  <1> QED  BY <1>2, <1>3, <1>5, <1>6, <1>7, Zenon

\* What may be typed and what may happen in a word of the console.
ConsoleEvents == Symbols("console")

\* Everything that may happen in a word of the console is an event.
LEMMA TextOfThree ==
  ASSUME NEW T, NEW a \in T, NEW b \in T, NEW c \in T
  PROVE  <<a, b, c>> \in Seq(T)
  OBVIOUS

LEMMA SymbolsAreEvents ==
  ASSUME NEW e \in Symbols("console")
  PROVE  IsEvent(e)
  <1> DEFINE told == [event : {"interrupt"}, atLoopTop : BOOLEAN]
  <1>1. Symbols("console") =
         {TypedPair(<<"1", ",", "2">>), TypedPair(<<"2", ",", "1">>), TypedFile("ok"),
          TypedFile("refused"), TypedId("remove"), TypedId("pause"), TypedId("resume"),
          TypedId("get_info"), Typed("quit"), Typed("none"), [event |-> "end of input"]}
           \cup told
    BY Zenon DEF Symbols
  <1>2. ASSUME NEW a \in {"1", "2"}, NEW b \in {"1", "2"}, e = TypedPair(<<a, Comma, b>>)
        PROVE  IsEvent(e)
    <2> DEFINE x == <<a, Comma, b>>
    <2>1. IsText(x)
      <3>1. x \in Seq({a, Comma, b})
        BY TextOfThree
      <3> QED  BY <3>1 DEF IsText
    <2> HIDE DEF x
    <2>2. e = [event |-> "line", option |-> "start", text |-> x]
      BY <1>2, Zenon DEF TypedPair, x
    <2>3. e.event = "line" /\ e.option = "start" /\ e.text = x
      BY <2>2
    <2>4. e.option \in DOMAIN Console!Registered
      BY <2>3, Options
    <2> QED  BY <2>1, <2>3, <2>4 DEF IsEvent, IsLine
  <1>3. ASSUME NEW answer, e = TypedFile(answer) PROVE IsEvent(e)
    <2>1. e.event = "line" /\ e.option = "add"
      BY <1>3 DEF TypedFile
    <2> QED  BY <2>1, Options DEF IsEvent, IsLine
  <1>4. ASSUME NEW o \in {"remove", "pause", "resume", "get_info"}, e = TypedId(o) PROVE IsEvent(e)
    <2>1. e.event = "line" /\ e.option = o /\ e.id = 1
      BY <1>4 DEF TypedId
    <2>2. o \in DOMAIN Console!Registered /\ o # "start"
      BY Options
    <2> QED  BY <2>1, <2>2 DEF IsEvent, IsLine
  <1>5. ASSUME NEW o \in {"quit", "none"}, e = Typed(o) PROVE IsEvent(e)
    <2>1. e.event = "line" /\ e.option = o
      BY <1>5 DEF Typed
    <2>2. o \in DOMAIN Console!Registered \cup {"none"}
      BY Options
    <2> QED  BY <2>1, <2>2 DEF IsEvent, IsLine
  <1>6. ASSUME e = [event |-> "end of input"] PROVE IsEvent(e)
    BY <1>6 DEF IsEvent
  <1>7. ASSUME e \in told PROVE IsEvent(e)
    BY <1>7 DEF IsEvent
  <1> HIDE DEF told
  <1>8. \/ e = TypedPair(<<"1", Comma, "2">>) \/ e = TypedPair(<<"2", Comma, "1">>)
        \/ e = TypedFile("ok") \/ e = TypedFile("refused")
        \/ e = TypedId("remove") \/ e = TypedId("pause") \/ e = TypedId("resume") \/ e = TypedId("get_info")
        \/ e = Typed("quit") \/ e = Typed("none") \/ e = [event |-> "end of input"] \/ e \in told
    BY <1>1, Zenon DEF Comma
  <1> QED  BY ONLY <1>2, <1>3, <1>4, <1>5, <1>6, <1>7, <1>8, Zenon

LEMMA RunsAreRuns ==
  ASSUME NEW run \in Runs
  PROVE  IsRun(run)
  <1>1. Runs = {[core |-> TRUE, options |-> TRUE, directory |-> TRUE, files |-> <<>>],
                [core |-> TRUE, options |-> TRUE, directory |-> TRUE, files |-> <<"refused", "ok">>],
                [core |-> FALSE, options |-> TRUE, directory |-> TRUE, files |-> <<"ok">>],
                [core |-> TRUE, options |-> TRUE, directory |-> FALSE, files |-> <<>>]}
    BY Zenon DEF Runs
  <1>2. Len(<<>>) \in Nat /\ Len(<<"refused", "ok">>) \in Nat /\ Len(<<"ok">>) \in Nat
    OBVIOUS
  <1>3. ASSUME NEW core \in BOOLEAN, NEW directory \in BOOLEAN, NEW files, Len(files) \in Nat,
               run = [core |-> core, options |-> TRUE, directory |-> directory, files |-> files]
        PROVE  IsRun(run)
    BY <1>3 DEF IsRun
  <1> QED  BY <1>1, <1>2, <1>3

\* What the words of the console and the typed texts are.
ConsoleWord ==
  /\ word \in Seq(Runs \cup ConsoleEvents) /\ Len(word) > 0
  /\ word[1] \in Runs /\ \A i \in 2..Len(word) : word[i] \in ConsoleEvents

CommandsTyped ==
  /\ kind = "console" => ConsoleWord
  /\ kind = "typed" => word \in Seq(Symbols("typed"))

LEMMA DialogueOfWord ==
  ASSUME ConsoleWord
  PROVE  IsRun(Head(word)) /\ IsDialogue(Tail(word))
  <1> DEFINE t == Tail(word)
  <1>1. Head(word) \in Runs
    BY DEF ConsoleWord
  <1>2. /\ Len(t) \in Nat /\ DOMAIN t = 1..Len(t)
        /\ \A n \in 1..Len(t) : n + 1 \in 2..Len(word) /\ t[n] = word[n + 1]
    BY DEF ConsoleWord
  <1> HIDE DEF t
  <1>3. \A n \in 1..Len(t) : t[n] \in Symbols("console")
    BY <1>2 DEF ConsoleWord, ConsoleEvents
  <1>4. IsDialogue(t)
    BY <1>2, <1>3, SymbolsAreEvents DEF IsDialogue
  <1> QED  BY <1>1, <1>4, RunsAreRuns DEF t

\* What every history of the console does, however long it is.
THEOREM CommandsAlwaysCarriedOut == Spec => []CommandsCarriedOut
<1>1. Init => CommandsTyped
  <2> SUFFICES ASSUME Init PROVE CommandsTyped
    OBVIOUS
  <2>1. CASE kind = "console"
    <3>1. word \in Starts("console")
      BY <2>1 DEF Init
    <3>2. Starts("console") = {<<run>> : run \in Runs}
      BY Zenon DEF Starts
    <3>3. PICK run \in Runs : word = <<run>>
      BY <3>1, <3>2
    <3>4. ConsoleWord
      BY <3>3 DEF ConsoleWord
    <3> QED  BY <2>1, <3>4 DEF CommandsTyped
  <2>2. CASE kind = "typed"
    <3>1. word \in Starts("typed")
      BY <2>2 DEF Init
    <3>2. Starts("typed") = {<<>>}
      BY DEF Starts
    <3>3. word = <<>>
      BY <3>1, <3>2
    <3>4. word \in Seq(Symbols("typed"))
      BY <3>3
    <3> QED  BY <2>2, <3>4 DEF CommandsTyped
  <2> QED  BY <2>1, <2>2 DEF CommandsTyped
<1>2. CommandsTyped /\ [Next]_<<kind, word, left>> => CommandsTyped'
  <2> SUFFICES ASSUME CommandsTyped, [Next]_<<kind, word, left>> PROVE CommandsTyped'
    OBVIOUS
  <2>1. CASE Grow
    <3>1. kind' = kind /\ \E symbol \in Symbols(kind) : word' = Append(word, symbol)
      BY <2>1 DEF Grow
    <3>2. CASE kind = "console"
      <4>1. PICK symbol \in ConsoleEvents : word' = Append(word, symbol)
        BY <3>1, <3>2 DEF ConsoleEvents
      <4>2. ConsoleWord
        BY <3>2 DEF CommandsTyped
      <4> DEFINE w == Append(word, symbol)
      <4>3. /\ w \in Seq(Runs \cup ConsoleEvents) /\ Len(w) > 0
            /\ w[1] = word[1] /\ Len(w) = Len(word) + 1
            /\ w[Len(w)] = symbol /\ \A i \in 1..Len(word) : w[i] = word[i]
        BY <4>2 DEF ConsoleWord
      <4> HIDE DEF w
      <4>4. \A i \in 2..Len(w) : w[i] \in ConsoleEvents
        <5> TAKE i \in 2..Len(w)
        <5>1. Len(word) \in Nat
          BY <4>2 DEF ConsoleWord
        <5>2. i = Len(w) \/ i \in 2..Len(word)
          BY <4>3, <5>1
        <5> QED  BY <4>2, <4>3, <5>2 DEF ConsoleWord
      <4>5. ConsoleWord'
        <5>1. word' = w
          BY <4>1 DEF w
        <5> QED  BY <4>2, <4>3, <4>4, <5>1 DEF ConsoleWord, ConsoleEvents
      <4> QED  BY <3>1, <3>2, <4>5 DEF CommandsTyped
    <3>3. CASE kind = "typed"
      <4>1. PICK symbol \in Symbols("typed") : word' = Append(word, symbol)
        BY <3>1, <3>3
      <4>2. word \in Seq(Symbols("typed"))
        BY <3>3 DEF CommandsTyped
      <4>3. word' \in Seq(Symbols("typed"))
        BY <4>1, <4>2
      <4> QED  BY <3>1, <3>3, <4>3 DEF CommandsTyped
    <3> QED  BY <3>1, <3>2, <3>3 DEF CommandsTyped
  <2>2. CASE UNCHANGED <<kind, word, left>>
    BY <2>2 DEF CommandsTyped, ConsoleWord, ConsoleEvents
  <2> QED  BY <2>1, <2>2 DEF Next
<1>3. CommandsTyped => CommandsCarriedOut
  <2> SUFFICES ASSUME CommandsTyped PROVE CommandsCarriedOut
    OBVIOUS
  <2>1. ASSUME kind = "console"
        PROVE  /\ Console!InterruptEnds(Head(word), Tail(word))
               /\ Console!CallsAsTyped(Head(word), Tail(word))
               /\ Console!TorrentsListed(Head(word), Tail(word))
    <3>1. IsRun(Head(word)) /\ IsDialogue(Tail(word))
      BY <2>1, DialogueOfWord DEF CommandsTyped
    <3> QED  BY <3>1, InterruptAlwaysEnds, CallsAlwaysAsTyped, TorrentsAlwaysListed
  <2>2. ASSUME kind = "typed" PROVE Console!PairsRead(word)
    BY <2>2, PairsAlwaysRead DEF CommandsTyped
  <2> QED  BY <2>1, <2>2, Zenon DEF CommandsCarriedOut
<1> QED  BY <1>1, <1>2, <1>3, PTL DEF Spec

-----------------------------------------------------------------------------
(* The Range header as a client writes it (http_utility.cpp:139), and the  *)
(* server that mongoose falls back to (mongoose.c:5123).                   *)

\* Two texts of the same characters are the same.
LEMMA SameSequence ==
  ASSUME NEW S, NEW s \in Seq(S), NEW t \in Seq(S), Len(s) = Len(t),
         \A i \in 1..Len(s) : s[i] = t[i]
  PROVE  s = t
  OBVIOUS

\* What a part of a text holds.
LEMMA PartOfText ==
  ASSUME NEW S, NEW text \in Seq(S), NEW k \in Nat, NEW n \in Nat, k + n <= Len(text)
  PROVE  /\ SubSeq(text, k + 1, k + n) \in Seq(S) /\ Len(SubSeq(text, k + 1, k + n)) = n
         /\ \A i \in 1..n : SubSeq(text, k + 1, k + n)[i] = text[k + i]
  <1> DEFINE t == SubSeq(text, k + 1, k + n)
  <1>1. t \in Seq(S) /\ Len(t) = n
    OBVIOUS
  <1>2. \A i \in 1..n : t[i] = text[(k + 1) + i - 1] /\ (k + 1) + i - 1 = k + i
    BY <1>1
  <1> HIDE DEF t
  <1>3. \A i \in 1..n : t[i] = text[k + i]
    BY <1>2
  <1> QED  BY <1>1, <1>3 DEF t

\* The position of a character that stands at one place only.
LEMMA OnlyPosition ==
  ASSUME NEW S, NEW text \in Seq(S), NEW c, NEW k \in 1..Len(text), text[k] = c,
         \A i \in 1..Len(text) : i # k => text[i] # c
  PROVE  Requests!Position(text, c) = k
  BY PositionIs

\* The characters of the marks, and those that stand between them.
MarkCharacters == {"*", "0", "1", "2"}

Dash == "-"

RangeCharacters == MarkCharacters \cup {"b", "=", Dash, Comma}

LEMMA MarksAreNone ==
  /\ Comma \notin MarkCharacters \cup {"b", "=", Dash}
  /\ "=" \notin MarkCharacters \cup {"b", Dash, Comma}
  /\ Dash \notin MarkCharacters
  BY Zenon DEF Comma, Dash, MarkCharacters

\* Each mark is read as what it means.
LEMMA MarkRead ==
  ASSUME NEW a \in Requests!Marks
  PROVE  /\ a \in Seq(MarkCharacters) /\ Requests!Cast(a) = Requests!Meaning(a)
         /\ Requests!Meaning(a) # Requests!Bad
  <1>1. Requests!Marks = {<<>>, <<"*">>, <<"0">>, <<"1">>, <<"2">>, <<"1", "0">>}
    BY DEF Requests!Marks
  <1>2. a \in Seq(MarkCharacters)
    <2>1. "*" \in MarkCharacters /\ "0" \in MarkCharacters /\ "1" \in MarkCharacters
          /\ "2" \in MarkCharacters
      BY DEF MarkCharacters
    <2>2. \A c \in MarkCharacters : <<c>> \in Seq(MarkCharacters)
      OBVIOUS
    <2>3. \A c, d \in MarkCharacters : <<c, d>> \in Seq(MarkCharacters)
      OBVIOUS
    <2>4. <<>> \in Seq(MarkCharacters)
      OBVIOUS
    <2> QED  BY ONLY <1>1, <2>1, <2>2, <2>3, <2>4, a \in Requests!Marks, Zenon
  <1>3. CASE a \in {<<>>, <<"*">>}
    <2>1. Requests!Cast(a) = Requests!All /\ Requests!Meaning(a) = Requests!All
      BY <1>3, Zenon DEF Requests!Cast, Requests!Meaning
    <2> QED  BY <1>2, <2>1 DEF Requests!All, Requests!Bad
  <1>4. CASE a \notin {<<>>, <<"*">>}
    <2>1. Requests!IsNumber(a)
      <3>1. DOMAIN Requests!DigitOf = {"0", "1", "2", "3"}
        BY DEF Requests!DigitOf
      <3>2. a # <<>> /\ \A i \in DOMAIN a : a[i] \in {"0", "1", "2", "3"}
        BY <1>1, <1>4
      <3> QED  BY <3>1, <3>2 DEF Requests!IsNumber
    <2>2. Requests!Cast(a) = Requests!NumberOf(a) /\ Requests!Meaning(a) = Requests!NumberOf(a)
      BY <1>4, <2>1, Zenon DEF Requests!Cast, Requests!Meaning
    <2>3. Requests!NumberOf(a) \in Nat
      BY <1>2, <2>1, NumberTyped
    <2> QED  BY <1>2, <2>2, <2>3 DEF Requests!Bad
  <1> QED  BY <1>3, <1>4

\* The range of two marks stands in the value from first to last.
WrittenAt(value, first, last, a, b) ==
  /\ first \in Int /\ last \in Int /\ ~(last < first - 1)
  /\ SubSeq(value, first, last) = a \o <<Dash>> \o b

\* What two marks are taken as.
Taken(a, b) ==
  [outcome |-> "taken", start |-> Requests!Meaning(a), end |-> Requests!Meaning(b)]

\* A part that was written with two marks is taken as what they mean.
LEMMA PartTaken ==
  ASSUME NEW value, NEW first, NEW last, NEW a \in Requests!Marks, NEW b \in Requests!Marks,
         WrittenAt(value, first, last, a, b)
  PROVE  Requests!Part(value, first, last) = Taken(a, b)
  <1> DEFINE text == SubSeq(value, first, last)
             dash == Requests!Position(text, Dash)
             start == Requests!Cast(SubSeq(text, 1, dash - 1))
             end == Requests!Cast(SubSeq(text, dash + 1, Len(text)))
  <1>1. Requests!Part(value, first, last) =
          IF last < first - 1 THEN [outcome |-> "throws"]
          ELSE IF dash = 0 \/ start = Requests!Bad \/ end = Requests!Bad THEN [outcome |-> "refused"]
          ELSE [outcome |-> "taken", start |-> start, end |-> end]
    BY Zenon DEF Requests!Part, Dash
  <1> DEFINE S == MarkCharacters \cup {Dash}
             n == Len(a) + 1
  <1>2. a \in Seq(S) /\ b \in Seq(S) /\ \A i \in 1..Len(a) : a[i] # Dash
    <2>1. a \in Seq(MarkCharacters) /\ b \in Seq(MarkCharacters)
      BY MarkRead
    <2>2. Dash \notin MarkCharacters
      BY MarksAreNone
    <2> HIDE DEF S
    <2>3. MarkCharacters \subseteq S
      BY DEF S
    <2> QED  BY <2>1, <2>2, <2>3
  <1>3. \A i \in 1..Len(b) : b[i] # Dash
    <2>1. b \in Seq(MarkCharacters) /\ Dash \notin MarkCharacters
      BY MarkRead, MarksAreNone
    <2> QED  BY <2>1
  <1>4. Dash \in S /\ text = a \o <<Dash>> \o b
    BY DEF WrittenAt
  <1> HIDE DEF S, text
  <1>5. /\ text \in Seq(S) /\ Len(text) = n + Len(b) /\ text[n] = Dash
        /\ \A i \in 1..Len(a) : text[i] = a[i]
        /\ \A i \in 1..Len(b) : text[n + i] = b[i]
    BY <1>2, <1>4
  <1>6. Len(a) \in Nat /\ Len(b) \in Nat
    BY <1>2
  <1>7. dash = n
    <2>1. n \in 1..Len(text)
      BY <1>5, <1>6
    <2>2. \A i \in 1..Len(text) : i # n => text[i] # Dash
      <3> TAKE i \in 1..Len(text)
      <3> HAVE i # n
      <3>1. i \in 1..Len(a) \/ (i - n \in 1..Len(b) /\ n + (i - n) = i)
        <4>1. i \in 1..(Len(a) + 1 + Len(b)) /\ i # Len(a) + 1
          BY ONLY <1>5, i \in 1..Len(text), i # n
        <4> QED  BY ONLY <1>6, <4>1
      <3>2. CASE i \in 1..Len(a)
        BY <1>2, <1>5, <3>2
      <3>3. CASE i - n \in 1..Len(b) /\ n + (i - n) = i
        <4>1. text[n + (i - n)] = b[i - n] /\ b[i - n] # Dash
          BY <1>3, <1>5, <3>3
        <4> QED  BY <3>3, <4>1
      <3> QED  BY <3>1, <3>2, <3>3
    <2> HIDE DEF n
    <2> QED  BY <1>5, <2>1, <2>2, OnlyPosition
  <1>8. SubSeq(text, 1, n - 1) = a
    <2> DEFINE m == Len(a)
               t == SubSeq(text, 0 + 1, 0 + m)
    <2>1. 0 \in Nat /\ m \in Nat /\ 0 + m <= Len(text) /\ n - 1 = 0 + m /\ 0 + 1 = 1
      BY <1>5, <1>6
    <2>2. t \in Seq(S) /\ Len(t) = m /\ \A i \in 1..m : t[i] = text[0 + i]
      <3> HIDE DEF m
      <3> QED  BY <1>5, <2>1, PartOfText
    <2>3. \A i \in 1..m : 0 + i = i
      OBVIOUS
    <2> HIDE DEF t
    <2>4. t = a
      <3>1. \A i \in 1..Len(t) : t[i] = a[i]
        BY <1>5, <2>2, <2>3
      <3> QED  BY <1>2, <2>2, <3>1, SameSequence
    <2> QED  BY <2>1, <2>4 DEF t
  <1>9. SubSeq(text, n + 1, Len(text)) = b
    <2> DEFINE m == Len(b)
               t == SubSeq(text, n + 1, n + m)
    <2>1. n \in Nat /\ m \in Nat /\ n + m <= Len(text) /\ Len(text) = n + m
      BY <1>5, <1>6
    <2> HIDE DEF n
    <2>2. t \in Seq(S) /\ Len(t) = m /\ \A i \in 1..m : t[i] = text[n + i]
      <3> HIDE DEF m
      <3> QED  BY <1>5, <2>1, PartOfText
    <2> HIDE DEF t
    <2>3. t = b
      <3>1. \A i \in 1..Len(t) : t[i] = b[i]
        BY <1>5, <2>2
      <3> QED  BY <1>2, <2>2, <3>1, SameSequence
    <2> QED  BY <2>1, <2>3 DEF t
  <1>10. start = Requests!Meaning(a) /\ end = Requests!Meaning(b) /\ dash # 0
    <2> HIDE DEF dash
    <2>1. n # 0
      BY <1>6
    <2> HIDE DEF n
    <2> QED  BY <1>7, <1>8, <1>9, <2>1, MarkRead
  <1>11. Requests!Meaning(a) # Requests!Bad /\ Requests!Meaning(b) # Requests!Bad
    BY MarkRead
  <1> HIDE DEF start, end, dash
  <1>12. ~(last < first - 1)
    BY DEF WrittenAt
  <1> QED  BY ONLY <1>1, <1>10, <1>11, <1>12 DEF Taken

\* What two texts make together.
Joins(w, x, y) ==
  /\ Len(w) = Len(x) + Len(y)
  /\ \A i \in 1..Len(x) : w[i] = x[i]
  /\ \A i \in 1..Len(y) : w[Len(x) + i] = y[i]

LEMMA JoinedTexts ==
  ASSUME NEW S, NEW x \in Seq(S), NEW y \in Seq(S)
  PROVE  x \o y \in Seq(S) /\ Joins(x \o y, x, y)
  BY DEF Joins

LEMMA LastPart ==
  ASSUME NEW S, NEW x \in Seq(S), NEW y \in Seq(S)
  PROVE  SubSeq(x \o y, Len(x) + 1, Len(x \o y)) = y
  <1> DEFINE w == x \o y
             k == Len(x)
             n == Len(y)
             t == SubSeq(w, k + 1, k + n)
  <1>1. w \in Seq(S) /\ k + n <= Len(w) /\ Len(w) = k + n /\ \A i \in 1..n : w[k + i] = y[i]
    OBVIOUS
  <1>2. k \in Nat /\ n \in Nat
    OBVIOUS
  <1> HIDE DEF w, k
  <1>3. t \in Seq(S) /\ Len(t) = n /\ \A i \in 1..n : t[i] = w[k + i]
    <2> HIDE DEF n
    <2> QED  BY <1>1, <1>2, PartOfText
  <1> HIDE DEF t
  <1>4. \A i \in 1..Len(t) : t[i] = y[i]
    BY <1>1, <1>3
  <1>5. t = y
    BY <1>3, <1>4, SameSequence
  <1>6. SubSeq(w, k + 1, Len(w)) = y
    BY <1>1, <1>5 DEF t
  <1> QED  BY <1>6 DEF w, k

\* A range of two marks has neither an '=' nor a comma in it.
RangeOf(a, b) == a \o <<Dash>> \o b

LEMMA RangeIs ==
  ASSUME NEW a \in Requests!Marks, NEW b \in Requests!Marks
  PROVE  /\ RangeOf(a, b) \in Seq(RangeCharacters) /\ Len(RangeOf(a, b)) > 0
         /\ \A i \in 1..Len(RangeOf(a, b)) : RangeOf(a, b)[i] # "=" /\ RangeOf(a, b)[i] # Comma
  <1> DEFINE S == MarkCharacters \cup {Dash}
             r == RangeOf(a, b)
  <1>1. a \in Seq(S) /\ b \in Seq(S) /\ Dash \in S
    <2>1. a \in Seq(MarkCharacters) /\ b \in Seq(MarkCharacters) /\ MarkCharacters \subseteq S
      BY MarkRead
    <2> HIDE DEF S
    <2>2. a \in Seq(S) /\ b \in Seq(S)
      BY <2>1
    <2> QED  BY <2>2 DEF S
  <1>2. S \subseteq RangeCharacters /\ "=" \notin S /\ Comma \notin S
    BY MarksAreNone, Zenon DEF RangeCharacters
  <1> HIDE DEF S
  <1>3. r \in Seq(S) /\ Len(r) > 0
    BY <1>1 DEF RangeOf
  <1> HIDE DEF r
  <1>4. r \in Seq(RangeCharacters) /\ \A i \in 1..Len(r) : r[i] # "=" /\ r[i] # Comma
    BY <1>2, <1>3
  <1> QED  BY <1>3, <1>4 DEF r

\* What a header is translated to, from the places of its '=' and its comma.
LEMMA TranslateIs ==
  ASSUME NEW value, NEW equals, NEW comma, NEW first, NEW second, equals # 0,
         ~(comma # 0 /\ comma = Len(value)),
         Requests!Position(value, "=") = equals, Requests!Position(value, Comma) = comma,
         second = IF comma = 0 THEN Requests!NoPart ELSE Requests!Part(value, comma + 1, Len(value)),
         first = Requests!Part(value, equals + 1, IF comma = 0 THEN Len(value) ELSE comma - 1),
         first.outcome = "taken", second.outcome \notin {"refused", "throws"}
  PROVE  /\ Requests!Translate(value).outcome = "taken"
         /\ Requests!Translate(value).first = first
         /\ Requests!Translate(value).second = second
  <1> DEFINE oldEquals == Requests!Position(value, "=")
             oldComma == Requests!Position(value, Comma)
             oldSecond == IF oldComma = 0 THEN Requests!NoPart
                          ELSE Requests!Part(value, oldComma + 1, Len(value))
             oldFirst == Requests!Part(value, oldEquals + 1,
                                       IF oldComma = 0 THEN Len(value) ELSE oldComma - 1)
             outcome == IF oldEquals = 0 \/ (oldComma # 0 /\ oldComma = Len(value)) THEN "refused"
                        ELSE IF oldSecond.outcome \in {"refused", "throws"} THEN oldSecond.outcome
                        ELSE oldFirst.outcome
  <1>1. Requests!Translate(value) =
          IF outcome = "taken" THEN [outcome |-> outcome, first |-> oldFirst, second |-> oldSecond]
          ELSE [outcome |-> outcome]
    BY Zenon DEF Requests!Translate, Comma
  <1>2. oldEquals = equals /\ oldComma = comma
    OBVIOUS
  <1> HIDE DEF oldEquals, oldComma
  <1>3. oldFirst = first /\ oldSecond = second
    BY <1>2, Zenon
  <1> HIDE DEF oldFirst, oldSecond
  <1>4. outcome = "taken"
    BY <1>2, <1>3
  <1> HIDE DEF outcome
  <1>5. Requests!Translate(value) = [outcome |-> "taken", first |-> first, second |-> second]
    BY ONLY <1>1, <1>3, <1>4
  <1> QED  BY ONLY <1>5

LEMMA OneRange ==
  ASSUME NEW a \in Requests!Marks, NEW b \in Requests!Marks,
         NEW value, value = <<"b", "=">> \o RangeOf(a, b)
  PROVE  LET t == Requests!Translate(value)
         IN  t.outcome = "taken" /\ Requests!Means(t.first, a, b) /\ t.second = Requests!NoPart
  <1> DEFINE S == RangeCharacters
             x == <<"b", "=">>
             r == RangeOf(a, b)
             n == Len(value)
             part == Taken(a, b)
  <1>1. r \in Seq(S) /\ Len(r) > 0 /\ \A i \in 1..Len(r) : r[i] # "=" /\ r[i] # Comma
    BY RangeIs
  <1>2. "b" \in S /\ "=" \in S
    BY Zenon DEF RangeCharacters
  <1>3. "b" # "=" /\ "b" # Comma /\ "=" # Comma
    BY Zenon DEF Comma
  <1> HIDE DEF S, r
  <1>4. x \in Seq(S) /\ Len(x) = 2 /\ x[1] = "b" /\ x[2] = "="
    BY <1>2
  <1>5. value = x \o r
    BY DEF r
  <1> HIDE DEF x
  <1>6. /\ value \in Seq(S) /\ n = 2 + Len(r) /\ value[1] = "b" /\ value[2] = "="
        /\ \A i \in 1..Len(r) : value[2 + i] = r[i]
    <2>1. 1 \in 1..Len(x) /\ 2 \in 1..Len(x)
      BY <1>4
    <2>2. /\ value \in Seq(S) /\ Len(value) = Len(x) + Len(r)
          /\ \A i \in 1..Len(x) : value[i] = x[i]
          /\ \A i \in 1..Len(r) : value[Len(x) + i] = r[i]
      <3>1. x \o r \in Seq(S) /\ Joins(x \o r, x, r)
        <4>1. x \in Seq(S) /\ r \in Seq(S)
          BY ONLY <1>1, <1>4
        <4> QED  BY ONLY <4>1, JoinedTexts
      <3> QED  BY ONLY <1>5, <3>1 DEF Joins
    <2> QED  BY <1>4, <2>1, <2>2
  <1>7. \A i \in 1..n : i = 1 \/ i = 2 \/ (i - 2 \in 1..Len(r) /\ 2 + (i - 2) = i)
    <2>1. Len(r) \in Nat
      BY <1>1
    <2> QED  BY <1>6, <2>1
  <1>8. \A i \in 1..n : value[i] # Comma /\ (i # 2 => value[i] # "=")
    <2> TAKE i \in 1..n
    <2>1. CASE i \in {1, 2}
      BY <1>3, <1>6, <2>1
    <2>2. CASE i - 2 \in 1..Len(r) /\ 2 + (i - 2) = i
      <3>1. value[2 + (i - 2)] = r[i - 2] /\ r[i - 2] # "=" /\ r[i - 2] # Comma
        BY <1>1, <1>6, <2>2
      <3> QED  BY <2>2, <3>1
    <2> QED  BY <1>7, <2>1, <2>2
  <1>9. Requests!Position(value, "=") = 2
    <2>1. 2 \in 1..Len(value)
      BY <1>1, <1>6
    <2>2. value \in Seq(S) /\ value[2] = "=" /\ \A i \in 1..Len(value) : i # 2 => value[i] # "="
      BY <1>6, <1>8
    <2> QED  BY ONLY <2>1, <2>2, OnlyPosition
  <1>10. Requests!Position(value, Comma) = 0
    <2>1. value \in Seq(S) /\ \A i \in 1..Len(value) : value[i] # Comma
      BY <1>6, <1>8
    <2> QED  BY ONLY <2>1, PositionIs
  <1>11. Requests!Part(value, 2 + 1, n) = part
    <2> DEFINE f == 2 + 1
    <2>1. SubSeq(value, f, n) = a \o <<Dash>> \o b
      <3>1. SubSeq(value, f, n) = r
        <4>1. f = Len(x) + 1
          BY <1>4
        <4> HIDE DEF f
        <4> QED  BY <1>1, <1>4, <1>5, <4>1, LastPart
      <3> QED  BY <3>1, Zenon DEF r, RangeOf
    <2>2. n \in Int /\ f \in Int /\ ~(n < f - 1)
      BY <1>1, <1>6
    <2> HIDE DEF n, f
    <2>3. Requests!Part(value, f, n) = part
      <3>1. WrittenAt(value, f, n, a, b)
        BY <2>1, <2>2 DEF WrittenAt
      <3> QED  BY <3>1, PartTaken
    <2> QED  BY <2>3 DEF f
  <1>12. Requests!NoPart.outcome \notin {"refused", "throws"} /\ part.outcome = "taken"
    BY DEF Requests!NoPart, Taken
  <1>13. /\ Requests!Translate(value).outcome = "taken"
         /\ Requests!Translate(value).first = part
         /\ Requests!Translate(value).second = Requests!NoPart
    <2> DEFINE second == IF 0 = 0 THEN Requests!NoPart ELSE Requests!Part(value, 0 + 1, Len(value))
               first == Requests!Part(value, 2 + 1, IF 0 = 0 THEN Len(value) ELSE 0 - 1)
    <2>1. second = Requests!NoPart /\ first = part
      <3> HIDE DEF part
      <3> QED  BY <1>11
    <2>2. second.outcome \notin {"refused", "throws"} /\ first.outcome = "taken"
      BY <1>12, <2>1
    <2>3. 2 # 0 /\ ~(0 # 0 /\ 0 = Len(value))
      OBVIOUS
    <2>4. /\ Requests!Translate(value).outcome = "taken"
          /\ Requests!Translate(value).first = first
          /\ Requests!Translate(value).second = second
      <3>1. /\ second = IF 0 = 0 THEN Requests!NoPart ELSE Requests!Part(value, 0 + 1, Len(value))
            /\ first = Requests!Part(value, 2 + 1, IF 0 = 0 THEN Len(value) ELSE 0 - 1)
        BY Zenon
      <3> HIDE DEF first, second
      <3> QED  BY ONLY <1>9, <1>10, <2>2, <2>3, <3>1, TranslateIs
    <2> QED  BY <2>1, <2>4
  <1> HIDE DEF part
  <1>14. Requests!Means(part, a, b)
    BY DEF Requests!Means, part, Taken
  <1> QED  BY <1>13, <1>14

\* A header of two ranges.
TwoWritten(value, a, b, c, d) ==
  value = <<"b", "=">> \o RangeOf(a, b) \o <<Comma>> \o RangeOf(c, d)

LEMMA TwoRanges ==
  ASSUME NEW a \in Requests!Marks, NEW b \in Requests!Marks,
         NEW c \in Requests!Marks, NEW d \in Requests!Marks,
         NEW value, TwoWritten(value, a, b, c, d)
  PROVE  LET t == Requests!Translate(value)
         IN  t.outcome = "taken" /\ Requests!Means(t.first, a, b) /\ Requests!Means(t.second, c, d)
  <1> DEFINE S == RangeCharacters
             x == <<"b", "=">>
             r == RangeOf(a, b)
             q == RangeOf(c, d)
             u == x \o r
             v == u \o <<Comma>>
             n == Len(value)
             k == 3 + Len(r)
  <1>1. /\ r \in Seq(S) /\ Len(r) > 0 /\ \A i \in 1..Len(r) : r[i] # "=" /\ r[i] # Comma
        /\ q \in Seq(S) /\ Len(q) > 0 /\ \A i \in 1..Len(q) : q[i] # "=" /\ q[i] # Comma
    BY RangeIs
  <1>2. "b" \in S /\ "=" \in S /\ Comma \in S
    BY Zenon DEF RangeCharacters
  <1>3. "b" # "=" /\ "b" # Comma /\ "=" # Comma
    BY Zenon DEF Comma
  <1> HIDE DEF S, r, q
  <1>4. x \in Seq(S) /\ Len(x) = 2 /\ x[1] = "b" /\ x[2] = "="
    BY <1>2
  <1>5. <<Comma>> \in Seq(S) /\ Len(<<Comma>>) = 1 /\ <<Comma>>[1] = Comma
    BY <1>2
  <1>6. value = v \o q
    BY Zenon DEF r, q, TwoWritten
  <1> HIDE DEF x
  <1>7. u \in Seq(S) /\ Joins(u, x, r)
    <2>1. x \in Seq(S) /\ r \in Seq(S)
      BY ONLY <1>1, <1>4
    <2> QED  BY ONLY <2>1, JoinedTexts
  <1> HIDE DEF u
  <1>8. v \in Seq(S) /\ Joins(v, u, <<Comma>>)
    <2>1. u \in Seq(S) /\ <<Comma>> \in Seq(S)
      BY ONLY <1>5, <1>7
    <2> QED  BY ONLY <2>1, JoinedTexts
  <1> HIDE DEF v
  <1>9. value \in Seq(S) /\ Joins(value, v, q)
    <2>1. v \in Seq(S) /\ q \in Seq(S)
      BY ONLY <1>1, <1>8
    <2>2. v \o q \in Seq(S) /\ Joins(v \o q, v, q)
      BY ONLY <2>1, JoinedTexts
    <2> QED  BY ONLY <1>6, <2>2
  <1>10. Len(r) \in Nat /\ Len(q) \in Nat /\ Len(r) > 0 /\ Len(q) > 0
    BY <1>1
  <1>11. Len(u) = 2 + Len(r) /\ Len(v) = k /\ n = k + Len(q)
    BY <1>4, <1>5, <1>7, <1>8, <1>9 DEF Joins
  <1>12. value[1] = "b" /\ value[2] = "=" /\ value[k] = Comma
    <2>1. 1 \in 1..Len(x) /\ 2 \in 1..Len(x) /\ 1 \in 1..Len(u) /\ 2 \in 1..Len(u)
          /\ 1 \in 1..Len(v) /\ 2 \in 1..Len(v) /\ k \in 1..Len(v) /\ k = Len(u) + 1
      BY <1>4, <1>10, <1>11
    <2>2. u[1] = "b" /\ u[2] = "="
      BY <1>4, <1>7, <2>1 DEF Joins
    <2>3. v[1] = "b" /\ v[2] = "="
      BY <1>8, <2>1, <2>2 DEF Joins
    <2>4. v[k] = Comma
      <3>1. 1 \in 1..Len(<<Comma>>)
        BY <1>5
      <3>2. v[Len(u) + 1] = <<Comma>>[1]
        BY <1>8, <3>1 DEF Joins
      <3> HIDE DEF k
      <3> QED  BY ONLY <1>5, <2>1, <3>2
    <2> HIDE DEF k
    <2> QED  BY <1>9, <2>1, <2>3, <2>4 DEF Joins
  <1>13. \A i \in 1..Len(r) : value[2 + i] = r[i]
    <2> TAKE i \in 1..Len(r)
    <2>1. 2 + i \in 1..Len(u) /\ 2 + i \in 1..Len(v)
      BY <1>10, <1>11
    <2>2. u[2 + i] = r[i]
      BY <1>4, <1>7 DEF Joins
    <2>3. v[2 + i] = u[2 + i] /\ value[2 + i] = v[2 + i]
      BY <1>8, <1>9, <2>1 DEF Joins
    <2> QED  BY <2>2, <2>3
  <1>14. \A i \in 1..Len(q) : value[k + i] = q[i]
    <2> HIDE DEF k
    <2> QED  BY <1>9, <1>11 DEF Joins
  <1>15. \A i \in 1..n : \/ i \in {1, 2, k}
                         \/ i - 2 \in 1..Len(r) /\ 2 + (i - 2) = i
                         \/ i - k \in 1..Len(q) /\ k + (i - k) = i
    BY <1>10, <1>11
  <1>16. k \in 1..n /\ 2 \in 1..n /\ k # 2 /\ k # n /\ k # 0 /\ k \in Nat
    BY <1>10, <1>11
  <1> HIDE DEF k
  <1>17. \A i \in 1..n : (i # k => value[i] # Comma) /\ (i # 2 => value[i] # "=")
    <2> TAKE i \in 1..n
    <2>1. CASE i \in {1, 2, k}
      BY <1>3, <1>12, <2>1
    <2>2. CASE i - 2 \in 1..Len(r) /\ 2 + (i - 2) = i
      <3>1. value[2 + (i - 2)] = r[i - 2] /\ r[i - 2] # "=" /\ r[i - 2] # Comma
        BY <1>1, <1>13, <2>2
      <3> QED  BY <2>2, <3>1
    <2>3. CASE i - k \in 1..Len(q) /\ k + (i - k) = i
      <3>1. value[k + (i - k)] = q[i - k] /\ q[i - k] # "=" /\ q[i - k] # Comma
        BY <1>1, <1>14, <2>3
      <3> QED  BY <2>3, <3>1
    <2> QED  BY <1>15, <2>1, <2>2, <2>3
  <1>18. Requests!Position(value, "=") = 2
    <2>1. value \in Seq(S) /\ value[2] = "=" /\ \A i \in 1..Len(value) : i # 2 => value[i] # "="
      BY <1>9, <1>12, <1>17
    <2> QED  BY ONLY <1>16, <2>1, OnlyPosition
  <1>19. Requests!Position(value, Comma) = k
    <2>1. value \in Seq(S) /\ value[k] = Comma /\ \A i \in 1..Len(value) : i # k => value[i] # Comma
      BY <1>9, <1>12, <1>17
    <2> QED  BY ONLY <1>16, <2>1, OnlyPosition
  <1>20. Requests!Part(value, k + 1, n) = Taken(c, d)
    <2> DEFINE f == k + 1
    <2>1. SubSeq(value, f, n) = c \o <<Dash>> \o d
      <3>1. SubSeq(value, f, n) = q
        <4>1. v \in Seq(S) /\ q \in Seq(S) /\ f = Len(v) + 1
          BY ONLY <1>1, <1>8, <1>11
        <4> HIDE DEF f
        <4>2. SubSeq(v \o q, Len(v) + 1, Len(v \o q)) = q
          BY ONLY <4>1, LastPart
        <4> QED  BY <1>6, <4>1, <4>2
      <3> QED  BY <3>1, Zenon DEF q, RangeOf
    <2>2. n \in Int /\ f \in Int /\ ~(n < f - 1)
      BY <1>10, <1>11, <1>16
    <2> HIDE DEF n, f
    <2>3. Requests!Part(value, f, n) = Taken(c, d)
      <3>1. WrittenAt(value, f, n, c, d)
        BY <2>1, <2>2 DEF WrittenAt
      <3> QED  BY <3>1, PartTaken
    <2> QED  BY <2>3 DEF f
  <1>21. Requests!Part(value, 2 + 1, k - 1) = Taken(a, b)
    <2> DEFINE f == 2 + 1
               l == k - 1
    <2>1. SubSeq(value, f, l) = a \o <<Dash>> \o b
      <3> DEFINE m == Len(r)
                 s == SubSeq(value, 2 + 1, 2 + m)
      <3>1. 2 \in Nat /\ m \in Nat /\ 2 + m <= Len(value) /\ l = 2 + m
        BY <1>10, <1>11 DEF k
      <3> HIDE DEF m
      <3>2. s \in Seq(S) /\ Len(s) = m /\ \A i \in 1..m : s[i] = value[2 + i]
        BY ONLY <1>9, <3>1, PartOfText
      <3>3. s = r
        <4>1. r \in Seq(S) /\ m = Len(r) /\ \A i \in 1..Len(s) : s[i] = r[i]
          BY <1>1, <1>13, <3>2 DEF m
        <4> HIDE DEF s
        <4> QED  BY ONLY <3>2, <4>1, SameSequence
      <3>4. SubSeq(value, f, l) = r
        <4> HIDE DEF l
        <4> QED  BY <3>1, <3>3
      <3> QED  BY <3>4, Zenon DEF r, RangeOf
    <2>2. l \in Int /\ f \in Int /\ ~(l < f - 1)
      BY <1>10, <1>16 DEF k
    <2> HIDE DEF l, f
    <2>3. Requests!Part(value, f, l) = Taken(a, b)
      <3>1. WrittenAt(value, f, l, a, b)
        BY <2>1, <2>2 DEF WrittenAt
      <3> QED  BY <3>1, PartTaken
    <2> QED  BY <2>3 DEF f, l
  <1> DEFINE second == Taken(c, d)
             first == Taken(a, b)
  <1>22. second.outcome \notin {"refused", "throws"} /\ first.outcome = "taken"
    BY DEF Taken
  <1>23. /\ second = IF k = 0 THEN Requests!NoPart ELSE Requests!Part(value, k + 1, Len(value))
         /\ first = Requests!Part(value, 2 + 1, IF k = 0 THEN Len(value) ELSE k - 1)
    <2> HIDE DEF first, second
    <2>1. first = Taken(a, b) /\ second = Taken(c, d)
      BY DEF first, second
    <2> QED  BY <1>16, <1>20, <1>21, <2>1
  <1>24. Requests!Means(first, a, b) /\ Requests!Means(second, c, d)
    BY DEF Requests!Means, Taken
  <1> HIDE DEF first, second
  <1>25. 2 # 0 /\ ~(k # 0 /\ k = Len(value))
    BY <1>16
  <1>26. /\ Requests!Translate(value).outcome = "taken"
         /\ Requests!Translate(value).first = first
         /\ Requests!Translate(value).second = second
    BY ONLY <1>18, <1>19, <1>22, <1>23, <1>25, TranslateIs
  <1> QED  BY <1>24, <1>26

\* A range, or two, written with the marks is read with its bounds each in its place; no other
\* text is written so (http_translate_range_header, http_utility.cpp).
THEOREM BoundsAlwaysRead ==
  ASSUME NEW value
  PROVE  Requests!BoundsAsWritten(value)
  <1> DEFINE t == Requests!Translate(value)
  <1>1. ASSUME NEW a \in Requests!Marks, NEW b \in Requests!Marks,
               value = <<"b", "=">> \o (a \o <<"-">> \o b)
        PROVE  t.outcome = "taken" /\ Requests!Means(t.first, a, b) /\ t.second = Requests!NoPart
    <2>1. value = <<"b", "=">> \o RangeOf(a, b)
      BY <1>1, Zenon DEF RangeOf, Dash
    <2> QED  BY <2>1, OneRange
  <1>2. ASSUME NEW a \in Requests!Marks, NEW b \in Requests!Marks,
               NEW c \in Requests!Marks, NEW d \in Requests!Marks,
               value = <<"b", "=">> \o (a \o <<"-">> \o b) \o <<",">> \o (c \o <<"-">> \o d)
        PROVE  t.outcome = "taken" /\ Requests!Means(t.first, a, b) /\ Requests!Means(t.second, c, d)
    <2>1. value = <<"b", "=">> \o RangeOf(a, b) \o <<Comma>> \o RangeOf(c, d)
      BY <1>2, Zenon DEF RangeOf, Dash, Comma
    <2>2. TwoWritten(value, a, b, c, d)
      BY <2>1 DEF TwoWritten
    <2> QED  BY <2>2, TwoRanges
  <1> HIDE DEF t
  <1>3. \A u \in {t} : u = t
    OBVIOUS
  <1>4. Requests!BoundsAsWritten(value) <=>
          \A u \in {t} : \A a, b \in Requests!Marks :
            /\ value = <<"b", "=">> \o (a \o <<"-">> \o b) =>
                 u.outcome = "taken" /\ Requests!Means(u.first, a, b) /\ u.second = Requests!NoPart
            /\ \A c, d \in Requests!Marks :
                 value = <<"b", "=">> \o (a \o <<"-">> \o b) \o <<",">> \o (c \o <<"-">> \o d) =>
                   u.outcome = "taken" /\ Requests!Means(u.first, a, b) /\ Requests!Means(u.second, c, d)
    BY Zenon DEF Requests!BoundsAsWritten, t
  <1> QED  BY ONLY <1>1, <1>2, <1>3, <1>4

\* The header that is found is the first of the name.
LEMMA FirstHeader ==
  ASSUME NEW headers, Len(headers) \in Nat, NEW k \in 1..Len(headers), headers[k].name = "Range",
         \A i \in 1..(k - 1) : headers[i].name # "Range"
  PROVE  Requests!TranslateHeaders(headers) = Requests!Translate(headers[k].value)
  <1> DEFINE I == {i \in 1..Len(headers) : headers[i].name = "Range"}
             found == IF I # {} THEN Requests!Min(I) ELSE 0
             range == Requests!HttpGetHeader(headers, "Range")
  <1>1. range = IF found = 0 THEN [state |-> FALSE]
                ELSE [state |-> TRUE, header |-> headers[found]]
    BY Zenon DEF Requests!HttpGetHeader, Requests!SelectInSeq
  <1>2. I # {} /\ I \in SUBSET Nat
    OBVIOUS
  <1>3. found \in I /\ \A i \in I : found <= i
    <2> HIDE DEF I
    <2> QED  BY <1>2, LeastExists, Zenon DEF Requests!Min
  <1> HIDE DEF found
  <1>4. found = k
    BY <1>3
  <1>5. k # 0
    OBVIOUS
  <1> HIDE DEF range
  <1>6. range = [state |-> TRUE, header |-> headers[k]]
    BY ONLY <1>1, <1>4, <1>5
  <1>7. range.state /\ range.header = headers[k]
    BY ONLY <1>6
  <1>8. Requests!TranslateHeaders(headers) =
          IF range.state THEN Requests!Translate(range.header.value) ELSE [outcome |-> "refused"]
    BY Zenon DEF Requests!TranslateHeaders, range
  <1> QED  BY <1>7, <1>8, Zenon

LEMMA NoHeaderRefused ==
  ASSUME NEW headers, Len(headers) \in Nat, \A i \in 1..Len(headers) : headers[i].name # "Range"
  PROVE  Requests!TranslateHeaders(headers).outcome = "refused"
  <1> DEFINE I == {i \in 1..Len(headers) : headers[i].name = "Range"}
             found == IF I # {} THEN Requests!Min(I) ELSE 0
             range == Requests!HttpGetHeader(headers, "Range")
  <1>1. range = IF found = 0 THEN [state |-> FALSE]
                ELSE [state |-> TRUE, header |-> headers[found]]
    BY Zenon DEF Requests!HttpGetHeader, Requests!SelectInSeq
  <1>2. I = {}
    OBVIOUS
  <1>3. found = 0
    <2> HIDE DEF I
    <2> QED  BY <1>2
  <1> HIDE DEF found, range
  <1>4. range = [state |-> FALSE]
    BY ONLY <1>1, <1>3
  <1>5. ~range.state
    BY ONLY <1>4
  <1>6. Requests!TranslateHeaders(headers) =
          IF range.state THEN Requests!Translate(range.header.value) ELSE [outcome |-> "refused"]
    BY Zenon DEF Requests!TranslateHeaders, range
  <1> QED  BY <1>5, <1>6

\* Whatever its value, the first Range header of a list counts, and one in another case is not
\* seen (http_get_header, http_utility.cpp).
THEOREM FirstRangeAlwaysCounts ==
  ASSUME NEW value
  PROVE  Requests!FirstRangeCounts(value)
  <1> DEFINE range(v) == [name |-> "Range", value |-> v]
             lower == [name |-> "range", value |-> value]
             other == [name |-> "Host", value |-> <<"a">>]
             S == {range(value), range(<<>>), lower, other}
  <1>1. /\ range(value).name = "Range" /\ range(value).value = value
        /\ lower.name # "Range" /\ other.name # "Range"
    OBVIOUS
  <1>2. range(value) \in S /\ range(<<>>) \in S /\ lower \in S /\ other \in S
    OBVIOUS
  <1>3. Requests!FirstRangeCounts(value) <=>
          /\ \A before \in {<<>>, <<other>>, <<lower, other>>} :
               \A after \in {<<>>, <<other>>, <<range(<<>>)>>} :
                 Requests!TranslateHeaders(before \o <<range(value)>> \o after) = Requests!Translate(value)
          /\ Requests!TranslateHeaders(<<lower, other>>).outcome = "refused"
    BY Zenon DEF Requests!FirstRangeCounts
  <1> HIDE DEF S, range, lower, other
  <1>4. ASSUME NEW before \in {<<>>, <<other>>, <<lower, other>>},
               NEW after \in {<<>>, <<other>>, <<range(<<>>)>>}
        PROVE  Requests!TranslateHeaders(before \o <<range(value)>> \o after) = Requests!Translate(value)
    <2>1. before \in Seq(S) /\ \A i \in 1..Len(before) : before[i].name # "Range"
      <3>1. CASE before = <<>>
        BY <3>1
      <3>2. CASE before = <<other>>
        BY <1>1, <1>2, <3>2
      <3>3. CASE before = <<lower, other>>
        BY <1>1, <1>2, <3>3
      <3> QED  BY <3>1, <3>2, <3>3
    <2>2. after \in Seq(S)
      <3> DEFINE last == range(<<>>)
      <3>1. last \in S
        BY <1>2
      <3> HIDE DEF last
      <3>2. <<>> \in Seq(S) /\ <<other>> \in Seq(S) /\ <<last>> \in Seq(S)
        BY <1>2, <3>1
      <3> QED  BY <3>2 DEF last
    <2>3. <<range(value)>> \in Seq(S) /\ Len(<<range(value)>>) = 1 /\ <<range(value)>>[1] = range(value)
      BY <1>2
    <2> DEFINE h == before \o <<range(value)>> \o after
               k == Len(before) + 1
    <2>4. /\ Len(h) \in Nat /\ k \in 1..Len(h) /\ h[k] = range(value)
          /\ \A i \in 1..(k - 1) : h[i] = before[i] /\ i \in 1..Len(before)
      BY <2>1, <2>2, <2>3
    <2> HIDE DEF h, k
    <2>5. Requests!TranslateHeaders(h) = Requests!Translate(h[k].value)
      BY <1>1, <2>1, <2>4, FirstHeader
    <2> QED  BY <1>1, <2>4, <2>5 DEF h
  <1>5. Requests!TranslateHeaders(<<lower, other>>).outcome = "refused"
    <2> DEFINE h == <<lower, other>>
    <2>1. Len(h) \in Nat /\ \A i \in 1..Len(h) : h[i].name # "Range"
      BY <1>1
    <2> HIDE DEF h
    <2>2. Requests!TranslateHeaders(h).outcome = "refused"
      BY <2>1, NoHeaderRefused
    <2> QED  BY <2>2 DEF h
  <1> QED  BY <1>3, <1>4, <1>5, Zenon

\* The rules of mongoose for a request no handler has served, in their order.
Rules(method, target) ==
  <<<<FALSE, "served">>,
    <<method = "OPTIONS", "options">>,
    <<method \in {"PUT", "DELETE"} /\ ~Wire!PutDeletePasswordsFile, "401">>,
    <<method = "PUT", "put">>,
    <<method = "DELETE", "remove">>,
    <<~target.exists \/ target.hidden, "404">>,
    <<target.directory /\ ~target.slash, "301">>,
    <<method = "PROPFIND", "properties">>,
    <<target.directory /\ ~target.index /\ Wire!EnableDirectoryListing, "listing">>,
    <<target.directory /\ ~target.index, "403">>,
    <<target.kind = "cgi" /\ method \notin {"GET", "POST"}, "501">>,
    <<target.kind = "cgi", "program">>,
    <<target.kind = "ssi", "includes">>,
    <<Wire!IsNotModified(target.ifNoneMatch, target.ifModifiedSince), "304">>,
    <<TRUE, "file">>>>

\* The answer is that of the first rule that holds.
LEMMA FirstRule ==
  ASSUME NEW method, NEW target
  PROVE  \E p \in 1..15 :
           /\ Rules(method, target)[p][1]
           /\ \A i \in 1..15 : Rules(method, target)[i][1] => p <= i
           /\ Wire!HandleRequest(method, target, FALSE) = Rules(method, target)[p][2]
  <1> DEFINE rules == Rules(method, target)
             I == {i \in 1..Len(rules) : rules[i][1]}
             p == IF I # {} THEN Wire!Min(I) ELSE 0
  <1>1. Wire!HandleRequest(method, target, FALSE) = rules[p][2]
    BY Zenon DEF Wire!HandleRequest, Wire!SelectInSeq, Rules
  <1>2. Len(rules) = 15 /\ rules[15][1]
    BY DEF Rules
  <1> HIDE DEF rules
  <1>3. I # {} /\ I \in SUBSET Nat
    <2>1. 15 \in I
      BY <1>2
    <2> QED  BY <2>1
  <1>4. p \in I /\ \A i \in I : p <= i
    <2> HIDE DEF I
    <2> QED  BY <1>3, LeastExists, Zenon DEF Wire!Min
  <1> HIDE DEF p
  <1>5. p \in 1..15 /\ rules[p][1] /\ \A i \in 1..15 : rules[i][1] => p <= i
    BY <1>2, <1>4
  <1> QED  BY <1>1, <1>5, Zenon DEF rules

LEMMA RulesAre ==
  ASSUME NEW method, NEW target
  PROVE  LET r == Rules(method, target)
         IN  /\ ~r[1][1] /\ (r[2][1] <=> method = "OPTIONS")
             /\ r[3][1] <=> method \in {"PUT", "DELETE"}
             /\ r[4][1] <=> method = "PUT"
             /\ r[5][1] <=> method = "DELETE"
             /\ r[6][1] <=> ~target.exists \/ target.hidden
             /\ r[7][1] <=> target.directory /\ ~target.slash
             /\ r[8][1] <=> method = "PROPFIND"
             /\ ~r[9][1]
             /\ r[10][1] <=> target.directory /\ ~target.index
             /\ r[11][1] <=> target.kind = "cgi" /\ method \notin {"GET", "POST"}
             /\ r[12][1] <=> target.kind = "cgi"
             /\ r[13][1] <=> target.kind = "ssi"
             /\ r[14][1] <=> target.ifNoneMatch = "etag" \/ target.ifModifiedSince = "late"
             /\ r[15][1]
  BY DEF Rules, Wire!PutDeletePasswordsFile, Wire!EnableDirectoryListing, Wire!IsNotModified

LEMMA AnswersAre ==
  ASSUME NEW method, NEW target
  PROVE  LET r == Rules(method, target)
         IN  /\ r[1][2] = "served" /\ r[2][2] = "options" /\ r[3][2] = "401" /\ r[4][2] = "put"
             /\ r[5][2] = "remove" /\ r[6][2] = "404" /\ r[7][2] = "301" /\ r[8][2] = "properties"
             /\ r[9][2] = "listing" /\ r[10][2] = "403" /\ r[11][2] = "501" /\ r[12][2] = "program"
             /\ r[13][2] = "includes" /\ r[14][2] = "304" /\ r[15][2] = "file"
  BY DEF Rules

\* What FallbackReadsOnly says of one request.
ReadsOnly(method, target) ==
  LET answer == Wire!HandleRequest(method, target, FALSE)
      plain == target.exists /\ ~target.hidden /\ ~target.directory /\ target.kind = "plain"
  IN  /\ answer \notin {"served", "put", "remove", "listing"}
      /\ method \in {"GET", "POST", "HEAD"} =>
           /\ plain => answer = IF target.ifNoneMatch = "etag" \/ target.ifModifiedSince = "late"
                                  THEN "304" ELSE "file"
           /\ ~target.exists => answer = "404"
           /\ answer = "403" => target.directory /\ target.slash


\* Whatever the request, its file and the conditions of the client are: when no handler has
\* served it, mongoose neither writes, removes nor lists, and sends a plain file unless the
\* client knows it (handle_request and handle_file_request, mongoose.c).
THEOREM FallbackNeverWrites ==
  ASSUME NEW method, NEW target, target.directory \in BOOLEAN, target.exists \in BOOLEAN
  PROVE  ReadsOnly(method, target)
  <1> DEFINE r == Rules(method, target)
             answer == Wire!HandleRequest(method, target, FALSE)
             rule(i) == r[i][1]
  <1>1. PICK p \in 1..15 : rule(p) /\ (\A i \in 1..15 : rule(i) => p <= i) /\ answer = r[p][2]
    BY FirstRule
  <1>2. p \in {1, 2, 3, 4, 5, 6, 7, 8, 9, 10, 11, 12, 13, 14, 15}
    BY ONLY p \in 1..15
  <1>3. /\ ~rule(1) /\ (rule(2) <=> method = "OPTIONS")
        /\ rule(3) <=> method \in {"PUT", "DELETE"}
        /\ rule(4) <=> method = "PUT"
        /\ rule(5) <=> method = "DELETE"
        /\ rule(6) <=> ~target.exists \/ target.hidden
        /\ rule(7) <=> target.directory /\ ~target.slash
        /\ rule(8) <=> method = "PROPFIND"
        /\ ~rule(9)
        /\ rule(10) <=> target.directory /\ ~target.index
        /\ rule(11) <=> target.kind = "cgi" /\ method \notin {"GET", "POST"}
        /\ rule(12) <=> target.kind = "cgi"
        /\ rule(13) <=> target.kind = "ssi"
        /\ rule(14) <=> target.ifNoneMatch = "etag" \/ target.ifModifiedSince = "late"
        /\ rule(15)
    BY RulesAre
  <1>4. /\ r[1][2] = "served" /\ r[2][2] = "options" /\ r[3][2] = "401" /\ r[4][2] = "put"
        /\ r[5][2] = "remove" /\ r[6][2] = "404" /\ r[7][2] = "301" /\ r[8][2] = "properties"
        /\ r[9][2] = "listing" /\ r[10][2] = "403" /\ r[11][2] = "501" /\ r[12][2] = "program"
        /\ r[13][2] = "includes" /\ r[14][2] = "304" /\ r[15][2] = "file"
    BY AnswersAre
  <1> HIDE DEF answer, rule
  <1>5. p \notin {1, 4, 5, 9}
    <2>1. rule(4) \/ rule(5) => rule(3)
      BY <1>3
    <2>2. rule(3) => p <= 3
      BY <1>1
    <2> QED  BY <1>1, <1>3, <2>1, <2>2
  <1>6. answer \notin {"served", "put", "remove", "listing"}
    BY <1>1, <1>2, <1>4, <1>5
  <1>7. ASSUME method \in {"GET", "POST", "HEAD"}
        PROVE  /\ target.exists /\ ~target.hidden /\ ~target.directory /\ target.kind = "plain" =>
                    p = IF target.ifNoneMatch = "etag" \/ target.ifModifiedSince = "late" THEN 14 ELSE 15
               /\ ~target.exists => p = 6
               /\ p = 10 => target.directory /\ target.slash
    <2>1. p \notin {2, 3, 8}
      BY <1>1, <1>3, <1>7
    <2>2. ASSUME target.exists, ~target.hidden, ~target.directory, target.kind = "plain"
          PROVE  p = IF target.ifNoneMatch = "etag" \/ target.ifModifiedSince = "late" THEN 14 ELSE 15
      <3>1. p \in {14, 15}
        BY <1>1, <1>2, <1>3, <1>5, <2>1, <2>2
      <3>2. rule(14) => p <= 14
        BY <1>1
      <3> QED  BY <1>1, <1>3, <3>1, <3>2
    <2>3. ASSUME ~target.exists PROVE p = 6
      <3>1. rule(6) => p <= 6
        BY <1>1
      <3> QED  BY <1>2, <1>3, <1>5, <2>1, <2>3, <3>1
    <2>4. ASSUME p = 10 PROVE target.directory /\ target.slash
      <3>1. ~rule(7)
        <4>1. rule(7) => p <= 7
          BY <1>1
        <4> QED  BY <2>4, <4>1
      <3> QED  BY <1>1, <1>3, <2>4, <3>1
    <2> QED  BY <2>2, <2>3, <2>4
  <1>8. ASSUME method \in {"GET", "POST", "HEAD"}
        PROVE  /\ target.exists /\ ~target.hidden /\ ~target.directory /\ target.kind = "plain" =>
                    answer = IF target.ifNoneMatch = "etag" \/ target.ifModifiedSince = "late"
                               THEN "304" ELSE "file"
               /\ ~target.exists => answer = "404"
               /\ answer = "403" => target.directory /\ target.slash
    <2>1. answer = "403" => p = 10
      BY <1>1, <1>2, <1>4
    <2>2. (p = 14 => answer = "304") /\ (p = 15 => answer = "file") /\ (p = 6 => answer = "404")
      BY <1>1, <1>4
    <2> QED  BY <1>7, <1>8, <2>1, <2>2
  <1> QED  BY <1>6, <1>8, Zenon DEF ReadsOnly, answer

-----------------------------------------------------------------------------
(***************************************************************************)
(* The name of a file: what mongoose's decoder, http_normalize_uri and     *)
(* utility::url_decode make of it, for every text of any symbols.          *)
(***************************************************************************)

\* Induction downwards, from behind the last position of a text.
LEMMA DownInduction ==
  ASSUME NEW S, NEW n \in Nat, n + 1 \in S,
         \A i \in 1..n : (\A j \in (i + 1)..(n + 1) : j \in S) => i \in S
  PROVE  \A i \in 1..(n + 1) : i \in S
  <1> DEFINE T == {k \in Nat : \A j \in 1..(n + 1) : n + 1 - k <= j => j \in S}
  <1>1. 0 \in T
    OBVIOUS
  <1>2. ASSUME NEW k \in Nat, k \in T PROVE k + 1 \in T
    <2> SUFFICES ASSUME NEW i \in 1..(n + 1), n + 1 - (k + 1) <= i PROVE i \in S
      OBVIOUS
    <2>1. CASE n + 1 - k <= i
      BY <1>2, <2>1
    <2>2. CASE ~(n + 1 - k <= i)
      <3>1. i \in 1..n /\ \A j \in (i + 1)..(n + 1) : j \in 1..(n + 1) /\ n + 1 - k <= j
        BY <2>2
      <3>2. \A j \in (i + 1)..(n + 1) : j \in S
        BY <1>2, <3>1
      <3> QED  BY <3>1, <3>2
    <2> QED  BY <2>1, <2>2
  <1> HIDE DEF T
  <1>3. Nat \subseteq T
    BY <1>1, <1>2, SetInduction
  <1> SUFFICES ASSUME NEW i \in 1..(n + 1) PROVE i \in S
    OBVIOUS
  <1>4. n \in T
    BY <1>3
  <1> QED  BY <1>4 DEF T

\* f gives an end its base, and any other place what step makes of the value at the next one.
Descent(f, D, Ends, base, next, step) ==
  \A d \in D : f[d] = IF d \in Ends THEN base[d] ELSE step[d][f[next[d]]]

\* There is such a function if every place that is not an end leads to a lower one.
LEMMA DescentExists ==
  ASSUME NEW T, NEW D, NEW Ends, NEW base \in [D -> T], NEW next, NEW step \in [D -> [T -> T]],
         NEW m \in [D -> Nat], NEW bound \in Nat, \A d \in D : m[d] < bound,
         \A d \in D : d \notin Ends => next[d] \in D /\ m[next[d]] < m[d]
  PROVE  \E f \in [D -> T] : Descent(f, D, Ends, base, next, step)
  <1> DEFINE v(f, d) == IF d \in Ends THEN base[d] ELSE step[d][f[next[d]]]
             P(k, f) == \A d \in D : m[d] < k => f[d] = v(f, d)
             S == {k \in Nat : \E f \in [D -> T] : P(k, f)}
  <1>1. 0 \in S
    <2>1. base \in [D -> T] /\ P(0, base)
      OBVIOUS
    <2> QED  BY <2>1
  <1>2. ASSUME NEW k \in Nat, k \in S PROVE k + 1 \in S
    <2>1. PICK f \in [D -> T] : P(k, f)
      BY <1>2
    <2> DEFINE g == [d \in D |-> IF d \notin Ends /\ ~(m[d] < k + 1) THEN base[d] ELSE v(f, d)]
    <2>2. \A d \in D : v(f, d) \in T \/ (d \notin Ends /\ ~(m[d] < k + 1))
      BY <2>1
    <2>3. g \in [D -> T]
      BY <2>2
    <2>4. \A d \in D : m[d] < k + 1 => g[d] = v(f, d)
      OBVIOUS
    <2> HIDE DEF g
    <2>5. \A d \in D : m[d] < k => g[d] = f[d]
      <3> TAKE d \in D
      <3> HAVE m[d] < k
      <3>1. m[d] < k + 1
        OBVIOUS
      <3> QED  BY <2>1, <2>4, <3>1
    <2>6. P(k + 1, g)
      <3> SUFFICES ASSUME NEW d \in D, m[d] < k + 1 PROVE g[d] = v(g, d)
        OBVIOUS
      <3>1. CASE d \in Ends
        BY <2>4, <3>1
      <3>2. CASE d \notin Ends
        <4>1. next[d] \in D /\ m[next[d]] < k
          <5>1. next[d] \in D /\ m[next[d]] < m[d]
            BY <3>2
          <5>2. m[next[d]] \in Nat /\ m[d] \in Nat
            BY <5>1
          <5> QED  BY <5>1, <5>2
        <4>2. g[next[d]] = f[next[d]]
          BY <2>5, <4>1
        <4> QED  BY <2>4, <3>2, <4>2
      <3> QED  BY <3>1, <3>2
    <2> HIDE DEF P
    <2>7. k + 1 \in Nat /\ \E f2 \in [D -> T] : P(k + 1, f2)
      BY <2>3, <2>6
    <2> QED  BY ONLY <2>7
  <1> HIDE DEF S
  <1>3. bound \in S
    BY <1>1, <1>2, SetInduction
  <1>4. PICK f \in [D -> T] : P(bound, f)
    BY <1>3 DEF S
  <1> QED  BY <1>4 DEF Descent

\* Such a function has its values in T: an equation that holds of the values in T will do.
Descends(g, T, D, Ends, base, next, step) ==
  \A d \in D : /\ d \in Ends => g[d] = base[d]
               /\ d \notin Ends /\ g[next[d]] \in T => g[d] = step[d][g[next[d]]]

LEMMA DescentTyped ==
  ASSUME NEW T, NEW D, NEW Ends, NEW base \in [D -> T], NEW next, NEW step \in [D -> [T -> T]],
         NEW m \in [D -> Nat],
         \A d \in D : d \notin Ends => next[d] \in D /\ m[next[d]] < m[d],
         NEW g, Descends(g, T, D, Ends, base, next, step)
  PROVE  /\ \A d \in D : g[d] \in T
         /\ Descent(g, D, Ends, base, next, step)
  <1> DEFINE S == {k \in Nat : \A d \in D : m[d] < k => g[d] \in T}
  <1>1. 0 \in S
    OBVIOUS
  <1>2. ASSUME NEW k \in Nat, k \in S PROVE k + 1 \in S
    <2> SUFFICES ASSUME NEW d \in D, m[d] < k + 1 PROVE g[d] \in T
      OBVIOUS
    <2>1. CASE d \in Ends
      BY <2>1 DEF Descends
    <2>2. CASE d \notin Ends
      <3>1. next[d] \in D /\ m[next[d]] < m[d]
        BY <2>2
      <3>2. m[next[d]] < k
        <4>1. m[next[d]] \in Nat /\ m[d] \in Nat
          BY <3>1
        <4> QED  BY <3>1, <4>1
      <3>3. g[next[d]] \in T
        BY <1>2, <3>1, <3>2
      <3> QED  BY <2>2, <3>3 DEF Descends
    <2> QED  BY <2>1, <2>2
  <1>3. \A k \in Nat : k \in S => k + 1 \in S
    BY <1>2
  <1> HIDE DEF S
  <1>4. Nat \subseteq S
    BY <1>1, <1>3, SetInduction
  <1>5. \A d \in D : g[d] \in T
    <2> TAKE d \in D
    <2>1. m[d] + 1 \in Nat /\ m[d] < m[d] + 1
      OBVIOUS
    <2>2. m[d] + 1 \in S
      BY <1>4, <2>1
    <2> QED  BY <2>1, <2>2 DEF S
  <1>6. Descent(g, D, Ends, base, next, step)
    BY <1>5 DEF Descent, Descends
  <1> QED  BY <1>5, <1>6

\* The texts that come of the first parts, one behind the other.
FlattenOf(f, parts) ==
  [i \in 1..Len(parts) |-> IF i = 1 THEN parts[i] ELSE f[i - 1] \o parts[i]]

LEMMA FlattenIs ==
  ASSUME NEW C, NEW parts \in Seq(Seq(C)), Len(parts) > 0
  PROVE  \E f \in [1..Len(parts) -> Seq(C)] :
           /\ Requests!FlattenSeq(parts) = f[Len(parts)]
           /\ \A i \in 1..Len(parts) : f[i] = IF i = 1 THEN parts[i] ELSE f[i - 1] \o parts[i]
  <1> DEFINE n == Len(parts)
             D == 1..n
             T == Seq(C)
             base == [i \in D |-> parts[i]]
             next == [i \in D |-> i - 1]
             step == [i \in D |-> [t \in T |-> t \o parts[i]]]
             m == [i \in D |-> i]
             bound == n + 1
             Ends == {1}
  <1>1. n \in Nat /\ n > 0 /\ n \in D /\ 1 \in D /\ \A i \in D : parts[i] \in T
    OBVIOUS
  <1>2. base \in [D -> T] /\ step \in [D -> [T -> T]]
    BY <1>1
  <1>3. /\ m \in [D -> Nat] /\ bound \in Nat /\ \A i \in D : m[i] < bound
        /\ \A i \in D : i \notin Ends => next[i] \in D /\ m[next[i]] < m[i]
    BY <1>1
  <1>4. \A i \in D, t \in T : base[i] = parts[i] /\ next[i] = i - 1 /\ step[i][t] = t \o parts[i]
    OBVIOUS
  <1> HIDE DEF T, base, next, step, m, bound
  <1>5. PICK f \in [D -> T] : Descent(f, D, Ends, base, next, step)
    BY ONLY <1>2, <1>3, DescentExists
  <1>6. \A i \in D : f[i] = IF i = 1 THEN parts[i] ELSE f[i - 1] \o parts[i]
    <2> TAKE i \in D
    <2>1. i # 1 => i - 1 \in D
      BY <1>1
    <2>2. i # 1 => f[i - 1] \in T
      BY <1>5, <2>1
    <2>3. CASE i = 1
      BY <1>4, <1>5, <2>3 DEF Descent
    <2>4. CASE i # 1
      <3>1. f[i] = step[i][f[next[i]]] /\ next[i] = i - 1
        BY <1>4, <1>5, <2>4 DEF Descent
      <3>2. step[i][f[i - 1]] = f[i - 1] \o parts[i]
        BY ONLY <1>4, <2>2, <2>4, i \in D
      <3> QED  BY <2>4, <3>1, <3>2
    <2> QED  BY <2>3, <2>4
  <1>7. f = FlattenOf(f, parts)
    BY <1>5, <1>6 DEF FlattenOf
  <1> DEFINE g == CHOOSE h : h = FlattenOf(h, parts)
  <1>8. g = FlattenOf(g, parts)
    BY <1>7
  <1>9. Requests!FlattenSeq(parts) = g[n]
    <2>1. ~(Len(parts) = 0)
      OBVIOUS
    <2> QED  BY <2>1, Zenon DEF Requests!FlattenSeq, FlattenOf
  <1> HIDE DEF g
  <1>10. \A i \in D : g[i] = IF i = 1 THEN parts[i] ELSE g[i - 1] \o parts[i]
    <2> DEFINE v(i) == IF i = 1 THEN parts[i] ELSE g[i - 1] \o parts[i]
    <2>1. g = [i \in D |-> v(i)]
      BY <1>8 DEF FlattenOf
    <2> HIDE DEF v
    <2>2. \A i \in D : g[i] = v(i)
      BY <2>1, Zenon
    <2> QED  BY <2>2 DEF v
  <1>11. Descends(g, T, D, Ends, base, next, step)
    <2> SUFFICES ASSUME NEW i \in D
                 PROVE  /\ i \in Ends => g[i] = base[i]
                        /\ i \notin Ends /\ g[next[i]] \in T => g[i] = step[i][g[next[i]]]
      BY DEF Descends
    <2>1. i \in Ends => g[i] = base[i]
      BY <1>4, <1>10
    <2>2. ASSUME i \notin Ends, g[next[i]] \in T PROVE g[i] = step[i][g[next[i]]]
      <3>1. next[i] = i - 1 /\ i # 1
        BY <1>4, <2>2
      <3>2. step[i][g[i - 1]] = g[i - 1] \o parts[i]
        BY <1>4, <2>2, <3>1
      <3>3. g[i] = g[i - 1] \o parts[i]
        BY <1>10, <3>1
      <3> QED  BY <3>1, <3>2, <3>3
    <2> QED  BY <2>1, <2>2
  <1>12. \A i \in D : g[i] \in T
    BY ONLY <1>2, <1>3, <1>11, DescentTyped
  <1>13. g \in [D -> T]
    BY <1>8, <1>12 DEF FlattenOf
  <1> QED  BY <1>9, <1>10, <1>13 DEF T

\* The text w is the parts, one behind the other; the part i begins behind off[i].
Laid(w, parts, off) ==
  /\ off \in [1..(Len(parts) + 1) -> Nat]
  /\ off[1] = 0 /\ off[Len(parts) + 1] = Len(w)
  /\ \A i \in 1..Len(parts) :
       /\ off[i + 1] = off[i] + Len(parts[i]) /\ off[i + 1] <= Len(w)
       /\ \A k \in 1..Len(parts[i]) : w[off[i] + k] = parts[i][k]

LEMMA FlattenLaid ==
  ASSUME NEW C, NEW parts \in Seq(Seq(C))
  PROVE  /\ Requests!FlattenSeq(parts) \in Seq(C)
         /\ \E off : Laid(Requests!FlattenSeq(parts), parts, off)
  <1> DEFINE n == Len(parts)
             w == Requests!FlattenSeq(parts)
  <1>1. CASE n = 0
    <2> DEFINE off == [i \in 1..1 |-> 0]
    <2>1. w = <<>> /\ w \in Seq(C)
      BY <1>1 DEF Requests!FlattenSeq
    <2>2. Laid(w, parts, off)
      BY <1>1, <2>1 DEF Laid
    <2> HIDE DEF off
    <2> QED  BY <2>1, <2>2
  <1>2. CASE n > 0
    <2>1. PICK f \in [1..n -> Seq(C)] :
            /\ w = f[n]
            /\ \A i \in 1..n : f[i] = IF i = 1 THEN parts[i] ELSE f[i - 1] \o parts[i]
      BY <1>2, FlattenIs
    <2>2. n \in Nat /\ \A i \in 1..n : parts[i] \in Seq(C) /\ f[i] \in Seq(C)
      OBVIOUS
    <2> DEFINE off == [i \in 1..(n + 1) |-> IF i = 1 THEN 0 ELSE Len(f[i - 1])]
    <2>3. w \in Seq(C)
      BY <1>2, <2>1, <2>2
    <2> HIDE DEF w, n
    <2>4. \A i \in 1..(n + 1) : off[i] \in Nat
      <3> TAKE i \in 1..(n + 1)
      <3>1. i # 1 => i - 1 \in 1..n
        BY <2>2
      <3>2. i # 1 => Len(f[i - 1]) \in Nat
        BY <3>1
      <3> QED  BY <3>2
    <2>5. /\ off \in [1..(n + 1) -> Nat] /\ off[1] = 0 /\ off[n + 1] = Len(f[n])
          /\ \A i \in 1..n : off[i + 1] = Len(f[i])
      BY <1>2, <2>2, <2>4
    <2> HIDE DEF off
    <2>6. \A i \in 1..n :
            /\ Len(f[i]) = off[i] + Len(parts[i])
            /\ \A k \in 1..Len(parts[i]) : f[i][off[i] + k] = parts[i][k]
            /\ i > 1 => \A k \in 1..off[i] : f[i][k] = f[i - 1][k]
      <3> TAKE i \in 1..n
      <3>1. CASE i = 1
        <4>1. f[i] = parts[i] /\ off[i] = 0 /\ Len(parts[i]) \in Nat
          <5>1. f[i] = IF i = 1 THEN parts[i] ELSE f[i - 1] \o parts[i]
            BY <2>1
          <5>2. f[i] = parts[i]
            BY ONLY <3>1, <5>1
          <5>3. Len(parts[i]) \in Nat
            BY <2>2
          <5> QED  BY ONLY <2>5, <3>1, <5>2, <5>3
        <4> QED  BY ONLY <3>1, <4>1
      <3>2. CASE i # 1
        <4>1. i - 1 \in 1..n /\ (i - 1) + 1 = i /\ f[i] = f[i - 1] \o parts[i]
          <5>1. i - 1 \in 1..n /\ (i - 1) + 1 = i
            BY ONLY <2>2, <3>2, i \in 1..n
          <5>2. f[i] = IF i = 1 THEN parts[i] ELSE f[i - 1] \o parts[i]
            BY <2>1
          <5> QED  BY ONLY <3>2, <5>1, <5>2
        <4> DEFINE x == f[i - 1]
                   y == parts[i]
                   z == x \o y
        <4>2. x \in Seq(C) /\ y \in Seq(C) /\ off[i] = Len(x)
          BY <2>2, <2>5, <4>1
        <4> HIDE DEF x, y
        <4>3. Joins(z, x, y)
          BY ONLY <4>2, JoinedTexts
        <4>4. f[i] = z
          BY <4>1 DEF x, y
        <4>5. /\ Len(z) = off[i] + Len(y) /\ \A k \in 1..Len(y) : z[off[i] + k] = y[k]
              /\ \A k \in 1..off[i] : z[k] = x[k]
          BY ONLY <4>2, <4>3 DEF Joins
        <4> QED  BY ONLY <4>4, <4>5 DEF x, y
      <3> QED  BY <3>1, <3>2
    <2> DEFINE keeps == {j \in 1..n : \A i \in 1..j : /\ off[i + 1] <= Len(f[j])
                                                      /\ \A k \in 1..off[i + 1] : f[j][k] = f[i][k]}
    <2>7. 1 \in keeps
      BY <1>2, <2>2, <2>5
    <2>8. ASSUME NEW j \in 1..(n - 1), j \in keeps PROVE j + 1 \in keeps
      <3>1. j + 1 \in 1..n /\ j + 1 > 1 /\ (j + 1) - 1 = j /\ j \in 1..n
        BY <2>2
      <3>2. Len(f[j + 1]) = off[j + 1] + Len(parts[j + 1]) /\ off[j + 1] = Len(f[j])
            /\ \A k \in 1..off[j + 1] : f[j + 1][k] = f[j][k]
        <4> HIDE DEF keeps
        <4>1. off[j + 1] = Len(f[j])
          BY <2>5, <3>1
        <4>2. /\ Len(f[j + 1]) = off[j + 1] + Len(parts[j + 1])
              /\ \A k \in 1..off[j + 1] : f[j + 1][k] = f[(j + 1) - 1][k]
          BY ONLY <2>6, <3>1
        <4> QED  BY ONLY <3>1, <4>1, <4>2
      <3>3. Len(parts[j + 1]) \in Nat /\ Len(f[j]) \in Nat /\ Len(f[j + 1]) \in Nat
        BY <2>2, <3>1
      <3>4. ASSUME NEW i \in 1..(j + 1)
            PROVE  /\ off[i + 1] <= Len(f[j + 1])
                   /\ \A k \in 1..off[i + 1] : f[j + 1][k] = f[i][k]
        <4>1. CASE i = j + 1
          <5>1. off[i + 1] = Len(f[i])
            BY <2>5, <3>1, <4>1
          <5> QED  BY <3>3, <4>1, <5>1
        <4>2. CASE i \in 1..j
          <5>1. off[i + 1] <= Len(f[j]) /\ \A k \in 1..off[i + 1] : f[j][k] = f[i][k]
            BY <2>8, <4>2
          <5>2. off[i + 1] \in Nat
            <6>1. i + 1 \in 1..(n + 1)
              BY ONLY <2>2, <4>2, j \in 1..(n - 1)
            <6> QED  BY <2>5, <6>1
          <5>3. \A k \in 1..off[i + 1] : k \in 1..off[j + 1]
            BY ONLY <3>2, <3>3, <5>1, <5>2
          <5>4. off[i + 1] <= Len(f[j + 1])
            <6>1. off[i + 1] <= Len(f[j])
              BY ONLY <5>1
            <6>2. Len(f[j + 1]) = Len(f[j]) + Len(parts[j + 1])
              BY ONLY <3>2
            <6> DEFINE a == off[i + 1]
                       b == Len(f[j])
                       c == Len(parts[j + 1])
                       d == Len(f[j + 1])
            <6>3. a \in Nat /\ b \in Nat /\ c \in Nat /\ a <= b /\ d = b + c
              BY ONLY <3>3, <5>2, <6>1, <6>2
            <6> HIDE DEF a, b, c, d
            <6>4. a <= d
              BY ONLY <6>3
            <6> QED  BY ONLY <6>4 DEF a, d
          <5> QED  BY ONLY <3>2, <5>1, <5>3, <5>4
        <4> QED  BY <4>1, <4>2
      <3> QED  BY <3>1, <3>4
    <2>9. n \in keeps
      <3>1. \A j \in 1..(n - 1) : j \in keeps => j + 1 \in keeps
        BY <2>8
      <3> HIDE DEF keeps
      <3>2. 1 \in Nat /\ n \in 1..n
        BY <1>2, <2>2
      <3> QED  BY <2>2, <2>7, <3>1, <3>2, RangeInduction
    <2>10. \A i \in 1..n : /\ off[i + 1] = off[i] + Len(parts[i]) /\ off[i + 1] <= Len(f[n])
                           /\ \A k \in 1..Len(parts[i]) : f[n][off[i] + k] = parts[i][k]
      <3> TAKE i \in 1..n
      <3>1. off[i + 1] <= Len(f[n]) /\ \A k \in 1..off[i + 1] : f[n][k] = f[i][k]
        BY <2>9
      <3>2. off[i + 1] = off[i] + Len(parts[i])
        BY <2>5, <2>6
      <3>3. \A k \in 1..Len(parts[i]) : f[i][off[i] + k] = parts[i][k]
        BY <2>6
      <3>4. off[i] \in Nat /\ Len(parts[i]) \in Nat
        BY <2>2, <2>5
      <3>5. \A k \in 1..Len(parts[i]) : off[i] + k \in 1..off[i + 1]
        BY ONLY <3>2, <3>4
      <3> QED  BY ONLY <3>1, <3>2, <3>3, <3>5
    <2>11. Laid(w, parts, off)
      BY <2>1, <2>5, <2>10 DEF Laid, n
    <2> QED  BY <2>3, <2>11 DEF w
  <1>3. n \in Nat
    OBVIOUS
  <1> QED  BY <1>1, <1>2, <1>3

\* The characters that are escaped, and those their escapes are made of.
Special == {" ", "+", "?", "%"}
EscapeCharacters == {"%", "2", "3", "0", "5", "B", "F"}

LEMMA EncodedIs ==
  /\ DOMAIN Requests!Encoded = Special
  /\ \A c \in Special :
       /\ Requests!Encoded[c] \in Seq(EscapeCharacters) /\ Len(Requests!Encoded[c]) = 3
       /\ Requests!Encoded[c][1] = "%"
       /\ Requests!HasNumber(Requests!Encoded[c])
  /\ \A c, d \in Special :
       Requests!Encoded[c][2] = Requests!Encoded[d][2] /\ Requests!Encoded[c][3] = Requests!Encoded[d][3]
         => c = d
  <1>1. DOMAIN Requests!Encoded = Special
    BY DEF Requests!Encoded, Special
  <1>2. /\ Requests!Encoded[" "] = <<"%", "2", "0">> /\ Requests!Encoded["+"] = <<"%", "2", "B">>
        /\ Requests!Encoded["?"] = <<"%", "3", "F">> /\ Requests!Encoded["%"] = <<"%", "2", "5">>
    BY DEF Requests!Encoded
  <1>3. DOMAIN Requests!DigitOf = {"0", "1", "2", "3"}
    BY DEF Requests!DigitOf
  <1>4. \A c \in Special : Requests!Encoded[c] \in Seq(EscapeCharacters)
    <2>1. \A a, b, c \in EscapeCharacters : <<a, b, c>> \in Seq(EscapeCharacters)
      <3> DEFINE S == EscapeCharacters
      <3> HIDE DEF S
      <3>1. \A a, b, c \in S : <<a, b, c>> \in Seq(S)
        OBVIOUS
      <3> QED  BY <3>1 DEF S
    <2> QED  BY <1>2, <2>1 DEF Special, EscapeCharacters
  <1> DEFINE IsEscape(e) == e = <<"%", "2", "0">> \/ e = <<"%", "2", "B">> \/ e = <<"%", "3", "F">>
                             \/ e = <<"%", "2", "5">>
  <1>8. \A c \in Special : IsEscape(Requests!Encoded[c])
    BY <1>2, Zenon DEF Special
  <1>5. \A c \in Special : Len(Requests!Encoded[c]) = 3 /\ Requests!Encoded[c][1] = "%"
    <2>1. \A e : IsEscape(e) => Len(e) = 3 /\ e[1] = "%"
      OBVIOUS
    <2> HIDE DEF IsEscape
    <2> QED  BY <1>8, <2>1
  <1>6. \A c \in Special : Requests!HasNumber(Requests!Encoded[c])
    <2>1. {"2", "3"} \subseteq Requests!HexDigits
      BY <1>3 DEF Requests!HexDigits
    <2>2. \A e : IsEscape(e) => Len(e) = 3 /\ e[2] \in {"2", "3"}
      OBVIOUS
    <2> HIDE DEF IsEscape
    <2> QED  BY <1>8, <2>1, <2>2 DEF Requests!HasNumber
  <1>9. /\ Requests!Encoded[" "][2] = "2" /\ Requests!Encoded[" "][3] = "0"
        /\ Requests!Encoded["+"][2] = "2" /\ Requests!Encoded["+"][3] = "B"
        /\ Requests!Encoded["?"][2] = "3" /\ Requests!Encoded["?"][3] = "F"
        /\ Requests!Encoded["%"][2] = "2" /\ Requests!Encoded["%"][3] = "5"
    <2> DEFINE Ends(e, x, y) == e[2] = x /\ e[3] = y
    <2>1. \A a, b, c : Ends(<<a, b, c>>, b, c)
      OBVIOUS
    <2> HIDE DEF Ends
    <2>2. Ends(Requests!Encoded[" "], "2", "0")
      BY <1>2, <2>1, Zenon
    <2>3. Ends(Requests!Encoded["+"], "2", "B")
      BY <1>2, <2>1, Zenon
    <2>4. Ends(Requests!Encoded["?"], "3", "F")
      BY <1>2, <2>1, Zenon
    <2>5. Ends(Requests!Encoded["%"], "2", "5")
      BY <1>2, <2>1, Zenon
    <2> QED  BY <2>2, <2>3, <2>4, <2>5, Zenon DEF Ends
  <1>7. \A c, d \in Special :
          Requests!Encoded[c][2] = Requests!Encoded[d][2]
            /\ Requests!Encoded[c][3] = Requests!Encoded[d][3] => c = d
    BY <1>9, Zenon DEF Special
  <1> QED  BY <1>1, <1>4, <1>5, <1>6, <1>7

\* The escape of c stands in the text at i.
Stands(text, i, c) ==
  /\ i + 2 <= Len(text) /\ text[i] = "%"
  /\ text[i + 1] = Requests!Encoded[c][2] /\ text[i + 2] = Requests!Encoded[c][3]

LEMMA BeginsIs ==
  ASSUME NEW S, NEW text \in Seq(S), NEW i \in 1..Len(text), NEW c \in Special
  PROVE  Requests!Begins(text, i, Requests!Encoded[c]) <=> Stands(text, i, c)
  <1> DEFINE e == Requests!Encoded[c]
             t == SubSeq(text, i, i + 2)
  <1>1. e \in Seq(EscapeCharacters) /\ Len(e) = 3 /\ e[1] = "%"
    BY EncodedIs
  <1> HIDE DEF e
  <1>2. i + 3 - 1 = i + 2 /\ i - 1 \in Nat /\ (i - 1) + 1 = i /\ (i - 1) + 3 = i + 2
    OBVIOUS
  <1>3. Requests!Begins(text, i, e) <=> i + 2 <= Len(text) /\ t = e
    BY <1>1, <1>2 DEF Requests!Begins
  <1>4. ASSUME i + 2 <= Len(text)
        PROVE  t \in Seq(S) /\ Len(t) = 3 /\ t[1] = text[i] /\ t[2] = text[i + 1] /\ t[3] = text[i + 2]
    BY <1>4
  <1> HIDE DEF t
  <1>5. ASSUME i + 2 <= Len(text), text[i] = e[1], text[i + 1] = e[2], text[i + 2] = e[3]
        PROVE  t = e
    <2> DEFINE C == S \cup EscapeCharacters
    <2>1. t \in Seq(C) /\ e \in Seq(C)
      BY <1>1, <1>4, <1>5
    <2> HIDE DEF C
    <2>2. \A k \in 1..Len(t) : k = 1 \/ k = 2 \/ k = 3
      <3>1. Len(t) = 3
        BY <1>4, <1>5
      <3> QED  BY ONLY <3>1
    <2>3. \A k \in 1..Len(t) : t[k] = e[k]
      BY <1>4, <1>5, <2>2
    <2> QED  BY <1>1, <1>4, <1>5, <2>1, <2>3, SameSequence
  <1>6. Stands(text, i, c) <=> /\ i + 2 <= Len(text) /\ text[i] = e[1]
                               /\ text[i + 1] = e[2] /\ text[i + 2] = e[3]
    BY <1>1 DEF Stands, e
  <1>7. Requests!Begins(text, i, e) <=> Stands(text, i, c)
    BY ONLY <1>3, <1>4, <1>5, <1>6
  <1> QED  BY <1>7 DEF e

LEMMA OneStands ==
  ASSUME NEW text, NEW i, NEW c \in Special, NEW d \in Special, Stands(text, i, c), Stands(text, i, d)
  PROVE  c = d
  BY EncodedIs DEF Stands

\* url_decode's loop: f[i] is what the text is decoded to from i on.
Decoding(f, text) ==
  /\ f[Len(text) + 1] = <<>>
  /\ \A i \in 1..Len(text) :
       /\ \A c \in Special : Stands(text, i, c) => f[i] = <<c>> \o f[i + 3]
       /\ (\A c \in Special : ~Stands(text, i, c)) => f[i] = <<text[i]>> \o f[i + 1]

DecodeOf(f, text) ==
  [i \in 1..(Len(text) + 1) |->
     IF i > Len(text) THEN <<>>
     ELSE IF \E c \in DOMAIN Requests!Encoded : Requests!Begins(text, i, Requests!Encoded[c])
       THEN <<CHOOSE c \in DOMAIN Requests!Encoded : Requests!Begins(text, i, Requests!Encoded[c])>>
              \o f[i + 3]
     ELSE <<text[i]>> \o f[i + 1]]

LEMMA DecodeIs ==
  ASSUME NEW S, NEW text \in Seq(S)
  PROVE  \E f \in [1..(Len(text) + 1) -> Seq(S \cup Special)] :
           Requests!UrlDecode(text) = f[1] /\ Decoding(f, text)
  <1> DEFINE n == Len(text)
             D == 1..(n + 1)
             T == Seq(S \cup Special)
             there(i) == \E c \in Special : Requests!Begins(text, i, Requests!Encoded[c])
             chosen(i) == CHOOSE c \in Special : Requests!Begins(text, i, Requests!Encoded[c])
             base == [i \in D |-> <<>>]
             head == [i \in D |-> IF i \in 1..n THEN (IF there(i) THEN chosen(i) ELSE text[i]) ELSE "%"]
             next == [i \in D |-> IF there(i) THEN i + 3 ELSE i + 1]
             step == [i \in D |-> [t \in T |-> <<head[i]>> \o t]]
             m == [i \in D |-> n + 1 - i]
             bound == n + 2
             Ends == {n + 1}
  <1>1. n \in Nat /\ n + 1 \in D /\ 1 \in D /\ \A i \in D : i # n + 1 => i \in 1..n /\ ~(i > n)
    OBVIOUS
  <1>2. \A i \in 1..n : there(i) => /\ chosen(i) \in Special
                                    /\ Requests!Begins(text, i, Requests!Encoded[chosen(i)])
    OBVIOUS
  <1>3. \A i \in 1..n : there(i) => Stands(text, i, chosen(i)) /\ i + 2 <= n
    <2> HIDE DEF there, chosen
    <2>1. \A i \in 1..n : there(i) => Stands(text, i, chosen(i))
      BY <1>2, BeginsIs
    <2> QED  BY <2>1 DEF Stands
  <1>4. \A i \in 1..n, c \in Special : Stands(text, i, c) => there(i) /\ chosen(i) = c
    <2> TAKE i \in 1..n, c \in Special
    <2> HAVE Stands(text, i, c)
    <2>1. there(i)
      BY BeginsIs
    <2>2. Stands(text, i, chosen(i)) /\ chosen(i) \in Special
      <3> HIDE DEF there, chosen
      <3> QED  BY <1>2, <1>3, <2>1
    <2> QED  BY <2>1, <2>2, OneStands
  <1> HIDE DEF there, chosen
  <1>5. \A i \in D : head[i] \in S \cup Special
    <2>1. \A i \in 1..n : text[i] \in S
      OBVIOUS
    <2> QED  BY <1>2, <2>1 DEF Special
  <1>6. /\ \A i \in 1..n : head[i] = IF there(i) THEN chosen(i) ELSE text[i]
        /\ \A i \in D : next[i] = IF there(i) THEN i + 3 ELSE i + 1
    BY <1>1
  <1>7. <<>> \in T /\ \A c \in S \cup Special, t \in T : <<c>> \o t \in T
    <2> DEFINE C == S \cup Special
    <2> HIDE DEF C
    <2>1. \A c \in C, t \in Seq(C) : <<c>> \o t \in Seq(C)
      OBVIOUS
    <2>2. <<>> \in Seq(C)
      OBVIOUS
    <2> QED  BY <2>1, <2>2 DEF C
  <1> HIDE DEF head, T
  <1>8. \A i \in D, t \in T : step[i][t] = <<head[i]>> \o t /\ base[i] = <<>>
    OBVIOUS
  <1>9. base \in [D -> T] /\ step \in [D -> [T -> T]]
    <2>1. \A i \in D, t \in T : <<head[i]>> \o t \in T
      BY <1>5, <1>7
    <2> QED  BY <1>7, <2>1
  <1>10. /\ m \in [D -> Nat] /\ bound \in Nat /\ \A i \in D : m[i] < bound
    BY <1>1
  <1>11. \A i \in D : i \notin Ends => next[i] \in D /\ m[next[i]] < m[i]
    <2> TAKE i \in D
    <2> HAVE i \notin Ends
    <2>1. i \in 1..n /\ (there(i) => i + 2 <= n)
      BY <1>1, <1>3
    <2>2. next[i] \in D /\ next[i] > i /\ i \in D
      BY <1>1, <1>6, <2>1
    <2> HIDE DEF next
    <2> QED  BY <1>1, <2>1, <2>2
  <1> HIDE DEF base, next, step, m, bound, n
  <1>12. PICK f \in [D -> T] : Descent(f, D, Ends, base, next, step)
    BY ONLY <1>9, <1>10, <1>11, DescentExists
  <1> DEFINE w(f2, i) == IF i > n THEN <<>>
                         ELSE IF there(i) THEN <<chosen(i)>> \o f2[i + 3] ELSE <<text[i]>> \o f2[i + 1]
  <1>13. \A i \in D : f[i] = w(f, i)
    <2> TAKE i \in D
    <2>1. CASE i \in Ends
      <3>1. f[i] = <<>> /\ i > n
        <4>1. f[i] = base[i] /\ base[i] = <<>>
          BY <1>7, <1>8, <1>12, <2>1 DEF Descent
        <4>2. i = n + 1 /\ n \in Nat
          BY <1>1, <2>1
        <4> QED  BY ONLY <4>1, <4>2
      <3> QED  BY <3>1
    <2>2. CASE i \notin Ends
      <3>1. f[i] = step[i][f[next[i]]] /\ f[next[i]] \in T
        BY <1>11, <1>12, <2>2 DEF Descent
      <3>2. f[i] = <<head[i]>> \o f[next[i]]
        BY <1>8, <3>1
      <3>3. i \in 1..n /\ ~(i > n)
        BY <1>1, <2>2
      <3> QED  BY <1>6, <3>2, <3>3
    <2> QED  BY <2>1, <2>2
  <1>14. \A g : DecodeOf(g, text) = [i \in D |-> w(g, i)]
    BY EncodedIs, Zenon DEF DecodeOf, there, chosen, n
  <1>15. f = DecodeOf(f, text)
    BY <1>12, <1>13, <1>14
  <1> DEFINE g == CHOOSE h : h = DecodeOf(h, text)
  <1>16. g = DecodeOf(g, text)
    BY <1>15
  <1>17. Requests!UrlDecode(text) = g[1]
    BY Zenon DEF Requests!UrlDecode, DecodeOf
  <1> HIDE DEF g
  <1>18. \A i \in D : g[i] = w(g, i)
    <2>1. g = [i \in D |-> w(g, i)]
      BY <1>14, <1>16
    <2> HIDE DEF w
    <2> QED  BY <2>1, Zenon
  <1>19. Descends(g, T, D, Ends, base, next, step)
    <2> SUFFICES ASSUME NEW i \in D
                 PROVE  /\ i \in Ends => g[i] = base[i]
                        /\ i \notin Ends /\ g[next[i]] \in T => g[i] = step[i][g[next[i]]]
      BY DEF Descends
    <2>1. i \in Ends => g[i] = base[i]
      <3> SUFFICES ASSUME i \in Ends PROVE g[i] = base[i]
        OBVIOUS
      <3>1. i > n
        BY <1>1
      <3> QED  BY <1>7, <1>8, <1>18, <3>1
    <2>2. ASSUME i \notin Ends, g[next[i]] \in T PROVE g[i] = step[i][g[next[i]]]
      <3>1. i \in 1..n /\ ~(i > n)
        BY <1>1, <2>2
      <3>2. step[i][g[next[i]]] = <<head[i]>> \o g[next[i]]
        BY <1>8, <2>2
      <3>3. g[i] = <<head[i]>> \o g[next[i]]
        BY <1>6, <1>18, <3>1
      <3> QED  BY <3>2, <3>3
    <2> QED  BY <2>1, <2>2
  <1>20. \A i \in D : g[i] \in T
    BY ONLY <1>9, <1>10, <1>11, <1>19, DescentTyped
  <1>21. g \in [D -> T]
    BY <1>14, <1>16, <1>20
  <1>22. Decoding(g, text)
    <2>1. g[Len(text) + 1] = <<>>
      <3>1. n + 1 > n
        BY <1>1
      <3> QED  BY <1>1, <1>18, <3>1 DEF n
    <2>2. ASSUME NEW i \in 1..Len(text), NEW c \in Special, Stands(text, i, c)
          PROVE  g[i] = <<c>> \o g[i + 3]
      <3>1. there(i) /\ chosen(i) = c /\ i \in D /\ ~(i > n)
        BY <1>1, <1>4, <2>2 DEF n
      <3> QED  BY <1>18, <3>1
    <2>3. ASSUME NEW i \in 1..Len(text), \A c \in Special : ~Stands(text, i, c)
          PROVE  g[i] = <<text[i]>> \o g[i + 1]
      <3>1. i \in D /\ ~(i > n) /\ i \in 1..n
        BY <1>1 DEF n
      <3>2. ~there(i)
        BY <1>2, <1>3, <2>3, <3>1
      <3> QED  BY <1>18, <3>1, <3>2
    <2> QED  BY <2>1, <2>2, <2>3 DEF Decoding
  <1> QED  BY <1>17, <1>21, <1>22 DEF T, n

\* The text as a client escapes it.
EscapedParts(text) ==
  [i \in DOMAIN text |-> IF text[i] \in DOMAIN Requests!Encoded THEN Requests!Encoded[text[i]]
                         ELSE <<text[i]>>]

EscapedText(text) == Requests!FlattenSeq(EscapedParts(text))

\* The text w is the escaped one; what the i-th character has become stands behind off[i].
EscapedAs(w, text, off) ==
  /\ off \in [1..(Len(text) + 1) -> Nat] /\ off[1] = 0 /\ off[Len(text) + 1] = Len(w)
  /\ \A i \in 1..Len(text) :
       /\ off[i] + 1 \in 1..Len(w) /\ off[i + 1] <= Len(w)
       /\ text[i] \in Special => off[i + 1] = off[i] + 3 /\ Stands(w, off[i] + 1, text[i])
       /\ text[i] \notin Special => off[i + 1] = off[i] + 1 /\ w[off[i] + 1] = text[i]

LEMMA EscapedIs ==
  ASSUME NEW S, NEW text \in Seq(S)
  PROVE  /\ EscapedText(text) \in Seq(S \cup EscapeCharacters)
         /\ \E off : EscapedAs(EscapedText(text), text, off)
  <1> DEFINE parts == EscapedParts(text)
             w == EscapedText(text)
             C == S \cup EscapeCharacters
             n == Len(text)
  <1>1. n \in Nat /\ DOMAIN text = 1..n /\ \A i \in 1..n : text[i] \in S
    OBVIOUS
  <1>2. \A i \in 1..n : parts[i] = IF text[i] \in Special THEN Requests!Encoded[text[i]] ELSE <<text[i]>>
    BY <1>1, EncodedIs DEF EscapedParts
  <1>3. \A i \in 1..n : parts[i] \in Seq(C)
    <2>1. \A c \in S : <<c>> \in Seq(C)
      <3>1. \A c \in C : <<c>> \in Seq(C)
        <4> HIDE DEF C
        <4> QED  OBVIOUS
      <3> QED  BY <3>1
    <2>2. \A c \in Special : Requests!Encoded[c] \in Seq(C)
      BY EncodedIs
    <2> QED  BY <1>1, <1>2, <2>1, <2>2
  <1>4. parts \in Seq(Seq(C)) /\ Len(parts) = n
    <2>1. parts = [i \in 1..n |-> parts[i]]
      BY <1>1 DEF EscapedParts
    <2> HIDE DEF parts, C
    <2> QED  BY <1>1, <1>3, <2>1
  <1> HIDE DEF C
  <1>5. w \in Seq(C) /\ \E off : Laid(w, parts, off)
    BY <1>4, FlattenLaid DEF EscapedText
  <1>6. PICK off : Laid(w, parts, off)
    BY <1>5
  <1> HIDE DEF parts, w, n
  <1>7. off \in [1..(n + 1) -> Nat] /\ off[1] = 0 /\ off[n + 1] = Len(w)
    BY <1>4, <1>6 DEF Laid
  <1>8. \A i \in 1..n : /\ off[i + 1] = off[i] + Len(parts[i]) /\ off[i + 1] <= Len(w)
                        /\ \A k \in 1..Len(parts[i]) : w[off[i] + k] = parts[i][k]
    BY <1>4, <1>6 DEF Laid
  <1>9. Len(w) \in Nat /\ \A i \in 1..n : off[i] \in Nat
    BY <1>1, <1>5, <1>7
  <1>10. ASSUME NEW i \in 1..n, text[i] \in Special
         PROVE  /\ off[i] + 1 \in 1..Len(w) /\ off[i + 1] = off[i] + 3
                /\ Stands(w, off[i] + 1, text[i])
    <2> DEFINE e == Requests!Encoded[text[i]]
    <2>1. parts[i] = e /\ Len(e) = 3 /\ e[1] = "%"
      BY <1>2, <1>10, EncodedIs
    <2> HIDE DEF e
    <2>2. off[i + 1] = off[i] + 3 /\ off[i + 1] <= Len(w)
      BY <1>8, <2>1
    <2>3. w[off[i] + 1] = e[1] /\ w[off[i] + 2] = e[2] /\ w[off[i] + 3] = e[3]
      <3>1. \A k \in 1..3 : w[off[i] + k] = e[k]
        BY <1>8, <2>1
      <3> QED  BY <3>1
    <2>4. off[i] \in Nat
      BY <1>9
    <2>5. (off[i] + 1) + 1 = off[i] + 2 /\ (off[i] + 1) + 2 = off[i] + 3
      BY <2>4
    <2>6. off[i] + 1 \in 1..Len(w) /\ (off[i] + 1) + 2 <= Len(w)
      BY ONLY <1>9, <2>2, <2>4
    <2> QED  BY <2>1, <2>2, <2>3, <2>5, <2>6 DEF Stands, e
  <1>11. ASSUME NEW i \in 1..n, text[i] \notin Special
         PROVE  off[i] + 1 \in 1..Len(w) /\ off[i + 1] = off[i] + 1 /\ w[off[i] + 1] = text[i]
    <2>1. parts[i] = <<text[i]>>
      BY <1>2, <1>11
    <2>2. Len(parts[i]) = 1 /\ parts[i][1] = text[i]
      BY <2>1
    <2>3. off[i + 1] = off[i] + 1 /\ off[i + 1] <= Len(w) /\ off[i] \in Nat
      BY <1>8, <1>9, <2>2
    <2>4. w[off[i] + 1] = text[i]
      <3>1. 1 \in 1..Len(parts[i])
        BY <2>2
      <3> QED  BY <1>8, <2>2, <3>1
    <2>5. off[i] + 1 \in 1..Len(w)
      BY ONLY <1>9, <2>3
    <2> QED  BY <2>3, <2>4, <2>5
  <1>12. EscapedAs(w, text, off)
    BY <1>7, <1>8, <1>10, <1>11 DEF EscapedAs, n
  <1> QED  BY <1>5, <1>12 DEF C, w

\* What an escaped text holds of the special characters.
LEMMA EscapedHolds ==
  ASSUME NEW S, NEW text \in Seq(S)
  PROVE  \A p \in 1..Len(EscapedText(text)) : EscapedText(text)[p] # "?"
  <1> DEFINE w == EscapedText(text)
             n == Len(text)
  <1>1. w \in Seq(S \cup EscapeCharacters) /\ n \in Nat
    BY EscapedIs
  <1>2. PICK off : EscapedAs(w, text, off)
    BY EscapedIs
  <1> HIDE DEF w
  <1>3. off \in [1..(n + 1) -> Nat] /\ off[1] = 0 /\ off[n + 1] = Len(w)
    BY <1>2 DEF EscapedAs
  <1> DEFINE done == {i \in 1..(n + 1) : \A p \in 1..off[i] : w[p] # "?"}
  <1>4. 1 \in done
    BY <1>1, <1>3
  <1>5. ASSUME NEW i \in 1..((n + 1) - 1), i \in done PROVE i + 1 \in done
    <2>1. i \in 1..n /\ i \in 1..(n + 1) /\ i + 1 \in 1..(n + 1)
      BY <1>1
    <2>2. off[i] \in Nat
      BY <1>3, <2>1
    <2>3. CASE text[i] \in Special
      <3> DEFINE c == text[i]
      <3>1. c \in Special /\ off[i + 1] = off[i] + 3 /\ Stands(w, off[i] + 1, c)
        BY <1>2, <2>1, <2>3 DEF EscapedAs
      <3> HIDE DEF c
      <3>2. Requests!Encoded[c][2] # "?" /\ Requests!Encoded[c][3] # "?"
        <4>1. Requests!Encoded[c] \in Seq(EscapeCharacters) /\ Len(Requests!Encoded[c]) = 3
          BY <3>1, EncodedIs
        <4>2. Requests!Encoded[c][2] \in EscapeCharacters /\ Requests!Encoded[c][3] \in EscapeCharacters
          BY <4>1
        <4> QED  BY <4>2 DEF EscapeCharacters
      <3>3. (off[i] + 1) + 1 = off[i] + 2 /\ (off[i] + 1) + 2 = off[i] + 3
        BY <2>2
      <3>4. w[off[i] + 1] # "?" /\ w[off[i] + 2] # "?" /\ w[off[i] + 3] # "?"
        BY <3>1, <3>2, <3>3 DEF Stands
      <3>5. \A p \in 1..off[i + 1] :
              p \in 1..off[i] \/ p = off[i] + 1 \/ p = off[i] + 2 \/ p = off[i] + 3
        BY ONLY <2>2, <3>1
      <3> QED  BY <1>5, <2>1, <3>4, <3>5
    <2>4. CASE text[i] \notin Special
      <3>1. off[i + 1] = off[i] + 1 /\ w[off[i] + 1] = text[i]
        BY <1>2, <2>1, <2>4 DEF EscapedAs
      <3>2. w[off[i] + 1] # "?"
        BY <2>4, <3>1 DEF Special
      <3>3. \A p \in 1..off[i + 1] : p \in 1..off[i] \/ p = off[i] + 1
        BY ONLY <2>2, <3>1
      <3> QED  BY <1>5, <2>1, <3>2, <3>3
    <2> QED  BY <2>3, <2>4
  <1> HIDE DEF done
  <1>6. n + 1 \in done
    <2>1. 1 \in Nat /\ n + 1 \in Nat /\ n + 1 \in 1..(n + 1)
      BY <1>1
    <2>2. \A i \in 1..((n + 1) - 1) : i \in done => i + 1 \in done
      BY <1>5
    <2> QED  BY <1>4, <2>1, <2>2, RangeInduction
  <1>7. \A p \in 1..Len(w) : w[p] # "?"
    BY <1>3, <1>6 DEF done
  <1> QED  BY <1>7 DEF w

\* A text is its first character and the rest.
LEMMA FromOn ==
  ASSUME NEW S, NEW text \in Seq(S), NEW i \in 1..Len(text)
  PROVE  <<text[i]>> \o SubSeq(text, i + 1, Len(text)) = SubSeq(text, i, Len(text))
  <1> DEFINE n == Len(text)
             t == SubSeq(text, i + 1, n)
             u == SubSeq(text, i, n)
  <1>1. n \in Nat /\ text[i] \in S /\ i - 1 \in Nat /\ (i - 1) + 1 = i
    OBVIOUS
  <1>2. t \in Seq(S) /\ Len(t) = n - i /\ \A k \in 1..(n - i) : t[k] = text[i + k]
    <2> DEFINE d == n - i
    <2>1. i \in Nat /\ d \in Nat /\ i + d = n
      OBVIOUS
    <2> HIDE DEF d
    <2>2. /\ SubSeq(text, i + 1, i + d) \in Seq(S) /\ Len(SubSeq(text, i + 1, i + d)) = d
          /\ \A k \in 1..d : SubSeq(text, i + 1, i + d)[k] = text[i + k]
      BY ONLY text \in Seq(S), <2>1, PartOfText
    <2> QED  BY ONLY <2>1, <2>2 DEF d
  <1>3. u \in Seq(S) /\ Len(u) = n - i + 1 /\ \A k \in 1..(n - i + 1) : u[k] = text[(i - 1) + k]
    <2>1. i - 1 \in Nat /\ n - i + 1 \in Nat /\ (i - 1) + (n - i + 1) = n
      OBVIOUS
    <2> QED  BY <1>1, <2>1, PartOfText
  <1> HIDE DEF t, u, n
  <1> DEFINE x == <<text[i]>>
             v == x \o t
  <1>4. x \in Seq(S) /\ Len(x) = 1 /\ x[1] = text[i]
    BY <1>1
  <1> HIDE DEF x
  <1>5. v \in Seq(S) /\ Joins(v, x, t)
    BY <1>2, <1>4, JoinedTexts
  <1> HIDE DEF v
  <1>6. Len(v) = 1 + (n - i) /\ v[1] = text[i] /\ \A k \in 1..(n - i) : v[1 + k] = t[k]
    BY <1>2, <1>4, <1>5 DEF Joins
  <1>7. \A k \in 1..Len(v) : v[k] = u[k]
    <2> TAKE k \in 1..Len(v)
    <2>1. CASE k = 1
      <3>1. (i - 1) + 1 = i /\ 1 \in 1..(n - i + 1)
        BY <1>1, <1>6, <2>1 DEF n
      <3> QED  BY <1>3, <1>6, <2>1, <3>1
    <2>2. CASE k # 1
      <3>1. k - 1 \in 1..(n - i) /\ 1 + (k - 1) = k /\ i + (k - 1) = (i - 1) + k /\ k \in 1..(n - i + 1)
        BY <1>1, <1>6, <2>2
      <3> QED  BY <1>2, <1>3, <1>6, <3>1
    <2> QED  BY <2>1, <2>2
  <1>8. Len(v) = Len(u)
    BY <1>1, <1>3, <1>6
  <1>9. v = u
    BY <1>3, <1>5, <1>7, <1>8, SameSequence
  <1> QED  BY <1>9 DEF v, x, t, u, n

LEMMA WholeText ==
  ASSUME NEW S, NEW text \in Seq(S)
  PROVE  SubSeq(text, 1, Len(text)) = text /\ SubSeq(text, Len(text) + 1, Len(text)) = <<>>
  <1> DEFINE u == SubSeq(text, 1, Len(text))
  <1>1. u \in Seq(S) /\ Len(u) = Len(text) /\ \A i \in 1..Len(u) : u[i] = text[i]
    OBVIOUS
  <1> HIDE DEF u
  <1>2. u = text
    BY <1>1, SameSequence
  <1> QED  BY <1>2 DEF u

\* What a client has escaped, mongoose's decoder brings back.
LEMMA EscapedDecoded ==
  ASSUME NEW S, NEW text \in Seq(S)
  PROVE  Requests!UrlDecode(EscapedText(text)) = text
  <1> DEFINE w == EscapedText(text)
             n == Len(text)
  <1>1. w \in Seq(S \cup EscapeCharacters) /\ n \in Nat /\ Len(w) \in Nat
    BY EscapedIs
  <1>2. PICK off : EscapedAs(w, text, off)
    BY EscapedIs
  <1> HIDE DEF w
  <1>3. PICK f : Requests!UrlDecode(w) = f[1] /\ Decoding(f, w)
    BY <1>1, DecodeIs
  <1> DEFINE done == {i \in 1..(n + 1) : f[off[i] + 1] = SubSeq(text, i, n)}
  <1>4. n + 1 \in done
    <2>1. f[Len(w) + 1] = <<>> /\ off[n + 1] = Len(w) /\ n + 1 \in 1..(n + 1)
      BY <1>1, <1>2, <1>3 DEF Decoding, EscapedAs
    <2> QED  BY <2>1, WholeText
  <1>5. ASSUME NEW i \in 1..n, \A j \in (i + 1)..(n + 1) : j \in done PROVE i \in done
    <2>1. i + 1 \in done /\ i \in 1..(n + 1)
      BY <1>1, <1>5
    <2>2. off[i] + 1 \in 1..Len(w) /\ off[i] \in Nat
      BY <1>2, <2>1 DEF EscapedAs
    <2>3. f[off[i] + 1] = <<text[i]>> \o f[off[i + 1] + 1]
      <3>1. CASE text[i] \in Special
        <4>1. off[i + 1] = off[i] + 3 /\ Stands(w, off[i] + 1, text[i])
          BY <1>2, <3>1 DEF EscapedAs
        <4>2. f[off[i] + 1] = <<text[i]>> \o f[(off[i] + 1) + 3]
          BY <1>3, <2>2, <3>1, <4>1 DEF Decoding
        <4>3. (off[i] + 1) + 3 = off[i + 1] + 1
          BY ONLY <2>2, <4>1
        <4> QED  BY <4>2, <4>3
      <3>2. CASE text[i] \notin Special
        <4>1. off[i + 1] = off[i] + 1 /\ w[off[i] + 1] = text[i]
          BY <1>2, <3>2 DEF EscapedAs
        <4>2. \A c \in Special : ~Stands(w, off[i] + 1, c)
          BY <3>2, <4>1 DEF Stands, Special
        <4>3. f[off[i] + 1] = <<text[i]>> \o f[(off[i] + 1) + 1]
          BY <1>3, <2>2, <4>1, <4>2 DEF Decoding
        <4> QED  BY <4>1, <4>3
      <3> QED  BY <3>1, <3>2
    <2>4. f[off[i + 1] + 1] = SubSeq(text, i + 1, n)
      BY <2>1
    <2> QED  BY <2>1, <2>3, <2>4, FromOn
  <1> HIDE DEF done
  <1>6. 1 \in done
    <2>1. \A i \in 1..(n + 1) : i \in done
      BY <1>1, <1>4, <1>5, DownInduction
    <2> QED  BY <1>1, <2>1
  <1>7. off[1] + 1 = 1
    BY <1>2 DEF EscapedAs
  <1>8. f[1] = SubSeq(text, 1, n)
    BY <1>6, <1>7 DEF done
  <1> QED  BY <1>3, <1>8, WholeText DEF w

\* Two dots stand in the text at i.
Dots(text, i) == i + 1 <= Len(text) /\ text[i] = "." /\ text[i + 1] = "."

LEMMA DotsBegin ==
  ASSUME NEW S, NEW text \in Seq(S), NEW i \in 1..Len(text)
  PROVE  Requests!Begins(text, i, <<".", ".">>) <=> Dots(text, i)
  <1> DEFINE e == <<".", ".">>
             t == SubSeq(text, i, i + 1)
  <1>1. e \in Seq({"."}) /\ Len(e) = 2 /\ e[1] = "." /\ e[2] = "."
    OBVIOUS
  <1> HIDE DEF e
  <1>2. i + 2 - 1 = i + 1
    OBVIOUS
  <1>3. Requests!Begins(text, i, e) <=> i + 1 <= Len(text) /\ t = e
    BY <1>1, <1>2 DEF Requests!Begins
  <1>4. ASSUME i + 1 <= Len(text)
        PROVE  t \in Seq(S) /\ Len(t) = 2 /\ t[1] = text[i] /\ t[2] = text[i + 1]
    <2>1. i - 1 \in Nat /\ (i - 1) + 1 = i /\ (i - 1) + 2 = i + 1 /\ 1 \in 1..2 /\ 2 \in 1..2
      OBVIOUS
    <2> DEFINE k == i - 1
               d == 2
    <2>2. k \in Nat /\ d \in Nat /\ d = 2 /\ k + 1 = i /\ k + d = i + 1 /\ k + d <= Len(text)
      BY <1>4, <2>1
    <2> HIDE DEF k, d
    <2>3. /\ SubSeq(text, k + 1, k + d) \in Seq(S) /\ Len(SubSeq(text, k + 1, k + d)) = d
          /\ \A j \in 1..d : SubSeq(text, k + 1, k + d)[j] = text[k + j]
      BY ONLY text \in Seq(S), <2>2, PartOfText
    <2>4. k + 2 = i + 1
      BY ONLY <2>2
    <2> QED  BY ONLY <2>1, <2>2, <2>3, <2>4
  <1> HIDE DEF t
  <1>5. ASSUME i + 1 <= Len(text), text[i] = e[1], text[i + 1] = e[2] PROVE t = e
    <2> DEFINE C == S \cup {"."}
    <2>1. t \in Seq(C) /\ e \in Seq(C)
      BY <1>1, <1>4, <1>5
    <2> HIDE DEF C
    <2>2. \A k \in 1..Len(t) : k = 1 \/ k = 2
      <3>1. Len(t) = 2
        BY <1>4, <1>5
      <3> QED  BY ONLY <3>1
    <2>3. \A k \in 1..Len(t) : t[k] = e[k]
      BY <1>4, <1>5, <2>2
    <2> QED  BY <1>1, <1>4, <1>5, <2>1, <2>3, SameSequence
  <1>6. Dots(text, i) <=> i + 1 <= Len(text) /\ text[i] = e[1] /\ text[i + 1] = e[2]
    BY <1>1 DEF Dots
  <1>7. Requests!Begins(text, i, e) <=> Dots(text, i)
    BY ONLY <1>3, <1>4, <1>5, <1>6
  <1> QED  BY <1>7 DEF e

\* The loop of remove_double_dots_and_double_slashes: what is left of the text from i on.
Modes == {"copying", "skipping"}
ModeAfter(c) == IF c = "/" THEN "skipping" ELSE "copying"

Copies(f, text, i, mode) == f[<<i, mode>>] = <<text[i]>> \o f[<<i + 1, ModeAfter(text[i])>>]

Removing(f, text) ==
  /\ \A mode \in Modes : f[<<Len(text) + 1, mode>>] = <<>>
  /\ \A i \in 1..Len(text) :
       /\ Copies(f, text, i, "copying")
       /\ text[i] = "/" => f[<<i, "skipping">>] = f[<<i + 1, "skipping">>]
       /\ text[i] # "/" /\ Dots(text, i) => f[<<i, "skipping">>] = f[<<i + 2, "skipping">>]
       /\ text[i] # "/" /\ ~Dots(text, i) => Copies(f, text, i, "skipping")

RemoveOf(f, text) ==
  [at \in (1..(Len(text) + 1)) \X Modes |->
     IF at[1] > Len(text) THEN <<>>
     ELSE IF at[2] = "skipping" /\ text[at[1]] = "/" THEN f[<<at[1] + 1, "skipping">>]
     ELSE IF at[2] = "skipping" /\ Requests!Begins(text, at[1], <<".", ".">>)
       THEN f[<<at[1] + 2, "skipping">>]
     ELSE <<text[at[1]]>> \o f[<<at[1] + 1, IF text[at[1]] = "/" THEN "skipping" ELSE "copying">>]]

LEMMA RemoveIs ==
  ASSUME NEW S, NEW text \in Seq(S)
  PROVE  \E f \in [(1..(Len(text) + 1)) \X Modes -> Seq(S)] :
           Requests!RemoveDoubleDots(text) = f[<<1, "copying">>] /\ Removing(f, text)
  <1> DEFINE n == Len(text)
             D == (1..(n + 1)) \X Modes
             T == Seq(S)
             slash(at) == at[2] = "skipping" /\ text[at[1]] = "/"
             dots(at) == at[2] = "skipping" /\ Requests!Begins(text, at[1], <<".", ".">>)
             base == [at \in D |-> <<>>]
             next == [at \in D |-> IF slash(at) THEN <<at[1] + 1, "skipping">>
                                   ELSE IF dots(at) THEN <<at[1] + 2, "skipping">>
                                   ELSE <<at[1] + 1, ModeAfter(text[at[1]])>>]
             keeps(at) == at[1] \in 1..n /\ ~slash(at) /\ ~dots(at)
             step == [at \in D |-> [t \in T |-> IF keeps(at) THEN <<text[at[1]]>> \o t ELSE t]]
             m == [at \in D |-> n + 1 - at[1]]
             bound == n + 2
             Ends == {at \in D : at[1] > n}
  <1>1. n \in Nat /\ \A at \in D : at[1] \in 1..(n + 1) /\ at[2] \in Modes
    OBVIOUS
  <1>2. \A i \in 1..(n + 1), mode \in Modes :
          <<i, mode>> \in D /\ <<i, mode>>[1] = i /\ <<i, mode>>[2] = mode
    OBVIOUS
  <1>3. \A at \in D : (at \in Ends <=> at[1] = n + 1) /\ (at \notin Ends <=> at[1] \in 1..n)
    BY <1>1
  <1>4. \A i \in 1..n : Requests!Begins(text, i, <<".", ".">>) <=> Dots(text, i)
    BY DotsBegin
  <1>5. \A i \in 1..n : Dots(text, i) => i + 1 <= n
    BY DEF Dots
  <1>6. \A i \in 1..n : text[i] \in S /\ ModeAfter(text[i]) \in Modes
    BY DEF ModeAfter, Modes
  <1>7. <<>> \in T /\ \A c \in S, t \in T : <<c>> \o t \in T
    OBVIOUS
  <1>8. \A at \in D : at[1] \in 1..n => (dots(at) => at[1] + 1 <= n)
    BY <1>4, <1>5
  <1>9. \A at \in D : next[at] = IF slash(at) THEN <<at[1] + 1, "skipping">>
                                 ELSE IF dots(at) THEN <<at[1] + 2, "skipping">>
                                 ELSE <<at[1] + 1, ModeAfter(text[at[1]])>>
    OBVIOUS
  <1>10. \A at \in D, t \in T : base[at] = <<>>
           /\ step[at][t] = IF keeps(at) THEN <<text[at[1]]>> \o t ELSE t
    OBVIOUS
  <1>11. "skipping" \in Modes /\ "copying" \in Modes /\ "skipping" # "copying"
    BY DEF Modes
  <1> HIDE DEF slash, dots
  <1> DEFINE Ds == {at \in D : at[1] \in 1..n}
  <1>12. base \in [D -> T]
    BY <1>7
  <1> HIDE DEF T, next, D, base
  <1>13. \A at \in D : at \notin Ends => next[at] \in D /\ next[at][1] > at[1]
    <2> TAKE at \in D
    <2> HAVE at \notin Ends
    <2>1. at[1] \in 1..n
      BY <1>3
    <2>2. CASE slash(at)
      <3>1. next[at] = <<at[1] + 1, "skipping">> /\ at[1] + 1 \in 1..(n + 1)
        <4>1. at[1] + 1 \in 1..(n + 1)
          BY ONLY <1>1, <2>1
        <4> QED  BY ONLY <1>9, <2>2, <4>1, at \in D
      <3>2. next[at] \in D /\ next[at][1] = at[1] + 1
        BY ONLY <1>2, <1>11, <3>1
      <3> QED  BY <2>1, <3>2
    <2>3. CASE ~slash(at) /\ dots(at)
      <3>1. next[at] = <<at[1] + 2, "skipping">> /\ at[1] + 2 \in 1..(n + 1)
        <4>1. at[1] + 1 <= n
          BY <1>8, <2>1, <2>3
        <4>2. at[1] + 2 \in 1..(n + 1)
          BY ONLY <1>1, <2>1, <4>1
        <4> QED  BY ONLY <1>9, <2>3, <4>2, at \in D
      <3>2. next[at] \in D /\ next[at][1] = at[1] + 2
        BY ONLY <1>2, <1>11, <3>1
      <3> QED  BY <2>1, <3>2
    <2>4. CASE ~slash(at) /\ ~dots(at)
      <3>1. next[at] = <<at[1] + 1, ModeAfter(text[at[1]])>> /\ at[1] + 1 \in 1..(n + 1)
        <4>1. at[1] + 1 \in 1..(n + 1)
          BY ONLY <1>1, <2>1
        <4> QED  BY ONLY <1>9, <2>4, <4>1, at \in D
      <3>2. ModeAfter(text[at[1]]) \in Modes
        BY <1>6, <2>1
      <3>3. next[at] \in D /\ next[at][1] = at[1] + 1
        BY ONLY <1>2, <3>1, <3>2
      <3> QED  BY <2>1, <3>3
    <2> QED  BY <2>2, <2>3, <2>4
  <1>14. m \in [D -> Nat] /\ bound \in Nat /\ (\A at \in D : m[at] < bound)
         /\ \A at \in D : at \notin Ends => next[at] \in D /\ m[next[at]] < m[at]
    <2>1. \A at \in D : m[at] = n + 1 - at[1] /\ n + 1 - at[1] \in Nat
      BY <1>1
    <2>2. m \in [D -> Nat] /\ bound \in Nat /\ (\A at \in D : m[at] < bound)
      BY <1>1
    <2> HIDE DEF m, bound
    <2>3. ASSUME NEW at \in D, at \notin Ends PROVE next[at] \in D /\ m[next[at]] < m[at]
      <3>1. next[at] \in D /\ next[at][1] > at[1]
        BY <1>13, <2>3
      <3> DEFINE i == at[1]
                 j == next[at][1]
      <3>2. i \in 1..(n + 1) /\ j \in 1..(n + 1) /\ j > i /\ m[at] = n + 1 - i /\ m[next[at]] = n + 1 - j
        BY <1>1, <2>1, <3>1
      <3> HIDE DEF i, j
      <3>3. n + 1 - j < n + 1 - i
        BY ONLY <1>1, <3>2
      <3> QED  BY <3>1, <3>2, <3>3
    <2> QED  BY <2>2, <2>3
  <1> HIDE DEF m, bound
  <1>15. \A at \in D : keeps(at) => text[at[1]] \in S
    BY <1>6
  <1>16. step \in [D -> [T -> T]]
    <2>1. \A at \in D, t \in T : (IF keeps(at) THEN <<text[at[1]]>> \o t ELSE t) \in T
      BY <1>7, <1>15
    <2> HIDE DEF keeps
    <2> QED  BY <2>1
  <1>17. \A at \in D : at \notin Ends => (keeps(at) <=> ~slash(at) /\ ~dots(at))
    BY <1>3
  <1> HIDE DEF step, keeps
  <1>18. PICK f \in [D -> T] : Descent(f, D, Ends, base, next, step)
    BY ONLY <1>12, <1>14, <1>16, DescentExists
  <1> DEFINE w(h, at) == IF at[1] > n THEN <<>>
                         ELSE IF slash(at) THEN h[<<at[1] + 1, "skipping">>]
                         ELSE IF dots(at) THEN h[<<at[1] + 2, "skipping">>]
                         ELSE <<text[at[1]]>> \o h[<<at[1] + 1, ModeAfter(text[at[1]])>>]
  <1>19. \A h, at : at \in D /\ at \notin Ends =>
           w(h, at) = IF keeps(at) THEN <<text[at[1]]>> \o h[next[at]] ELSE h[next[at]]
    <2> TAKE h, at
    <2> HAVE at \in D /\ at \notin Ends
    <2>1. ~(at[1] > n)
      OBVIOUS
    <2>2. keeps(at) <=> ~slash(at) /\ ~dots(at)
      BY <1>17
    <2> QED  BY <1>9, <2>1, <2>2, Zenon
  <1>20. \A h, at : at \in D /\ at \in Ends => w(h, at) = <<>> /\ base[at] = <<>>
    BY <1>7, <1>10
  <1> HIDE DEF w
  <1>21. \A at \in D : f[at] = w(f, at)
    <2> TAKE at \in D
    <2>1. CASE at \in Ends
      <3>1. f[at] = base[at]
        BY <1>18, <2>1 DEF Descent
      <3> QED  BY <1>20, <2>1, <3>1
    <2>2. CASE at \notin Ends
      <3>1. f[at] = step[at][f[next[at]]] /\ f[next[at]] \in T
        BY <1>14, <1>18, <2>2 DEF Descent
      <3>2. step[at][f[next[at]]] = IF keeps(at) THEN <<text[at[1]]>> \o f[next[at]] ELSE f[next[at]]
        BY ONLY <1>10, <3>1, at \in D
      <3>3. w(f, at) = IF keeps(at) THEN <<text[at[1]]>> \o f[next[at]] ELSE f[next[at]]
        BY <1>19, <2>2
      <3> QED  BY ONLY <3>1, <3>2, <3>3
    <2> QED  BY <2>1, <2>2
  <1>22. \A h : RemoveOf(h, text) = [at \in D |-> w(h, at)]
    BY Zenon DEF RemoveOf, w, slash, dots, D, ModeAfter
  <1>23. f = RemoveOf(f, text)
    BY <1>18, <1>21, <1>22
  <1> DEFINE g == CHOOSE h : h = RemoveOf(h, text)
  <1>24. g = RemoveOf(g, text)
    BY <1>23
  <1>25. Requests!RemoveDoubleDots(text) = g[<<1, "copying">>]
    BY Zenon DEF Requests!RemoveDoubleDots, RemoveOf, Modes
  <1> HIDE DEF g
  <1>26. \A at \in D : g[at] = w(g, at)
    <2>1. g = [at \in D |-> w(g, at)]
      BY <1>22, <1>24
    <2> QED  BY <2>1, Zenon
  <1>27. Descends(g, T, D, Ends, base, next, step)
    <2> SUFFICES ASSUME NEW at \in D
                 PROVE  /\ at \in Ends => g[at] = base[at]
                        /\ at \notin Ends /\ g[next[at]] \in T => g[at] = step[at][g[next[at]]]
      BY DEF Descends
    <2>1. at \in Ends => g[at] = base[at]
      BY <1>20, <1>26
    <2>2. ASSUME at \notin Ends, g[next[at]] \in T PROVE g[at] = step[at][g[next[at]]]
      <3>1. step[at][g[next[at]]] = IF keeps(at) THEN <<text[at[1]]>> \o g[next[at]] ELSE g[next[at]]
        BY ONLY <1>10, <2>2, at \in D
      <3>2. w(g, at) = IF keeps(at) THEN <<text[at[1]]>> \o g[next[at]] ELSE g[next[at]]
        BY <1>19, <2>2
      <3>3. g[at] = w(g, at)
        BY <1>26
      <3> QED  BY ONLY <3>1, <3>2, <3>3
    <2> QED  BY <2>1, <2>2
  <1>28. \A at \in D : g[at] \in T
    BY ONLY <1>12, <1>14, <1>16, <1>27, DescentTyped
  <1>29. g \in [D -> T]
    BY <1>22, <1>24, <1>28
  <1>30. Removing(g, text)
    <2>1. ASSUME NEW mode \in Modes PROVE g[<<n + 1, mode>>] = <<>>
      <3>1. n + 1 \in 1..(n + 1)
        BY <1>1
      <3>2. <<n + 1, mode>> \in D /\ <<n + 1, mode>> \in Ends
        BY <1>2, <1>3, <3>1
      <3> QED  BY <1>20, <1>26, <3>2
    <2>2. ASSUME NEW i \in 1..n, NEW mode \in Modes
          PROVE  /\ <<i, mode>> \in D /\ g[<<i, mode>>] = w(g, <<i, mode>>)
                 /\ <<i, mode>>[1] = i /\ <<i, mode>>[2] = mode /\ ~(i > n)
      <3>1. i \in 1..(n + 1) /\ ~(i > n)
        BY <1>1
      <3> QED  BY <1>2, <1>26, <3>1
    <2>3. ASSUME NEW i \in 1..n
          PROVE  /\ ~slash(<<i, "copying">>) /\ ~dots(<<i, "copying">>)
                 /\ slash(<<i, "skipping">>) <=> text[i] = "/"
                 /\ dots(<<i, "skipping">>) <=> Dots(text, i)
      <3>1. <<i, "copying">>[2] = "copying" /\ <<i, "skipping">>[2] = "skipping"
            /\ <<i, "skipping">>[1] = i
        BY <1>11, <2>2
      <3> QED  BY <1>4, <1>11, <3>1 DEF slash, dots
    <2>4. ASSUME NEW i \in 1..n
          PROVE  /\ Copies(g, text, i, "copying")
                 /\ text[i] = "/" => g[<<i, "skipping">>] = g[<<i + 1, "skipping">>]
                 /\ text[i] # "/" /\ Dots(text, i) => g[<<i, "skipping">>] = g[<<i + 2, "skipping">>]
                 /\ text[i] # "/" /\ ~Dots(text, i) => Copies(g, text, i, "skipping")
      <3>1. /\ g[<<i, "copying">>] = w(g, <<i, "copying">>) /\ <<i, "copying">>[1] = i
            /\ g[<<i, "skipping">>] = w(g, <<i, "skipping">>) /\ <<i, "skipping">>[1] = i /\ ~(i > n)
        BY <1>11, <2>2
      <3>2. Copies(g, text, i, "copying")
        BY ONLY <2>3, <3>1, Zenon DEF w, Copies
      <3>3. text[i] = "/" => g[<<i, "skipping">>] = g[<<i + 1, "skipping">>]
        BY ONLY <2>3, <3>1, Zenon DEF w
      <3>4. text[i] # "/" /\ Dots(text, i) => g[<<i, "skipping">>] = g[<<i + 2, "skipping">>]
        BY ONLY <2>3, <3>1, Zenon DEF w
      <3>5. text[i] # "/" /\ ~Dots(text, i) => Copies(g, text, i, "skipping")
        BY ONLY <2>3, <3>1, Zenon DEF w, Copies
      <3> QED  BY ONLY <3>2, <3>3, <3>4, <3>5
    <2> QED  BY <2>1, <2>4 DEF Removing, n
  <1> QED  BY <1>25, <1>29, <1>30 DEF D, T, n

\* No slash is followed by a slash or by two dots.
Unbroken(text) ==
  \A i \in 1..(Len(text) - 1) : text[i] = "/" => text[i + 1] # "/" /\ ~Dots(text, i + 1)

LEMMA UnbrokenKept ==
  ASSUME NEW S, NEW text \in Seq(S), Unbroken(text)
  PROVE  Requests!RemoveDoubleDots(text) = text
  <1> DEFINE n == Len(text)
  <1>1. PICK f : Requests!RemoveDoubleDots(text) = f[<<1, "copying">>] /\ Removing(f, text)
    BY RemoveIs
  <1>2. n \in Nat
    OBVIOUS
  <1> DEFINE done == {i \in 1..(n + 1) :
                        /\ f[<<i, "copying">>] = SubSeq(text, i, n)
                        /\ i > 1 /\ text[i - 1] = "/" => f[<<i, "skipping">>] = SubSeq(text, i, n)}
  <1>3. n + 1 \in done
    <2>1. f[<<n + 1, "copying">>] = <<>> /\ f[<<n + 1, "skipping">>] = <<>>
      BY <1>1 DEF Removing, Modes
    <2>2. SubSeq(text, n + 1, n) = <<>> /\ n + 1 \in 1..(n + 1)
      BY <1>2, WholeText
    <2> HIDE DEF n
    <2> QED  BY <2>1, <2>2
  <1>4. ASSUME NEW i \in 1..n, \A j \in (i + 1)..(n + 1) : j \in done PROVE i \in done
    <2>1. i + 1 \in done /\ i \in 1..(n + 1) /\ i + 1 > 1 /\ (i + 1) - 1 = i
      <3> HIDE DEF n, done
      <3>1. i + 1 \in (i + 1)..(n + 1) /\ i \in 1..(n + 1) /\ i + 1 > 1 /\ (i + 1) - 1 = i
        BY <1>2
      <3> QED  BY <1>4, <3>1
    <2>2. f[<<i + 1, ModeAfter(text[i])>>] = SubSeq(text, i + 1, n)
      BY <2>1 DEF ModeAfter
    <2>3. <<text[i]>> \o SubSeq(text, i + 1, n) = SubSeq(text, i, n)
      BY FromOn
    <2> HIDE DEF n
    <2>4. Copies(f, text, i, "copying")
      BY <1>1 DEF Removing, n
    <2>5. f[<<i, "copying">>] = SubSeq(text, i, n)
      BY ONLY <2>2, <2>3, <2>4 DEF Copies
    <2>6. ASSUME i > 1, text[i - 1] = "/" PROVE f[<<i, "skipping">>] = SubSeq(text, i, n)
      <3>1. i - 1 \in 1..(n - 1) /\ (i - 1) + 1 = i
        BY <1>2, <2>6
      <3>2. text[i] # "/" /\ ~Dots(text, i)
        BY <2>6, <3>1 DEF Unbroken, n
      <3>3. Copies(f, text, i, "skipping")
        BY <1>1, <3>2 DEF Removing, n
      <3> QED  BY ONLY <2>2, <2>3, <3>3 DEF Copies
    <2> QED  BY <2>1, <2>5, <2>6
  <1> HIDE DEF done
  <1>5. 1 \in done
    <2>1. \A i \in 1..(n + 1) : i \in done
      BY <1>2, <1>3, <1>4, DownInduction
    <2> QED  BY <1>2, <2>1
  <1>6. f[<<1, "copying">>] = SubSeq(text, 1, n)
    BY <1>5 DEF done
  <1> QED  BY <1>1, <1>6, WholeText

\* How much a character adds to what is left.
LEMMA OneMore ==
  ASSUME NEW S, NEW c \in S, NEW t \in Seq(S)
  PROVE  Len(<<c>> \o t) = 1 + Len(t)
  <1> DEFINE x == <<c>>
  <1>1. x \in Seq(S) /\ Len(x) = 1
    OBVIOUS
  <1> HIDE DEF x
  <1>2. Joins(x \o t, x, t)
    BY <1>1, JoinedTexts
  <1> QED  BY <1>1, <1>2 DEF Joins, x

LEMMA BrokenCut ==
  ASSUME NEW S, NEW text \in Seq(S), ~Unbroken(text)
  PROVE  Len(Requests!RemoveDoubleDots(text)) < Len(text)
  <1> DEFINE n == Len(text)
             D == (1..(n + 1)) \X Modes
  <1>1. PICK f \in [D -> Seq(S)] :
          Requests!RemoveDoubleDots(text) = f[<<1, "copying">>] /\ Removing(f, text)
    BY RemoveIs
  <1>2. PICK slash \in 1..(n - 1) :
          text[slash] = "/" /\ (text[slash + 1] = "/" \/ Dots(text, slash + 1))
    BY DEF Unbroken
  <1> DEFINE length(i, mode) == Len(f[<<i, mode>>])
  <1>3. n \in Nat /\ slash \in Nat /\ slash + 1 \in 1..n /\ slash \in 1..n
    BY <1>2
  <1>4. \A i \in 1..(n + 1), mode \in Modes : f[<<i, mode>>] \in Seq(S) /\ length(i, mode) \in Nat
    <2>1. \A i \in 1..(n + 1), mode \in Modes : <<i, mode>> \in D
      OBVIOUS
    <2> HIDE DEF D, n
    <2>2. \A i \in 1..(n + 1), mode \in Modes : f[<<i, mode>>] \in Seq(S)
      BY <1>1, <2>1
    <2>3. \A t \in Seq(S) : Len(t) \in Nat
      OBVIOUS
    <2> QED  BY <2>2, <2>3
  <1>5. "skipping" \in Modes /\ "copying" \in Modes /\ \A c : ModeAfter(c) \in Modes
    BY DEF Modes, ModeAfter
  <1>6. \A i \in 1..n : text[i] \in S /\ i + 1 \in 1..(n + 1)
    BY <1>3
  <1>7. ASSUME NEW i \in 1..n, NEW mode, Copies(f, text, i, mode)
        PROVE  length(i, mode) = 1 + length(i + 1, ModeAfter(text[i]))
    <2>1. text[i] \in S /\ f[<<i + 1, ModeAfter(text[i])>>] \in Seq(S)
      BY <1>4, <1>5, <1>6
    <2>2. f[<<i, mode>>] = <<text[i]>> \o f[<<i + 1, ModeAfter(text[i])>>]
      BY <1>7 DEF Copies
    <2> QED  BY <2>1, <2>2, OneMore
  <1>8. \A mode \in Modes : length(n + 1, mode) = 0
    BY <1>1 DEF Removing
  <1>9. ASSUME NEW i \in 1..n
        PROVE  /\ length(i, "copying") = 1 + length(i + 1, ModeAfter(text[i]))
               /\ \/ length(i, "skipping") = 1 + length(i + 1, ModeAfter(text[i]))
                     /\ text[i] # "/" /\ ~Dots(text, i)
                  \/ length(i, "skipping") = length(i + 1, "skipping")
                  \/ length(i, "skipping") = length(i + 2, "skipping") /\ i + 2 \in 1..(n + 1)
    <2>1. Copies(f, text, i, "copying")
      BY <1>1 DEF Removing
    <2>2. CASE text[i] = "/"
      <3>1. f[<<i, "skipping">>] = f[<<i + 1, "skipping">>]
        BY <1>1, <2>2 DEF Removing
      <3> QED  BY <1>7, <2>1, <3>1
    <2>3. CASE text[i] # "/" /\ Dots(text, i)
      <3>1. f[<<i, "skipping">>] = f[<<i + 2, "skipping">>] /\ i + 1 <= n
        BY <1>1, <2>3 DEF Removing, Dots
      <3>2. i + 2 \in 1..(n + 1)
        BY <1>3, <3>1
      <3> QED  BY <1>7, <2>1, <3>1, <3>2
    <2>4. CASE text[i] # "/" /\ ~Dots(text, i)
      <3>1. Copies(f, text, i, "skipping")
        BY <1>1, <2>4 DEF Removing
      <3> QED  BY <1>7, <2>1, <2>4, <3>1
    <2> QED  BY <2>2, <2>3, <2>4
  <1> HIDE DEF n, D, length
  <1> DEFINE done == {i \in 1..(n + 1) : \A mode \in Modes :
                        /\ length(i, mode) <= n + 1 - i
                        /\ i <= slash \/ (i = slash + 1 /\ mode = "skipping")
                             => length(i, mode) < n + 1 - i}
  <1>10. n + 1 \in done
    BY <1>3, <1>8
  <1>11. ASSUME NEW i \in 1..n, \A j \in (i + 1)..(n + 1) : j \in done PROVE i \in done
    <2>1. i + 1 \in done /\ i \in 1..(n + 1) /\ i \in Nat
      BY <1>3, <1>11
    <2> DEFINE rest == length(i + 1, ModeAfter(text[i]))
               skipped == length(i + 1, "skipping")
               further == length(i + 2, "skipping")
    <2>2. rest \in Nat /\ skipped \in Nat
      BY <1>4, <1>5, <1>6
    <2>3. rest <= n - i /\ skipped <= n - i
      <3>1. rest <= n + 1 - (i + 1) /\ skipped <= n + 1 - (i + 1)
        BY <1>5, <2>1
      <3> QED  BY <1>3, <2>1, <2>2, <3>1
    <2>4. i + 2 \in 1..(n + 1) => further \in Nat /\ further <= n - i - 1
      <3> SUFFICES ASSUME i + 2 \in 1..(n + 1) PROVE further \in Nat /\ further <= n - i - 1
        OBVIOUS
      <3>1. i + 2 \in (i + 1)..(n + 1)
        BY <2>1
      <3>2. i + 2 \in done
        BY <1>11, <3>1
      <3>3. further <= n + 1 - (i + 2) /\ further \in Nat
        BY <1>4, <1>5, <3>2
      <3> QED  BY <1>3, <2>1, <3>3
    <2>5. i <= slash => rest < n - i
      <3> SUFFICES ASSUME i <= slash PROVE rest < n - i
        OBVIOUS
      <3>1. CASE i = slash
        <4>1. ModeAfter(text[i]) = "skipping" /\ i + 1 = slash + 1
          BY <1>2, <3>1 DEF ModeAfter
        <4>2. rest < n + 1 - (i + 1)
          BY <1>5, <2>1, <4>1
        <4> QED  BY <1>3, <2>1, <2>2, <4>2
      <3>2. CASE i # slash
        <4>1. i + 1 <= slash
          BY <1>3, <2>1, <3>2
        <4>2. rest < n + 1 - (i + 1)
          BY <1>5, <2>1, <4>1
        <4> QED  BY <1>3, <2>1, <2>2, <4>2
      <3> QED  BY <3>1, <3>2
    <2>6. /\ length(i, "copying") = 1 + rest
          /\ \/ length(i, "skipping") = 1 + rest /\ text[i] # "/" /\ ~Dots(text, i)
             \/ length(i, "skipping") = skipped
             \/ length(i, "skipping") = further /\ i + 2 \in 1..(n + 1)
      BY <1>9
    <2>7. i = slash + 1 => text[i] = "/" \/ Dots(text, i)
      BY <1>2
    <2> DEFINE copying == length(i, "copying")
               skipping == length(i, "skipping")
    <2> HIDE DEF rest, skipped, further, done, copying, skipping
    <2>8. copying <= n + 1 - i /\ (i <= slash => copying < n + 1 - i)
      <3>1. copying = 1 + rest
        BY <2>6 DEF copying
      <3> QED  BY ONLY <1>3, <2>1, <2>2, <2>3, <2>5, <3>1
    <2>9. skipping <= n + 1 - i /\ (i <= slash \/ i = slash + 1 => skipping < n + 1 - i)
      <3>1. CASE skipping = 1 + rest /\ text[i] # "/" /\ ~Dots(text, i)
        <4>1. i # slash + 1
          BY <2>7, <3>1
        <4> QED  BY ONLY <1>3, <2>1, <2>2, <2>3, <2>5, <3>1, <4>1
      <3>2. CASE skipping = skipped
        BY ONLY <1>3, <2>1, <2>2, <2>3, <3>2
      <3>3. CASE skipping = further /\ i + 2 \in 1..(n + 1)
        <4>1. further \in Nat /\ further <= n - i - 1
          BY <2>4, <3>3
        <4> QED  BY ONLY <1>3, <2>1, <3>3, <4>1
      <3> QED  BY <2>6, <3>1, <3>2, <3>3 DEF skipping
    <2>10. \A mode \in Modes :
              /\ length(i, mode) <= n + 1 - i
              /\ i <= slash \/ (i = slash + 1 /\ mode = "skipping") => length(i, mode) < n + 1 - i
      <3>1. \A mode \in Modes : mode = "copying" \/ mode = "skipping"
        BY DEF Modes
      <3>2. "copying" # "skipping"
        OBVIOUS
      <3> QED  BY <2>8, <2>9, <3>1, <3>2 DEF copying, skipping
    <2> QED  BY <2>1, <2>10 DEF done
  <1> HIDE DEF done
  <1>12. 1 \in done
    <2>1. \A i \in 1..(n + 1) : i \in done
      BY <1>3, <1>10, <1>11, DownInduction
    <2> QED  BY <1>3, <2>1
  <1>13. 1 <= slash
    BY <1>2
  <1>14. length(1, "copying") < n
    <2>1. length(1, "copying") < n + 1 - 1
      BY <1>5, <1>12, <1>13 DEF done
    <2> QED  BY <1>3, <2>1
  <1> QED  BY <1>1, <1>14 DEF length, n

\* The loop of http_normalize_uri.
LEMMA NormalizedIs ==
  ASSUME NEW S, NEW text \in Seq(S)
  PROVE  /\ Requests!NormalizeUri(text) \in Seq(S \cup {" "})
         /\ Len(Requests!NormalizeUri(text)) = Len(text)
         /\ \A i \in 1..Len(text) :
              Requests!NormalizeUri(text)[i] = IF text[i] = "+" THEN " " ELSE text[i]
  <1> DEFINE C == S \cup {" "}
             w == Requests!NormalizeUri(text)
             v(i) == IF text[i] = "+" THEN " " ELSE text[i]
  <1>1. w = [i \in 1..Len(text) |-> v(i)]
    BY DEF Requests!NormalizeUri
  <1>2. \A i \in 1..Len(text) : v(i) \in C
    <2>1. \A i \in 1..Len(text) : text[i] \in S
      OBVIOUS
    <2> QED  BY <2>1
  <1> HIDE DEF w, v, C
  <1>3. w \in Seq(C) /\ Len(w) = Len(text) /\ \A i \in 1..Len(text) : w[i] = v(i)
    BY <1>1, <1>2
  <1> QED  BY <1>3 DEF w, v, C

\* Whatever characters a name is made of, a file is found under the name a client escapes if and
\* only if there is no '+' in it and no slash is followed by a slash or two dots
\* (mongoose's url_decode, remove_double_dots_and_double_slashes, http_normalize_uri).
THEOREM FoundAlwaysAsNamed ==
  ASSUME NEW S, NEW name \in Seq(S)
  PROVE  Requests!FoundAsNamed(name)
  <1> DEFINE C == S \cup {"/"}
             slash == <<"/">>
             path == slash \o name
             n == Len(path)
             plain == /\ Requests!Position(path, "+") = 0
                      /\ \A i \in 1..(Len(path) - 1) : path[i] = "/" =>
                           path[i + 1] # "/" /\ ~Requests!Begins(path, i + 1, <<".", ".">>)
  <1>1. path \in Seq(C)
    <2>1. slash \in Seq(C) /\ name \in Seq(C)
      <3>1. "/" \in C
        OBVIOUS
      <3> HIDE DEF C
      <3>2. slash \in Seq(C)
        BY <3>1
      <3>3. name \in Seq(C)
        BY DEF C
      <3> QED  BY <3>2, <3>3
    <2> HIDE DEF C, slash
    <2> QED  BY <2>1
  <1> DEFINE escaped == Requests!FlattenSeq([i \in DOMAIN path |->
                          IF path[i] \in DOMAIN Requests!Encoded THEN Requests!Encoded[path[i]]
                          ELSE <<path[i]>>])
  <1>2. Requests!FoundAsNamed(name) <=> ((Requests!LookedUp(escaped) = path) <=> plain)
    BY Zenon DEF Requests!FoundAsNamed
  <1>3. escaped = EscapedText(path)
    BY Zenon DEF EscapedText, EscapedParts
  <1> HIDE DEF escaped, path, C
  <1>4. Requests!LookedUp(escaped) = Requests!NormalizeUri(Requests!RemoveDoubleDots(path))
    <2> DEFINE query == Requests!Position(escaped, "?")
    <2>1. query = 0
      <3>1. escaped \in Seq(C \cup EscapeCharacters) /\ \A p \in 1..Len(escaped) : escaped[p] # "?"
        BY <1>1, <1>3, EscapedIs, EscapedHolds
      <3>2. \/ query = 0 /\ \A i \in 1..Len(escaped) : escaped[i] # "?"
            \/ query \in 1..Len(escaped) /\ escaped[query] = "?"
        BY <3>1, PositionIs
      <3> HIDE DEF query
      <3> QED  BY <3>1, <3>2
    <2>2. Requests!LookedUp(escaped)
            = Requests!NormalizeUri(Requests!RemoveDoubleDots(Requests!UrlDecode(
                IF query = 0 THEN escaped ELSE SubSeq(escaped, 1, query - 1))))
      BY Zenon DEF Requests!LookedUp
    <2> HIDE DEF query
    <2>3. Requests!UrlDecode(escaped) = path
      BY <1>1, <1>3, EscapedDecoded
    <2> QED  BY <2>1, <2>2, <2>3
  <1>5. plain <=> Requests!Position(path, "+") = 0 /\ Unbroken(path)
    <2>1. \A i \in 1..(Len(path) - 1) :
            Requests!Begins(path, i + 1, <<".", ".">>) <=> Dots(path, i + 1)
      <3> TAKE i \in 1..(Len(path) - 1)
      <3> DEFINE j == i + 1
      <3>1. j \in 1..Len(path)
        BY <1>1
      <3> HIDE DEF j
      <3>2. Requests!Begins(path, j, <<".", ".">>) <=> Dots(path, j)
        BY <1>1, <3>1, DotsBegin
      <3> QED  BY <3>2 DEF j
    <2> QED  BY <2>1 DEF Unbroken
  <1> HIDE DEF plain
  <1>6. CASE ~Unbroken(path)
    <2> DEFINE r == Requests!RemoveDoubleDots(path)
               w == Requests!NormalizeUri(r)
    <2>1. Len(r) < Len(path)
      BY <1>1, <1>6, BrokenCut
    <2>2. r \in Seq(C)
      <3>1. PICK f \in [(1..(Len(path) + 1)) \X Modes -> Seq(C)] : r = f[<<1, "copying">>]
        BY <1>1, RemoveIs
      <3>2. <<1, "copying">> \in (1..(Len(path) + 1)) \X Modes
        <4>1. Len(path) \in Nat
          BY <1>1
        <4> QED  BY <4>1 DEF Modes
      <3> QED  BY <3>1, <3>2
    <2> HIDE DEF r
    <2>3. Len(w) = Len(r)
      BY <2>2, NormalizedIs
    <2>4. w # path
      <3> HIDE DEF w
      <3>1. Len(w) \in Nat /\ Len(path) \in Nat
        BY <1>1, <2>2, <2>3
      <3> QED  BY <2>1, <2>3, <3>1
    <2> QED  BY <1>2, <1>4, <1>5, <1>6, <2>4 DEF r
  <1>7. CASE Unbroken(path)
    <2> DEFINE w == Requests!NormalizeUri(path)
               p == Requests!Position(path, "+")
    <2>1. Requests!LookedUp(escaped) = w
      BY <1>1, <1>4, <1>7, UnbrokenKept
    <2>2. /\ w \in Seq(C \cup {" "}) /\ Len(w) = Len(path)
          /\ \A i \in 1..Len(path) : w[i] = IF path[i] = "+" THEN " " ELSE path[i]
      BY <1>1, NormalizedIs
    <2>3. \/ p = 0 /\ \A i \in 1..Len(path) : path[i] # "+"
          \/ p \in 1..Len(path) /\ path[p] = "+"
      BY <1>1, PositionIs
    <2>4. plain <=> p = 0
      BY <1>5, <1>7
    <2> HIDE DEF w, p
    <2>5. p = 0 => w = path
      <3> SUFFICES ASSUME p = 0 PROVE w = path
        OBVIOUS
      <3>1. \A i \in 1..Len(w) : w[i] = path[i]
        <4>1. \A i \in 1..Len(path) : path[i] # "+"
          BY <2>3
        <4> QED  BY ONLY <2>2, <4>1
      <3> DEFINE E == C \cup {" "}
      <3>2. path \in Seq(E) /\ w \in Seq(E)
        <4>1. C \subseteq E /\ w \in Seq(E)
          BY ONLY <2>2
        <4> HIDE DEF E
        <4> QED  BY ONLY <1>1, <4>1
      <3> HIDE DEF E
      <3> QED  BY <2>2, <3>1, <3>2, SameSequence
    <2>6. p # 0 => w # path
      <3> SUFFICES ASSUME p # 0 PROVE w # path
        OBVIOUS
      <3>1. p \in 1..Len(path) /\ path[p] = "+"
        BY <2>3
      <3>2. w[p] = " "
        BY <2>2, <3>1
      <3>3. " " # "+"
        OBVIOUS
      <3> QED  BY <3>1, <3>2, <3>3
    <2> QED  BY <1>2, <2>1, <2>4, <2>5, <2>6
  <1> QED  BY <1>6, <1>7

LEMMA MinOfTwo ==
  ASSUME NEW a \in Nat, NEW b \in Nat
  PROVE  Requests!Min({a, b}) = IF a <= b THEN a ELSE b
  <1> DEFINE Least(x) == x \in {a, b} /\ \A y \in {a, b} : x <= y
  <1>1. Requests!Min({a, b}) = CHOOSE x \in {a, b} : \A y \in {a, b} : x <= y
    BY Zenon DEF Requests!Min
  <1>2. \E x \in {a, b} : \A y \in {a, b} : x <= y
    OBVIOUS
  <1>3. /\ Requests!Min({a, b}) \in {a, b}
        /\ \A y \in {a, b} : Requests!Min({a, b}) <= y
    BY <1>1, <1>2, Zenon
  <1> DEFINE m == Requests!Min({a, b})
  <1> HIDE DEF m
  <1>4. m \in {a, b} /\ m <= a /\ m <= b
    BY <1>3 DEF m
  <1>5. m = IF a <= b THEN a ELSE b
    BY <1>4
  <1> QED  BY <1>5 DEF m

\* What url_decode of http_utility.cpp takes for an escape, and what it makes of it.
EscapeAt(text, i) == SubSeq(text, i, Requests!Min({i + 2, Len(text)}))

CharacterOf(e) ==
  IF \E c \in DOMAIN Requests!Encoded : Requests!Encoded[c] = e
    THEN CHOOSE c \in DOMAIN Requests!Encoded : Requests!Encoded[c] = e ELSE Requests!OtherByte

Unplus(c) == IF c = "+" THEN " " ELSE c

LEMMA EscapeAtIs ==
  ASSUME NEW S, NEW text \in Seq(S), NEW i \in 1..Len(text)
  PROVE  /\ Requests!HasNumber(EscapeAt(text, i)) => i + 2 <= Len(text)
         /\ \A c \in Special : Stands(text, i, c) =>
              EscapeAt(text, i) = Requests!Encoded[c] /\ CharacterOf(EscapeAt(text, i)) = c
  <1> DEFINE n == Len(text)
             e == EscapeAt(text, i)
  <1>1. n \in Nat /\ i \in Nat /\ i + 2 \in Nat /\ i <= n
    OBVIOUS
  <1>2. Requests!Min({i + 2, n}) = IF i + 2 <= n THEN i + 2 ELSE n
    <2> DEFINE k == i + 2
    <2>1. k \in Nat
      BY <1>1
    <2> HIDE DEF k, n
    <2>2. Requests!Min({k, n}) = IF k <= n THEN k ELSE n
      BY <1>1, <2>1, MinOfTwo
    <2> QED  BY <2>2 DEF k
  <1>3. i + 2 <= n => e = SubSeq(text, i, i + 2)
    BY <1>2 DEF EscapeAt
  <1>4. ~(i + 2 <= n) => Len(e) # 3
    <2> SUFFICES ASSUME ~(i + 2 <= n) PROVE Len(e) # 3
      OBVIOUS
    <2>1. e = SubSeq(text, i, n)
      BY <1>2 DEF EscapeAt
    <2>2. Len(SubSeq(text, i, n)) = n - i + 1
      OBVIOUS
    <2> QED  BY ONLY <1>1, <2>1, <2>2, ~(i + 2 <= n)
  <1> HIDE DEF e
  <1>5. Requests!HasNumber(e) => i + 2 <= n
    BY <1>4 DEF Requests!HasNumber
  <1>6. ASSUME NEW c \in Special, Stands(text, i, c)
        PROVE  e = Requests!Encoded[c] /\ CharacterOf(e) = c
    <2> DEFINE x == Requests!Encoded[c]
    <2>1. Requests!Begins(text, i, x) /\ i + 2 <= n
      BY <1>6, BeginsIs DEF Stands
    <2>2. Len(x) = 3
      BY EncodedIs
    <2> HIDE DEF x, n
    <2>3. SubSeq(text, i, i + Len(x) - 1) = x
      BY <2>1 DEF Requests!Begins
    <2>4. i + Len(x) - 1 = i + 2
      BY ONLY <1>1, <2>2
    <2>5. e = x
      BY <1>3, <2>1, <2>3, <2>4
    <2>6. \A d \in Special : Requests!Encoded[d] = x => d = c
      BY EncodedIs, Zenon DEF x
    <2>7. c \in Special /\ Requests!Encoded[c] = x
      BY DEF x
    <2>8. CharacterOf(x) = c
      BY <2>6, <2>7, EncodedIs, Zenon DEF CharacterOf
    <2> QED  BY <2>5, <2>8 DEF x
  <1> QED  BY <1>5, <1>6 DEF e, n

\* The loop of url_decode: f[i] is what it makes of the text from i on.
Prepended(f, c) == [f EXCEPT !.out = <<c>> \o @]

StrictDecoding(f, text) ==
  /\ f[Len(text) + 1] = [decoded |-> TRUE, out |-> <<>>]
  /\ \A i \in 1..Len(text) :
       /\ text[i] # "%" => f[i] = Prepended(f[i + 1], Unplus(text[i]))
       /\ \A c \in Special : Stands(text, i, c) => f[i] = Prepended(f[i + 3], c)

StrictOf(f, text) ==
  [i \in 1..(Len(text) + 1) |->
     IF i > Len(text) THEN [decoded |-> TRUE, out |-> <<>>]
     ELSE IF text[i] # "%"
       THEN [f[i + 1] EXCEPT !.out = <<IF text[i] = "+" THEN " " ELSE text[i]>> \o @]
     ELSE IF Requests!HasNumber(EscapeAt(text, i))
       THEN [f[i + 3] EXCEPT !.out = <<CharacterOf(EscapeAt(text, i))>> \o @]
     ELSE [decoded |-> FALSE, out |-> <<>>]]

LEMMA PrependedTyped ==
  ASSUME NEW C, NEW c \in C, NEW t \in [decoded : BOOLEAN, out : Seq(C)]
  PROVE  Prepended(t, c) \in [decoded : BOOLEAN, out : Seq(C)]
  <1>1. <<c>> \o t.out \in Seq(C)
    OBVIOUS
  <1> QED  BY <1>1 DEF Prepended

LEMMA StrictIs ==
  ASSUME NEW S, NEW text \in Seq(S)
  PROVE  \E f : Requests!StrictDecode(text) = f[1] /\ StrictDecoding(f, text)
  <1> DEFINE n == Len(text)
             D == 1..(n + 1)
             C == S \cup Special \cup {Requests!OtherByte}
             T == [decoded : BOOLEAN, out : Seq(C)]
             read(i) == Requests!HasNumber(EscapeAt(text, i))
             there(i) == CharacterOf(EscapeAt(text, i))
             plain(i) == text[i] # "%"
             done == [decoded |-> TRUE, out |-> <<>>]
             given == [decoded |-> FALSE, out |-> <<>>]
             base == [i \in D |-> IF i > n THEN done ELSE given]
             head == [i \in D |-> IF i > n THEN " " ELSE IF plain(i) THEN Unplus(text[i]) ELSE there(i)]
             next == [i \in D |-> IF plain(i) THEN i + 1 ELSE i + 3]
             step == [i \in D |-> [t \in T |-> Prepended(t, head[i])]]
             m == [i \in D |-> n + 1 - i]
             bound == n + 2
             Ends == {i \in D : i > n \/ (~plain(i) /\ ~read(i))}
  <1>1. n \in Nat /\ n + 1 \in D /\ n + 1 > n /\ \A i \in D : i > n \/ (i \in 1..n /\ ~(i > n))
    OBVIOUS
  <1>2. \A i \in 1..n : read(i) => i + 2 <= n
    BY EscapeAtIs
  <1>3. \A i \in 1..n : text[i] \in S
    OBVIOUS
  <1>4. \A i \in D : head[i] \in C
    <2>1. \A e : CharacterOf(e) \in Special \cup {Requests!OtherByte}
      <3> TAKE e
      <3>1. CASE \E c \in DOMAIN Requests!Encoded : Requests!Encoded[c] = e
        BY <3>1, EncodedIs, Zenon DEF CharacterOf
      <3>2. CASE ~\E c \in DOMAIN Requests!Encoded : Requests!Encoded[c] = e
        BY <3>2, Zenon DEF CharacterOf
      <3> QED  BY <3>1, <3>2
    <2>2. " " \in C
      BY DEF Special
    <2>3. \A i \in 1..n : Unplus(text[i]) \in C
      BY <1>3, <2>2 DEF Unplus
    <2> HIDE DEF plain
    <2> QED  BY <1>1, <2>1, <2>2, <2>3
  <1>5. done \in T /\ given \in T
    <2>1. <<>> \in Seq(C)
      <3> HIDE DEF C
      <3> QED  OBVIOUS
    <2> HIDE DEF C
    <2> QED  BY <2>1
  <1>6. \A i \in D : /\ head[i] = IF i > n THEN " " ELSE IF plain(i) THEN Unplus(text[i]) ELSE there(i)
                     /\ next[i] = IF plain(i) THEN i + 1 ELSE i + 3
                     /\ base[i] = IF i > n THEN done ELSE given
    OBVIOUS
  <1> HIDE DEF C, done, given, head, plain, read, there
  <1>7. base \in [D -> T]
    BY <1>5
  <1>8. step \in [D -> [T -> T]] /\ \A i \in D, t \in T : step[i][t] = Prepended(t, head[i])
    <2>1. \A i \in D, t \in T : Prepended(t, head[i]) \in T
      BY <1>4, PrependedTyped
    <2> HIDE DEF T
    <2> QED  BY <2>1
  <1> HIDE DEF T, base, step
  <1>9. /\ m \in [D -> Nat] /\ bound \in Nat /\ \A i \in D : m[i] < bound
    BY <1>1
  <1>10. \A i \in D : i \notin Ends => next[i] \in D /\ m[next[i]] < m[i]
    <2> TAKE i \in D
    <2> HAVE i \notin Ends
    <2>1. i \in 1..n /\ (plain(i) \/ read(i))
      BY <1>1
    <2>2. next[i] \in D /\ next[i] > i
      <3>1. next[i] = IF plain(i) THEN i + 1 ELSE i + 3
        BY <1>6
      <3>2. ~plain(i) => i + 2 <= n
        BY <1>2, <2>1
      <3> HIDE DEF next, n
      <3>3. (IF plain(i) THEN i + 1 ELSE i + 3) \in D /\ (IF plain(i) THEN i + 1 ELSE i + 3) > i
        BY ONLY <1>1, <2>1, <3>2
      <3> QED  BY ONLY <3>1, <3>3
    <2> HIDE DEF next
    <2> QED  BY <1>1, <2>1, <2>2
  <1> HIDE DEF next, m, bound, n
  <1>11. PICK f \in [D -> T] : Descent(f, D, Ends, base, next, step)
    BY ONLY <1>7, <1>8, <1>9, <1>10, DescentExists
  <1> DEFINE w(h, i) == IF i > n THEN done
                        ELSE IF plain(i) THEN Prepended(h[i + 1], Unplus(text[i]))
                        ELSE IF read(i) THEN Prepended(h[i + 3], there(i)) ELSE given
  <1>12. \A i \in D : f[i] = w(f, i)
    <2> TAKE i \in D
    <2>1. CASE i \in Ends
      <3>1. f[i] = base[i]
        BY <1>11, <2>1 DEF Descent
      <3> QED  BY <1>6, <2>1, <3>1
    <2>2. CASE i \notin Ends
      <3>1. f[i] = step[i][f[next[i]]] /\ f[next[i]] \in T
        BY <1>10, <1>11, <2>2 DEF Descent
      <3>2. f[i] = Prepended(f[next[i]], head[i])
        BY <1>8, <3>1
      <3>3. ~(i > n) /\ (plain(i) \/ read(i))
        BY <2>2
      <3> QED  BY <1>6, <3>2, <3>3
    <2> QED  BY <2>1, <2>2
  <1>13. \A h : StrictOf(h, text) = [i \in D |-> w(h, i)]
    BY Zenon DEF StrictOf, w, plain, read, there, done, given, Unplus, Prepended, n
  <1>14. f = StrictOf(f, text)
    BY <1>11, <1>12, <1>13
  <1> DEFINE g == CHOOSE h : h = StrictOf(h, text)
  <1>15. g = StrictOf(g, text)
    BY <1>14
  <1>16. Requests!StrictDecode(text) = g[1]
    BY Zenon DEF Requests!StrictDecode, StrictOf, EscapeAt, CharacterOf
  <1> HIDE DEF g
  <1>17. \A i \in D : g[i] = w(g, i)
    <2>1. g = [i \in D |-> w(g, i)]
      BY <1>13, <1>15
    <2> HIDE DEF w
    <2> QED  BY <2>1, Zenon
  <1>18. g[n + 1] = done
    BY <1>1, <1>17
  <1>19. ASSUME NEW i \in 1..n, plain(i) PROVE g[i] = Prepended(g[i + 1], Unplus(text[i]))
    <2>1. i \in D /\ ~(i > n)
      BY <1>1
    <2> QED  BY <1>17, <1>19, <2>1
  <1>20. ASSUME NEW i \in 1..n, NEW c \in Special, Stands(text, i, c) PROVE g[i] = Prepended(g[i + 3], c)
    <2>1. i \in D /\ ~(i > n)
      BY <1>1
    <2>2. ~plain(i)
      BY <1>20 DEF Stands, plain
    <2>3. EscapeAt(text, i) = Requests!Encoded[c] /\ CharacterOf(EscapeAt(text, i)) = c
      BY <1>20, EscapeAtIs DEF n
    <2>4. read(i)
      BY <2>3, EncodedIs DEF read
    <2>5. there(i) = c
      BY <2>3 DEF there
    <2> QED  BY <1>17, <2>1, <2>2, <2>4, <2>5
  <1>21. StrictDecoding(g, text)
    BY <1>18, <1>19, <1>20, Zenon DEF StrictDecoding, done, plain, n
  <1> QED  BY <1>16, <1>21

\* What is decoded, and so far.
Decoded(out) == [decoded |-> TRUE, out |-> out]

LEMMA DecodedAdded ==
  ASSUME NEW C, NEW c \in C, NEW out \in Seq(C), NEW f, f = Decoded(out)
  PROVE  Prepended(f, c) = Decoded(<<c>> \o out)
  <1> DEFINE T == [decoded : BOOLEAN, out : Seq(C)]
  <1>1. \A t \in T, y \in Seq(C) : [t EXCEPT !.out = y] = [decoded |-> t.decoded, out |-> y]
    OBVIOUS
  <1>2. f \in T /\ f.decoded = TRUE /\ f.out = out
    BY DEF Decoded
  <1>3. <<c>> \o out \in Seq(C)
    OBVIOUS
  <1> DEFINE y == <<c>> \o out
  <1>4. Prepended(f, c) = [f EXCEPT !.out = y]
    BY <1>2, Zenon DEF Prepended
  <1> HIDE DEF y, T
  <1>5. [f EXCEPT !.out = y] = [decoded |-> f.decoded, out |-> y]
    BY <1>1, <1>2, <1>3, Zenon DEF y
  <1>6. [decoded |-> f.decoded, out |-> y] = Decoded(y)
    BY <1>2, Zenon DEF Decoded
  <1> QED  BY <1>4, <1>5, <1>6 DEF y

\* url_decode brings back what a client has escaped.
LEMMA EscapedStrictly ==
  ASSUME NEW S, NEW text \in Seq(S)
  PROVE  Requests!StrictDecode(EscapedText(text)) = Decoded(text)
  <1> DEFINE w == EscapedText(text)
             n == Len(text)
  <1>1. w \in Seq(S \cup EscapeCharacters) /\ n \in Nat /\ Len(w) \in Nat
    BY EscapedIs
  <1>2. PICK off : EscapedAs(w, text, off)
    BY EscapedIs
  <1> HIDE DEF w
  <1>3. PICK f : Requests!StrictDecode(w) = f[1] /\ StrictDecoding(f, w)
    BY <1>1, StrictIs
  <1> DEFINE done == {i \in 1..(n + 1) : f[off[i] + 1] = Decoded(SubSeq(text, i, n))}
  <1>4. n + 1 \in done
    <2>1. f[Len(w) + 1] = Decoded(<<>>) /\ off[n + 1] = Len(w) /\ n + 1 \in 1..(n + 1)
      BY <1>1, <1>2, <1>3 DEF StrictDecoding, EscapedAs, Decoded
    <2> QED  BY <2>1, WholeText
  <1>5. ASSUME NEW i \in 1..n, \A j \in (i + 1)..(n + 1) : j \in done PROVE i \in done
    <2>1. i + 1 \in done /\ i \in 1..(n + 1)
      BY <1>1, <1>5
    <2>2. off[i] + 1 \in 1..Len(w) /\ off[i] \in Nat
      BY <1>2, <2>1 DEF EscapedAs
    <2>3. f[off[i] + 1] = Prepended(f[off[i + 1] + 1], text[i])
      <3>1. CASE text[i] \in Special
        <4>1. off[i + 1] = off[i] + 3 /\ Stands(w, off[i] + 1, text[i])
          BY <1>2, <3>1 DEF EscapedAs
        <4>2. f[off[i] + 1] = Prepended(f[(off[i] + 1) + 3], text[i])
          BY <1>3, <2>2, <3>1, <4>1 DEF StrictDecoding
        <4>3. (off[i] + 1) + 3 = off[i + 1] + 1
          BY ONLY <2>2, <4>1
        <4> QED  BY <4>2, <4>3
      <3>2. CASE text[i] \notin Special
        <4>1. off[i + 1] = off[i] + 1 /\ w[off[i] + 1] = text[i]
          BY <1>2, <3>2 DEF EscapedAs
        <4>2. text[i] # "%" /\ Unplus(text[i]) = text[i]
          BY <3>2 DEF Special, Unplus
        <4>3. f[off[i] + 1] = Prepended(f[(off[i] + 1) + 1], text[i])
          BY <1>3, <2>2, <4>1, <4>2 DEF StrictDecoding
        <4> QED  BY <4>1, <4>3
      <3> QED  BY <3>1, <3>2
    <2>4. f[off[i + 1] + 1] = Decoded(SubSeq(text, i + 1, n))
      BY <2>1
    <2>5. f[off[i] + 1] = Decoded(<<text[i]>> \o SubSeq(text, i + 1, n))
      <3>1. text[i] \in S /\ SubSeq(text, i + 1, n) \in Seq(S)
        OBVIOUS
      <3> QED  BY <2>3, <2>4, <3>1, DecodedAdded
    <2> QED  BY <2>1, <2>5, FromOn
  <1> HIDE DEF done
  <1>6. 1 \in done
    <2>1. \A i \in 1..(n + 1) : i \in done
      BY <1>1, <1>4, <1>5, DownInduction
    <2> QED  BY <1>1, <2>1
  <1>7. off[1] + 1 = 1
    BY <1>2 DEF EscapedAs
  <1>8. f[1] = Decoded(SubSeq(text, 1, n))
    BY <1>6, <1>7 DEF done
  <1> QED  BY <1>3, <1>8, WholeText DEF w

\* Where each '%' begins an escape, the two decoders differ in the '+' only.
LEMMA DecodedAlike ==
  ASSUME NEW S, NEW text \in Seq(S),
         \A i \in 1..Len(text) : text[i] = "%" => \E c \in Special : Stands(text, i, c)
  PROVE  Requests!StrictDecode(text) = Decoded(Requests!UrlDecode(Requests!NormalizeUri(text)))
  <1> DEFINE n == Len(text)
             w == Requests!NormalizeUri(text)
  <1>1. /\ w \in Seq(S \cup {" "}) /\ Len(w) = n
        /\ \A i \in 1..n : w[i] = Unplus(text[i])
    <2> HIDE DEF w
    <2>2. w \in Seq(S \cup {" "}) /\ Len(w) = n
          /\ \A i \in 1..n : w[i] = IF text[i] = "+" THEN " " ELSE text[i]
      BY NormalizedIs DEF w
    <2> QED  BY <2>2, Zenon DEF Unplus
  <1>11. n \in Nat
    OBVIOUS
  <1> HIDE DEF w
  <1> DEFINE C == (S \cup {" "}) \cup Special
  <1>2. PICK f \in [1..(Len(w) + 1) -> Seq(C)] : Requests!UrlDecode(w) = f[1] /\ Decoding(f, w)
    BY <1>1, DecodeIs
  <1>3. PICK g : Requests!StrictDecode(text) = g[1] /\ StrictDecoding(g, text)
    BY StrictIs
  <1> HIDE DEF C
  <1>4. ASSUME NEW i \in 1..n, NEW c \in Special, Stands(text, i, c) PROVE Stands(w, i, c)
    <2>1. i + 2 <= n /\ i + 1 \in 1..n /\ i + 2 \in 1..n /\ text[i] = "%"
          /\ text[i + 1] = Requests!Encoded[c][2] /\ text[i + 2] = Requests!Encoded[c][3]
      <3>1. i + 2 <= n /\ text[i] = "%"
            /\ text[i + 1] = Requests!Encoded[c][2] /\ text[i + 2] = Requests!Encoded[c][3]
        BY <1>4, Zenon DEF Stands, n
      <3> HIDE DEF n
      <3>2. i + 1 \in 1..n /\ i + 2 \in 1..n
        BY ONLY <1>11, <3>1, i \in 1..n
      <3> QED  BY <3>1, <3>2
    <2>2. Requests!Encoded[c][2] # "+" /\ Requests!Encoded[c][3] # "+"
      <3>1. Requests!Encoded[c] \in Seq(EscapeCharacters) /\ Len(Requests!Encoded[c]) = 3
        BY EncodedIs
      <3>2. Requests!Encoded[c][2] \in EscapeCharacters /\ Requests!Encoded[c][3] \in EscapeCharacters
        BY ONLY <3>1
      <3> QED  BY <3>2 DEF EscapeCharacters
    <2>3. w[i] = text[i] /\ w[i + 1] = text[i + 1] /\ w[i + 2] = text[i + 2]
      <3>1. \A k \in 1..n : text[k] # "+" => w[k] = text[k]
        BY <1>1 DEF Unplus
      <3> HIDE DEF n
      <3> QED  BY <2>1, <2>2, <3>1
    <2> QED  BY <1>1, <2>1, <2>3 DEF Stands
  <1>8. /\ g[n + 1] = [decoded |-> TRUE, out |-> <<>>]
        /\ \A i \in 1..n :
             /\ text[i] # "%" => g[i] = Prepended(g[i + 1], Unplus(text[i]))
             /\ \A c \in Special : Stands(text, i, c) => g[i] = Prepended(g[i + 3], c)
    BY <1>3, Zenon DEF StrictDecoding
  <1>9. /\ f[n + 1] = <<>>
        /\ \A i \in 1..n :
             /\ \A c \in Special : Stands(w, i, c) => f[i] = <<c>> \o f[i + 3]
             /\ (\A c \in Special : ~Stands(w, i, c)) => f[i] = <<w[i]>> \o f[i + 1]
    BY <1>1, <1>2, Zenon DEF Decoding
  <1>10. \A i \in 1..n : text[i] = "%" => \E c \in Special : Stands(text, i, c) /\ i + 2 <= n
    BY DEF Stands
  <1>12. /\ \A i \in 1..(n + 1) : f[i] \in Seq(C)
         /\ \A i \in 1..n : w[i] \in C
         /\ \A c \in Special : c \in C
    <2>1. \A i \in 1..n : w[i] \in S \cup {" "}
      <3> DEFINE E == S \cup {" "}
      <3>1. w \in Seq(E) /\ Len(w) = n
        BY <1>1
      <3> HIDE DEF E, n
      <3>2. \A i \in 1..n : w[i] \in E
        BY ONLY <3>1
      <3> QED  BY ONLY <3>2 DEF E
    <2>2. \A i \in 1..(n + 1) : f[i] \in Seq(C)
      <3>1. Len(w) = n
        BY <1>1
      <3> HIDE DEF C, n
      <3> QED  BY <1>2, <3>1
    <2> QED  BY <2>1, <2>2 DEF C
  <1> HIDE DEF n
  <1> DEFINE done == {i \in 1..(n + 1) : g[i] = Decoded(f[i])}
  <1>5. n + 1 \in done
    <2>1. g[n + 1] = Decoded(<<>>) /\ f[n + 1] = <<>> /\ n + 1 \in 1..(n + 1)
      BY <1>8, <1>9, <1>11 DEF Decoded
    <2> QED  BY <2>1
  <1>6. ASSUME NEW i \in 1..n, \A j \in (i + 1)..(n + 1) : j \in done PROVE i \in done
    <2>1. i \in 1..(n + 1) /\ i \in Nat
      BY <1>11
    <2>2. CASE text[i] = "%"
      <3>1. PICK c \in Special : Stands(text, i, c) /\ i + 2 <= n
        BY <1>10, <2>2
      <3>2. g[i] = Prepended(g[i + 3], c)
        BY <1>8, <3>1
      <3>3. Stands(w, i, c)
        BY <1>4, <3>1
      <3>4. f[i] = <<c>> \o f[i + 3]
        BY <1>9, <3>3
      <3>5. i + 3 \in (i + 1)..(n + 1)
        BY ONLY <1>11, <2>1, <3>1
      <3>6. g[i + 3] = Decoded(f[i + 3])
        BY <1>6, <3>5
      <3>7. i + 3 \in 1..(n + 1)
        BY ONLY <1>11, <2>1, <3>5
      <3>8. c \in C /\ f[i + 3] \in Seq(C)
        BY ONLY <1>12, <3>7, c \in Special
      <3>9. g[i] = Decoded(f[i])
        BY ONLY <3>2, <3>4, <3>6, <3>8, DecodedAdded
      <3> QED  BY <2>1, <3>9
    <2>3. CASE text[i] # "%"
      <3>1. g[i] = Prepended(g[i + 1], w[i])
        BY <1>1, <1>8, <2>3
      <3>2. w[i] # "%"
        BY <1>1, <2>3 DEF Unplus
      <3>3. f[i] = <<w[i]>> \o f[i + 1]
        BY <1>9, <3>2 DEF Stands
      <3>4. i + 1 \in (i + 1)..(n + 1)
        BY <1>11, <2>1
      <3>5. g[i + 1] = Decoded(f[i + 1])
        BY <1>6, <3>4
      <3>7. i + 1 \in 1..(n + 1)
        BY ONLY <1>11, <2>1, <3>4
      <3>8. w[i] \in C /\ f[i + 1] \in Seq(C)
        BY ONLY <1>12, <3>7, i \in 1..n
      <3>9. g[i] = Decoded(f[i])
        BY ONLY <3>1, <3>3, <3>5, <3>8, DecodedAdded
      <3> QED  BY <2>1, <3>9
    <2> QED  BY <2>2, <2>3
  <1> HIDE DEF done
  <1>7. 1 \in done
    <2>1. \A i \in 1..(n + 1) : i \in done
      BY <1>5, <1>6, <1>11, DownInduction
    <2> QED  BY <1>11, <2>1
  <1> QED  BY <1>2, <1>3, <1>7 DEF done, w

\* Whatever the text is: url_decode gives what mongoose's decoder and http_normalize_uri give in
\* the other order, as long as each '%' begins an escape, and finds the names a client escapes
\* (http_utility.cpp, mongoose.c).
THEOREM DecodersAlwaysAgree ==
  ASSUME NEW S, NEW text \in Seq(S)
  PROVE  Requests!DecodersAgree(text)
  <1> DEFINE escaped == Requests!FlattenSeq([i \in DOMAIN text |->
                          IF text[i] \in DOMAIN Requests!Encoded THEN Requests!Encoded[text[i]]
                          ELSE <<text[i]>>])
             begins(i) == \E c \in DOMAIN Requests!Encoded : Requests!Begins(text, i, Requests!Encoded[c])
             all == \A i \in DOMAIN text : text[i] = "%" => begins(i)
  <1>1. Requests!DecodersAgree(text) <=>
          /\ Requests!StrictDecode(escaped) = [decoded |-> TRUE, out |-> text]
          /\ all => Requests!StrictDecode(text)
                      = [decoded |-> TRUE, out |-> Requests!UrlDecode(Requests!NormalizeUri(text))]
    BY Zenon DEF Requests!DecodersAgree
  <1>2. escaped = EscapedText(text)
    BY Zenon DEF EscapedText, EscapedParts
  <1> HIDE DEF escaped
  <1>3. Requests!StrictDecode(escaped) = [decoded |-> TRUE, out |-> text]
    BY <1>2, EscapedStrictly DEF Decoded
  <1>4. ASSUME all PROVE \A i \in 1..Len(text) : text[i] = "%" => \E c \in Special : Stands(text, i, c)
    <2> SUFFICES ASSUME NEW i \in 1..Len(text), text[i] = "%"
                 PROVE  \E c \in Special : Stands(text, i, c)
      OBVIOUS
    <2>1. i \in DOMAIN text
      OBVIOUS
    <2>2. PICK c \in DOMAIN Requests!Encoded : Requests!Begins(text, i, Requests!Encoded[c])
      BY <1>4, <2>1
    <2>3. c \in Special
      BY EncodedIs
    <2> QED  BY <2>2, <2>3, BeginsIs
  <1>5. ASSUME all
        PROVE  Requests!StrictDecode(text)
                 = [decoded |-> TRUE, out |-> Requests!UrlDecode(Requests!NormalizeUri(text))]
    BY <1>4, <1>5, DecodedAlike DEF Decoded
  <1> HIDE DEF all
  <1> QED  BY <1>1, <1>3, <1>5

-----------------------------------------------------------------------------
(***************************************************************************)
(* The writes of a chunk, whatever the socket takes.                       *)
(***************************************************************************)

LEMMA WireMin ==
  ASSUME NEW a \in Nat, NEW b \in Nat
  PROVE  Wire!Min({a, b}) = IF a <= b THEN a ELSE b
  <1>1. Wire!Min({a, b}) = Requests!Min({a, b})
    BY Zenon DEF Wire!Min, Requests!Min
  <1> QED  BY <1>1, MinOfTwo

\* The k bytes behind the first sent ones.
Bytes(sent, k) == [j \in 1..k |-> sent + j]

\* What a send may take of the rest, and what the chunk holds behind the first sent bytes, if the
\* next send is the i-th: the loop of push.
Smaller(a, b) == IF a <= b THEN a ELSE b

Pushing(f, takes, len) ==
  \A i \in 1..(Len(takes) + 1), sent \in 0..len :
    /\ sent = len \/ i = Len(takes) + 1 => f[<<i, sent>>] = <<>>
    /\ i # Len(takes) + 1 /\ sent # len =>
         /\ takes[i] < 0 => f[<<i, sent>>] = <<>>
         /\ takes[i] >= 0 =>
              LET k == Smaller(takes[i], len - sent)
              IN  f[<<i, sent>>] = Bytes(sent, k) \o f[<<i + 1, sent + k>>]

PushOf(f, takes, len) ==
  [at \in (1..(Len(takes) + 1)) \X (0..len) |->
     IF at[2] = len \/ at[1] > Len(takes) THEN <<>>
     ELSE IF takes[at[1]] < 0 THEN <<>>
     ELSE Bytes(at[2], Wire!Min({takes[at[1]], len - at[2]}))
            \o f[<<at[1] + 1, at[2] + Wire!Min({takes[at[1]], len - at[2]})>>]]

LEMMA BytesAre ==
  ASSUME NEW sent \in Nat, NEW k \in Nat
  PROVE  Bytes(sent, k) \in Seq(Nat) /\ Len(Bytes(sent, k)) = k
         /\ \A j \in 1..k : Bytes(sent, k)[j] = sent + j
  BY DEF Bytes

LEMMA PushIs ==
  ASSUME NEW takes \in Seq(Int), NEW len \in Nat
  PROVE  \E f \in [(1..(Len(takes) + 1)) \X (0..len) -> Seq(Nat)] :
           Wire!Push(takes, len) = f[<<1, 0>>] /\ Pushing(f, takes, len)
  <1> DEFINE n == Len(takes)
             D == (1..(n + 1)) \X (0..len)
             T == Seq(Nat)
             taken(at) == Wire!Min({takes[at[1]], len - at[2]})
             stops(at) == at[2] = len \/ at[1] > n
             fails(at) == takes[at[1]] < 0
             Ends == {at \in D : stops(at) \/ fails(at)}
             base == [at \in D |-> <<>>]
             next == [at \in D |-> <<at[1] + 1, at[2] + taken(at)>>]
             head == [at \in D |-> IF at \in Ends THEN <<>> ELSE Bytes(at[2], taken(at))]
             step == [at \in D |-> [t \in T |-> head[at] \o t]]
             m == [at \in D |-> n + 1 - at[1]]
             bound == n + 2
  <1>1. n \in Nat /\ \A at \in D : at[1] \in 1..(n + 1) /\ at[2] \in 0..len
    OBVIOUS
  <1>2. \A i \in 1..(n + 1), sent \in 0..len :
          <<i, sent>> \in D /\ <<i, sent>>[1] = i /\ <<i, sent>>[2] = sent
    OBVIOUS
  <1>3. \A i \in 1..n : takes[i] \in Int
    OBVIOUS
  <1>4. \A at \in D : at \notin Ends =>
          /\ at[1] \in 1..n /\ at[2] \in 0..(len - 1) /\ takes[at[1]] \in Nat /\ len - at[2] \in Nat
    <2> TAKE at \in D
    <2> HAVE at \notin Ends
    <2>1. ~stops(at) /\ ~fails(at)
      OBVIOUS
    <2> DEFINE i == at[1]
               sent == at[2]
    <2>2. i \in 1..(n + 1) /\ sent \in 0..len /\ ~(sent = len \/ i > n) /\ ~(takes[i] < 0)
      BY <1>1, <2>1
    <2> HIDE DEF i, sent, n
    <2>3. i \in 1..n /\ sent \in 0..(len - 1) /\ len - sent \in Nat
      BY <1>1, <2>2
    <2>4. takes[i] \in Nat
      BY <1>3, <2>2, <2>3
    <2> QED  BY <2>3, <2>4 DEF i, sent
  <1>5. \A at \in D : at \notin Ends =>
          /\ taken(at) = Smaller(takes[at[1]], len - at[2])
          /\ taken(at) \in Nat /\ at[2] + taken(at) \in 0..len
    <2> TAKE at \in D
    <2> HAVE at \notin Ends
    <2> DEFINE a == takes[at[1]]
               b == len - at[2]
               k == taken(at)
    <2>1. a \in Nat /\ b \in Nat /\ at[2] \in 0..len
      BY <1>1, <1>4
    <2>2. k = Wire!Min({a, b})
      OBVIOUS
    <2> HIDE DEF a, k
    <2>3. k = Smaller(a, b)
      <3> HIDE DEF b
      <3> QED  BY <2>1, <2>2, WireMin DEF Smaller
    <2>4. k \in Nat /\ k <= b
      <3> HIDE DEF b
      <3> QED  BY <2>1, <2>3 DEF Smaller
    <2>5. at[2] + k \in 0..len
      <3> DEFINE sent == at[2]
      <3>1. sent \in 0..len /\ k \in Nat /\ k <= len - sent
        BY <2>1, <2>4
      <3> HIDE DEF sent
      <3>2. sent + k \in 0..len
        BY ONLY <3>1, len \in Nat
      <3> QED  BY <3>2 DEF sent
    <2> QED  BY <2>3, <2>4, <2>5 DEF a, k
  <1>6. \A at \in D : head[at] \in T
    <2> TAKE at \in D
    <2>1. CASE at \in Ends
      <3>1. <<>> \in Seq(Nat)
        OBVIOUS
      <3> QED  BY <2>1, <3>1
    <2>2. CASE at \notin Ends
      <3>1. head[at] = Bytes(at[2], taken(at))
        BY <2>2
      <3>2. at[2] \in Nat /\ taken(at) \in Nat
        BY <1>1, <1>5, <2>2
      <3> HIDE DEF taken, head
      <3> QED  BY <3>1, <3>2, BytesAre
    <2> QED  BY <2>1, <2>2
  <1>7. /\ \A at \in D : next[at] = <<at[1] + 1, at[2] + taken(at)>> /\ base[at] = <<>>
        /\ \A at \in D : at \notin Ends => head[at] = Bytes(at[2], taken(at))
    OBVIOUS
  <1> HIDE DEF taken, head
  <1>8. step \in [D -> [T -> T]] /\ \A at \in D, t \in T : step[at][t] = head[at] \o t
    <2>1. \A x, t \in T : x \o t \in T
      OBVIOUS
    <2> HIDE DEF T
    <2>2. \A at \in D, t \in T : head[at] \o t \in T
      BY <1>6, <2>1
    <2> QED  BY <2>2
  <1>9. base \in [D -> T]
    OBVIOUS
  <1> HIDE DEF T, base, step, next
  <1>10. \A at \in D : at \notin Ends => next[at] \in D /\ next[at][1] = at[1] + 1
    <2> TAKE at \in D
    <2> HAVE at \notin Ends
    <2>1. at[1] + 1 \in 1..(n + 1)
      <3>1. at[1] \in 1..n
        BY <1>4
      <3> QED  BY ONLY <1>1, <3>1
    <2>2. at[2] + taken(at) \in 0..len
      BY <1>5
    <2> DEFINE i == at[1] + 1
               sent == at[2] + taken(at)
    <2>3. i \in 1..(n + 1) /\ sent \in 0..len /\ next[at] = <<i, sent>>
      BY <1>7, <2>1, <2>2
    <2> HIDE DEF i, sent, D
    <2>4. next[at] \in D /\ next[at][1] = i
      BY ONLY <1>2, <2>3
    <2> QED  BY <2>4 DEF i
  <1>11. m \in [D -> Nat] /\ bound \in Nat /\ (\A at \in D : m[at] < bound)
         /\ \A at \in D : at \notin Ends => next[at] \in D /\ m[next[at]] < m[at]
    <2>1. \A at \in D : m[at] = n + 1 - at[1] /\ n + 1 - at[1] \in Nat
      BY <1>1
    <2>2. m \in [D -> Nat] /\ bound \in Nat /\ (\A at \in D : m[at] < bound)
      BY <1>1
    <2> HIDE DEF m, bound
    <2>3. ASSUME NEW at \in D, at \notin Ends PROVE next[at] \in D /\ m[next[at]] < m[at]
      <3>1. next[at] \in D /\ next[at][1] = at[1] + 1
        BY <1>10, <2>3
      <3> DEFINE i == at[1]
                 j == next[at][1]
      <3>2. i \in 1..(n + 1) /\ j \in 1..(n + 1) /\ j = i + 1 /\ m[at] = n + 1 - i /\ m[next[at]] = n + 1 - j
        BY <1>1, <2>1, <3>1
      <3> HIDE DEF i, j
      <3>3. n + 1 - j < n + 1 - i
        BY ONLY <1>1, <3>2
      <3> QED  BY <3>1, <3>2, <3>3
    <2> QED  BY <2>2, <2>3
  <1> HIDE DEF m, bound, D
  <1>12. PICK f \in [D -> T] : Descent(f, D, Ends, base, next, step)
    BY ONLY <1>8, <1>9, <1>11, DescentExists
  <1> DEFINE w(h, at) == IF stops(at) THEN <<>> ELSE IF fails(at) THEN <<>>
                         ELSE Bytes(at[2], taken(at)) \o h[<<at[1] + 1, at[2] + taken(at)>>]
  <1>13. \A h, at : at \in D /\ at \in Ends => w(h, at) = <<>> /\ base[at] = <<>>
    BY <1>7
  <1>14. \A h, at : at \in D /\ at \notin Ends => w(h, at) = head[at] \o h[next[at]]
    <2> TAKE h, at
    <2> HAVE at \in D /\ at \notin Ends
    <2>1. ~stops(at) /\ ~fails(at)
      OBVIOUS
    <2> QED  BY <1>7, <2>1, Zenon
  <1> HIDE DEF w, Ends
  <1>15. \A at \in D : f[at] = w(f, at)
    <2> TAKE at \in D
    <2>1. CASE at \in Ends
      BY <1>12, <1>13, <2>1 DEF Descent
    <2>2. CASE at \notin Ends
      <3>1. f[at] = step[at][f[next[at]]] /\ f[next[at]] \in T
        BY <1>11, <1>12, <2>2 DEF Descent
      <3>2. step[at][f[next[at]]] = head[at] \o f[next[at]]
        BY ONLY <1>8, <3>1, at \in D
      <3>3. w(f, at) = head[at] \o f[next[at]]
        BY <1>14, <2>2
      <3> QED  BY ONLY <3>1, <3>2, <3>3
    <2> QED  BY <2>1, <2>2
  <1>16. \A h : PushOf(h, takes, len) = [at \in D |-> w(h, at)]
    BY Zenon DEF PushOf, w, stops, fails, taken, D
  <1>17. f = PushOf(f, takes, len)
    BY <1>12, <1>15, <1>16
  <1> DEFINE g == CHOOSE h : h = PushOf(h, takes, len)
  <1>18. g = PushOf(g, takes, len)
    BY <1>17
  <1>19. Wire!Push(takes, len) = g[<<1, 0>>]
    BY Zenon DEF Wire!Push, PushOf, Bytes
  <1> HIDE DEF g
  <1>20. \A at \in D : g[at] = w(g, at)
    <2>1. g = [at \in D |-> w(g, at)]
      BY <1>16, <1>18
    <2> QED  BY <2>1, Zenon
  <1>21. Descends(g, T, D, Ends, base, next, step)
    <2> SUFFICES ASSUME NEW at \in D
                 PROVE  /\ at \in Ends => g[at] = base[at]
                        /\ at \notin Ends /\ g[next[at]] \in T => g[at] = step[at][g[next[at]]]
      BY DEF Descends
    <2>1. at \in Ends => g[at] = base[at]
      BY <1>13, <1>20
    <2>2. ASSUME at \notin Ends, g[next[at]] \in T PROVE g[at] = step[at][g[next[at]]]
      <3>1. step[at][g[next[at]]] = head[at] \o g[next[at]]
        BY ONLY <1>8, <2>2, at \in D
      <3>2. w(g, at) = head[at] \o g[next[at]]
        BY <1>14, <2>2
      <3>3. g[at] = w(g, at)
        BY <1>20
      <3> QED  BY ONLY <3>1, <3>2, <3>3
    <2> QED  BY <2>1, <2>2
  <1>22. \A at \in D : g[at] \in T
    BY ONLY <1>8, <1>9, <1>11, <1>21, DescentTyped
  <1>23. g \in [D -> T]
    BY <1>16, <1>18, <1>22
  <1>24. ASSUME NEW i \in 1..(n + 1), NEW sent \in 0..len
         PROVE  /\ sent = len \/ i = n + 1 => g[<<i, sent>>] = <<>>
                /\ i # n + 1 /\ sent # len =>
                     /\ takes[i] < 0 => g[<<i, sent>>] = <<>>
                     /\ takes[i] >= 0 =>
                          LET k == Smaller(takes[i], len - sent)
                          IN  g[<<i, sent>>] = Bytes(sent, k) \o g[<<i + 1, sent + k>>]
    <2> DEFINE at == <<i, sent>>
    <2>1. at \in D /\ at[1] = i /\ at[2] = sent
      BY <1>2
    <2> HIDE DEF at
    <2>2. (sent = len \/ i = n + 1 <=> stops(at)) /\ (takes[i] < 0 <=> fails(at))
      <3>1. i = n + 1 <=> i > n
        BY ONLY <1>1, i \in 1..(n + 1)
      <3> QED  BY <2>1, <3>1
    <2>3. g[at] = w(g, at)
      BY <1>20, <2>1
    <2>4. sent = len \/ i = n + 1 => g[at] = <<>>
      BY <2>2, <2>3, Zenon DEF w
    <2>5. takes[i] < 0 => g[at] = <<>>
      BY <2>2, <2>3, Zenon DEF w
    <2>6. ASSUME i # n + 1, sent # len, takes[i] >= 0
          PROVE  g[at] = Bytes(sent, Smaller(takes[i], len - sent))
                           \o g[<<i + 1, sent + Smaller(takes[i], len - sent)>>]
      <3>1. ~(takes[i] < 0)
        <4>1. i \in 1..n
          BY ONLY <1>1, <2>6, i \in 1..(n + 1)
        <4>2. takes[i] \in Int
          BY <1>3, <4>1
        <4> QED  BY <2>6, <4>2
      <3>2. ~stops(at) /\ ~fails(at)
        BY <2>2, <2>6, <3>1
      <3>3. at \notin Ends
        BY <3>2 DEF Ends
      <3>4. taken(at) = Smaller(takes[i], len - sent)
        BY <1>5, <2>1, <3>3
      <3> HIDE DEF stops, fails
      <3>5. g[at] = Bytes(sent, taken(at)) \o g[<<i + 1, sent + taken(at)>>]
        BY <2>1, <2>3, <3>2, Zenon DEF w
      <3> QED  BY <3>4, <3>5
    <2> QED  BY <2>4, <2>5, <2>6 DEF at
  <1>25. Pushing(g, takes, len)
    BY <1>24, Zenon DEF Pushing, n
  <1> QED  BY <1>19, <1>23, <1>25 DEF D, T, n

\* t are the sums of what the sends may take.
Summing(t, takes) ==
  t[0] = 0 /\ \A i \in 1..Len(takes) : t[i] = t[i - 1] + takes[i]

\* From the i-th send on, the rest behind the first sent of len bytes is taken before any send fails.
Goes(t, takes, len, i, sent) ==
  \E j \in (i - 1)..Len(takes) :
    t[j] - t[i - 1] >= len - sent /\ \A k \in i..j : takes[k] >= 0

\* When it is all taken, when there is nothing left to take and when a send fails.
LEMMA GoesAtEnds ==
  ASSUME NEW takes \in Seq(Int), NEW t \in [0..Len(takes) -> Int], NEW len \in Nat,
         NEW i \in 1..(Len(takes) + 1), NEW sent \in 0..len
  PROVE  /\ sent = len => Goes(t, takes, len, i, sent)
         /\ i = Len(takes) + 1 /\ sent # len => ~Goes(t, takes, len, i, sent)
         /\ i # Len(takes) + 1 /\ takes[i] < 0 /\ sent # len => ~Goes(t, takes, len, i, sent)
  <1> DEFINE n == Len(takes)
  <1>1. n \in Nat /\ i - 1 \in (i - 1)..n /\ i - 1 \in 0..n
    OBVIOUS
  <1>2. \A j \in 0..n : t[j] \in Int
    OBVIOUS
  <1>3. t[i - 1] - t[i - 1] = 0
    BY <1>1, <1>2
  <1>4. sent = len => Goes(t, takes, len, i, sent)
    <2> HAVE sent = len
    <2>1. t[i - 1] - t[i - 1] >= len - sent /\ \A k \in i..(i - 1) : takes[k] >= 0
      BY <1>3
    <2> QED  BY <1>1, <2>1 DEF Goes
  <1>5. ASSUME sent # len, NEW j \in (i - 1)..n, t[j] - t[i - 1] >= len - sent PROVE j # i - 1
    <2>1. ~(0 >= len - sent)
      BY <1>5
    <2> QED  BY <1>3, <1>5, <2>1
  <1>6. i = n + 1 /\ sent # len => ~Goes(t, takes, len, i, sent)
    <2> HAVE i = n + 1 /\ sent # len
    <2>1. \A j \in (i - 1)..n : j = i - 1
      BY <1>1
    <2> QED  BY <1>5, <2>1 DEF Goes
  <1>7. i # n + 1 /\ takes[i] < 0 /\ sent # len => ~Goes(t, takes, len, i, sent)
    <2> HAVE i # n + 1 /\ takes[i] < 0 /\ sent # len
    <2>1. i \in 1..n
      BY <1>1
    <2>2. ~(takes[i] >= 0)
      <3>1. takes[i] \in Int
        BY <2>1
      <3> QED  BY <3>1
    <2>3. \A j \in (i - 1)..n : j # i - 1 => i \in i..j
      BY <1>1
    <2> QED  BY <1>5, <2>2, <2>3 DEF Goes
  <1> QED  BY <1>4, <1>6, <1>7

\* When a send takes the rest, and when it leaves some of it.
LEMMA GoesWithSend ==
  ASSUME NEW takes \in Seq(Int), NEW t \in [0..Len(takes) -> Int], Summing(t, takes), NEW len \in Nat,
         NEW i \in 1..Len(takes), NEW sent \in 0..len, takes[i] >= 0, sent # len
  PROVE  /\ takes[i] >= len - sent => Goes(t, takes, len, i, sent)
         /\ ~(takes[i] >= len - sent) =>
              (Goes(t, takes, len, i, sent) <=> Goes(t, takes, len, i + 1, sent + takes[i]))
  <1> DEFINE n == Len(takes)
             a == takes[i]
             x == t[i - 1]
             y == t[i]
  <1>1. n \in Nat /\ i \in (i - 1)..n /\ i \in 0..n /\ i - 1 \in 0..n /\ a \in Int
    OBVIOUS
  <1>2. \A j \in 0..n : t[j] \in Int
    OBVIOUS
  <1>3. x \in Int /\ y \in Int /\ y = x + a
    BY <1>1, <1>2 DEF Summing
  <1>4. a >= len - sent => Goes(t, takes, len, i, sent)
    <2> HAVE a >= len - sent
    <2>1. t[i] - t[i - 1] >= len - sent
      <3> HIDE DEF a, x, y
      <3>1. y - x >= len - sent
        BY ONLY <1>1, <1>3, a >= len - sent, len \in Nat, sent \in 0..len
      <3> QED  BY <3>1 DEF x, y
    <2>2. \A k \in i..i : takes[k] >= 0
      <3>1. \A k \in i..i : k = i
        OBVIOUS
      <3> QED  BY <3>1
    <2> QED  BY <1>1, <2>1, <2>2 DEF Goes
  <1>5. ASSUME ~(a >= len - sent), NEW j \in (i - 1)..n
        PROVE  /\ t[j] - t[i - 1] >= len - sent => j \in i..n
               /\ t[j] - t[i - 1] >= len - sent <=> t[j] - t[i] >= len - (sent + a)
    <2> DEFINE z == t[j]
    <2>1. z \in Int /\ (j = i - 1 => z = x)
      BY <1>2
    <2> HIDE DEF a, x, y, z, n
    <2>2. z - x >= len - sent <=> z - y >= len - (sent + a)
      BY ONLY <1>1, <1>3, <2>1, len \in Nat, sent \in 0..len
    <2>3. z - x >= len - sent => j \in i..n
      <3>1. j = i - 1 => ~(z - x >= len - sent)
        BY ONLY <1>3, <2>1, sent \in 0..len, len \in Nat, sent # len
      <3> QED  BY ONLY <1>1, <3>1, i \in Int, j \in (i - 1)..n
    <2> QED  BY <2>2, <2>3 DEF a, x, y, z
  <1>6. \A j \in i..n : (\A k \in i..j : takes[k] >= 0) <=> (\A k \in (i + 1)..j : takes[k] >= 0)
    <2> TAKE j \in i..n
    <2>1. \A k \in i..j : k = i \/ k \in (i + 1)..j
      OBVIOUS
    <2>2. \A k \in (i + 1)..j : k \in i..j
      OBVIOUS
    <2> QED  BY <2>1, <2>2
  <1>7. ~(a >= len - sent) =>
          (Goes(t, takes, len, i, sent) <=> Goes(t, takes, len, i + 1, sent + takes[i]))
    <2> HAVE ~(a >= len - sent)
    <2>1. i + 1 - 1 = i /\ \A j \in i..n : j \in (i - 1)..n
      OBVIOUS
    <2>2. ASSUME Goes(t, takes, len, i, sent) PROVE Goes(t, takes, len, i + 1, sent + a)
      <3>1. PICK j \in (i - 1)..n : t[j] - t[i - 1] >= len - sent /\ \A k \in i..j : takes[k] >= 0
        BY <2>2 DEF Goes
      <3>2. j \in i..n /\ t[j] - t[i] >= len - (sent + a)
        BY <1>5, <3>1
      <3>3. \A k \in (i + 1)..j : takes[k] >= 0
        BY <1>6, <3>1, <3>2
      <3> HIDE DEF a
      <3> QED  BY <2>1, <3>2, <3>3 DEF Goes
    <2>3. ASSUME Goes(t, takes, len, i + 1, sent + a) PROVE Goes(t, takes, len, i, sent)
      <3>1. PICK j \in i..n : t[j] - t[i] >= len - (sent + a) /\ \A k \in (i + 1)..j : takes[k] >= 0
        <4> HIDE DEF a
        <4> QED  BY <2>1, <2>3 DEF Goes
      <3>2. j \in (i - 1)..n /\ t[j] - t[i - 1] >= len - sent
        BY <1>5, <2>1, <3>1
      <3>3. \A k \in i..j : takes[k] >= 0
        BY <1>6, <3>1
      <3> QED  BY <3>2, <3>3 DEF Goes
    <2> QED  BY <2>2, <2>3
  <1> QED  BY <1>4, <1>7

LEMMA JoinedNumbers ==
  ASSUME NEW b \in Seq(Nat), NEW c \in Seq(Nat), NEW k \in Nat, Len(b) = k
  PROVE  Len(b \o c) = k + Len(c) /\ Len(c) \in Nat
         /\ \A j \in 1..(k + Len(c)) : (b \o c)[j] = IF j <= k THEN b[j] ELSE c[j - k]
  <1> DEFINE m == Len(c)
             d == b \o c
  <1>1. Len(d) = k + m /\ m \in Nat
    <2>1. Len(b \o c) = Len(b) + Len(c) /\ Len(c) \in Nat
      BY ONLY b \in Seq(Nat), c \in Seq(Nat)
    <2> QED  BY <2>1
  <1>2. ASSUME NEW j \in 1..(k + m) PROVE d[j] = IF j <= k THEN b[j] ELSE c[j - k]
    <2>1. j \in 1..(Len(b) + Len(c))
      OBVIOUS
    <2>2. (b \o c)[j] = IF j <= Len(b) THEN b[j] ELSE c[j - Len(b)]
      BY ONLY <2>1, b \in Seq(Nat), c \in Seq(Nat)
    <2> QED  BY <2>2
  <1> QED  BY <1>1, <1>2

\* What is taken from the i-th send on: bytes in order, no more than the rest.
Ordered(f, len, i) ==
  \A sent \in 0..len :
    Len(f[<<i, sent>>]) <= len - sent
    /\ \A j \in 1..Len(f[<<i, sent>>]) : f[<<i, sent>>][j] = sent + j

LEMMA PushOrdered ==
  ASSUME NEW takes \in Seq(Int), NEW len \in Nat,
         NEW f \in [(1..(Len(takes) + 1)) \X (0..len) -> Seq(Nat)], Pushing(f, takes, len)
  PROVE  \A i \in 1..(Len(takes) + 1) : Ordered(f, len, i)
  <1> DEFINE n == Len(takes)
             S == {i \in 1..(n + 1) : Ordered(f, len, i)}
  <1>1. n \in Nat
    OBVIOUS
  <1>2. \A i \in 1..(n + 1), sent \in 0..len : f[<<i, sent>>] \in Seq(Nat)
    OBVIOUS
  <1>3. ASSUME NEW i \in 1..(n + 1), NEW sent \in 0..len, f[<<i, sent>>] = <<>>
        PROVE  Len(f[<<i, sent>>]) <= len - sent
               /\ \A j \in 1..Len(f[<<i, sent>>]) : f[<<i, sent>>][j] = sent + j
    BY <1>3
  <1>4. n + 1 \in S
    <2>1. \A sent \in 0..len : f[<<n + 1, sent>>] = <<>>
      <3>1. n + 1 \in 1..(n + 1)
        BY <1>1
      <3> HIDE DEF S
      <3> QED  BY <3>1, Zenon DEF Pushing
    <2> QED  BY <1>1, <1>3, <2>1 DEF Ordered
  <1>5. ASSUME NEW i \in 1..n, \A j \in (i + 1)..(n + 1) : j \in S PROVE i \in S
    <2>1. i \in 1..(n + 1) /\ i # n + 1 /\ i + 1 \in 1..(n + 1) /\ i + 1 \in (i + 1)..(n + 1)
      BY <1>1
    <2>2. Ordered(f, len, i + 1)
      BY <1>5, <2>1
    <2> SUFFICES ASSUME NEW sent \in 0..len
                 PROVE  Len(f[<<i, sent>>]) <= len - sent
                        /\ \A j \in 1..Len(f[<<i, sent>>]) : f[<<i, sent>>][j] = sent + j
      BY <2>1 DEF Ordered
    <2>3. CASE sent = len \/ takes[i] < 0
      <3>1. f[<<i, sent>>] = <<>>
        BY <2>1, <2>3 DEF Pushing
      <3> QED  BY <1>3, <2>1, <3>1
    <2>4. CASE ~(sent = len \/ takes[i] < 0)
      <3> DEFINE k == Smaller(takes[i], len - sent)
                 rest == f[<<i + 1, sent + k>>]
                 b == Bytes(sent, k)
                 all == f[<<i, sent>>]
      <3>1. takes[i] \in Int /\ takes[i] >= 0
        BY <2>1, <2>4
      <3>2. k \in Nat /\ k <= len - sent /\ sent \in Nat /\ sent + k \in 0..len
        BY <3>1 DEF Smaller
      <3>3. all = b \o rest
        BY <2>1, <2>4, <3>1 DEF Pushing
      <3> HIDE DEF k
      <3>4. b \in Seq(Nat) /\ Len(b) = k /\ \A j \in 1..k : b[j] = sent + j
        BY <3>2, BytesAre
      <3>5. rest \in Seq(Nat) /\ Len(rest) <= len - (sent + k)
            /\ \A j \in 1..Len(rest) : rest[j] = (sent + k) + j
        BY <1>2, <2>1, <2>2, <3>2 DEF Ordered
      <3> HIDE DEF rest, b, all
      <3>6. Len(all) = k + Len(rest) /\ Len(rest) \in Nat
            /\ \A j \in 1..(k + Len(rest)) : all[j] = IF j <= k THEN b[j] ELSE rest[j - k]
        BY ONLY <3>2, <3>3, <3>4, <3>5, JoinedNumbers
      <3>7. Len(all) <= len - sent
        BY ONLY <3>2, <3>5, <3>6, len \in Nat
      <3>8. ASSUME NEW j \in 1..Len(all) PROVE all[j] = sent + j
        <4>1. CASE j <= k
          BY <3>2, <3>4, <3>6, <4>1
        <4>2. CASE ~(j <= k)
          <5>1. j - k \in 1..Len(rest) /\ (sent + k) + (j - k) = sent + j /\ j \in 1..(k + Len(rest))
            BY ONLY <3>2, <3>6, <3>8, <4>2
          <5>2. all[j] = rest[j - k]
            BY <3>6, <4>2, <5>1
          <5> QED  BY ONLY <3>5, <5>1, <5>2
        <4> QED  BY <4>1, <4>2
      <3> QED  BY <3>7, <3>8 DEF all
    <2> QED  BY <2>3, <2>4
  <1> HIDE DEF S, n
  <1>6. \A i \in 1..(n + 1) : i \in S
    BY ONLY <1>1, <1>4, <1>5, DownInduction
  <1> QED  BY <1>6 DEF S, n

\* All of the rest is taken, if it is so by the sums.
Whole(f, t, takes, len, i) ==
  \A sent \in 0..len : Len(f[<<i, sent>>]) = len - sent <=> Goes(t, takes, len, i, sent)

LEMMA PushWhole ==
  ASSUME NEW takes \in Seq(Int), NEW len \in Nat,
         NEW f \in [(1..(Len(takes) + 1)) \X (0..len) -> Seq(Nat)], Pushing(f, takes, len),
         NEW t \in [0..Len(takes) -> Int], Summing(t, takes)
  PROVE  \A i \in 1..(Len(takes) + 1) : Whole(f, t, takes, len, i)
  <1> DEFINE n == Len(takes)
             S == {i \in 1..(n + 1) : Whole(f, t, takes, len, i)}
             goes(i, sent) == Goes(t, takes, len, i, sent)
  <1>1. n \in Nat
    OBVIOUS
  <1>2. \A i \in 1..(n + 1), sent \in 0..len : f[<<i, sent>>] \in Seq(Nat)
    OBVIOUS
  <1>3. \A i \in 1..(n + 1), sent \in 0..len :
          /\ sent = len => goes(i, sent)
          /\ i = n + 1 /\ sent # len => ~goes(i, sent)
          /\ i # n + 1 /\ takes[i] < 0 /\ sent # len => ~goes(i, sent)
    BY GoesAtEnds
  <1>4. \A i \in 1..n, sent \in 0..len : takes[i] >= 0 /\ sent # len =>
          /\ takes[i] >= len - sent => goes(i, sent)
          /\ ~(takes[i] >= len - sent) => (goes(i, sent) <=> goes(i + 1, sent + takes[i]))
    BY GoesWithSend
  <1>5. \A i, sent : goes(i, sent) <=> Goes(t, takes, len, i, sent)
    OBVIOUS
  <1> HIDE DEF goes
  <1>6. ASSUME NEW i \in 1..(n + 1), NEW sent \in 0..len, f[<<i, sent>>] = <<>>
        PROVE  Len(f[<<i, sent>>]) = len - sent <=> sent = len
    BY <1>6
  <1>7. n + 1 \in S
    <2>1. \A sent \in 0..len : f[<<n + 1, sent>>] = <<>>
      <3>1. n + 1 \in 1..(n + 1)
        BY <1>1
      <3> HIDE DEF S
      <3> QED  BY <3>1, Zenon DEF Pushing
    <2> QED  BY <1>1, <1>3, <1>5, <1>6, <2>1 DEF Whole
  <1>8. ASSUME NEW i \in 1..n, \A j \in (i + 1)..(n + 1) : j \in S PROVE i \in S
    <2>1. i \in 1..(n + 1) /\ i # n + 1 /\ i + 1 \in 1..(n + 1) /\ i + 1 \in (i + 1)..(n + 1)
      BY <1>1
    <2>2. \A sent \in 0..len : Len(f[<<i + 1, sent>>]) = len - sent <=> goes(i + 1, sent)
      BY <1>5, <1>8, <2>1 DEF Whole
    <2> SUFFICES ASSUME NEW sent \in 0..len
                 PROVE  Len(f[<<i, sent>>]) = len - sent <=> goes(i, sent)
      BY <1>5, <2>1 DEF Whole
    <2>3. CASE sent = len \/ takes[i] < 0
      <3>1. f[<<i, sent>>] = <<>>
        BY <2>1, <2>3 DEF Pushing
      <3> QED  BY <1>3, <1>6, <2>1, <2>3, <3>1
    <2>4. CASE ~(sent = len \/ takes[i] < 0)
      <3> DEFINE a == takes[i]
                 k == Smaller(a, len - sent)
                 rest == f[<<i + 1, sent + k>>]
                 b == Bytes(sent, k)
                 all == f[<<i, sent>>]
      <3>1. a \in Int /\ a >= 0
        BY <2>1, <2>4
      <3>2. k \in Nat /\ k <= len - sent /\ sent \in Nat /\ sent + k \in 0..len
        BY <3>1 DEF Smaller
      <3>3. all = b \o rest
        BY <2>1, <2>4, <3>1 DEF Pushing
      <3>4. (a >= len - sent => sent + k = len) /\ (~(a >= len - sent) => k = a)
        <4> HIDE DEF a
        <4> QED  BY <3>1, len - sent \in Int DEF Smaller
      <3> HIDE DEF k
      <3>5. b \in Seq(Nat) /\ Len(b) = k
        BY <3>2, BytesAre
      <3>6. rest \in Seq(Nat) /\ (Len(rest) = len - (sent + k) <=> goes(i + 1, sent + k))
        BY <1>2, <2>1, <2>2, <3>2
      <3>7. a >= len - sent => goes(i, sent) /\ goes(i + 1, sent + k)
        BY <1>3, <1>4, <2>1, <2>4, <3>1, <3>2, <3>4
      <3>8. ~(a >= len - sent) => (goes(i, sent) <=> goes(i + 1, sent + k))
        BY <1>4, <2>4, <3>1, <3>4
      <3> HIDE DEF rest, b, all, a
      <3>9. Len(all) = k + Len(rest) /\ Len(rest) \in Nat
        BY ONLY <3>2, <3>3, <3>5, <3>6, JoinedNumbers
      <3>10. Len(all) = len - sent <=> Len(rest) = len - (sent + k)
        BY ONLY <3>2, <3>9, len \in Nat
      <3> QED  BY <3>6, <3>7, <3>8, <3>10 DEF all
    <2> QED  BY <2>3, <2>4
  <1> HIDE DEF S, n
  <1>9. \A i \in 1..(n + 1) : i \in S
    BY ONLY <1>1, <1>7, <1>8, DownInduction
  <1> QED  BY <1>9 DEF S, n

TakenOf(h, takes) ==
  [i \in 0..Len(takes) |-> IF i = 0 THEN 0 ELSE h[i - 1] + takes[i]]

LEMMA TakenSum ==
  ASSUME NEW takes \in Seq(Int)
  PROVE  \E h \in [0..Len(takes) -> Int] :
           h = (CHOOSE t : t = TakenOf(t, takes)) /\ Summing(h, takes)
  <1> DEFINE m == Len(takes)
             step == [n \in 1..m |-> [x \in Int |-> x + takes[n]]]
             h == CHOOSE t : t = TakenOf(t, takes)
  <1>1. m \in Nat /\ \A n \in 1..m : takes[n] \in Int
    OBVIOUS
  <1> HIDE DEF m, h
  <1>2. step \in [1..m -> [Int -> Int]] /\ \A x \in Int, n \in 1..m : step[n][x] = x + takes[n]
    BY <1>1
  <1> HIDE DEF step
  <1>3. PICK f \in [0..m -> Int] : f[0] = 0 /\ \A n \in 1..m : f[n] = step[n][f[n - 1]]
    <2>1. m \in Nat /\ 0 \in Int
      BY <1>1
    <2>2. Iterates(Int, 0, m, step)
      BY ONLY <1>2, <2>1, RecursionExists
    <2> QED  BY ONLY <2>2 DEF Iterates
  <1>4. \A n \in 0..m : n # 0 => n \in 1..m /\ n - 1 \in 0..m
    BY <1>1
  <1>5. \A n \in 0..m : f[n] = IF n = 0 THEN 0 ELSE f[n - 1] + takes[n]
    BY <1>2, <1>3, <1>4
  <1>6. f = TakenOf(f, takes)
    BY <1>3, <1>5 DEF TakenOf, m
  <1>7. h = TakenOf(h, takes)
    BY <1>6, Zenon DEF h
  <1>8. \A n \in 0..m : h[n] = IF n = 0 THEN 0 ELSE h[n - 1] + takes[n]
    <2>1. h = [n \in 0..m |-> IF n = 0 THEN 0 ELSE h[n - 1] + takes[n]]
      BY <1>7, Zenon DEF TakenOf, m
    <2> QED  BY <2>1, Zenon
  <1>9. h[0] = 0 /\ \A n \in 1..m : n # 0 /\ n \in 0..m /\ h[n] = h[n - 1] + takes[n]
    <2>1. 0 \in 0..m /\ \A n \in 1..m : n # 0 /\ n \in 0..m
      BY <1>1
    <2> QED  BY <1>8, <2>1
  <1> DEFINE S == {n \in 0..m : h[n] \in Int}
  <1>10. \A n \in 0..m : n \in S
    <2>1. 0 \in S
      BY <1>1, <1>9
    <2>2. ASSUME NEW n \in 0..(m - 1), n \in S PROVE n + 1 \in S
      <3>1. n + 1 \in 1..m /\ n + 1 \in 0..m /\ n + 1 - 1 = n /\ h[n] \in Int
        BY <1>1, <2>2
      <3>2. h[n + 1] = h[n] + takes[n + 1] /\ takes[n + 1] \in Int
        BY <1>1, <1>9, <3>1
      <3> QED  BY <3>1, <3>2
    <2> HIDE DEF S
    <2>3. \A n \in 0..(m - 1) : n \in S => n + 1 \in S
      BY <2>2
    <2>4. 0 \in Nat
      OBVIOUS
    <2> QED  BY ONLY <1>1, <2>1, <2>3, <2>4, RangeInduction
  <1>11. h \in [0..m -> Int]
    BY <1>7, <1>10 DEF TakenOf, m
  <1> QED  BY <1>9, <1>11 DEF Summing, m, h

\* However the socket takes the bytes of a chunk of whatever length, those it has taken are the
\* first of the chunk, each once and in order, and their number is that of the chunk if, and only
\* if, enough was taken before a send failed (mongoose.c:1421, hs_chunked_ostream_impl.cpp:111).
THEOREM ChunksAlwaysInOrder ==
  ASSUME NEW takes \in Seq(Int), NEW len \in Nat
  PROVE  Wire!WrittenInOrder(takes, len)
  <1> DEFINE n == Len(takes)
             passed == Wire!Push(takes, len)
             t == CHOOSE h : h = TakenOf(h, takes)
  <1>1. t \in [0..n -> Int] /\ Summing(t, takes)
    <2> HIDE DEF t
    <2> QED  BY TakenSum DEF t
  <1>2. PICK f \in [(1..(n + 1)) \X (0..len) -> Seq(Nat)] :
          passed = f[<<1, 0>>] /\ Pushing(f, takes, len)
    BY PushIs
  <1> HIDE DEF t, passed
  <1>3. n \in Nat /\ 1 \in 1..(n + 1) /\ 0 \in 0..len /\ passed \in Seq(Nat)
    BY <1>2
  <1>4. Ordered(f, len, 1)
    BY <1>2, <1>3, PushOrdered
  <1>5. Whole(f, t, takes, len, 1)
    BY <1>1, <1>2, <1>3, PushWhole
  <1>6. passed = [k \in 1..Len(passed) |-> k]
    <2> DEFINE m == Len(passed)
               first == [k \in 1..m |-> k]
    <2>1. m \in Nat /\ \A j \in 1..m : passed[j] = 0 + j
      BY <1>2, <1>3, <1>4 DEF Ordered
    <2>2. first \in Seq(Nat) /\ Len(first) = m /\ \A j \in 1..m : first[j] = j
      BY <2>1
    <2> HIDE DEF first
    <2>3. Len(passed) = Len(first) /\ \A j \in 1..Len(passed) : passed[j] = first[j]
      BY <2>1, <2>2
    <2>4. passed = first
      BY ONLY <1>3, <2>2, <2>3, SameSequence
    <2> QED  BY <2>4 DEF first
  <1>7. Len(passed) = len <=> \E i \in 0..n : t[i] >= len /\ \A k \in 1..i : takes[k] >= 0
    <2>1. Len(passed) = len - 0 <=> Goes(t, takes, len, 1, 0)
      BY <1>2, <1>3, <1>5 DEF Whole
    <2>2. 1 - 1 = 0 /\ len - 0 = len /\ t[0] = 0 /\ \A i \in 0..n : t[i] \in Int /\ t[i] - 0 = t[i]
      BY <1>1 DEF Summing
    <2>3. Goes(t, takes, len, 1, 0) <=> \E i \in 0..n : t[i] >= len /\ \A k \in 1..i : takes[k] >= 0
      BY <2>2 DEF Goes
    <2> QED  BY <2>1, <2>2, <2>3
  <1>8. Wire!OstreamWrite(takes, len) = Len(passed)
    BY Zenon DEF Wire!OstreamWrite, passed
  <1> QED  BY <1>6, <1>7, <1>8, Zenon DEF Wire!WrittenInOrder, TakenOf, t, passed, n

-----------------------------------------------------------------------------
(***************************************************************************)
(* The reply builder, whatever is called on it and however often.          *)
(***************************************************************************)

\* The pieces a reply is made of, with the names of the headers.
Pieces(N) ==
  N \cup {"HTTP/1.1", Replies!Crlf, Replies!Zero, ": ", "value", "content", "page", "text/html",
          "Content-Length", "Content-Type"} \cup Replies!Statuses \cup Nat

ReplySet(P) == [buffer : Seq(P), growing : BOOLEAN]

LEMMA SomePieces ==
  ASSUME NEW N
  PROVE  /\ "HTTP/1.1" \in Pieces(N) /\ Replies!Crlf \in Pieces(N) /\ Replies!Zero \in Pieces(N)
         /\ ": " \in Pieces(N) /\ "value" \in Pieces(N) /\ "content" \in Pieces(N)
         /\ "page" \in Pieces(N) /\ "text/html" \in Pieces(N)
         /\ "Content-Length" \in Pieces(N) /\ "Content-Type" \in Pieces(N)
         /\ Replies!Statuses \subseteq Pieces(N) /\ Nat \subseteq Pieces(N) /\ N \subseteq Pieces(N)
  BY Zenon DEF Pieces

LEMMA ElementTyped ==
  ASSUME NEW P, NEW a \in Seq(P), NEW i \in 1..Len(a)
  PROVE  a[i] \in P
  OBVIOUS

LEMMA JoinTyped ==
  ASSUME NEW P, NEW a \in Seq(P), NEW b \in Seq(P)
  PROVE  a \o b \in Seq(P) /\ Len(a \o b) = Len(a) + Len(b)
  OBVIOUS

Associates(a, b, c) == (a \o b) \o c = a \o (b \o c)

LEMMA JoinThree ==
  ASSUME NEW P, NEW a \in Seq(P), NEW b \in Seq(P), NEW c \in Seq(P)
  PROVE  Associates(a, b, c)
  <1> DEFINE l == (a \o b) \o c
             r == a \o (b \o c)
  <1>1. l \in Seq(P) /\ r \in Seq(P) /\ Len(l) = Len(r)
    OBVIOUS
  <1>2. \A i \in 1..Len(l) : l[i] = r[i]
    OBVIOUS
  <1> HIDE DEF l, r
  <1>3. l = r
    BY ONLY <1>1, <1>2, SameSequence
  <1>4. Associates(a, b, c) <=> l = r
    BY Zenon DEF Associates, l, r
  <1> QED  BY <1>3, <1>4

LEMMA JoinElements ==
  ASSUME NEW P, NEW b \in Seq(P), NEW c \in Seq(P)
  PROVE  \A j \in 1..(Len(b) + Len(c)) :
           (b \o c)[j] = IF j <= Len(b) THEN b[j] ELSE c[j - Len(b)]
  OBVIOUS

LEMMA JoinNothing ==
  ASSUME NEW P, NEW a \in Seq(P)
  PROVE  a \o <<>> = a /\ <<>> \o a = a
  OBVIOUS

\* Three pieces and one are four.
FourTogether(P, a, b, c, d) ==
  /\ <<a, b, c>> \in Seq(P) /\ <<d>> \in Seq(P) /\ <<a, b, c, d>> \in Seq(P)
  /\ <<a, b, c>> \o <<d>> = <<a, b, c, d>>

LEMMA FourPieces ==
  ASSUME NEW P, NEW a \in P, NEW b \in P, NEW c \in P, NEW d \in P
  PROVE  FourTogether(P, a, b, c, d)
  <1>1. <<a, b, c>> \in Seq(P) /\ <<d>> \in Seq(P) /\ <<a, b, c, d>> \in Seq(P)
    OBVIOUS
  <1> DEFINE l == <<a, b, c>> \o <<d>>
             r == <<a, b, c, d>>
  <1>2. l \in Seq(P) /\ r \in Seq(P) /\ Len(l) = Len(r) /\ \A i \in 1..Len(l) : l[i] = r[i]
    <2> DEFINE x == <<a, b, c>>
               y == <<d>>
    <2>1. x \in Seq(P) /\ Len(x) = 3 /\ x[1] = a /\ x[2] = b /\ x[3] = c /\ y \in Seq(P) /\ Len(y) = 1
          /\ y[1] = d
      OBVIOUS
    <2>2. r \in Seq(P) /\ Len(r) = 4 /\ r[1] = a /\ r[2] = b /\ r[3] = c /\ r[4] = d
      OBVIOUS
    <2> HIDE DEF x, y, r
    <2>3. l \in Seq(P) /\ Len(l) = 4 /\ l[1] = a /\ l[2] = b /\ l[3] = c /\ l[4] = d
      <3>1. l = x \o y
        BY DEF x, y
      <3> DEFINE n == Len(x)
      <3>2. n = 3 /\ n + Len(y) = 4
        BY <2>1
      <3> HIDE DEF l, n
      <3>3. l \in Seq(P) /\ Len(l) = n + Len(y)
        BY <2>1, <3>1, JoinTyped DEF n
      <3>4. \A i \in 1..(n + Len(y)) : l[i] = IF i <= n THEN x[i] ELSE y[i - n]
        BY <2>1, <3>1, JoinElements DEF n
      <3> QED  BY <2>1, <3>2, <3>3, <3>4
    <2> HIDE DEF l
    <2>4. \A i \in 1..4 : i = 1 \/ i = 2 \/ i = 3 \/ i = 4
      OBVIOUS
    <2> QED  BY <2>2, <2>3, <2>4
  <1> HIDE DEF l, r
  <1>3. l = r
    BY ONLY <1>2, SameSequence
  <1> QED  BY <1>1, <1>3, Zenon DEF FourTogether, l, r

LEMMA AppendIsJoin ==
  ASSUME NEW P, NEW a \in Seq(P), NEW x \in P
  PROVE  Append(a, x) = a \o <<x>> /\ <<x>> \in Seq(P)
  OBVIOUS

LEMMA AddStatusDoes ==
  ASSUME NEW N, NEW reply \in ReplySet(Pieces(N)), NEW status \in Replies!Statuses
  PROVE  LET after == Replies!AddStatus(reply, status)
         IN  /\ after \in ReplySet(Pieces(N)) /\ after.growing = reply.growing
             /\ reply.buffer = <<>> => after.buffer = Replies!StatusLine(status)
  <1> DEFINE P == Pieces(N)
             line == Replies!StatusLine(status)
             old == reply.buffer
             n == Len(old) + Len(line)
             new == [i \in 1..n |-> IF i <= Len(line) THEN line[i]
                                    ELSE IF i <= Len(old) THEN old[i] ELSE Replies!Zero]
             after == Replies!AddStatus(reply, status)
  <1>1. line = <<"HTTP/1.1", status, Replies!Crlf>>
    BY Zenon DEF Replies!StatusLine
  <1>2. "HTTP/1.1" \in P /\ status \in P /\ Replies!Crlf \in P /\ Replies!Zero \in P
    BY SomePieces
  <1> HIDE DEF P
  <1>3. line \in Seq(P) /\ Len(line) = 3
    BY <1>1, <1>2
  <1>4. old \in Seq(P) /\ reply.growing \in BOOLEAN
    BY DEF ReplySet, P
  <1>5. after = [reply EXCEPT !.buffer = new]
    BY Zenon DEF Replies!AddStatus
  <1> HIDE DEF line, old
  <1>6. new \in Seq(P)
    <2>1. n \in Nat
      BY <1>3, <1>4
    <2>2. \A i \in 1..n : /\ i <= Len(line) => line[i] \in P
                          /\ i <= Len(old) => old[i] \in P
      <3> HIDE DEF n
      <3>1. Len(line) \in Nat /\ Len(old) \in Nat
        BY <1>3, <1>4
      <3>2. ASSUME NEW i \in 1..n, i <= Len(old) PROVE old[i] \in P
        <4>1. i \in 1..Len(old)
          BY <2>1, <3>1, <3>2
        <4> QED  BY ONLY <1>4, <4>1
      <3>3. ASSUME NEW i \in 1..n, i <= Len(line) PROVE line[i] \in P
        <4>1. i \in 1..Len(line)
          BY <2>1, <3>1, <3>3
        <4> QED  BY ONLY <1>3, <4>1, ElementTyped
      <3> QED  BY <3>2, <3>3
    <2>3. \A i \in 1..n : new[i] \in P
      BY <1>2, <2>2
    <2> QED  BY <2>1, <2>3
  <1>7. old = <<>> => new = line
    <2> HAVE old = <<>>
    <2>1. Len(new) = Len(line) /\ \A i \in 1..Len(new) : new[i] = line[i]
      BY <1>3
    <2> HIDE DEF new
    <2> QED  BY ONLY <1>3, <1>6, <2>1, SameSequence
  <1> HIDE DEF new, after
  <1>8. after \in ReplySet(P) /\ after.growing = reply.growing /\ after.buffer = new
    BY <1>4, <1>5, <1>6 DEF ReplySet, P
  <1> QED  BY <1>7, <1>8 DEF after, line, old, P

LEMMA AddCrlfDoes ==
  ASSUME NEW N, NEW reply \in ReplySet(Pieces(N))
  PROVE  LET after == Replies!AddCrlf(reply)
         IN  /\ after \in ReplySet(Pieces(N)) /\ after.growing = reply.growing
             /\ after.buffer = reply.buffer \o <<Replies!Crlf>>
  <1> DEFINE P == Pieces(N)
             after == Replies!AddCrlf(reply)
             new == Append(reply.buffer, Replies!Crlf)
  <1>1. Replies!Crlf \in P
    BY SomePieces
  <1>2. after = [reply EXCEPT !.buffer = new]
    BY Zenon DEF Replies!AddCrlf
  <1> HIDE DEF P
  <1>3. reply.buffer \in Seq(P) /\ reply.growing \in BOOLEAN /\ reply \in ReplySet(P)
    BY DEF ReplySet, P
  <1>4. new \in Seq(P) /\ new = reply.buffer \o <<Replies!Crlf>>
    BY <1>1, <1>3, AppendIsJoin
  <1> HIDE DEF new, after
  <1>5. after \in ReplySet(P) /\ after.growing = reply.growing /\ after.buffer = new
    BY <1>2, <1>3, <1>4 DEF ReplySet
  <1> QED  BY <1>4, <1>5 DEF after, P

\* The text x is a with b behind it, or a with an empty line and a content behind it.
Longer(x, a, b) == x = a \o b
Ended(x, a, content) == x = (a \o <<Replies!Crlf>>) \o content

\* The line of a header.
HeaderLine(name, value) == <<name, ": ", value, Replies!Crlf>>

LEMMA AddHeaderDoes ==
  ASSUME NEW N, NEW reply \in ReplySet(Pieces(N)), NEW name \in Pieces(N), NEW value \in Pieces(N)
  PROVE  LET after == Replies!AddHeader(reply, name, value)
         IN  /\ after \in ReplySet(Pieces(N)) /\ after.growing = reply.growing
             /\ HeaderLine(name, value) \in Seq(Pieces(N))
             /\ reply.growing => Longer(after.buffer, reply.buffer, HeaderLine(name, value))
             /\ ~reply.growing => after.buffer = reply.buffer
  <1> DEFINE P == Pieces(N)
             after == Replies!AddHeader(reply, name, value)
             colon == ": "
             text == <<name, colon, value>>
             longer == [reply EXCEPT !.buffer = @ \o text]
             end == <<Replies!Crlf>>
             line == HeaderLine(name, value)
  <1>1. Replies!Crlf \in P /\ colon \in P
    BY SomePieces
  <1>2. after = IF reply.growing THEN Replies!AddCrlf(longer) ELSE reply
    BY Zenon DEF Replies!AddHeader
  <1>3. line = <<name, colon, value, Replies!Crlf>>
    BY Zenon DEF HeaderLine
  <1> HIDE DEF P, colon, line
  <1>4. reply.buffer \in Seq(P) /\ reply.growing \in BOOLEAN /\ reply \in ReplySet(P)
        /\ name \in P /\ value \in P
    BY DEF ReplySet, P
  <1> DEFINE crlf == Replies!Crlf
  <1>5. text \in Seq(P) /\ end \in Seq(P) /\ line \in Seq(P) /\ text \o end = line
    <2>1. text = <<name, colon, value>> /\ end = <<crlf>> /\ line = <<name, colon, value, crlf>>
          /\ crlf \in P
      BY <1>1, <1>3
    <2> HIDE DEF text, end, crlf
    <2>2. FourTogether(P, name, colon, value, crlf)
      BY <1>1, <1>4, <2>1, FourPieces
    <2> QED  BY <2>1, <2>2, Zenon DEF FourTogether
  <1> HIDE DEF text, end
  <1>6. reply.buffer \o text \in Seq(P)
    BY <1>4, <1>5, JoinTyped
  <1>7. longer \in ReplySet(P) /\ longer.growing = reply.growing /\ longer.buffer = reply.buffer \o text
    BY <1>4, <1>6 DEF ReplySet
  <1> HIDE DEF longer, after
  <1>8. CASE reply.growing
    <2>1. after = Replies!AddCrlf(longer)
      BY <1>2, <1>8
    <2>2. after \in ReplySet(P) /\ after.growing = longer.growing /\ after.buffer = longer.buffer \o end
      BY <1>7, <2>1, AddCrlfDoes DEF P, end
    <2>3. (reply.buffer \o text) \o end = reply.buffer \o (text \o end)
      <3> DEFINE old == reply.buffer
      <3>1. old \in Seq(P)
        BY <1>4
      <3> HIDE DEF old
      <3>2. Associates(old, text, end)
        BY ONLY <1>5, <3>1, JoinThree
      <3> QED  BY <3>2, Zenon DEF Associates, old
    <2>4. after.buffer = reply.buffer \o line
      BY <1>5, <1>7, <2>2, <2>3
    <2>5. Longer(after.buffer, reply.buffer, line)
      BY <2>4, Zenon DEF Longer
    <2> QED  BY <1>5, <1>7, <1>8, <2>2, <2>5 DEF after, P, line
  <1>9. CASE ~reply.growing
    BY <1>2, <1>4, <1>5, <1>9 DEF after, P, line
  <1> QED  BY <1>8, <1>9

LEMMA AddContentDoes ==
  ASSUME NEW N, NEW reply \in ReplySet(Pieces(N)), NEW content \in Seq(Pieces(N))
  PROVE  LET after == Replies!AddContent(reply, content)
         IN  /\ after \in ReplySet(Pieces(N)) /\ after.growing = reply.growing
             /\ content = <<>> => after.buffer = reply.buffer
             /\ content # <<>> /\ reply.growing => Ended(after.buffer, reply.buffer, content)
             /\ content # <<>> /\ ~reply.growing => after.buffer = <<>>
  <1> DEFINE P == Pieces(N)
             after == Replies!AddContent(reply, content)
             ended == Replies!AddCrlf(reply)
             longer == [ended EXCEPT !.buffer = @ \o content]
             cut == [reply EXCEPT !.buffer = <<>>]
  <1>1. after = IF content = <<>> THEN reply ELSE IF reply.growing THEN longer ELSE cut
    BY Zenon DEF Replies!AddContent
  <1>2. ended \in ReplySet(P) /\ ended.growing = reply.growing
        /\ ended.buffer = reply.buffer \o <<Replies!Crlf>>
    BY AddCrlfDoes
  <1> HIDE DEF P, ended
  <1>3. reply.buffer \in Seq(P) /\ reply.growing \in BOOLEAN /\ reply \in ReplySet(P)
        /\ content \in Seq(P) /\ <<>> \in Seq(P)
    BY DEF ReplySet, P
  <1>4. ended.buffer \in Seq(P)
    BY <1>2 DEF ReplySet
  <1>5. ended.buffer \o content \in Seq(P)
    BY <1>3, <1>4, JoinTyped
  <1>6. longer \in ReplySet(P) /\ longer.growing = reply.growing /\ longer.buffer = ended.buffer \o content
    BY <1>2, <1>5 DEF ReplySet
  <1>7. cut \in ReplySet(P) /\ cut.growing = reply.growing /\ cut.buffer = <<>>
    BY <1>3 DEF ReplySet
  <1> HIDE DEF longer, cut, after
  <1>8. content # <<>> /\ reply.growing => Ended(after.buffer, reply.buffer, content)
    <2>1. ended.buffer \o content = (reply.buffer \o <<Replies!Crlf>>) \o content
      BY <1>2, Zenon
    <2> QED  BY <1>1, <1>6, <2>1, Zenon DEF Ended
  <1> QED  BY <1>1, <1>2, <1>3, <1>6, <1>7, <1>8 DEF after, P

\* The lines of some headers, and the end of a message with a content.
LinesOf(headers) == [i \in DOMAIN headers |-> HeaderLine(headers[i].name, headers[i].value)]

EndOf(content) == IF content = <<>> THEN <<>> ELSE <<Replies!Crlf>> \o content

MessageOf(status, lines, content) ==
  (Replies!StatusLine(status) \o Requests!FlattenSeq(lines)) \o EndOf(content)

LEMMA MessageIs ==
  ASSUME NEW status, NEW headers, NEW content
  PROVE  Replies!Message(status, headers, content) = MessageOf(status, LinesOf(headers), content)
  <1>1. \A s : Replies!FlattenSeq(s) = Requests!FlattenSeq(s)
    BY Zenon DEF Replies!FlattenSeq, Requests!FlattenSeq
  <1> DEFINE lines == LinesOf(headers)
             line == Replies!StatusLine(status)
             end == EndOf(content)
  <1>2. Replies!Message(status, headers, content) = (line \o Replies!FlattenSeq(lines)) \o end
    BY Zenon DEF Replies!Message, LinesOf, HeaderLine, EndOf
  <1>3. MessageOf(status, lines, content) = (line \o Requests!FlattenSeq(lines)) \o end
    BY Zenon DEF MessageOf
  <1> HIDE DEF lines, line, end
  <1>4. Replies!FlattenSeq(lines) = Requests!FlattenSeq(lines)
    BY <1>1
  <1> QED  BY <1>2, <1>3, <1>4, Zenon DEF lines

LEMMA StatusTyped ==
  ASSUME NEW N, NEW status \in Replies!Statuses
  PROVE  /\ Replies!StatusLine(status) \in Seq(Pieces(N))
         /\ Replies!Page(status) \in Seq(Pieces(N)) /\ Len(Replies!Page(status)) \in Pieces(N)
  <1> DEFINE P == Pieces(N)
             line == Replies!StatusLine(status)
             page == Replies!Page(status)
             crlf == Replies!Crlf
             version == "HTTP/1.1"
             name == "page"
             other == IF status = "partial_content" THEN "internal_server_error" ELSE status
  <1>1. line = <<version, status, crlf>>
    BY Zenon DEF Replies!StatusLine
  <1>2. page = IF status = "ok" THEN <<>> ELSE <<name, other>>
    BY DEF Replies!Page
  <1>3. version \in P /\ status \in P /\ crlf \in P /\ name \in P
    BY SomePieces
  <1>4. other \in P
    <2>1. "internal_server_error" \in Replies!Statuses
      BY DEF Replies!Statuses
    <2> QED  BY <1>3, <2>1, SomePieces
  <1> HIDE DEF P, line, page, crlf, version, name, other
  <1>5. line \in Seq(P) /\ page \in Seq(P)
    BY <1>1, <1>2, <1>3, <1>4
  <1>6. Len(page) \in Nat
    BY <1>5
  <1> QED  BY <1>5, <1>6, SomePieces DEF P, line, page

\* The text of two headers is the one line behind the other.
LEMMA TwoLines ==
  ASSUME NEW P, NEW a \in Seq(P), NEW b \in Seq(P)
  PROVE  Requests!FlattenSeq(<<a, b>>) = a \o b
  <1> DEFINE parts == <<a, b>>
             n == Len(parts)
  <1>1. parts \in Seq(Seq(P)) /\ n = 2 /\ parts[1] = a /\ parts[2] = b
    OBVIOUS
  <1> HIDE DEF parts, n
  <1>2. n > 0
    BY <1>1
  <1>3. PICK f \in [1..n -> Seq(P)] :
          /\ Requests!FlattenSeq(parts) = f[n]
          /\ \A i \in 1..n : f[i] = IF i = 1 THEN parts[i] ELSE f[i - 1] \o parts[i]
    BY <1>1, <1>2, FlattenIs DEF n
  <1>4. f[1] = a /\ f[2] = f[1] \o b
    <2>1. 1 \in 1..n /\ 2 \in 1..n /\ 2 - 1 = 1
      BY <1>1
    <2>2. 2 # 1
      OBVIOUS
    <2>3. f[1] = parts[1] /\ f[2] = f[2 - 1] \o parts[2]
      BY <1>3, <2>1, <2>2, Zenon
    <2> QED  BY <1>1, <2>1, <2>3, Zenon
  <1>5. Requests!FlattenSeq(parts) = a \o b
    BY <1>1, <1>3, <1>4
  <1> QED  BY <1>5 DEF parts

\* What stock_reply makes of any reply.
LEMMA StockReplyDoes ==
  ASSUME NEW N, NEW reply \in ReplySet(Pieces(N)), NEW status \in Replies!Statuses
  PROVE  LET after == Replies!StockReply(reply, status)
             page == Replies!Page(status)
             lines == <<HeaderLine("Content-Length", Len(page)), HeaderLine("Content-Type", "text/html")>>
         IN  /\ after \in ReplySet(Pieces(N))
             /\ after.buffer = IF reply.growing THEN MessageOf(status, lines, page)
                               ELSE IF page = <<>> THEN Replies!StatusLine(status) ELSE <<>>
  <1> DEFINE P == Pieces(N)
             page == Replies!Page(status)
             line == Replies!StatusLine(status)
             length == "Content-Length"
             type == "Content-Type"
             html == "text/html"
             size == Len(page)
             first == HeaderLine(length, size)
             second == HeaderLine(type, html)
             reset == [reply EXCEPT !.buffer = <<>>]
             begun == Replies!AddStatus(reset, status)
             sized == Replies!AddHeader(begun, length, size)
             headed == Replies!AddHeader(sized, type, html)
             after == Replies!StockReply(reply, status)
             lines == <<first, second>>
             end == EndOf(page)
             crlf == <<Replies!Crlf>>
  <1>1. after = Replies!AddContent(headed, page)
    BY Zenon DEF Replies!StockReply
  <1>2. line \in Seq(P) /\ page \in Seq(P) /\ size \in P
    BY StatusTyped
  <1>3. length \in P /\ type \in P /\ html \in P
    BY SomePieces
  <1>4. reply.growing \in BOOLEAN /\ reset \in ReplySet(P) /\ reset.growing = reply.growing
        /\ reset.buffer = <<>>
    <2> HIDE DEF P
    <2>1. reply \in ReplySet(P)
      BY DEF P
    <2>2. <<>> \in Seq(P)
      OBVIOUS
    <2> QED  BY <2>1, <2>2 DEF ReplySet
  <1> HIDE DEF page, line, length, type, html, size, reset
  <1>5. begun \in ReplySet(P) /\ begun.growing = reply.growing /\ begun.buffer = line
    BY <1>4, AddStatusDoes DEF line
  <1> HIDE DEF begun
  <1>6. /\ sized \in ReplySet(P) /\ sized.growing = reply.growing /\ first \in Seq(P)
        /\ reply.growing => Longer(sized.buffer, line, first)
        /\ ~reply.growing => sized.buffer = line
    BY <1>2, <1>3, <1>5, AddHeaderDoes
  <1> HIDE DEF sized, first
  <1>7. /\ headed \in ReplySet(P) /\ headed.growing = reply.growing /\ second \in Seq(P)
        /\ reply.growing => Longer(headed.buffer, sized.buffer, second)
        /\ ~reply.growing => headed.buffer = line
    BY <1>3, <1>6, AddHeaderDoes
  <1> HIDE DEF headed, second
  <1>8. /\ after \in ReplySet(P)
        /\ page = <<>> => after.buffer = headed.buffer
        /\ page # <<>> /\ reply.growing => Ended(after.buffer, headed.buffer, page)
        /\ page # <<>> /\ ~reply.growing => after.buffer = <<>>
    BY <1>1, <1>2, <1>7, AddContentDoes
  <1> HIDE DEF after, P
  <1> DEFINE text == MessageOf(status, lines, page)
             all == (line \o first) \o second
  <1>9. text = (line \o Requests!FlattenSeq(lines)) \o end
    BY Zenon DEF MessageOf, line
  <1>10. Requests!FlattenSeq(lines) = first \o second
    BY <1>6, <1>7, TwoLines
  <1> HIDE DEF lines, end, text, crlf
  <1>11. text = all \o end
    <2>1. Associates(line, first, second)
      BY <1>2, <1>6, <1>7, JoinThree
    <2> QED  BY <1>9, <1>10, <2>1, Zenon DEF Associates
  <1>12. all \in Seq(P)
    <2>1. line \o first \in Seq(P)
      BY <1>2, <1>6, JoinTyped
    <2> QED  BY <1>7, <2>1, JoinTyped
  <1> HIDE DEF all
  <1>13. page = <<>> => text = all
    <2> HAVE page = <<>>
    <2>1. end = <<>>
      BY Zenon DEF end, EndOf
    <2> QED  BY <1>11, <1>12, <2>1, JoinNothing
  <1>14. page # <<>> => text = (all \o crlf) \o page
    <2> HAVE page # <<>>
    <2>1. end = crlf \o page
      BY Zenon DEF end, EndOf, crlf
    <2>2. Replies!Crlf \in P
      BY SomePieces DEF P
    <2>3. crlf \in Seq(P)
      BY <2>2 DEF crlf
    <2>4. Associates(all, crlf, page)
      BY <1>2, <1>12, <2>3, JoinThree
    <2> QED  BY <1>11, <2>1, <2>4, Zenon DEF Associates
  <1>15. reply.growing => headed.buffer = all
    BY <1>6, <1>7, Zenon DEF Longer, all
  <1>16. after.buffer = IF reply.growing THEN text ELSE IF page = <<>> THEN line ELSE <<>>
    <2>1. CASE reply.growing
      <3>1. headed.buffer = all
        BY <1>15, <2>1
      <3>2. CASE page = <<>>
        BY <1>8, <1>13, <2>1, <3>1, <3>2
      <3>3. CASE page # <<>>
        <4>1. after.buffer = (all \o crlf) \o page
          BY <1>8, <2>1, <3>1, <3>3, Zenon DEF Ended, crlf
        <4> QED  BY <1>14, <2>1, <3>3, <4>1, Zenon
      <3> QED  BY <3>2, <3>3
    <2>2. CASE ~reply.growing
      BY <1>7, <1>8, <2>2
    <2> QED  BY <2>1, <2>2
  <1> QED  BY <1>8, <1>16, Zenon DEF after, P, text, lines, first, second, size, page, line, length, type, html

\* A call with what it needs; the names of the headers are of N.
IsCall(call, N) ==
  \/ call.op \in {"add_status", "stock_reply"} /\ call.status \in Replies!Statuses
  \/ call.op = "add_header" /\ call.name \in N
  \/ call.op \in {"add_content", "add_crlf"}
  \/ call.op = "enable_buf_realocation" /\ call.state \in BOOLEAN

\* What each call is.
LEMMA CallCases ==
  ASSUME NEW reply, NEW call
  PROVE  LET after == Replies!Call(reply, call)
         IN  /\ call.op = "add_status" => after = Replies!AddStatus(reply, call.status)
             /\ call.op = "add_header" => after = Replies!AddHeader(reply, call.name, "value")
             /\ call.op = "add_content" => after = Replies!AddContent(reply, <<"content">>)
             /\ call.op = "add_crlf" => after = Replies!AddCrlf(reply)
             /\ call.op = "stock_reply" => after = Replies!StockReply(reply, call.status)
             /\ call.op = "enable_buf_realocation" => after = [reply EXCEPT !.growing = call.state]
  <1> DEFINE op == call.op
             a == Replies!AddStatus(reply, call.status)
             b == Replies!AddHeader(reply, call.name, "value")
             c == Replies!AddContent(reply, <<"content">>)
             d == Replies!AddCrlf(reply)
             e == Replies!StockReply(reply, call.status)
             f == [reply EXCEPT !.growing = call.state]
             after == Replies!Call(reply, call)
  <1>1. after = CASE op = "add_status" -> a
                  [] op = "add_header" -> b
                  [] op = "add_content" -> c
                  [] op = "add_crlf" -> d
                  [] op = "stock_reply" -> e
                  [] op = "enable_buf_realocation" -> f
    BY Zenon DEF Replies!Call
  <1> HIDE DEF a, b, c, d, e, f, after
  <1>2. /\ op = "add_status" => after = a
        /\ op = "add_header" => after = b
        /\ op = "add_content" => after = c
        /\ op = "add_crlf" => after = d
        /\ op = "stock_reply" => after = e
        /\ op = "enable_buf_realocation" => after = f
    BY <1>1
  <1> QED  BY <1>2, Zenon DEF a, b, c, d, e, f, after

LEMMA CallDoes ==
  ASSUME NEW N, NEW reply \in ReplySet(Pieces(N)), NEW call, IsCall(call, N)
  PROVE  Replies!Call(reply, call) \in ReplySet(Pieces(N))
  <1> DEFINE after == Replies!Call(reply, call)
             content == <<"content">>
             P == Pieces(N)
             value == "value"
  <1>1. CASE call.op = "add_status"
    <2>1. after = Replies!AddStatus(reply, call.status)
      BY <1>1, CallCases
    <2>2. call.status \in Replies!Statuses
      BY <1>1 DEF IsCall
    <2> QED  BY <2>1, <2>2, AddStatusDoes
  <1>2. CASE call.op = "add_header"
    <2>1. after = Replies!AddHeader(reply, call.name, value)
      BY <1>2, CallCases, Zenon
    <2>2. call.name \in P /\ value \in P
      <3>1. call.name \in N
        BY <1>2 DEF IsCall
      <3> QED  BY <3>1, SomePieces
    <2> HIDE DEF value
    <2> QED  BY <2>1, <2>2, AddHeaderDoes
  <1>3. CASE call.op = "add_content"
    <2>1. after = Replies!AddContent(reply, content)
      BY <1>3, CallCases, Zenon
    <2>2. content \in Seq(P)
      <3>1. "content" \in P
        BY SomePieces
      <3> HIDE DEF P
      <3> QED  BY <3>1
    <2> HIDE DEF content
    <2> QED  BY <2>1, <2>2, AddContentDoes
  <1>4. CASE call.op = "add_crlf"
    <2>1. after = Replies!AddCrlf(reply)
      BY <1>4, CallCases
    <2> QED  BY <2>1, AddCrlfDoes
  <1>5. CASE call.op = "stock_reply"
    <2>1. after = Replies!StockReply(reply, call.status)
      BY <1>5, CallCases
    <2>2. call.status \in Replies!Statuses
      BY <1>5 DEF IsCall
    <2> QED  BY <2>1, <2>2, StockReplyDoes
  <1>6. CASE call.op = "enable_buf_realocation"
    <2>1. after = [reply EXCEPT !.growing = call.state]
      BY <1>6, CallCases
    <2>2. call.state \in BOOLEAN
      BY <1>6 DEF IsCall
    <2> HIDE DEF after
    <2> QED  BY <2>1, <2>2 DEF ReplySet, after
  <1> QED  BY <1>1, <1>2, <1>3, <1>4, <1>5, <1>6 DEF IsCall

\* The replies after each number of calls.
ReplyStates(calls, f) ==
  [n \in 0..Len(calls) |-> IF n = 0 THEN Replies!NewReply
                  ELSE CHOOSE s \in {Replies!Call(before, calls[n]) : before \in {f[n - 1]}} : TRUE]

AreCalls(calls, N) ==
  /\ Len(calls) \in Nat /\ DOMAIN calls = 1..Len(calls)
  /\ \A n \in 1..Len(calls) : IsCall(calls[n], N)

RepliesAfter(calls) == Replies!StatesAfter(Replies!Call, Replies!NewReply, calls)

LEMMA NewReplyIs ==
  ASSUME NEW N
  PROVE  /\ Replies!NewReply \in ReplySet(Pieces(N))
         /\ Replies!NewReply.growing = TRUE /\ Replies!NewReply.buffer = <<>>
  <1> DEFINE P == Pieces(N)
  <1>1. <<>> \in Seq(P)
    <2> HIDE DEF P
    <2> QED  OBVIOUS
  <1> QED  BY <1>1 DEF Replies!NewReply, ReplySet

LEMMA RepliesStep ==
  ASSUME NEW N, NEW calls, AreCalls(calls, N)
  PROVE  LET after == RepliesAfter(calls)
         IN  /\ after[0] = Replies!NewReply
             /\ \A n \in 0..Len(calls) : after[n] \in ReplySet(Pieces(N))
             /\ \A n \in 1..Len(calls) : after[n] = Replies!Call(after[n - 1], calls[n])
             /\ Replies!Built(calls) = after[Len(calls)]
  <1> DEFINE m == Len(calls)
             T == ReplySet(Pieces(N))
             step == [n \in 1..m |-> [s \in T |-> Replies!Call(s, calls[n])]]
             x == Replies!NewReply
             a == RepliesAfter(calls)
             v(f, n) == IF n = 0 THEN x
                        ELSE CHOOSE s \in {Replies!Call(before, calls[n]) : before \in {f[n - 1]}} : TRUE
  <1>1. m \in Nat /\ x \in T
    BY NewReplyIs DEF AreCalls
  <1>2. \A n \in 1..m : IsCall(calls[n], N)
    BY DEF AreCalls
  <1>3. \A n \in 1..m, s \in T : Replies!Call(s, calls[n]) \in T
    BY <1>2, CallDoes
  <1> HIDE DEF m, T, x
  <1>4. step \in [1..m -> [T -> T]] /\ \A s \in T, n \in 1..m : step[n][s] = Replies!Call(s, calls[n])
    BY <1>3
  <1> HIDE DEF step
  <1>5. PICK f \in [0..m -> T] : f[0] = x /\ \A n \in 1..m : f[n] = step[n][f[n - 1]]
    <2>1. Iterates(T, x, m, step)
      BY ONLY <1>1, <1>4, RecursionExists
    <2> QED  BY ONLY <2>1 DEF Iterates
  <1>6. \A n \in 0..m : n # 0 => n \in 1..m /\ n - 1 \in 0..m
    BY <1>1
  <1>7. \A g, n : n # 0 => v(g, n) = Replies!Call(g[n - 1], calls[n])
    <2> TAKE g, n
    <2> HAVE n # 0
    <2> DEFINE y == Replies!Call(g[n - 1], calls[n])
    <2>1. {Replies!Call(before, calls[n]) : before \in {g[n - 1]}} = {y}
      BY Zenon
    <2> HIDE DEF y
    <2>2. (CHOOSE s \in {y} : TRUE) = y
      OBVIOUS
    <2>3. v(g, n) = CHOOSE s \in {Replies!Call(before, calls[n]) : before \in {g[n - 1]}} : TRUE
      BY Zenon
    <2>4. v(g, n) = y
      BY ONLY <2>1, <2>2, <2>3, Zenon
    <2> QED  BY <2>4 DEF y
  <1>8. \A g : v(g, 0) = x
    OBVIOUS
  <1>9. \A g : ReplyStates(calls, g) = [n \in 0..m |-> v(g, n)]
    BY Zenon DEF ReplyStates, m, x
  <1> HIDE DEF v
  <1>10. \A n \in 0..m : f[n] = v(f, n)
    <2> TAKE n \in 0..m
    <2>1. CASE n = 0
      BY <1>5, <1>8, <2>1
    <2>2. CASE n # 0
      <3>1. n \in 1..m /\ f[n - 1] \in T
        BY <1>5, <1>6, <2>2
      <3>2. f[n] = step[n][f[n - 1]]
        BY <1>5, <3>1
      <3>3. step[n][f[n - 1]] = Replies!Call(f[n - 1], calls[n])
        BY <1>4, <3>1
      <3>4. v(f, n) = Replies!Call(f[n - 1], calls[n])
        BY <1>7, <2>2, Zenon
      <3> QED  BY ONLY <3>2, <3>3, <3>4
    <2> QED  BY <2>1, <2>2
  <1>11. f = ReplyStates(calls, f)
    <2>1. f = [n \in 0..m |-> v(f, n)]
      BY ONLY <1>10, f \in [0..m -> T]
    <2> QED  BY <1>9, <2>1, Zenon
  <1>12. a = CHOOSE g : g = ReplyStates(calls, g)
    BY Zenon DEF RepliesAfter, Replies!StatesAfter, ReplyStates
  <1> HIDE DEF a
  <1>13. a = ReplyStates(calls, a)
    BY ONLY <1>11, <1>12
  <1>14. \A n \in 0..m : a[n] = v(a, n)
    BY <1>9, <1>13, Zenon
  <1>15. a[0] = x /\ \A n \in 1..m : a[n] = Replies!Call(a[n - 1], calls[n])
    <2>1. 0 \in 0..m /\ \A n \in 1..m : n \in 0..m /\ n # 0
      BY <1>1
    <2> QED  BY <1>7, <1>8, <1>14, <2>1
  <1>16. \A n \in 0..m : a[n] \in T
    <2> DEFINE S == {n \in 0..m : a[n] \in T}
    <2>1. 0 \in S
      BY <1>1, <1>15
    <2>2. ASSUME NEW n \in 0..(m - 1), n \in S PROVE n + 1 \in S
      <3>1. n + 1 \in 1..m /\ n + 1 \in 0..m /\ (n + 1) - 1 = n /\ a[n] \in T
        BY <1>1, <2>2
      <3> QED  BY <1>3, <1>15, <3>1
    <2> HIDE DEF S
    <2>3. \A n \in 0..m : n \in S
      BY <1>1, <2>1, <2>2, RangeInduction
    <2> QED  BY <2>3 DEF S
  <1>17. Replies!Built(calls) = a[m]
    BY Zenon DEF Replies!Built, Replies!StateAfter, RepliesAfter, a, m
  <1> QED  BY <1>15, <1>16, <1>17 DEF a, m, T, x

\* A stock reply is a whole message whatever was called before it, unless the buffer may not grow
\* (http_reply.cpp:34).
THEOREM StockReplyAlwaysWhole ==
  ASSUME NEW N, NEW calls, AreCalls(calls, N)
  PROVE  Replies!StockReplyWhole(calls)
  <1> DEFINE reply == Replies!Built(calls)
             headersOf(page) == <<[name |-> "Content-Length", value |-> Len(page)],
                                  [name |-> "Content-Type", value |-> "text/html"]>>
  <1>1. reply \in ReplySet(Pieces(N))
    <2>1. Len(calls) \in 0..Len(calls)
      BY DEF AreCalls
    <2> QED  BY <2>1, RepliesStep
  <1> HIDE DEF reply
  <1>2. ASSUME NEW status \in Replies!Statuses
        PROVE  LET page == Replies!Page(status)
                   text == Replies!StockReply(reply, status).buffer
               IN  IF reply.growing THEN text = Replies!Message(status, headersOf(page), page)
                   ELSE text = IF page = <<>> THEN Replies!StatusLine(status) ELSE <<>>
    <2> DEFINE page == Replies!Page(status)
               headers == headersOf(page)
               lines == <<HeaderLine("Content-Length", Len(page)), HeaderLine("Content-Type", "text/html")>>
               text == Replies!StockReply(reply, status).buffer
    <2>1. text = IF reply.growing THEN MessageOf(status, lines, page)
                 ELSE IF page = <<>> THEN Replies!StatusLine(status) ELSE <<>>
      BY <1>1, StockReplyDoes
    <2>2. LinesOf(headers) = lines
      <3> DEFINE size == Len(page)
      <3> HIDE DEF size
      <3>1. headers = <<[name |-> "Content-Length", value |-> size],
                        [name |-> "Content-Type", value |-> "text/html"]>>
        BY DEF size
      <3> DEFINE lineOf(h) == HeaderLine(h.name, h.value)
      <3>2. LinesOf(headers) = [i \in 1..2 |-> lineOf(headers[i])]
        <4>1. DOMAIN headers = 1..2
          BY <3>1
        <4>2. LinesOf(headers) = [i \in DOMAIN headers |-> lineOf(headers[i])]
          BY Zenon DEF LinesOf
        <4> HIDE DEF headers, lineOf
        <4> QED  BY <4>1, <4>2, Zenon
      <3> QED  BY <3>1, <3>2 DEF size
    <2>3. Replies!Message(status, headers, page) = MessageOf(status, lines, page)
      BY <2>2, MessageIs, Zenon
    <2> HIDE DEF lines, headers, text
    <2> QED  BY <2>1, <2>3 DEF text, headers
  <1> QED  BY <1>2, Zenon DEF Replies!StockReplyWhole, reply

\* The texts that come of the first parts, from none on.
LEMMA FlattenFrom ==
  ASSUME NEW C, NEW parts \in Seq(Seq(C))
  PROVE  \E g \in [0..Len(parts) -> Seq(C)] :
           /\ Requests!FlattenSeq(parts) = g[Len(parts)] /\ g[0] = <<>>
           /\ \A i \in 1..Len(parts) : Longer(g[i], g[i - 1], parts[i])
  <1> DEFINE n == Len(parts)
  <1>1. n \in Nat /\ (\A i \in 1..n : parts[i] \in Seq(C)) /\ <<>> \in Seq(C)
    OBVIOUS
  <1>2. CASE n = 0
    <2> DEFINE g == [i \in 0..n |-> <<>>]
    <2>1. Requests!FlattenSeq(parts) = parts /\ parts = <<>>
      BY <1>2 DEF Requests!FlattenSeq
    <2>2. g \in [0..n -> Seq(C)] /\ g[n] = <<>> /\ g[0] = <<>>
      BY <1>1
    <2>3. \A i \in 1..n : FALSE
      BY <1>2
    <2> QED  BY <2>1, <2>2, <2>3
  <1>3. CASE n > 0
    <2>1. PICK f \in [1..n -> Seq(C)] :
            /\ Requests!FlattenSeq(parts) = f[n]
            /\ \A i \in 1..n : f[i] = IF i = 1 THEN parts[i] ELSE f[i - 1] \o parts[i]
      BY <1>3, FlattenIs
    <2> DEFINE g == [i \in 0..n |-> IF i = 0 THEN <<>> ELSE f[i]]
    <2>2. g \in [0..n -> Seq(C)] /\ g[0] = <<>> /\ \A i \in 1..n : g[i] = f[i]
      BY <1>1
    <2> HIDE DEF g
    <2>3. ASSUME NEW i \in 1..n PROVE Longer(g[i], g[i - 1], parts[i])
      <3>1. CASE i = 1
        <4>1. f[i] = parts[i]
          BY <2>1, <3>1, Zenon
        <4>2. i - 1 = 0
          BY <3>1
        <4>3. g[i] = parts[i] /\ g[i - 1] = <<>>
          BY <2>2, <4>1, <4>2
        <4>4. <<>> \o parts[i] = parts[i]
          BY <1>1, JoinNothing
        <4> QED  BY <4>3, <4>4, Zenon DEF Longer
      <3>2. CASE i # 1
        <4>1. f[i] = f[i - 1] \o parts[i]
          BY <2>1, <3>2, Zenon
        <4>2. i - 1 \in 1..n
          BY <1>1, <3>2
        <4>3. g[i] = f[i] /\ g[i - 1] = f[i - 1]
          BY <2>2, <4>2
        <4> QED  BY <4>1, <4>3, Zenon DEF Longer
      <3> QED  BY <3>1, <3>2
    <2>4. n \in 1..n
      BY <1>1, <1>3
    <2> QED  BY <2>1, <2>2, <2>3, <2>4
  <1> QED  BY <1>1, <1>2, <1>3

\* A header is added behind the lines before it.
LEMMA OneMoreLine ==
  ASSUME NEW P, NEW line \in Seq(P), NEW before \in Seq(P), NEW more \in Seq(P), NEW after,
         NEW old, NEW new, Longer(old, line, before), Longer(new, old, more), Longer(after, before, more)
  PROVE  Longer(new, line, after)
  <1>1. Associates(line, before, more)
    BY JoinThree
  <1> QED  BY <1>1, Zenon DEF Longer, Associates

\* With the end of the message behind the lines, it is whole.
LEMMA LinesEnded ==
  ASSUME NEW P, NEW status, NEW lines, NEW content \in Seq(P), NEW old \in Seq(P), NEW new, Replies!Crlf \in P,
         Longer(old, Replies!StatusLine(status), Requests!FlattenSeq(lines)),
         content = <<>> => new = old, content # <<>> => Ended(new, old, content)
  PROVE  new = MessageOf(status, lines, content)
  <1> DEFINE end == EndOf(content)
             crlf == <<Replies!Crlf>>
             text == MessageOf(status, lines, content)
  <1>1. text = old \o end
    BY Zenon DEF MessageOf, Longer
  <1>2. CASE content = <<>>
    <2>1. end = <<>>
      BY <1>2, Zenon DEF EndOf
    <2>2. old \o <<>> = old
      BY JoinNothing
    <2> QED  BY <1>1, <1>2, <2>1, <2>2, Zenon
  <1>3. CASE content # <<>>
    <2>1. end = crlf \o content
      BY <1>3, Zenon DEF EndOf
    <2>2. crlf \in Seq(P)
      OBVIOUS
    <2> HIDE DEF crlf
    <2>3. Associates(old, crlf, content)
      BY <2>2, JoinThree
    <2> QED  BY <1>1, <1>3, <2>1, <2>3, Zenon DEF Associates, Ended, crlf
  <1> QED  BY <1>2, <1>3

\* Calls made in the order of a message build that message, whatever the headers are and however
\* many (http_reply.cpp:34).
THEOREM MessagesAlwaysBuilt ==
  ASSUME NEW N, NEW C, NEW calls \in Seq(C), AreCalls(calls, N)
  PROVE  Replies!BuiltInOrder(calls)
  <1> DEFINE n == Len(calls)
             ordered == /\ n > 0 /\ calls[1].op = "add_status"
                        /\ \A i \in 2..n : calls[i].op = "add_header" \/ (i = n /\ calls[i].op = "add_content")
             content == IF n > 0 /\ calls[n].op = "add_content" THEN <<"content">> ELSE <<>>
             headed == SubSeq(calls, 2, n - Len(content))
             headers == [i \in DOMAIN headed |-> [name |-> headed[i].name, value |-> "value"]]
             status == calls[1].status
             buffer == Replies!Built(calls).buffer
  <1> SUFFICES ASSUME ordered PROVE buffer = Replies!Message(status, headers, content)
    BY Zenon DEF Replies!BuiltInOrder
  <1> DEFINE P == Pieces(N)
             a == RepliesAfter(calls)
             line == Replies!StatusLine(status)
             lines == LinesOf(headers)
             value == "value"
             c == Len(content)
             m == n - c - 1
  <1>1. n \in Nat /\ n > 0 /\ \A i \in 1..n : IsCall(calls[i], N)
    BY DEF AreCalls
  <1>2. status \in Replies!Statuses
    <2>1. 1 \in 1..n
      BY <1>1
    <2>2. IsCall(calls[1], N) /\ calls[1].op = "add_status"
      BY <1>1, <2>1
    <2> QED  BY <2>2 DEF IsCall
  <1>3. value \in P /\ Replies!Crlf \in P /\ line \in Seq(P)
    BY <1>2, SomePieces, StatusTyped
  <1>4. /\ content \in Seq(P) /\ c \in {0, 1} /\ (c = 0 <=> content = <<>>)
        /\ c = 0 <=> calls[n].op # "add_content"
        /\ c = 1 => content = <<"content">>
    <2> DEFINE piece == "content"
               full == <<piece>>
    <2>1. piece \in P
      BY SomePieces
    <2> HIDE DEF P, piece
    <2>2. full \in Seq(P) /\ Len(full) = 1 /\ full # <<>> /\ Len(<<>>) = 0 /\ <<>> \in Seq(P)
      BY <2>1
    <2>3. content = IF calls[n].op = "add_content" THEN full ELSE <<>>
      BY <1>1 DEF piece
    <2> HIDE DEF content, full
    <2>4. /\ content \in Seq(P) /\ c \in {0, 1} /\ (c = 0 <=> content = <<>>)
          /\ c = 0 <=> calls[n].op # "add_content"
          /\ c = 1 => content = full
      BY <2>2, <2>3
    <2> QED  BY <2>4 DEF full, piece
  <1>5. c = 1 => n # 1
    <2>1. calls[1].op # "add_content"
      OBVIOUS
    <2> HIDE DEF c
    <2> QED  BY <1>4, <2>1
  <1> HIDE DEF content, c
  <1>6. m \in Nat /\ n = m + c + 1 /\ \A i \in 1..m : i + 1 \in 2..n /\ i + 1 \in 1..n
    <2>1. c \in {0, 1} /\ (c = 1 => n # 1)
      BY <1>4, <1>5
    <2> HIDE DEF n
    <2> QED  BY ONLY <1>1, <2>1
  <1> HIDE DEF n, m
  <1>7. \A i \in 1..m : calls[i + 1].op = "add_header" /\ calls[i + 1].name \in P
    <2> TAKE i \in 1..m
    <2>1. calls[i + 1].op = "add_header" \/ (i + 1 = n /\ calls[i + 1].op = "add_content")
      BY <1>6
    <2>2. i + 1 = n => c = 0
      <3>1. c \in {0, 1}
        BY <1>4
      <3> QED  BY ONLY <1>6, <3>1, i \in 1..m
    <2>3. calls[i + 1].op = "add_header"
      BY <1>4, <2>1, <2>2
    <2>4. IsCall(calls[i + 1], N)
      BY <1>1, <1>6
    <2>5. calls[i + 1].name \in N
      BY <2>3, <2>4 DEF IsCall
    <2> QED  BY <2>3, <2>5, SomePieces
  <1>8. lines = [i \in 1..m |-> HeaderLine(calls[i + 1].name, value)]
    <2>1. headed = SubSeq(calls, 2, n - c)
      BY DEF c
    <2> HIDE DEF headed
    <2>2. DOMAIN headed = 1..m /\ \A i \in 1..m : headed[i] = calls[i + 1]
      <3> DEFINE last == n - c
      <3>1. last \in Nat /\ last <= n /\ m = last - 1
        <4>1. c \in {0, 1}
          BY <1>4
        <4> QED  BY ONLY <1>1, <1>6, <4>1
      <3> HIDE DEF last
      <3> QED  BY <2>1, <3>1 DEF last, n
    <2>3. /\ DOMAIN headers = 1..m
          /\ \A i \in 1..m : headers[i].name = calls[i + 1].name /\ headers[i].value = value
      BY <2>2
    <2>4. lines = [i \in DOMAIN headers |-> HeaderLine(headers[i].name, headers[i].value)]
      BY Zenon DEF LinesOf
    <2> HIDE DEF headers, lines, value, m
    <2> QED  BY <2>3, <2>4
  <1> HIDE DEF lines, value, line
  <1>9. lines \in Seq(Seq(P)) /\ Len(lines) = m
        /\ \A i \in 1..m : lines[i] = HeaderLine(calls[i + 1].name, value)
    <2>1. \A i \in 1..m : HeaderLine(calls[i + 1].name, value) \in Seq(P)
      <3> TAKE i \in 1..m
      <3>1. calls[i + 1].name \in Pieces(N) /\ value \in Pieces(N)
        BY <1>3, <1>7
      <3>2. Replies!NewReply \in ReplySet(Pieces(N))
        BY NewReplyIs
      <3> QED  BY <3>1, <3>2, AddHeaderDoes
    <2> HIDE DEF P, m
    <2> QED  BY <1>6, <1>8, <2>1
  <1>10. PICK g \in [0..m -> Seq(P)] :
           /\ Requests!FlattenSeq(lines) = g[m] /\ g[0] = <<>>
           /\ \A i \in 1..m : Longer(g[i], g[i - 1], lines[i])
    <2> HIDE DEF m
    <2> QED  BY <1>9, FlattenFrom
  <1>11. /\ a[0] = Replies!NewReply
         /\ \A i \in 0..n : a[i] \in ReplySet(P)
         /\ \A i \in 1..n : a[i] = Replies!Call(a[i - 1], calls[i])
         /\ Replies!Built(calls) = a[n]
    BY RepliesStep DEF n
  <1> HIDE DEF a
  <1> DEFINE Holds(i) == a[i + 1].growing /\ Longer(a[i + 1].buffer, line, g[i])
             S == {i \in 0..m : Holds(i)}
  <1>12. 0 \in S
    <2>1. a[1] = Replies!Call(a[0], calls[1]) /\ a[0] = Replies!NewReply /\ 0 + 1 = 1
      <3>1. 1 \in 1..n /\ 1 - 1 = 0
        BY <1>1
      <3> QED  BY <1>11, <3>1
    <2>2. a[1] = Replies!AddStatus(Replies!NewReply, status)
      BY <2>1, CallCases
    <2>3. a[1].growing = TRUE /\ a[1].buffer = line
      <3> DEFINE new == Replies!NewReply
      <3>1. new \in ReplySet(Pieces(N)) /\ new.growing = TRUE /\ new.buffer = <<>>
        BY NewReplyIs
      <3> HIDE DEF new
      <3> QED  BY <1>2, <2>2, <3>1, AddStatusDoes DEF line, new
    <2>4. Longer(a[1].buffer, line, g[0])
      <3>1. line \o <<>> = line
        BY <1>3, JoinNothing
      <3> QED  BY <1>10, <2>3, <3>1, Zenon DEF Longer
    <2>5. 0 \in 0..m
      BY <1>6
    <2> QED  BY <2>1, <2>3, <2>4, <2>5
  <1>13. ASSUME NEW i \in 0..(m - 1), i \in S PROVE i + 1 \in S
    <2> DEFINE k == i + 1
               old == a[k]
               new == a[k + 1]
               name == calls[k + 1].name
    <2>1. k \in 1..m /\ k \in 0..m /\ k - 1 = i /\ (k + 1) - 1 = k /\ k + 1 \in 1..n /\ k \in 0..n
      <3>1. c \in Nat
        BY <1>4
      <3>2. k \in 1..m /\ k \in 0..m /\ k - 1 = i /\ (k + 1) - 1 = k
        BY ONLY <1>6, i \in 0..(m - 1)
      <3> HIDE DEF k
      <3>3. k + 1 \in 1..n /\ k \in 0..n
        BY ONLY <1>6, <3>1, <3>2
      <3> QED  BY <3>2, <3>3
    <2>2. old.growing /\ Longer(old.buffer, line, g[i]) /\ old \in ReplySet(Pieces(N))
      BY <1>11, <1>13, <2>1
    <2>3. new = Replies!Call(old, calls[k + 1]) /\ calls[k + 1].op = "add_header"
      BY <1>7, <1>11, <2>1
    <2>4. new = Replies!AddHeader(old, name, value)
      <3>1. new = Replies!AddHeader(old, calls[k + 1].name, "value")
        BY <2>3, CallCases
      <3> QED  BY <3>1, Zenon DEF value
    <2>5. name \in Pieces(N) /\ value \in Pieces(N)
      BY <1>3, <1>7, <2>1
    <2> HIDE DEF k, old, new, name
    <2>6. new.growing = old.growing /\ Longer(new.buffer, old.buffer, HeaderLine(name, value))
          /\ HeaderLine(name, value) \in Seq(P)
      BY <2>2, <2>4, <2>5, AddHeaderDoes
    <2>7. lines[k] = HeaderLine(name, value) /\ Longer(g[k], g[i], lines[k]) /\ g[i] \in Seq(P)
      <3>1. lines[k] = HeaderLine(name, value)
        BY <1>9, <2>1 DEF name
      <3>2. Longer(g[k], g[i], lines[k])
        BY <1>10, <2>1
      <3>3. i \in 0..m
        BY <1>6
      <3> QED  BY <1>10, <3>1, <3>2, <3>3
    <2>8. Longer(new.buffer, line, g[k])
      BY <1>3, <2>2, <2>6, <2>7, OneMoreLine
    <2>9. Holds(k)
      BY <2>2, <2>6, <2>8 DEF new
    <2> HIDE DEF Holds
    <2>10. k \in S
      BY <2>1, <2>9
    <2> QED  BY <2>10 DEF k
  <1>14. m \in S
    <2> HIDE DEF S, m
    <2>1. 0 \in Nat /\ m \in 0..m
      BY <1>6
    <2>2. \A i \in 0..(m - 1) : i \in S => i + 1 \in S
      BY <1>13
    <2>3. \A i \in 0..m : i \in S
      BY ONLY <1>6, <1>12, <2>1, <2>2, RangeInduction
    <2> QED  BY <2>1, <2>3
  <1> DEFINE old == a[m + 1]
             new == a[n]
  <1>15. old.growing /\ Longer(old.buffer, line, g[m]) /\ old \in ReplySet(Pieces(N)) /\ old.buffer \in Seq(P)
    <2>1. m + 1 \in 0..n
      <3>1. c \in {0, 1}
        BY <1>4
      <3> QED  BY ONLY <1>6, <3>1
    <2>2. old \in ReplySet(Pieces(N))
      BY <1>11, <2>1
    <2>3. old.buffer \in Seq(P)
      <3> HIDE DEF P, old
      <3>1. old \in ReplySet(P)
        BY <2>2 DEF P
      <3> QED  BY <3>1 DEF ReplySet
    <2> QED  BY <1>14, <2>2, <2>3
  <1>16. content = <<>> => new.buffer = old.buffer
    <2> HAVE content = <<>>
    <2>1. m + 1 = n
      <3>1. c = 0
        BY <1>4
      <3> QED  BY ONLY <1>6, <3>1
    <2> QED  BY <2>1
  <1>17. content # <<>> => Ended(new.buffer, old.buffer, content)
    <2> HAVE content # <<>>
    <2>1. c = 1 /\ calls[n].op = "add_content" /\ content = <<"content">>
      BY <1>4
    <2>2. n \in 1..n /\ n - 1 = m + 1
      <3>1. c = 1
        BY <2>1
      <3> QED  BY ONLY <1>6, <3>1
    <2>3. new = Replies!Call(old, calls[n])
      BY <1>11, <2>2
    <2>4. new = Replies!AddContent(old, content)
      BY <2>1, <2>3, CallCases, Zenon
    <2> HIDE DEF old, new
    <2> QED  BY <1>4, <1>15, <2>4, AddContentDoes
  <1>18. buffer = new.buffer
    BY <1>11
  <1> HIDE DEF old, new, buffer, P
  <1>19. new.buffer = MessageOf(status, lines, content)
    <2>1. Longer(old.buffer, Replies!StatusLine(status), Requests!FlattenSeq(lines))
      BY <1>10, <1>15, Zenon DEF line
    <2> QED  BY <1>3, <1>4, <1>15, <1>16, <1>17, <2>1, LinesEnded
  <1>20. Replies!Message(status, headers, content) = MessageOf(status, lines, content)
    BY MessageIs, Zenon DEF lines
  <1> QED  BY ONLY <1>18, <1>19, <1>20, Zenon

-----------------------------------------------------------------------------
(***************************************************************************)
(* The figures of the reply mongoose makes itself, and what is left to     *)
(* show of RequestsAnswered.                                               *)
(***************************************************************************)

\* The least and the greatest of some numbers.
LEMMA LeastIs ==
  ASSUME NEW S \in SUBSET Int, NEW m \in S, \A y \in S : m <= y
  PROVE  Wire!Min(S) = m
  <1> DEFINE least(x) == \A y \in S : x <= y
  <1>1. Wire!Min(S) = CHOOSE x \in S : least(x)
    BY Zenon DEF Wire!Min
  <1>2. \A x \in S : least(x) => x = m
    OBVIOUS
  <1>3. m \in S /\ least(m)
    OBVIOUS
  <1> HIDE DEF least
  <1> QED  BY <1>1, <1>2, <1>3, Zenon

LEMMA GreatestIs ==
  ASSUME NEW S \in SUBSET Int, NEW m \in S, \A y \in S : m >= y
  PROVE  Wire!Max(S) = m
  <1> DEFINE greatest(x) == \A y \in S : x >= y
  <1>1. Wire!Max(S) = CHOOSE x \in S : greatest(x)
    BY Zenon DEF Wire!Max
  <1>2. \A x \in S : greatest(x) => x = m
    OBVIOUS
  <1>3. m \in S /\ greatest(m)
    OBVIOUS
  <1> HIDE DEF greatest
  <1> QED  BY <1>1, <1>2, <1>3, Zenon

LEMMA OfTwo ==
  ASSUME NEW a \in Int, NEW b \in Int
  PROVE  /\ Wire!Min({a, b}) = IF a <= b THEN a ELSE b
         /\ Wire!Max({a, b}) = IF a <= b THEN b ELSE a
  <1> DEFINE S == {a, b}
             low == IF a <= b THEN a ELSE b
             high == IF a <= b THEN b ELSE a
  <1>1. S \in SUBSET Int /\ low \in S /\ high \in S /\ (\A y \in S : low <= y) /\ \A y \in S : high >= y
    OBVIOUS
  <1> HIDE DEF S, low, high
  <1>2. Wire!Min(S) = low /\ Wire!Max(S) = high
    BY <1>1, LeastIs, GreatestIs
  <1> QED  BY <1>2 DEF S, low, high

\* The place where the characters of a kind end.
LEMMA SpanIs ==
  ASSUME NEW S, NEW text \in Seq(S), NEW i \in 1..(Len(text) + 1), NEW chars,
         NEW m \in i..(Len(text) + 1), \A j \in i..(m - 1) : text[j] \in chars,
         m # Len(text) + 1 => text[m] \notin chars
  PROVE  Wire!Span(text, i, chars) = m
  <1> DEFINE n == Len(text)
             I == {j \in i..n : text[j] \notin chars} \cup {n + 1}
  <1>1. Wire!Span(text, i, chars) = Wire!Min(I)
    BY Zenon DEF Wire!Span
  <1>2. n \in Nat
    OBVIOUS
  <1>3. m \in I
    BY <1>2
  <1>4. \A y \in I : m <= y
    <2> TAKE y \in I
    <2>1. CASE y = n + 1
      BY <2>1
    <2>2. CASE y \in i..n /\ text[y] \notin chars
      <3>1. ~(y \in i..(m - 1))
        BY <2>2
      <3> QED  BY <1>2, <2>2, <3>1
    <2> QED  BY <2>1, <2>2
  <1>5. I \in SUBSET Int
    BY <1>2
  <1> HIDE DEF I
  <1> QED  BY <1>1, <1>3, <1>4, <1>5, LeastIs

\* One character stands in the text at i.
LEMMA OneBegins ==
  ASSUME NEW S, NEW text \in Seq(S), NEW i \in 1..(Len(text) + 1), NEW c
  PROVE  Wire!Begins(text, i, <<c>>) <=> i # Len(text) + 1 /\ text[i] = c
  <1> DEFINE one == <<c>>
             n == Len(text)
             last == i + Len(one) - 1
             part == SubSeq(text, i, last)
  <1>1. Wire!Begins(text, i, one) <=> last <= n /\ part = one
    BY Zenon DEF Wire!Begins
  <1>2. n \in Nat /\ last = i
    OBVIOUS
  <1>3. last <= n <=> i # n + 1
    BY <1>2
  <1>4. i # n + 1 => (part = one <=> text[i] = c)
    <2> HAVE i # n + 1
    <2> DEFINE p == i - 1
               l == 1
               T == S \cup {c}
    <2>1. p \in Nat /\ l \in Nat /\ p + 1 = i /\ p + l = last /\ p + l <= n
      BY <1>2
    <2>2. part = SubSeq(text, p + 1, p + l)
      BY <2>1
    <2> HIDE DEF p, l, part, last
    <2>3. Len(part) = l /\ part \in Seq(S) /\ \A j \in 1..l : part[j] = text[p + j]
      BY <2>1, <2>2, PartOfText
    <2>4. Len(part) = 1 /\ part[1] = text[i] /\ part \in Seq(T) /\ one \in Seq(T) /\ Len(one) = 1
          /\ one[1] = c
      BY <2>1, <2>3 DEF l
    <2> HIDE DEF one, T
    <2>5. part[1] = one[1] => part = one
      <3> HAVE part[1] = one[1]
      <3>1. Len(part) = Len(one) /\ \A j \in 1..Len(part) : part[j] = one[j]
        <4>1. \A j \in 1..1 : j = 1
          OBVIOUS
        <4>2. 1..Len(part) = 1..1
          BY <2>4
        <4> QED  BY ONLY <2>4, <4>1, <4>2, part[1] = one[1]
      <3> QED  BY ONLY <2>4, <3>1, SameSequence
    <2> QED  BY <2>4, <2>5
  <1> HIDE DEF one
  <1> QED  BY <1>1, <1>3, <1>4 DEF one

Digits == DOMAIN Wire!DigitOf

LEMMA DigitsAre ==
  Digits = {"0", "1", "2", "3"} /\ Wire!Space \notin Digits /\ Dash \notin Digits /\ "+" \notin Digits
  <1>1. Digits = {"0", "1", "2", "3"}
    BY DEF Digits, Wire!DigitOf
  <1> QED  BY <1>1, Zenon DEF Wire!Space, Dash

\* The number a stands in the text at i, and no digit behind it.
NumberAt(text, i, a) ==
  /\ i + Len(a) <= Len(text) + 1
  /\ \A j \in 1..Len(a) : text[i + j - 1] = a[j]
  /\ i + Len(a) # Len(text) + 1 => text[i + Len(a)] \notin Digits

Found(value, next) == [found |-> TRUE, value |-> value, next |-> next]

\* A number is read where it stands.
LEMMA ScanReads ==
  ASSUME NEW S, NEW text \in Seq(S), NEW i \in 1..(Len(text) + 1),
         NEW a \in Seq(Digits), Len(a) > 0, NumberAt(text, i, a)
  PROVE  Wire!Scan(text, i) = Found(Wire!NumberOf(a), i + Len(a))
  <1> DEFINE n == Len(text)
             k == Len(a)
             signed(p) == Wire!Begins(text, p, <<"-">>)
             plus(p) == Wire!Begins(text, p, <<"+">>)
             sign == Wire!Span(text, i, {Wire!Space})
             digits == IF signed(sign) \/ plus(sign) THEN sign + 1 ELSE sign
             end == Wire!Span(text, digits, Digits)
             value == Wire!NumberOf(SubSeq(text, digits, end - 1))
  <1>1. Wire!Scan(text, i) =
          IF end = digits THEN [found |-> FALSE, value |-> 0, next |-> i]
          ELSE [found |-> TRUE, value |-> IF signed(sign) THEN -value ELSE value, next |-> end]
    BY Zenon DEF Wire!Scan, Digits
  <1>2. n \in Nat /\ k \in Nat /\ k > 0 /\ \A j \in 1..k : a[j] \in Digits
    OBVIOUS
  <1> DEFINE e == i + k
  <1>3. e <= n + 1 /\ (\A j \in 1..k : text[i + j - 1] = a[j])
        /\ (e # n + 1 => text[e] \notin Digits)
    BY Zenon DEF NumberAt, n, k
  <1> HIDE DEF n, k
  <1>4. i # n + 1 /\ i \in i..(n + 1) /\ e \in i..(n + 1) /\ e # i
        /\ \A j \in i..(e - 1) : j - i + 1 \in 1..k /\ i + (j - i + 1) - 1 = j
    BY ONLY <1>2, <1>3, i \in Int
  <1>5. \A j \in i..(e - 1) : text[j] \in Digits
    <2> HIDE DEF e
    <2> QED  BY <1>2, <1>3, <1>4
  <1>6. text[i] \in Digits
    <2>1. i \in i..(e - 1)
      BY ONLY <1>2, i \in Int
    <2> HIDE DEF e
    <2> QED  BY <1>5, <2>1
  <1>7. sign = i
    <2>1. text[i] \notin {Wire!Space} /\ \A j \in i..(i - 1) : FALSE
      BY <1>6, DigitsAre
    <2> HIDE DEF sign, e
    <2> QED  BY <1>4, <2>1, SpanIs DEF n, sign
  <1>8. ~signed(i) /\ ~plus(i)
    <2>1. text[i] # "-" /\ text[i] # "+"
      BY <1>6, DigitsAre, Zenon DEF Dash
    <2> QED  BY <2>1, OneBegins
  <1> HIDE DEF signed, plus
  <1>9. digits = i
    BY <1>7, <1>8
  <1>10. end = e
    <2> HIDE DEF e
    <2>1. Wire!Span(text, i, Digits) = e
      BY <1>3, <1>4, <1>5, SpanIs DEF n
    <2> HIDE DEF digits
    <2> QED  BY <1>9, <2>1
  <1> HIDE DEF sign, digits, end
  <1>11. SubSeq(text, i, e - 1) = a
    <2> DEFINE t == SubSeq(text, i, e - 1)
               p == i - 1
    <2>1. p \in Nat /\ p + 1 = i /\ p + k = e - 1 /\ p + k <= n
      BY ONLY <1>2, <1>3, i \in 1..(Len(text) + 1)
    <2> HIDE DEF e
    <2>2. t = SubSeq(text, p + 1, p + k)
      BY <2>1
    <2> HIDE DEF t, p
    <2>3. Len(t) = k /\ t \in Seq(S) /\ \A j \in 1..k : t[j] = text[p + j]
      BY <1>2, <2>1, <2>2, PartOfText DEF n
    <2>4. \A j \in 1..k : p + j = i + j - 1
      BY <1>2 DEF p
    <2>5. \A j \in 1..k : t[j] = a[j]
      BY <1>3, <2>3, <2>4
    <2>6. a \in Seq(S \cup Digits) /\ t \in Seq(S \cup Digits)
      BY <2>3
    <2>7. t = a
      BY ONLY <2>3, <2>5, <2>6, SameSequence DEF k
    <2> QED  BY <2>7 DEF t
  <1> HIDE DEF e
  <1>12. value = Wire!NumberOf(a)
    BY <1>9, <1>10, <1>11, Zenon
  <1> HIDE DEF value
  <1>13. Wire!Scan(text, i) = [found |-> TRUE, value |-> value, next |-> end]
    BY <1>1, <1>4, <1>7, <1>8, <1>9, <1>10
  <1> QED  BY <1>10, <1>12, <1>13, Zenon DEF Found, k, e

\* Behind the text there is no number.
LEMMA ScanNothing ==
  ASSUME NEW S, NEW text \in Seq(S), NEW i, i = Len(text) + 1
  PROVE  Wire!Scan(text, i) = [found |-> FALSE, value |-> 0, next |-> i]
  <1> DEFINE signed(p) == Wire!Begins(text, p, <<"-">>)
             plus(p) == Wire!Begins(text, p, <<"+">>)
             sign == Wire!Span(text, i, {Wire!Space})
             digits == IF signed(sign) \/ plus(sign) THEN sign + 1 ELSE sign
             end == Wire!Span(text, digits, Digits)
             value == Wire!NumberOf(SubSeq(text, digits, end - 1))
  <1>1. Wire!Scan(text, i) =
          IF end = digits THEN [found |-> FALSE, value |-> 0, next |-> i]
          ELSE [found |-> TRUE, value |-> IF signed(sign) THEN -value ELSE value, next |-> end]
    BY Zenon DEF Wire!Scan, Digits
  <1>2. i \in 1..(Len(text) + 1) /\ i \in i..(Len(text) + 1) /\ \A j \in i..(i - 1) : FALSE
    OBVIOUS
  <1>3. \A chars : Wire!Span(text, i, chars) = i
    BY <1>2, SpanIs
  <1>4. ~signed(i) /\ ~plus(i)
    BY <1>2, OneBegins
  <1> HIDE DEF signed, plus, value
  <1>5. sign = i /\ digits = i /\ end = i
    BY <1>3, <1>4
  <1> QED  BY <1>1, <1>5

\* The bounds a range header is written from here, and its characters.
FileMarks == {<<"0">>, <<"1">>, <<"1", "0">>}
FileCharacters == Digits \cup {"b", "=", Dash}

LEMMA FileMarkIs ==
  ASSUME NEW a \in FileMarks
  PROVE  a \in Seq(Digits) /\ Len(a) \in Nat /\ Len(a) > 0 /\ Wire!NumberOf(a) \in Nat
  <1>1. "0" \in Digits /\ "1" \in Digits
    BY DigitsAre
  <1>2. Digits = DOMAIN Requests!DigitOf
    BY Zenon DEF Digits, Wire!DigitOf, Requests!DigitOf
  <1>3. a \in Seq(Digits) /\ Len(a) \in Nat /\ Len(a) > 0
    <2>1. CASE a = <<"0">>
      BY <1>1, <2>1
    <2>2. CASE a = <<"1">>
      BY <1>1, <2>2
    <2>3. CASE a = <<"1", "0">>
      BY <1>1, <2>3
    <2> QED  BY ONLY a \in FileMarks, <2>1, <2>2, <2>3 DEF FileMarks
  <1>4. Wire!NumberOf(a) = Requests!NumberOf(a)
    BY Zenon DEF Wire!NumberOf, Requests!NumberOf, Wire!DigitOf, Requests!DigitOf
  <1>5. Requests!NumberOf(a) \in Nat
    <2>1. a # <<>> /\ \A i \in DOMAIN a : a[i] \in Digits
      BY <1>3
    <2>2. Requests!IsNumber(a)
      BY <1>2, <2>1, Zenon DEF Requests!IsNumber
    <2> QED  BY <1>3, <2>2, NumberTyped
  <1> QED  BY <1>3, <1>4, <1>5

\* A range header with the bound a, and what stands behind the '-'.
FileRange(value, a, b) ==
  /\ value \in Seq(FileCharacters)
  /\ Len(value) = 3 + Len(a) + Len(b)
  /\ value[1] = "b" /\ value[2] = "="
  /\ \A i \in 1..Len(a) : value[2 + i] = a[i]
  /\ value[3 + Len(a)] = Dash
  /\ \A i \in 1..Len(b) : value[3 + Len(a) + i] = b[i]

LEMMA FileRangeIs ==
  ASSUME NEW a \in FileMarks, NEW b \in Seq(Digits)
  PROVE  FileRange(<<"b", "=">> \o a \o <<Dash>> \o b, a, b)
  <1> DEFINE S == FileCharacters
             x == <<"b", "=">>
             d == <<Dash>>
             u == x \o a
             v == u \o d
             w == v \o b
             k == Len(a)
             m == Len(b)
  <1>1. a \in Seq(Digits) /\ k \in Nat /\ k > 0 /\ m \in Nat
    BY FileMarkIs
  <1>2. Digits \subseteq S /\ "b" \in S /\ "=" \in S /\ Dash \in S
    BY Zenon DEF FileCharacters
  <1> HIDE DEF S
  <1>3. a \in Seq(S) /\ b \in Seq(S)
    BY <1>1, <1>2
  <1>4. x \in Seq(S) /\ Len(x) = 2 /\ x[1] = "b" /\ x[2] = "="
    BY <1>2
  <1>5. d \in Seq(S) /\ Len(d) = 1 /\ d[1] = Dash
    BY <1>2
  <1> HIDE DEF x, d
  <1>6. u \in Seq(S) /\ Joins(u, x, a)
    BY ONLY <1>3, <1>4, JoinedTexts
  <1> HIDE DEF u
  <1>7. v \in Seq(S) /\ Joins(v, u, d)
    BY ONLY <1>5, <1>6, JoinedTexts
  <1> HIDE DEF v
  <1>8. w \in Seq(S) /\ Joins(w, v, b)
    BY ONLY <1>3, <1>7, JoinedTexts
  <1> HIDE DEF w
  <1>9. Len(u) = 2 + k /\ Len(v) = 3 + k /\ Len(w) = 3 + k + m
    BY <1>1, <1>4, <1>5, <1>6, <1>7, <1>8 DEF Joins
  <1>10. w[1] = "b" /\ w[2] = "="
    <2>1. /\ 1 \in 1..Len(x) /\ 2 \in 1..Len(x) /\ 1 \in 1..Len(u) /\ 2 \in 1..Len(u)
          /\ 1 \in 1..Len(v) /\ 2 \in 1..Len(v)
      BY <1>1, <1>4, <1>9
    <2>2. u[1] = "b" /\ u[2] = "="
      BY <1>4, <1>6, <2>1 DEF Joins
    <2>3. v[1] = "b" /\ v[2] = "="
      BY <1>7, <2>1, <2>2 DEF Joins
    <2> QED  BY <1>8, <2>1, <2>3 DEF Joins
  <1>11. \A i \in 1..k : w[2 + i] = a[i]
    <2> TAKE i \in 1..k
    <2>1. 2 + i \in 1..Len(u) /\ 2 + i \in 1..Len(v)
      BY <1>1, <1>9
    <2>2. u[2 + i] = a[i]
      BY <1>4, <1>6 DEF Joins
    <2>3. v[2 + i] = u[2 + i] /\ w[2 + i] = v[2 + i]
      BY <1>7, <1>8, <2>1 DEF Joins
    <2> QED  BY <2>2, <2>3
  <1>12. w[3 + k] = Dash
    <2> DEFINE e == 3 + k
    <2>1. 1 \in 1..Len(d) /\ Len(u) + 1 = e /\ e \in 1..Len(v)
      BY <1>1, <1>5, <1>9
    <2> HIDE DEF e
    <2>2. v[Len(u) + 1] = d[1]
      BY <1>7, <2>1 DEF Joins
    <2>3. w[e] = v[e]
      BY <1>8, <2>1 DEF Joins
    <2>4. w[e] = Dash
      BY <1>5, <2>1, <2>2, <2>3
    <2> QED  BY <2>4 DEF e
  <1>13. \A i \in 1..m : w[3 + k + i] = b[i]
    <2> DEFINE e == 3 + k
    <2>1. Len(v) = e
      BY <1>9
    <2> HIDE DEF e
    <2>2. \A i \in 1..m : w[e + i] = b[i]
      BY <1>8, <2>1 DEF Joins
    <2> QED  BY <2>2 DEF e
  <1>14. FileRange(w, a, b)
    BY <1>8, <1>9, <1>10, <1>11, <1>12, <1>13 DEF FileRange, S
  <1>15. w = <<"b", "=">> \o a \o <<Dash>> \o b
    BY Zenon DEF w, v, u, x, d
  <1> HIDE DEF S, k, m
  <1> QED  BY <1>14, <1>15, Zenon

\* What handle_file_request reads of such a header.
From(value) ==
  IF Wire!Begins(value, 1, <<"b", "=">>) THEN Wire!Scan(value, 3) ELSE [found |-> FALSE, value |-> 0]

To(value) ==
  IF From(value).found /\ Wire!Begins(value, From(value).next, <<"-">>)
    THEN Wire!Scan(value, From(value).next + 1) ELSE [found |-> FALSE, value |-> 0]

LEMMA FromIs ==
  ASSUME NEW value, NEW a \in FileMarks, NEW b \in Seq(Digits), FileRange(value, a, b)
  PROVE  From(value) = Found(Wire!NumberOf(a), 3 + Len(a))
  <1> DEFINE k == Len(a)
             S == FileCharacters
             x == <<"b", "=">>
             t == SubSeq(value, 1, 2)
             n == Len(value)
             e == 3 + k
  <1>1. a \in Seq(Digits) /\ k \in Nat /\ k > 0 /\ Len(b) \in Nat
    BY FileMarkIs
  <1>2. value \in Seq(S) /\ n = e + Len(b)
    BY DEF FileRange
  <1>3. value[1] = "b" /\ value[2] = "=" /\ \A i \in 1..k : value[2 + i] = a[i]
    BY DEF FileRange
  <1>4. value[e] = Dash
    BY Zenon DEF FileRange
  <1>5. n \in Nat /\ n >= e
    BY <1>1, <1>2
  <1> HIDE DEF S, n
  <1>6. t \in Seq(S) /\ Len(t) = 2 /\ t[1] = value[1] /\ t[2] = value[2]
    <2> DEFINE p == 0
               l == 2
    <2>1. p \in Nat /\ l \in Nat /\ p + l <= Len(value) /\ p + 1 = 1 /\ p + l = 2
      BY <1>1, <1>5 DEF n
    <2>2. t = SubSeq(value, p + 1, p + l)
      BY <2>1
    <2> HIDE DEF p, l, t
    <2>3. t \in Seq(S) /\ Len(t) = l /\ \A i \in 1..l : t[i] = value[p + i]
      BY <1>2, <2>1, <2>2, PartOfText
    <2> QED  BY <2>3 DEF p, l
  <1>7. t = x
    <2>1. "b" \in S /\ "=" \in S
      BY Zenon DEF S, FileCharacters
    <2>2. x \in Seq(S) /\ Len(x) = 2 /\ x[1] = "b" /\ x[2] = "="
      BY <2>1
    <2> HIDE DEF x, t
    <2>3. 1..Len(t) = 1..2 /\ \A i \in 1..2 : i = 1 \/ i = 2
      BY <1>6
    <2>4. Len(t) = Len(x) /\ \A i \in 1..Len(t) : t[i] = x[i]
      BY ONLY <1>3, <1>6, <2>2, <2>3
    <2> QED  BY ONLY <1>6, <2>2, <2>4, SameSequence
  <1>8. Wire!Begins(value, 1, x)
    <2> DEFINE last == 1 + Len(x) - 1
    <2>1. last = 2 /\ 2 <= n
      BY <1>1, <1>5
    <2>2. last <= n /\ SubSeq(value, 1, last) = x
      BY <1>7, <2>1
    <2> HIDE DEF x
    <2> QED  BY <2>2, Zenon DEF Wire!Begins, n
  <1>9. NumberAt(value, 3, a)
    <2>1. e <= n + 1 /\ \A j \in 1..k : 3 + j - 1 = 2 + j
      BY <1>1, <1>5
    <2>2. \A j \in 1..k : value[3 + j - 1] = a[j]
      BY <1>3, <2>1
    <2>3. value[e] \notin Digits
      BY <1>4, DigitsAre, Zenon
    <2> HIDE DEF k
    <2> QED  BY <2>1, <2>2, <2>3, Zenon DEF NumberAt, n, e, k
  <1> DEFINE i == 3
  <1>10. i \in 1..(Len(value) + 1)
    BY <1>1, <1>5 DEF n
  <1>11. NumberAt(value, i, a)
    BY <1>9
  <1> HIDE DEF i, k, e
  <1>12. Wire!Scan(value, i) = Found(Wire!NumberOf(a), i + Len(a))
    BY <1>1, <1>2, <1>10, <1>11, ScanReads DEF k
  <1> QED  BY <1>8, <1>12, Zenon DEF From, i

LEMMA ToIs ==
  ASSUME NEW value, NEW a \in FileMarks, NEW b \in Seq(Digits), FileRange(value, a, b)
  PROVE  /\ Len(b) > 0 => To(value) = Found(Wire!NumberOf(b), 4 + Len(a) + Len(b))
         /\ Len(b) = 0 => To(value) = [found |-> FALSE, value |-> 0, next |-> 4 + Len(a)]
  <1> DEFINE k == Len(a)
             m == Len(b)
             S == FileCharacters
             n == Len(value)
             e == 3 + k
             i == 4 + k
  <1>1. k \in Nat /\ k > 0 /\ m \in Nat
    BY FileMarkIs
  <1>2. value \in Seq(S) /\ n = e + m /\ value[e] = Dash /\ \A j \in 1..m : value[e + j] = b[j]
    BY DEF FileRange
  <1>3. n \in Nat /\ e \in 1..(n + 1) /\ e # n + 1 /\ i \in 1..(n + 1) /\ e + 1 = i
        /\ \A j \in 1..m : i + j - 1 = e + j
    BY <1>1, <1>2
  <1>4. i + m = n + 1
    BY <1>1, <1>2
  <1>5. From(value).found = TRUE /\ From(value).next = e
    BY FromIs DEF Found
  <1> HIDE DEF S, n, e, i, m
  <1>6. Wire!Begins(value, e, <<Dash>>)
    BY <1>2, <1>3, OneBegins DEF n
  <1>7. To(value) = Wire!Scan(value, i)
    <2>1. To(value) = Wire!Scan(value, From(value).next + 1)
      BY <1>5, <1>6, Zenon DEF To, Dash
    <2> QED  BY <1>3, <1>5, <2>1
  <1>8. ASSUME m > 0
        PROVE  Wire!Scan(value, i) = Found(Wire!NumberOf(b), i + m)
    <2>1. \A j \in 1..m : value[i + j - 1] = b[j]
      BY <1>2, <1>3
    <2>2. NumberAt(value, i, b)
      BY <1>3, <1>4, <2>1 DEF NumberAt, n, m
    <2> QED  BY <1>2, <1>3, <1>8, <2>2, ScanReads DEF n, m
  <1>9. ASSUME m = 0
        PROVE  Wire!Scan(value, i) = [found |-> FALSE, value |-> 0, next |-> i]
    <2>1. i = n + 1
      BY <1>3, <1>4, <1>9
    <2> QED  BY <1>2, <2>1, ScanNothing DEF n
  <1> QED  BY <1>7, <1>8, <1>9 DEF i, m

\* The figures of the reply to a file of size bytes, by what was read of the header.
FileFigures(from, to, size) ==
  LET partial == from.found /\ from.value >= 0 /\ to.value > 0
      length == IF partial THEN Wire!Min({to.value, size}) - from.value + 1 ELSE size
      start == Wire!Max({from.value, 0})
  IN  [status |-> IF partial THEN 206 ELSE 200, length |-> length, start |-> start,
       sent |-> Wire!Max({0, Wire!Min({length, size - start})})]

LEMMA FileReplyIs ==
  ASSUME NEW value, NEW size
  PROVE  Wire!FileReply(value, size) = FileFigures(From(value), To(value), size)
  BY Zenon DEF Wire!FileReply, FileFigures, From, To

\* What they are with an end, and without one.
BothBounds(reply, start, end, size) ==
  LET behind == Wire!Max({0, Wire!Min({end, size - 1}) - start + 1})
  IN  /\ reply.status = 206 /\ reply.start = start /\ reply.sent = behind
      /\ reply.length = IF end >= size THEN behind + 1 ELSE behind

FirstBound(reply, start, size) ==
  reply = [status |-> 200, length |-> size, start |-> start, sent |-> size - start]

LEMMA FiguresWithEnd ==
  ASSUME NEW from, NEW to, NEW size \in Nat, from.found = TRUE, from.value \in Nat, to.value \in Nat,
         from.value <= to.value, to.value # 0, from.value < size
  PROVE  BothBounds(FileFigures(from, to, size), from.value, to.value, size)
  <1> DEFINE s == from.value
             e == to.value
             partial == from.found /\ s >= 0 /\ e > 0
             least == Wire!Min({e, size})
             length == IF partial THEN least - s + 1 ELSE size
             start == Wire!Max({s, 0})
             rest == size - start
             there == Wire!Min({length, rest})
             sent == Wire!Max({0, there})
             inner == Wire!Min({e, size - 1}) - s + 1
             behind == Wire!Max({0, inner})
             reply == [status |-> IF partial THEN 206 ELSE 200, length |-> length, start |-> start,
                       sent |-> sent]
  <1>1. FileFigures(from, to, size) = reply
    BY Zenon DEF FileFigures
  <1>2. partial
    OBVIOUS
  <1> HIDE DEF partial, s, e
  <1>3. s \in Nat /\ e \in Nat /\ s <= e /\ e # 0 /\ s < size
    BY DEF s, e
  <1>4. size \in Int /\ size - 1 \in Int /\ s \in Int /\ e \in Int /\ 0 \in Int
    BY <1>3
  <1>5. least = IF e <= size THEN e ELSE size
    BY <1>4, OfTwo
  <1>6. start = s
    <2>1. start = IF s <= 0 THEN 0 ELSE s
      BY <1>4, OfTwo
    <2> QED  BY <1>3, <2>1
  <1> HIDE DEF least, start
  <1>7. length = least - s + 1 /\ rest = size - s
    BY <1>2, <1>6
  <1>8. length \in Int /\ rest \in Int /\ length > 0 /\ rest > 0
    BY ONLY <1>3, <1>5, <1>7, size \in Nat
  <1> HIDE DEF length, rest
  <1>9. there = IF length <= rest THEN length ELSE rest
    BY <1>8, OfTwo
  <1>10. there \in Int /\ there > 0
    BY ONLY <1>8, <1>9
  <1> HIDE DEF there
  <1>11. sent = there
    <2>1. sent = IF 0 <= there THEN there ELSE 0
      BY <1>4, <1>10, OfTwo
    <2> QED  BY <1>10, <2>1
  <1>12. inner = (IF e <= size - 1 THEN e ELSE size - 1) - s + 1
    BY <1>4, OfTwo
  <1>13. inner \in Int /\ inner > 0
    BY ONLY <1>3, <1>12, size \in Nat
  <1> HIDE DEF inner
  <1>14. behind = inner
    <2>1. behind = IF 0 <= inner THEN inner ELSE 0
      BY <1>4, <1>13, OfTwo
    <2> QED  BY <1>13, <2>1
  <1> HIDE DEF sent, behind
  <1>15. sent = behind /\ length = IF e >= size THEN behind + 1 ELSE behind
    BY ONLY <1>3, <1>5, <1>7, <1>9, <1>11, <1>12, <1>14, size \in Nat
  <1>16. reply.status = 206 /\ reply.start = s /\ reply.sent = behind
         /\ reply.length = IF e >= size THEN behind + 1 ELSE behind
    BY <1>2, <1>6, <1>15
  <1> HIDE DEF reply
  <1> QED  BY <1>1, <1>16, Zenon DEF BothBounds, s, e, behind, inner

LEMMA FiguresWithoutEnd ==
  ASSUME NEW from, NEW to, NEW size \in Nat, from.found = TRUE, from.value \in Nat, to.value = 0,
         from.value < size
  PROVE  FirstBound(FileFigures(from, to, size), from.value, size)
  <1> DEFINE s == from.value
             partial == from.found /\ s >= 0 /\ to.value > 0
             length == IF partial THEN Wire!Min({to.value, size}) - s + 1 ELSE size
             start == Wire!Max({s, 0})
             rest == size - start
             there == Wire!Min({length, rest})
             sent == Wire!Max({0, there})
             status == IF partial THEN 206 ELSE 200
  <1>1. FileFigures(from, to, size)
          = [status |-> status, length |-> length, start |-> start, sent |-> sent]
    BY Zenon DEF FileFigures
  <1>2. ~partial
    OBVIOUS
  <1> HIDE DEF partial, s
  <1>3. s \in Nat /\ s < size /\ s \in Int /\ 0 \in Int
    BY DEF s
  <1>4. status = 200 /\ length = size
    BY <1>2
  <1> HIDE DEF status, length
  <1>5. start = s
    <2>1. start = IF s <= 0 THEN 0 ELSE s
      BY <1>3, OfTwo
    <2> QED  BY <1>3, <2>1
  <1> HIDE DEF start
  <1>6. rest = size - s /\ rest \in Int /\ rest > 0 /\ length \in Int /\ rest <= length
    BY ONLY <1>3, <1>4, <1>5, size \in Nat DEF rest
  <1> HIDE DEF rest
  <1>7. there = rest
    <2>1. there = IF length <= rest THEN length ELSE rest
      BY <1>6, OfTwo
    <2> QED  BY <1>6, <2>1
  <1> HIDE DEF there
  <1>8. sent = rest
    <2>1. there \in Int
      BY <1>6, <1>7
    <2>2. sent = IF 0 <= there THEN there ELSE 0
      BY <1>3, <2>1, OfTwo
    <2> QED  BY <1>6, <1>7, <2>2
  <1> HIDE DEF sent
  <1> QED  BY <1>1, <1>4, <1>5, <1>6, <1>8 DEF FirstBound, s

\* The reply that mongoose itself makes to a range with two bounds has the bytes of it that
\* there are; it announces one more when the range ends behind the file. One without an end
\* is answered with the length of the whole file (handle_file_request, mongoose.c).
THEOREM FallbackFigures ==
  ASSUME NEW value, NEW size \in Nat
  PROVE  Wire!FileFiguresAgree(value, size)
  <1> DEFINE reply == Wire!FileReply(value, size)
             closed(r, a, b) ==
               value = <<"b", "=">> \o a \o <<"-">> \o b /\ Wire!NumberOf(a) <= Wire!NumberOf(b)
                 /\ Wire!NumberOf(b) # 0 /\ Wire!NumberOf(a) < size
                 => BothBounds(r, Wire!NumberOf(a), Wire!NumberOf(b), size)
             unbounded(r, a) ==
               value = <<"b", "=">> \o a \o <<"-">> /\ Wire!NumberOf(a) < size
                 => FirstBound(r, Wire!NumberOf(a), size)
  <1>1. reply = FileFigures(From(value), To(value), size)
    BY FileReplyIs
  <1>2. ASSUME NEW a \in FileMarks, NEW b \in FileMarks
        PROVE  closed(reply, a, b)
    <2> DEFINE start == Wire!NumberOf(a)
               end == Wire!NumberOf(b)
               from == From(value)
               to == To(value)
    <2> SUFFICES ASSUME value = <<"b", "=">> \o a \o <<"-">> \o b, start <= end, end # 0, start < size
                 PROVE  BothBounds(reply, start, end, size)
      BY Zenon
    <2>1. b \in Seq(Digits) /\ Len(b) > 0 /\ start \in Nat /\ end \in Nat
      BY FileMarkIs
    <2>2. FileRange(value, a, b)
      <3>1. value = <<"b", "=">> \o a \o <<Dash>> \o b
        BY Zenon DEF Dash
      <3> QED  BY <2>1, <3>1, FileRangeIs
    <2>3. from = Found(start, 3 + Len(a)) /\ to = Found(end, 4 + Len(a) + Len(b))
      BY <2>1, <2>2, FromIs, ToIs
    <2>4. from.found = TRUE /\ from.value = start /\ to.value = end
      BY <2>3 DEF Found
    <2>5. reply = FileFigures(from, to, size)
      BY <1>1
    <2> HIDE DEF reply, start, end, from, to
    <2>6. /\ from.value \in Nat /\ to.value \in Nat /\ from.value <= to.value
          /\ to.value # 0 /\ from.value < size
      BY <2>1, <2>4
    <2>7. BothBounds(FileFigures(from, to, size), from.value, to.value, size)
      BY <2>4, <2>6, FiguresWithEnd
    <2> QED  BY <2>4, <2>5, <2>7, Zenon
  <1>3. ASSUME NEW a \in FileMarks
        PROVE  unbounded(reply, a)
    <2> DEFINE start == Wire!NumberOf(a)
               from == From(value)
               to == To(value)
               b == <<>>
    <2> SUFFICES ASSUME value = <<"b", "=">> \o a \o <<"-">>, start < size
                 PROVE  FirstBound(reply, start, size)
      BY Zenon
    <2>1. b \in Seq(Digits) /\ Len(b) = 0 /\ start \in Nat
      BY FileMarkIs
    <2>2. value = (<<"b", "=">> \o a \o <<Dash>>) \o b
      <3>1. value = <<"b", "=">> \o a \o <<Dash>>
        BY Zenon DEF Dash
      <3> DEFINE S == FileCharacters
                 x == <<"b", "=">>
                 d == <<Dash>>
      <3>2. a \in Seq(Digits)
        BY FileMarkIs
      <3>3. Digits \subseteq S /\ "b" \in S /\ "=" \in S /\ Dash \in S
        BY Zenon DEF FileCharacters
      <3> HIDE DEF S
      <3>4. a \in Seq(S) /\ x \in Seq(S) /\ d \in Seq(S)
        BY <3>2, <3>3
      <3> HIDE DEF x, d
      <3>5. (x \o a) \o d = ((x \o a) \o d) \o <<>>
        <4> DEFINE u == (x \o a) \o d
        <4>1. u \in Seq(S)
          BY <3>4
        <4> HIDE DEF u
        <4>2. u = u \o <<>>
          BY <4>1
        <4> QED  BY <4>2 DEF u
      <3> QED  BY <3>1, <3>5, Zenon DEF x, d
    <2> HIDE DEF b
    <2>3. FileRange(value, a, b)
      BY <2>1, <2>2, FileRangeIs
    <2>4. from = Found(start, 3 + Len(a)) /\ to = [found |-> FALSE, value |-> 0, next |-> 4 + Len(a)]
      BY <2>1, <2>3, FromIs, ToIs
    <2>5. from.found = TRUE /\ from.value = start /\ to.value = 0
      BY <2>4 DEF Found
    <2>6. reply = FileFigures(from, to, size)
      BY <1>1
    <2> HIDE DEF reply, start, from, to
    <2>7. from.value \in Nat /\ from.value < size
      BY <2>1, <2>5
    <2>8. FirstBound(FileFigures(from, to, size), from.value, size)
      BY <2>5, <2>7, FiguresWithoutEnd
    <2> QED  BY <2>5, <2>6, <2>8, Zenon
  <1> HIDE DEF closed, unbounded
  <1>4. /\ \A a \in FileMarks : \A b \in FileMarks : closed(reply, a, b)
        /\ \A a \in FileMarks : unbounded(reply, a)
    BY <1>2, <1>3
  <1> HIDE DEF reply
  <1>5. \A r \in {reply}, a \in FileMarks :
          (\A b \in FileMarks : closed(r, a, b)) /\ unbounded(r, a)
    BY <1>4
  <1> QED  BY <1>5, Zenon DEF Wire!FileFiguresAgree, closed, unbounded, FileMarks, reply,
             BothBounds, FirstBound

\* The refusals of mongoose's own handling, for every method and every file (handle_request).
LEMMA FallbackReads == Wire!FallbackReadsOnly
  <1> DEFINE targets == [exists : BOOLEAN, hidden : BOOLEAN, directory : BOOLEAN, slash : BOOLEAN,
                         index : BOOLEAN, kind : {"plain", "cgi", "ssi"},
                         ifNoneMatch : {"etag", "other", "none"},
                         ifModifiedSince : {"early", "late", "none"}]
  <1>1. ASSUME NEW method, NEW target \in targets
        PROVE  ReadsOnly(method, target)
    <2>1. target.directory \in BOOLEAN /\ target.exists \in BOOLEAN
      OBVIOUS
    <2> QED  BY <2>1, FallbackNeverWrites
  <1>2. \A method \in Wire!ValidMethods \ {"CONNECT"} : \A target \in targets : ReadsOnly(method, target)
    BY <1>1
  <1> QED  BY <1>2, Zenon DEF Wire!FallbackReadsOnly, ReadsOnly, targets

\* What the words of the requests, of the sends and of the replies are.
RangeSymbols == Symbols("range") \cup {"b", "="}

RequestsTyped ==
  /\ kind = "range" => word \in Seq(RangeSymbols)
  /\ kind = "name" => word \in Seq(Symbols("name"))
  /\ kind = "sends" => word \in Seq(Symbols("sends"))
  /\ kind = "reply" => word \in Seq(Symbols("reply"))

LEMMA SendsAreNumbers == Symbols("sends") \subseteq Int
  <1>1. Symbols("sends") = {0, 1, 2, 4, -1}
    BY Zenon DEF Symbols
  <1> QED  BY <1>1

LEMMA RepliesAreCalls ==
  ASSUME NEW call \in Symbols("reply")
  PROVE  IsCall(call, {"A", "B"})
  <1>1. Symbols("reply") =
          {[op |-> "add_status", status |-> "ok"], [op |-> "add_header", name |-> "A"],
           [op |-> "add_header", name |-> "B"], [op |-> "add_content"], [op |-> "add_crlf"],
           [op |-> "stock_reply", status |-> "not_found"],
           [op |-> "enable_buf_realocation", state |-> FALSE]}
    BY Zenon DEF Symbols
  <1>2. "ok" \in Replies!Statuses /\ "not_found" \in Replies!Statuses
    BY DEF Replies!Statuses
  <1>3. CASE call = [op |-> "add_status", status |-> "ok"]
    BY <1>2, <1>3 DEF IsCall
  <1>4. CASE call = [op |-> "add_header", name |-> "A"] \/ call = [op |-> "add_header", name |-> "B"]
    BY <1>4 DEF IsCall
  <1>5. CASE call = [op |-> "add_content"] \/ call = [op |-> "add_crlf"]
    BY <1>5 DEF IsCall
  <1>6. CASE call = [op |-> "stock_reply", status |-> "not_found"]
    BY <1>2, <1>6 DEF IsCall
  <1>7. CASE call = [op |-> "enable_buf_realocation", state |-> FALSE]
    BY <1>7 DEF IsCall
  <1> QED  BY <1>1, <1>3, <1>4, <1>5, <1>6, <1>7, Zenon

LEMMA Starting ==
  ASSUME NEW k, NEW w \in Starts(k), k \in {"name", "sends", "reply"}
  PROVE  w = <<>>
  BY DEF Starts

LEMMA TextOfTwo ==
  ASSUME NEW T, NEW a \in T, NEW b \in T
  PROVE  <<a, b>> \in Seq(T)
  OBVIOUS

LEMMA Grown ==
  ASSUME NEW S, NEW w \in Seq(S), NEW symbol \in S
  PROVE  Append(w, symbol) \in Seq(S)
  OBVIOUS

\* What every range, every name of a file, every sequence of sends and every sequence of calls
\* of a reply leads to, however long they are.
THEOREM RequestsAlwaysAnswered == Spec => []RequestsAnswered
<1>1. Init => RequestsTyped
  <2> SUFFICES ASSUME Init PROVE RequestsTyped
    OBVIOUS
  <2>1. word \in Starts(kind)
    BY DEF Init
  <2>2. ASSUME kind = "range"
        PROVE  word \in Seq(RangeSymbols)
    <3>1. Starts("range") = {<<>>, <<"b", "=">>}
      BY Zenon DEF Starts
    <3>2. word = <<>> \/ word = <<"b", "=">>
      BY <2>1, <2>2, <3>1
    <3>3. "b" \in RangeSymbols /\ "=" \in RangeSymbols
      BY DEF RangeSymbols
    <3> HIDE DEF RangeSymbols
    <3>4. \A S : <<>> \in Seq(S)
      OBVIOUS
    <3> QED  BY <3>2, <3>3, <3>4, TextOfTwo
  <2>3. ASSUME kind \in {"name", "sends", "reply"}
        PROVE  word = <<>>
    BY <2>1, <2>3, Starting
  <2>4. \A S : <<>> \in Seq(S)
    OBVIOUS
  <2> QED  BY <2>2, <2>3, <2>4 DEF RequestsTyped
<1>2. RequestsTyped /\ [Next]_<<kind, word, left>> => RequestsTyped'
  <2> SUFFICES ASSUME RequestsTyped, [Next]_<<kind, word, left>> PROVE RequestsTyped'
    OBVIOUS
  <2>1. CASE Grow
    <3>1. kind' = kind /\ \E symbol \in Symbols(kind) : word' = Append(word, symbol)
      BY <2>1 DEF Grow
    <3>2. PICK symbol \in Symbols(kind) : word' = Append(word, symbol)
      BY <3>1
    <3>3. ASSUME kind = "range"
          PROVE  word' \in Seq(RangeSymbols)
      <4>1. symbol \in RangeSymbols /\ word \in Seq(RangeSymbols)
        BY <3>2, <3>3 DEF RangeSymbols, RequestsTyped
      <4> QED  BY <3>2, <4>1, Grown
    <3>4. ASSUME NEW k \in {"name", "sends", "reply"}, kind = k
          PROVE  word' \in Seq(Symbols(k))
      <4>1. symbol \in Symbols(k) /\ word \in Seq(Symbols(k))
        BY <3>2, <3>4 DEF RequestsTyped
      <4> QED  BY <3>2, <4>1, Grown
    <3> HIDE DEF RangeSymbols
    <3> QED  BY <3>1, <3>3, <3>4 DEF RequestsTyped, RangeSymbols
  <2>2. CASE UNCHANGED <<kind, word, left>>
    BY <2>2 DEF RequestsTyped, RangeSymbols
  <2> QED  BY <2>1, <2>2 DEF Next
<1>3. RequestsTyped => RequestsAnswered
  <2> SUFFICES ASSUME RequestsTyped PROVE RequestsAnswered
    OBVIOUS
  <2>1. ASSUME kind = "range"
        PROVE  /\ Requests!BoundsAsWritten(word) /\ Requests!FirstRangeCounts(word)
               /\ \A size \in FileSizes :
                    Requests!FiguresAgree(word, size) /\ Requests!RepliesFor(word, size)
                    /\ Wire!FileFiguresAgree(word, size)
    <3>1. word \in Seq(RangeSymbols)
      BY <2>1 DEF RequestsTyped
    <3>2. FileSizes \subseteq Nat
      BY DEF FileSizes
    <3> HIDE DEF RangeSymbols
    <3>3. ASSUME NEW size \in Nat
          PROVE  Requests!FiguresAgree(word, size) /\ Requests!RepliesFor(word, size)
                 /\ Wire!FileFiguresAgree(word, size)
      BY <3>1, FiguresAlwaysAgree, EveryRequestAnswered, FallbackFigures
    <3> QED  BY <3>2, <3>3, BoundsAlwaysRead, FirstRangeAlwaysCounts
  <2>2. ASSUME kind = "sends"
        PROVE  Wire!WrittenInOrder(word, 4) /\ Wire!FallbackReadsOnly
    <3>1. word \in Seq(Symbols("sends"))
      BY <2>2 DEF RequestsTyped
    <3>2. word \in Seq(Int) /\ 4 \in Nat
      BY <3>1, SendsAreNumbers
    <3> QED  BY <3>2, ChunksAlwaysInOrder, FallbackReads
  <2>3. ASSUME kind = "name"
        PROVE  Requests!FoundAsNamed(word) /\ Requests!DecodersAgree(word)
    <3>1. word \in Seq(Symbols("name"))
      BY <2>3 DEF RequestsTyped
    <3> QED  BY <3>1, FoundAlwaysAsNamed, DecodersAlwaysAgree
  <2>4. ASSUME kind = "reply"
        PROVE  Replies!BuiltInOrder(word) /\ Replies!StockReplyWhole(word)
    <3> DEFINE N == {"A", "B"}
               C == Symbols("reply")
    <3>1. word \in Seq(C)
      BY <2>4 DEF RequestsTyped
    <3>2. Len(word) \in Nat /\ DOMAIN word = 1..Len(word) /\ \A n \in 1..Len(word) : word[n] \in C
      <4> HIDE DEF C
      <4> QED  BY <3>1
    <3> HIDE DEF N
    <3>3. AreCalls(word, N)
      BY <3>2, RepliesAreCalls DEF AreCalls, N
    <3> HIDE DEF C
    <3> QED  BY <3>1, <3>3, MessagesAlwaysBuilt, StockReplyAlwaysWhole
  <2> QED  BY <2>1, <2>2, <2>3, <2>4, Zenon DEF RequestsAnswered
<1> QED  BY <1>1, <1>2, <1>3, PTL DEF Spec
=============================================================================
