------------------------- MODULE RequestParserProofs --------------------------
(***************************************************************************)
(* The request parser, with the inductions of AlgorithmProofs.tla: a       *)
(* request that is written is read as it was written.  Parse takes one     *)
(* step for each character (ParseMore), so that a text behind another is   *)
(* read from the state the first one leads to (ReadMany); each part of a   *)
(* written request leads from one state of the parser to the next, with    *)
(* its field filled in.                                                    *)
(***************************************************************************)
EXTENDS AlgorithmProofs

\* The states of the parser over a word, if f are those before.
ParserStates(text, f) ==
  [n \in 0..Len(text) |->
     IF n = 0 THEN Parsing!Parser
     ELSE CHOOSE s \in {Parsing!Step(before, text[n]) : before \in {f[n - 1]}} : TRUE]

ParsersOver(text) == Parsing!StatesAfter(Parsing!Step, Parsing!Parser, text)

LEMMA ParserStatesExist ==
  ASSUME NEW text, Len(text) \in Nat
  PROVE  \E f : f = ParserStates(text, f)
  <1> DEFINE m == Len(text)
             v(h, n) == IF n = 0 THEN Parsing!Parser ELSE
                          CHOOSE s \in {Parsing!Step(before, text[n]) : before \in {h[n - 1]}} : TRUE
             S == {k \in Nat : \E f : f = [n \in 0..k |-> v(f, n)]}
  <1>1. 0 \in S
    <2> DEFINE f == [n \in 0..0 |-> Parsing!Parser]
    <2>1. f = [n \in 0..0 |-> v(f, n)]
      OBVIOUS
    <2> HIDE DEF v, f
    <2> QED  BY <2>1
  <1>2. ASSUME NEW k \in Nat, k \in S PROVE k + 1 \in S
    <2>1. PICK f : f = [n \in 0..k |-> v(f, n)]
      BY <1>2
    <2> DEFINE g == [n \in 0..(k + 1) |-> v(f, n)]
    <2>2. \A n \in 0..k : g[n] = f[n]
      <3> HIDE DEF v
      <3>1. \A n \in 0..k : n \in 0..(k + 1)
        OBVIOUS
      <3>2. \A n \in 0..k : f[n] = v(f, n)
        BY <2>1
      <3> QED  BY <3>1, <3>2
    <2>3. \A n \in 0..(k + 1) : n # 0 => f[n - 1] = g[n - 1]
      <3> HIDE DEF g, v
      <3>1. \A n \in 0..(k + 1) : n # 0 => n - 1 \in 0..k
        OBVIOUS
      <3> QED  BY <2>2, <3>1
    <2>4. \A n \in 0..(k + 1) : v(f, n) = v(g, n)
      <3> HIDE DEF g
      <3> QED  BY <2>3, Zenon
    <2>5. g = [n \in 0..(k + 1) |-> v(g, n)]
      <3>1. [n \in 0..(k + 1) |-> v(f, n)] = [n \in 0..(k + 1) |-> v(g, n)]
        <4> HIDE DEF g, v
        <4> QED  BY <2>4, Zenon
      <3> QED  BY <3>1, Zenon
    <2> HIDE DEF g, v
    <2> QED  BY <2>5
  <1> HIDE DEF S
  <1>3. Nat \subseteq S
    BY <1>1, <1>2, SetInduction
  <1>4. \E f : f = [n \in 0..m |-> v(f, n)]
    BY <1>3 DEF S
  <1> QED  BY <1>4, Zenon DEF ParserStates

\* The parser begins anew and takes one step for each character.
LEMMA ParserSteps ==
  ASSUME NEW text, Len(text) \in Nat
  PROVE  LET after == ParsersOver(text)
         IN  /\ after[0] = Parsing!Parser
             /\ \A n \in 1..Len(text) : after[n] = Parsing!Step(after[n - 1], text[n])
             /\ Parsing!Parse(text) = after[Len(text)]
  <1> DEFINE m == Len(text)
             a == ParsersOver(text)
             v(f, n) == IF n = 0 THEN Parsing!Parser ELSE
                          CHOOSE s \in {Parsing!Step(before, text[n]) : before \in {f[n - 1]}} : TRUE
  <1>1. a = CHOOSE g : g = ParserStates(text, g)
    BY Zenon DEF ParsersOver, Parsing!StatesAfter, ParserStates
  <1>2. Parsing!Parse(text) = a[m]
    BY Zenon DEF ParsersOver, Parsing!Parse, Parsing!StateAfter
  <1> HIDE DEF a
  <1>3. a = ParserStates(text, a)
    BY ONLY <1>1, ParserStatesExist, Len(text) \in Nat
  <1>4. ParserStates(text, a) = [n \in 0..m |-> v(a, n)]
    BY Zenon DEF ParserStates
  <1>5. \A n : n # 0 => v(a, n) = Parsing!Step(a[n - 1], text[n])
    <2> TAKE n
    <2> HAVE n # 0
    <2> DEFINE y == Parsing!Step(a[n - 1], text[n])
    <2>1. {Parsing!Step(before, text[n]) : before \in {a[n - 1]}} = {y}
      BY Zenon
    <2> HIDE DEF y
    <2>2. (CHOOSE s \in {y} : TRUE) = y
      OBVIOUS
    <2>3. v(a, n) = CHOOSE s \in {Parsing!Step(before, text[n]) : before \in {a[n - 1]}} : TRUE
      BY Zenon
    <2>4. v(a, n) = y
      BY ONLY <2>1, <2>2, <2>3, Zenon
    <2> QED  BY <2>4 DEF y
  <1>6. v(a, 0) = Parsing!Parser
    OBVIOUS
  <1> HIDE DEF v
  <1>7. \A n \in 0..m : a[n] = v(a, n)
    BY ONLY <1>3, <1>4, Zenon
  <1>8. 0 \in 0..m /\ \A n \in 1..m : n # 0 /\ n \in 0..m
    OBVIOUS
  <1>9. a[0] = Parsing!Parser /\ \A n \in 1..m : a[n] = Parsing!Step(a[n - 1], text[n])
    BY <1>5, <1>6, <1>7, <1>8
  <1> QED  BY <1>2, <1>9, Zenon DEF a

LEMMA ParseNothing == Parsing!Parse(<<>>) = Parsing!Parser
  <1> DEFINE text == <<>>
  <1>1. Len(text) = 0 /\ Len(text) \in Nat
    OBVIOUS
  <1> HIDE DEF text
  <1>2. Parsing!Parse(text) = Parsing!Parser
    BY <1>1, ParserSteps
  <1> QED  BY <1>2 DEF text

LEMMA ParseMore ==
  ASSUME NEW S, NEW text \in Seq(S), NEW c \in S
  PROVE  Parsing!Parse(Append(text, c)) = Parsing!Step(Parsing!Parse(text), c)
  <1> DEFINE w == Append(text, c)
             n == Len(text)
             a == ParsersOver(text)
             b == ParsersOver(w)
             A == {k \in Nat : k <= n => a[k] = b[k]}
  <1>1. n \in Nat /\ Len(w) = n + 1 /\ w[n + 1] = c /\ \A i \in 1..n : w[i] = text[i]
    OBVIOUS
  <1> HIDE DEF w
  <1>2. /\ a[0] = Parsing!Parser
        /\ \A i \in 1..n : a[i] = Parsing!Step(a[i - 1], text[i])
        /\ Parsing!Parse(text) = a[n]
    BY <1>1, ParserSteps
  <1> DEFINE l == Len(w)
  <1>3. /\ b[0] = Parsing!Parser
        /\ \A i \in 1..l : b[i] = Parsing!Step(b[i - 1], w[i])
        /\ Parsing!Parse(w) = b[l]
    BY <1>1, ParserSteps
  <1> HIDE DEF a, b, n
  <1>4. l = n + 1
    BY <1>1
  <1> HIDE DEF l
  <1>5. 0 \in A
    BY <1>2, <1>3
  <1>6. ASSUME NEW k \in Nat, k \in A PROVE k + 1 \in A
    <2> DEFINE e == k + 1
    <2> SUFFICES ASSUME e <= n PROVE a[e] = b[e]
      OBVIOUS
    <2>1. e \in 1..n /\ e \in 1..l /\ e - 1 = k /\ k <= n
      BY <1>1, <1>4
    <2> HIDE DEF e
    <2>2. a[k] = b[k] /\ w[e] = text[e]
      BY <1>1, <1>6, <2>1
    <2> QED  BY <1>2, <1>3, <2>1, <2>2
  <1> HIDE DEF A
  <1>7. Nat \subseteq A
    BY <1>5, <1>6, SetInduction
  <1>8. a[n] = b[n]
    BY <1>1, <1>7 DEF A
  <1>9. l \in 1..l /\ l - 1 = n
    BY <1>1, <1>4
  <1>10. b[l] = Parsing!Step(b[n], c)
    BY <1>1, <1>3, <1>4, <1>9
  <1> QED  BY <1>2, <1>3, <1>8, <1>10 DEF w

\* Behind a text another is read, from each character to the next.
LEMMA TextRead ==
  ASSUME NEW S, NEW text \in Seq(S), NEW x \in Seq(S), NEW at, at[0] = Parsing!Parse(text),
         \A i \in 1..Len(x) : Parsing!Step(at[i - 1], x[i]) = at[i]
  PROVE  Parsing!Parse(text \o x) = at[Len(x)]
  <1> DEFINE n == Len(x)
             part(i) == SubSeq(x, 1, i)
             A == {k \in Nat : k <= n => Parsing!Parse(text \o part(k)) = at[k]}
  <1>1. n \in Nat
    OBVIOUS
  <1>2. 0 \in A
    <2>1. part(0) = <<>>
      OBVIOUS
    <2>2. text \o <<>> = text
      BY JoinNothing
    <2> QED  BY <2>1, <2>2
  <1>3. ASSUME NEW k \in Nat, k \in A PROVE k + 1 \in A
    <2> DEFINE e == k + 1
               p == part(k)
               q == part(e)
               c == x[e]
    <2> SUFFICES ASSUME e <= n PROVE Parsing!Parse(text \o q) = at[e]
      OBVIOUS
    <2>1. e \in 1..n /\ e - 1 = k /\ k <= n
      BY <1>1
    <2>2. p \in Seq(S) /\ c \in S /\ q = Append(p, c)
      BY <1>1
    <2> HIDE DEF e, p, q, c
    <2>3. text \o Append(p, c) = Append(text \o p, c) /\ text \o p \in Seq(S)
      <3> DEFINE l == text \o Append(p, c)
                 r == Append(text \o p, c)
      <3>1. l \in Seq(S) /\ r \in Seq(S) /\ Len(l) = Len(r) /\ text \o p \in Seq(S)
        BY <2>2
      <3>2. \A i \in 1..Len(l) : l[i] = r[i]
        BY <2>2
      <3> HIDE DEF l, r
      <3>3. l = r
        BY <3>1, <3>2, SameSequence
      <3> QED  BY <3>1, <3>3 DEF l, r
    <2>4. Parsing!Parse(text \o p) = at[k]
      BY <1>3, <2>1 DEF p
    <2>5. Parsing!Parse(Append(text \o p, c)) = Parsing!Step(at[k], c)
      BY <2>2, <2>3, <2>4, ParseMore
    <2>6. Parsing!Step(at[k], c) = at[e]
      BY <2>1 DEF c
    <2> QED  BY <2>2, <2>3, <2>5, <2>6
  <1> HIDE DEF A
  <1>4. Nat \subseteq A
    BY <1>2, <1>3, SetInduction
  <1>5. part(n) = x
    BY WholeText
  <1> HIDE DEF part
  <1>6. Parsing!Parse(text \o part(n)) = at[n]
    BY <1>1, <1>4 DEF A
  <1> QED  BY <1>5, <1>6

\* A request as far as it was read, and a parser that reads on.
Filled(method, uri, major, minor, headers) ==
  [mtype |-> Parsing!Unset, method |-> method, uri |-> uri, major |-> major, minor |-> minor,
   headers |-> headers]

Reading(state, n, request) == [state |-> state, result |-> "more", consumed |-> n, request |-> request]

LEMMA StepOn ==
  ASSUME NEW s, NEW n, NEW r, NEW c, NEW t, NEW q, Parsing!Consume(Reading(s, n, r), c) = Reading(t, n, q)
  PROVE  Parsing!Step(Reading(s, n, r), c) = Reading(t, n + 1, q)
  <1> DEFINE p == Reading(s, n, r)
             next == [Parsing!Consume(p, c) EXCEPT !.consumed = @ + 1]
  <1>1. Parsing!Step(p, c) = IF p.result # "more" THEN p
                             ELSE IF next.result = "more" THEN next
                             ELSE [next EXCEPT !.request.mtype = Parsing!TypeOfMethod(next.request.method)]
    BY Zenon DEF Parsing!Step
  <1>2. next = Reading(t, n + 1, q)
    BY DEF Reading
  <1>3. p.result = "more" /\ next.result = "more"
    BY <1>2 DEF Reading
  <1> HIDE DEF p, next
  <1> QED  BY <1>1, <1>2, <1>3 DEF p

LEMMA ExpectedStates ==
  DOMAIN Parsing!Expected = {"http_version_h", "http_version_t_1", "http_version_t_2",
    "http_version_p", "http_version_slash", "expecting_newline_1", "expecting_newline_2",
    "expecting_newline_3", "space_before_header_value"}
  BY DEF Parsing!Expected

\* Which handler takes the character.
LEMMA ConsumeCases ==
  ASSUME NEW p, NEW c
  PROVE  /\ p.state \in {"method_start", "method"} => Parsing!Consume(p, c) = Parsing!ConsumeMethod(p, c)
         /\ p.state = "uri" => Parsing!Consume(p, c) = Parsing!ConsumeUri(p, c)
         /\ p.state \in DOMAIN Parsing!Expected => Parsing!Consume(p, c) = Parsing!ConsumeExpected(p, c)
         /\ p.state \in {"http_version_major_start", "http_version_major"} =>
              Parsing!Consume(p, c) = Parsing!ConsumeMajor(p, c)
         /\ p.state \in {"http_version_minor_start", "http_version_minor"} =>
              Parsing!Consume(p, c) = Parsing!ConsumeMinor(p, c)
         /\ p.state = "header_line_start" => Parsing!Consume(p, c) = Parsing!ConsumeLineStart(p, c)
         /\ p.state = "header_name" => Parsing!Consume(p, c) = Parsing!ConsumeName(p, c)
         /\ p.state = "header_lws" => Parsing!Consume(p, c) = Parsing!ConsumeContinuation(p, c)
         /\ p.state = "header_value" => Parsing!Consume(p, c) = Parsing!ConsumeValue(p, c)
  BY ExpectedStates DEF Parsing!Consume

\* What changes in a request changes in its parser.
LEMMA ReadingChanged ==
  ASSUME NEW s, NEW n, NEW r, NEW q
  PROVE  [Reading(s, n, r) EXCEPT !.request = q] = Reading(s, n, q)
  BY DEF Reading

LEMMA RequestOf ==
  ASSUME NEW s, NEW n, NEW r
  PROVE  Reading(s, n, r).state = s /\ Reading(s, n, r).request = r
  BY DEF Reading

LEMMA GoneTo ==
  ASSUME NEW s, NEW n, NEW r, NEW t
  PROVE  Parsing!GoTo(Reading(s, n, r), t) = Reading(t, n, r)
  <1> DEFINE p == Reading(s, n, r)
  <1>1. Parsing!GoTo(p, t) = [p EXCEPT !.state = t]
    BY Zenon DEF Parsing!GoTo
  <1>2. [p EXCEPT !.state = t] = Reading(t, n, r)
    BY DEF Reading
  <1> HIDE DEF p
  <1>3. Parsing!GoTo(p, t) = Reading(t, n, r)
    BY <1>1, <1>2
  <1> QED  BY <1>3 DEF p

LEMMA FilledChanged ==
  ASSUME NEW m, NEW u, NEW a, NEW b, NEW h, NEW x
  PROVE  LET r == Filled(m, u, a, b, h)
         IN  /\ r.method = m /\ r.uri = u /\ r.major = a /\ r.minor = b /\ r.headers = h
             /\ [r EXCEPT !.method = x] = Filled(x, u, a, b, h)
             /\ [r EXCEPT !.uri = x] = Filled(m, x, a, b, h)
             /\ [r EXCEPT !.major = x] = Filled(m, u, x, b, h)
             /\ [r EXCEPT !.minor = x] = Filled(m, u, a, x, h)
             /\ [r EXCEPT !.headers = x] = Filled(m, u, a, b, x)
  BY DEF Filled

\* The request line.
LEMMA MethodReads ==
  ASSUME NEW s \in {"method_start", "method"}, NEW n, NEW m, NEW u, NEW a, NEW b, NEW h, NEW c,
         Parsing!IsToken(c)
  PROVE  Parsing!Step(Reading(s, n, Filled(m, u, a, b, h)), c)
           = Reading("method", n + 1, Filled(Append(m, c), u, a, b, h))
  <1> DEFINE p == Reading(s, n, Filled(m, u, a, b, h))
  <1>1. p.state = s
    BY DEF Reading
  <1>2. c # Parsing!Space
    BY DEF Parsing!IsToken, Parsing!IsSpecial
  <1>3. Parsing!ConsumeMethod(p, c) = [Parsing!GoTo(p, "method") EXCEPT !.request.method = Append(@, c)]
    BY <1>2, Zenon DEF Parsing!ConsumeMethod
  <1>4. [Parsing!GoTo(p, "method") EXCEPT !.request.method = Append(@, c)]
          = Reading("method", n, Filled(Append(m, c), u, a, b, h))
    <2> DEFINE r == Filled(m, u, a, b, h)
               q == Reading("method", n, r)
    <2>1. Parsing!GoTo(p, "method") = q
      BY GoneTo
    <2> HIDE DEF q, p
    <2>2. [q EXCEPT !.request.method = Append(@, c)]
            = [q EXCEPT !.request = [q.request EXCEPT !.method = Append(@, c)]]
      OBVIOUS
    <2>3. q.request = r
      BY RequestOf DEF q
    <2> HIDE DEF r
    <2>4. [r EXCEPT !.method = Append(@, c)] = Filled(Append(m, c), u, a, b, h)
      <3>1. [r EXCEPT !.method = Append(@, c)] = [r EXCEPT !.method = Append(r.method, c)]
        BY Zenon
      <3>2. r.method = m
        BY FilledChanged DEF r
      <3> DEFINE x == Append(m, c)
      <3>3. [r EXCEPT !.method = x] = Filled(x, u, a, b, h)
        <4> HIDE DEF x
        <4> QED  BY FilledChanged DEF r
      <3> QED  BY <3>1, <3>2, <3>3
    <2>5. [q EXCEPT !.request = Filled(Append(m, c), u, a, b, h)]
            = Reading("method", n, Filled(Append(m, c), u, a, b, h))
      BY ReadingChanged DEF q
    <2> QED  BY <2>1, <2>2, <2>3, <2>4, <2>5
  <1>5. Parsing!Consume(p, c) = Parsing!ConsumeMethod(p, c)
    BY <1>1, ConsumeCases
  <1> HIDE DEF p
  <1>6. Parsing!Consume(p, c) = Reading("method", n, Filled(Append(m, c), u, a, b, h))
    BY <1>3, <1>4, <1>5
  <1> QED  BY <1>6, StepOn DEF p

LEMMA MethodEnds ==
  ASSUME NEW n, NEW r
  PROVE  Parsing!Step(Reading("method", n, r), Parsing!Space) = Reading("uri", n + 1, r)
  <1> DEFINE p == Reading("method", n, r)
             c == Parsing!Space
  <1>1. p.state = "method"
    BY DEF Reading
  <1>2. Parsing!ConsumeMethod(p, c) = Parsing!GoTo(p, "uri")
    BY <1>1, Zenon DEF Parsing!ConsumeMethod
  <1>3. Parsing!GoTo(p, "uri") = Reading("uri", n, r)
    BY DEF Parsing!GoTo, Reading
  <1>4. Parsing!Consume(p, c) = Reading("uri", n, r)
    BY <1>1, <1>2, <1>3, ConsumeCases
  <1> HIDE DEF c
  <1> QED  BY <1>4, StepOn DEF c

LEMMA UriReads ==
  ASSUME NEW n, NEW m, NEW u, NEW a, NEW b, NEW h, NEW c,
         c # Parsing!Space, ~Parsing!IsCtl(c)
  PROVE  Parsing!Step(Reading("uri", n, Filled(m, u, a, b, h)), c)
           = Reading("uri", n + 1, Filled(m, Append(u, c), a, b, h))
  <1> DEFINE p == Reading("uri", n, Filled(m, u, a, b, h))
  <1>1. p.state = "uri"
    BY DEF Reading
  <1>2. Parsing!ConsumeUri(p, c) = [p EXCEPT !.request.uri = Append(@, c)]
    BY Zenon DEF Parsing!ConsumeUri
  <1>3. [p EXCEPT !.request.uri = Append(@, c)] = Reading("uri", n, Filled(m, Append(u, c), a, b, h))
    <2> DEFINE r == Filled(m, u, a, b, h)
    <2> HIDE DEF p
    <2>1. [p EXCEPT !.request.uri = Append(@, c)]
            = [p EXCEPT !.request = [p.request EXCEPT !.uri = Append(@, c)]]
      OBVIOUS
    <2>2. p.request = r
      BY RequestOf DEF p
    <2> HIDE DEF r
    <2>3. [r EXCEPT !.uri = Append(@, c)] = Filled(m, Append(u, c), a, b, h)
      <3>1. [r EXCEPT !.uri = Append(@, c)] = [r EXCEPT !.uri = Append(r.uri, c)]
        BY Zenon
      <3>2. r.uri = u
        BY FilledChanged DEF r
      <3> DEFINE x == Append(u, c)
      <3>3. [r EXCEPT !.uri = x] = Filled(m, x, a, b, h)
        <4> HIDE DEF x
        <4> QED  BY FilledChanged DEF r
      <3> QED  BY <3>1, <3>2, <3>3
    <2>4. [p EXCEPT !.request = Filled(m, Append(u, c), a, b, h)]
            = Reading("uri", n, Filled(m, Append(u, c), a, b, h))
      BY ReadingChanged DEF p
    <2> QED  BY <2>1, <2>2, <2>3, <2>4
  <1>4. Parsing!Consume(p, c) = Parsing!ConsumeUri(p, c)
    BY <1>1, ConsumeCases
  <1> HIDE DEF p
  <1>5. Parsing!Consume(p, c) = Reading("uri", n, Filled(m, Append(u, c), a, b, h))
    BY <1>2, <1>3, <1>4
  <1> QED  BY <1>5, StepOn DEF p

LEMMA UriEnds ==
  ASSUME NEW n, NEW r
  PROVE  Parsing!Step(Reading("uri", n, r), Parsing!Space) = Reading("http_version_h", n + 1, r)
  <1> DEFINE p == Reading("uri", n, r)
             c == Parsing!Space
  <1>1. p.state = "uri"
    BY DEF Reading
  <1>2. Parsing!ConsumeUri(p, c) = Parsing!GoTo(p, "http_version_h")
    BY Zenon DEF Parsing!ConsumeUri
  <1>3. Parsing!GoTo(p, "http_version_h") = Reading("http_version_h", n, r)
    BY DEF Parsing!GoTo, Reading
  <1>4. Parsing!Consume(p, c) = Reading("http_version_h", n, r)
    BY <1>1, <1>2, <1>3, ConsumeCases
  <1> HIDE DEF c
  <1> QED  BY <1>4, StepOn DEF c

\* The characters that are waited for.
LEMMA ExpectedReads ==
  ASSUME NEW s \in DOMAIN Parsing!Expected, s # "expecting_newline_3", s # "http_version_slash",
         NEW n, NEW r
  PROVE  Parsing!Step(Reading(s, n, r), Parsing!Expected[s]) = Reading(Parsing!After[s], n + 1, r)
  <1> DEFINE p == Reading(s, n, r)
             c == Parsing!Expected[s]
             t == Parsing!After[s]
  <1>1. p.state = s
    BY DEF Reading
  <1>2. Parsing!ConsumeExpected(p, c) = Parsing!GoTo(p, t)
    BY <1>1, Zenon DEF Parsing!ConsumeExpected
  <1>3. Parsing!GoTo(p, t) = Reading(t, n, r)
    BY DEF Parsing!GoTo, Reading
  <1>4. Parsing!Consume(p, c) = Reading(t, n, r)
    BY <1>1, <1>2, <1>3, ConsumeCases
  <1> HIDE DEF c, t
  <1>5. Parsing!Step(Reading(s, n, r), c) = Reading(t, n + 1, r)
    BY <1>4, StepOn
  <1> QED  BY <1>5 DEF c, t

LEMMA SlashReads ==
  ASSUME NEW n, NEW m, NEW u, NEW a, NEW b, NEW h
  PROVE  Parsing!Step(Reading("http_version_slash", n, Filled(m, u, a, b, h)), "/")
           = Reading("http_version_major_start", n + 1, Filled(m, u, 0, 0, h))
  <1> DEFINE s == "http_version_slash"
             p == Reading(s, n, Filled(m, u, a, b, h))
             t == "http_version_major_start"
  <1>1. p.state = s
    BY DEF Reading
  <1>2. Parsing!Expected[s] = "/" /\ Parsing!After[s] = t /\ s # "expecting_newline_3"
    BY DEF Parsing!Expected, Parsing!After
  <1>3. Parsing!ConsumeExpected(p, "/")
          = [Parsing!GoTo(p, t) EXCEPT !.request.major = 0, !.request.minor = 0]
    <2> HIDE DEF s, t, p
    <2>1. s = "http_version_slash"
      BY DEF s
    <2> QED  BY <1>1, <1>2, <2>1, Zenon DEF Parsing!ConsumeExpected
  <1>4. [Parsing!GoTo(p, t) EXCEPT !.request.major = 0, !.request.minor = 0]
          = Reading(t, n, Filled(m, u, 0, 0, h))
    <2> DEFINE r == Filled(m, u, a, b, h)
               q == Reading(t, n, r)
               d == [q EXCEPT !.request.major = 0]
    <2>1. Parsing!GoTo(p, t) = q
      BY GoneTo
    <2> HIDE DEF p, q
    <2>2. d = [q EXCEPT !.request = [q.request EXCEPT !.major = 0]]
      OBVIOUS
    <2>3. q.request = r /\ [r EXCEPT !.major = 0] = Filled(m, u, 0, b, h)
      BY RequestOf, FilledChanged DEF q
    <2> HIDE DEF r
    <2>4. d = Reading(t, n, Filled(m, u, 0, b, h))
      BY <2>2, <2>3, ReadingChanged DEF q
    <2>5. [q EXCEPT !.request.major = 0, !.request.minor = 0] = [d EXCEPT !.request.minor = 0]
      BY Zenon
    <2> HIDE DEF d
    <2>6. [d EXCEPT !.request.minor = 0] = [d EXCEPT !.request = [d.request EXCEPT !.minor = 0]]
      OBVIOUS
    <2>7. d.request = Filled(m, u, 0, b, h)
      BY <2>4, RequestOf
    <2>8. [d.request EXCEPT !.minor = 0] = Filled(m, u, 0, 0, h)
      BY <2>7, FilledChanged
    <2>9. [d EXCEPT !.request = Filled(m, u, 0, 0, h)] = Reading(t, n, Filled(m, u, 0, 0, h))
      BY <2>4, ReadingChanged
    <2> QED  BY <2>1, <2>5, <2>6, <2>8, <2>9
  <1>5. Parsing!Consume(p, "/") = Parsing!ConsumeExpected(p, "/")
    BY <1>1, ConsumeCases, ExpectedStates
  <1> HIDE DEF p
  <1>6. Parsing!Consume(p, "/") = Reading(t, n, Filled(m, u, 0, 0, h))
    BY <1>3, <1>4, <1>5
  <1> QED  BY <1>6, StepOn DEF p

\* The numbers of the version.
LEMMA MajorReads ==
  ASSUME NEW s \in {"http_version_major_start", "http_version_major"}, NEW n, NEW m, NEW u, NEW a,
         NEW b, NEW h, NEW c \in DOMAIN Parsing!DigitValue
  PROVE  Parsing!Step(Reading(s, n, Filled(m, u, a, b, h)), c)
           = Reading("http_version_major", n + 1, Filled(m, u, a * 10 + Parsing!DigitValue[c], b, h))
  <1> DEFINE r == Filled(m, u, a, b, h)
             p == Reading(s, n, r)
             t == "http_version_major"
             q == Reading(t, n, r)
             x == a * 10 + Parsing!DigitValue[c]
  <1>1. p.state = s
    BY DEF Reading
  <1>2. Parsing!ConsumeMajor(p, c)
          = [Parsing!GoTo(p, t) EXCEPT !.request.major = @ * 10 + Parsing!DigitValue[c]]
    <2>1. Parsing!IsDigit(c)
      BY DEF Parsing!IsDigit
    <2> QED  BY <2>1, Zenon DEF Parsing!ConsumeMajor
  <1>3. Parsing!GoTo(p, t) = q
    BY GoneTo
  <1> HIDE DEF p, q
  <1>4. [q EXCEPT !.request.major = @ * 10 + Parsing!DigitValue[c]]
          = [q EXCEPT !.request = [q.request EXCEPT !.major = @ * 10 + Parsing!DigitValue[c]]]
    OBVIOUS
  <1>5. q.request = r
    BY RequestOf DEF q
  <1> HIDE DEF r
  <1>6. [r EXCEPT !.major = @ * 10 + Parsing!DigitValue[c]] = Filled(m, u, x, b, h)
    <2>1. [r EXCEPT !.major = @ * 10 + Parsing!DigitValue[c]]
            = [r EXCEPT !.major = r.major * 10 + Parsing!DigitValue[c]]
      BY Zenon
    <2>2. r.major = a
      BY FilledChanged DEF r
    <2>3. [r EXCEPT !.major = x] = Filled(m, u, x, b, h)
      <3> HIDE DEF x
      <3> QED  BY FilledChanged DEF r
    <2> QED  BY <2>1, <2>2, <2>3
  <1> HIDE DEF x
  <1>7. [q EXCEPT !.request = Filled(m, u, x, b, h)] = Reading(t, n, Filled(m, u, x, b, h))
    BY ReadingChanged DEF q
  <1>8. Parsing!Consume(p, c) = Reading(t, n, Filled(m, u, x, b, h))
    BY <1>1, <1>2, <1>3, <1>4, <1>5, <1>6, <1>7, ConsumeCases
  <1> QED  BY <1>8, StepOn DEF p, r, x

LEMMA MajorEnds ==
  ASSUME NEW n, NEW r
  PROVE  Parsing!Step(Reading("http_version_major", n, r), ".")
           = Reading("http_version_minor_start", n + 1, r)
  <1> DEFINE p == Reading("http_version_major", n, r)
             c == "."
             t == "http_version_minor_start"
  <1>1. p.state = "http_version_major"
    BY DEF Reading
  <1>2. ~Parsing!IsDigit(c)
    BY DEF Parsing!IsDigit, Parsing!DigitValue
  <1>3. Parsing!ConsumeMajor(p, c) = Parsing!GoTo(p, t)
    BY <1>1, <1>2, Zenon DEF Parsing!ConsumeMajor
  <1>4. Parsing!Consume(p, c) = Reading(t, n, r)
    BY <1>1, <1>3, ConsumeCases, GoneTo
  <1> HIDE DEF c
  <1> QED  BY <1>4, StepOn DEF c

LEMMA MinorReads ==
  ASSUME NEW s \in {"http_version_minor_start", "http_version_minor"}, NEW n, NEW m, NEW u, NEW a,
         NEW b, NEW h, NEW c \in DOMAIN Parsing!DigitValue
  PROVE  Parsing!Step(Reading(s, n, Filled(m, u, a, b, h)), c)
           = Reading("http_version_minor", n + 1, Filled(m, u, a, b * 10 + Parsing!DigitValue[c], h))
  <1> DEFINE r == Filled(m, u, a, b, h)
             p == Reading(s, n, r)
             t == "http_version_minor"
             q == Reading(t, n, r)
             x == b * 10 + Parsing!DigitValue[c]
  <1>1. p.state = s
    BY DEF Reading
  <1>2. Parsing!ConsumeMinor(p, c)
          = [Parsing!GoTo(p, t) EXCEPT !.request.minor = @ * 10 + Parsing!DigitValue[c]]
    <2>1. Parsing!IsDigit(c)
      BY DEF Parsing!IsDigit
    <2> QED  BY <2>1, Zenon DEF Parsing!ConsumeMinor
  <1>3. Parsing!GoTo(p, t) = q
    BY GoneTo
  <1> HIDE DEF p, q
  <1>4. [q EXCEPT !.request.minor = @ * 10 + Parsing!DigitValue[c]]
          = [q EXCEPT !.request = [q.request EXCEPT !.minor = @ * 10 + Parsing!DigitValue[c]]]
    OBVIOUS
  <1>5. q.request = r
    BY RequestOf DEF q
  <1> HIDE DEF r
  <1>6. [r EXCEPT !.minor = @ * 10 + Parsing!DigitValue[c]] = Filled(m, u, a, x, h)
    <2>1. [r EXCEPT !.minor = @ * 10 + Parsing!DigitValue[c]]
            = [r EXCEPT !.minor = r.minor * 10 + Parsing!DigitValue[c]]
      BY Zenon
    <2>2. r.minor = b
      BY FilledChanged DEF r
    <2>3. [r EXCEPT !.minor = x] = Filled(m, u, a, x, h)
      <3> HIDE DEF x
      <3> QED  BY FilledChanged DEF r
    <2> QED  BY <2>1, <2>2, <2>3
  <1> HIDE DEF x
  <1>7. [q EXCEPT !.request = Filled(m, u, a, x, h)] = Reading(t, n, Filled(m, u, a, x, h))
    BY ReadingChanged DEF q
  <1>8. Parsing!Consume(p, c) = Reading(t, n, Filled(m, u, a, x, h))
    BY <1>1, <1>2, <1>3, <1>4, <1>5, <1>6, <1>7, ConsumeCases
  <1> QED  BY <1>8, StepOn DEF p, r, x

LEMMA MinorEnds ==
  ASSUME NEW n, NEW r
  PROVE  Parsing!Step(Reading("http_version_minor", n, r), Parsing!CR)
           = Reading("expecting_newline_1", n + 1, r)
  <1> DEFINE p == Reading("http_version_minor", n, r)
             c == Parsing!CR
             t == "expecting_newline_1"
  <1>1. p.state = "http_version_minor"
    BY DEF Reading
  <1>2. ~Parsing!IsDigit(c)
    BY DEF Parsing!IsDigit, Parsing!DigitValue, Parsing!CR
  <1>3. Parsing!ConsumeMinor(p, c) = Parsing!GoTo(p, t)
    BY <1>1, <1>2, Zenon DEF Parsing!ConsumeMinor
  <1>4. Parsing!Consume(p, c) = Reading(t, n, r)
    BY <1>1, <1>3, ConsumeCases, GoneTo
  <1> HIDE DEF c
  <1> QED  BY <1>4, StepOn DEF c

\* The headers.
Header(name, value) == [name |-> name, value |-> value]

LEMMA HeadersEnd ==
  ASSUME NEW n, NEW r
  PROVE  Parsing!Step(Reading("header_line_start", n, r), Parsing!CR)
           = Reading("expecting_newline_3", n + 1, r)
  <1> DEFINE p == Reading("header_line_start", n, r)
             c == Parsing!CR
             t == "expecting_newline_3"
  <1>1. p.state = "header_line_start"
    BY DEF Reading
  <1>2. Parsing!ConsumeLineStart(p, c) = Parsing!GoTo(p, t)
    BY Zenon DEF Parsing!ConsumeLineStart
  <1>3. Parsing!Consume(p, c) = Reading(t, n, r)
    BY <1>1, <1>2, ConsumeCases, GoneTo
  <1> HIDE DEF c
  <1> QED  BY <1>3, StepOn DEF c

LEMMA NameBegins ==
  ASSUME NEW n, NEW m, NEW u, NEW a, NEW b, NEW h, NEW c, Parsing!IsToken(c)
  PROVE  Parsing!Step(Reading("header_line_start", n, Filled(m, u, a, b, h)), c)
           = Reading("header_name", n + 1, Filled(m, u, a, b, Append(h, Header(<<c>>, <<>>))))
  <1> DEFINE r == Filled(m, u, a, b, h)
             p == Reading("header_line_start", n, r)
             t == "header_name"
             q == Reading(t, n, r)
             x == Append(h, Header(<<c>>, <<>>))
  <1>1. p.state = "header_line_start"
    BY DEF Reading
  <1>2. c # Parsing!CR /\ c \notin {Parsing!Space, Parsing!Tab}
    BY Zenon DEF Parsing!IsToken, Parsing!IsCtl, Parsing!IsSpecial
  <1>3. Parsing!ConsumeLineStart(p, c)
          = [Parsing!GoTo(p, t) EXCEPT !.request.headers = Append(@, Header(<<c>>, <<>>))]
    BY <1>2, Zenon DEF Parsing!ConsumeLineStart, Header
  <1>4. Parsing!GoTo(p, t) = q
    BY GoneTo
  <1> HIDE DEF p, q
  <1> DEFINE added == Header(<<c>>, <<>>)
  <1> HIDE DEF added
  <1>5. [q EXCEPT !.request.headers = Append(@, added)]
          = [q EXCEPT !.request = [q.request EXCEPT !.headers = Append(@, added)]]
    OBVIOUS
  <1>6. q.request = r
    BY RequestOf DEF q
  <1> HIDE DEF r
  <1>7. [r EXCEPT !.headers = Append(@, added)] = Filled(m, u, a, b, x)
    <2>1. [r EXCEPT !.headers = Append(@, added)] = [r EXCEPT !.headers = Append(r.headers, added)]
      BY Zenon
    <2>2. r.headers = h
      BY FilledChanged DEF r
    <2>3. [r EXCEPT !.headers = x] = Filled(m, u, a, b, x)
      <3> HIDE DEF x
      <3> QED  BY FilledChanged DEF r
    <2> QED  BY <2>1, <2>2, <2>3 DEF added
  <1> HIDE DEF x
  <1>8. [q EXCEPT !.request = Filled(m, u, a, b, x)] = Reading(t, n, Filled(m, u, a, b, x))
    BY ReadingChanged DEF q
  <1>9. Parsing!Consume(p, c) = Reading(t, n, Filled(m, u, a, b, x))
    BY <1>1, <1>3, <1>4, <1>5, <1>6, <1>7, <1>8, ConsumeCases DEF added
  <1> QED  BY <1>9, StepOn DEF p, r, x

\* The last of the headers, and a change of it.
LEMMA LastHeader ==
  ASSUME NEW H, NEW h \in Seq(H), NEW old, NEW new
  PROVE  LET l == Append(h, old)
         IN  l[Len(l)] = old /\ [l EXCEPT ![Len(l)] = new] = Append(h, new)
  <1> DEFINE l == Append(h, old)
             n == Len(l)
             changed == [l EXCEPT ![n] = new]
             r == Append(h, new)
             J == H \cup {old, new}
  <1>1. h \in Seq(J) /\ old \in J /\ new \in J
    OBVIOUS
  <1> HIDE DEF J
  <1>2. Len(h) \in Nat /\ l \in Seq(J) /\ r \in Seq(J) /\ n = Len(h) + 1 /\ Len(r) = n /\ l[n] = old /\ r[n] = new
        /\ \A i \in 1..n : i # n => l[i] = r[i]
    <2>1. Len(h) \in Nat /\ l \in Seq(J) /\ r \in Seq(J) /\ n = Len(h) + 1 /\ Len(r) = n
      BY <1>1
    <2>2. l[n] = old /\ r[n] = new
      BY <1>1
    <2>3. \A i \in 1..n : i # n => l[i] = h[i] /\ r[i] = h[i]
      BY <1>1
    <2> QED  BY <2>1, <2>2, <2>3
  <1> HIDE DEF l, n, r
  <1>3. n \in 1..n
    BY <1>2
  <1>4. changed \in Seq(J) /\ Len(changed) = n /\ \A i \in 1..n : changed[i] = IF i = n THEN new ELSE l[i]
    BY <1>1, <1>2, <1>3 DEF n
  <1> HIDE DEF changed
  <1>5. \A i \in 1..n : changed[i] = r[i]
    BY <1>2, <1>4
  <1>6. changed = r
    BY <1>2, <1>4, <1>5, SameSequence
  <1> QED  BY <1>2, <1>6 DEF changed, r, l, n

\* A header's name, and its value, grow in the request.
NameGrown(p, c) == [p EXCEPT !.request.headers[Len(p.request.headers)].name = Append(@, c)]

LastOf(p) == p.request.headers[Len(p.request.headers)]

LastSet(p, new) ==
  [p EXCEPT !.request = [p.request EXCEPT !.headers =
     [p.request.headers EXCEPT ![Len(p.request.headers)] = new]]]

LEMMA HeaderChanged ==
  ASSUME NEW s, NEW n, NEW m, NEW u, NEW a, NEW b, NEW H, NEW h \in Seq(H), NEW old, NEW new
  PROVE  /\ LastOf(Reading(s, n, Filled(m, u, a, b, Append(h, old)))) = old
         /\ LastSet(Reading(s, n, Filled(m, u, a, b, Append(h, old))), new)
              = Reading(s, n, Filled(m, u, a, b, Append(h, new)))
  <1> DEFINE l == Append(h, old)
             r == Filled(m, u, a, b, l)
             p == Reading(s, n, r)
             k == Len(l)
             changed == [l EXCEPT ![k] = new]
  <1>1. l[k] = old /\ changed = Append(h, new)
    BY LastHeader
  <1> HIDE DEF l, k, changed
  <1>2. r.headers = l /\ [r EXCEPT !.headers = changed] = Filled(m, u, a, b, changed)
    BY FilledChanged
  <1> HIDE DEF r
  <1>3. p.request = r
    BY RequestOf
  <1> DEFINE q == Filled(m, u, a, b, changed)
  <1> HIDE DEF q
  <1>4. [p EXCEPT !.request = q] = Reading(s, n, q)
    BY ReadingChanged
  <1> HIDE DEF p
  <1>5. p.request.headers = l /\ Len(p.request.headers) = k
    BY <1>2, <1>3, Zenon DEF k
  <1>6. p.request.headers[Len(p.request.headers)] = old
    BY ONLY <1>1, <1>5, Zenon
  <1>7. [p.request.headers EXCEPT ![Len(p.request.headers)] = new] = changed
    BY <1>5, Zenon DEF changed
  <1>8. [p.request EXCEPT !.headers = [p.request.headers EXCEPT ![Len(p.request.headers)] = new]] = q
    BY <1>2, <1>3, <1>7, Zenon DEF q
  <1>9. [p EXCEPT !.request = [p.request EXCEPT !.headers =
           [p.request.headers EXCEPT ![Len(p.request.headers)] = new]]] = Reading(s, n, q)
    BY ONLY <1>4, <1>8, Zenon
  <1>10. q = Filled(m, u, a, b, Append(h, new))
    BY ONLY <1>1, Zenon DEF q
  <1>11. Reading(s, n, q) = Reading(s, n, Filled(m, u, a, b, Append(h, new)))
    BY ONLY <1>10, Zenon
  <1> QED  BY <1>6, <1>9, <1>11, Zenon DEF p, r, l, LastOf, LastSet

LEMMA HeaderOf ==
  ASSUME NEW x, NEW v, NEW y
  PROVE  /\ Header(x, v).name = x /\ Header(x, v).value = v
         /\ [Header(x, v) EXCEPT !.name = y] = Header(y, v)
         /\ [Header(x, v) EXCEPT !.value = y] = Header(x, y)
  BY DEF Header

LEMMA HeaderNameGrows ==
  ASSUME NEW s, NEW n, NEW m, NEW u, NEW a, NEW b, NEW H, NEW h \in Seq(H), NEW x, NEW v, NEW c
  PROVE  NameGrown(Reading(s, n, Filled(m, u, a, b, Append(h, Header(x, v)))), c)
           = Reading(s, n, Filled(m, u, a, b, Append(h, Header(Append(x, c), v))))
  <1> DEFINE old == Header(x, v)
             y == Append(x, c)
             new == Header(y, v)
             p == Reading(s, n, Filled(m, u, a, b, Append(h, old)))
             w == Reading(s, n, Filled(m, u, a, b, Append(h, new)))
  <1>1. old.name = x /\ [old EXCEPT !.name = y] = new
    <2> HIDE DEF y
    <2> QED  BY HeaderOf
  <1> HIDE DEF old, new, y
  <1>2. LastOf(p) = old /\ LastSet(p, new) = w
    BY HeaderChanged
  <1> HIDE DEF p, w
  <1>3. /\ p.request.headers[Len(p.request.headers)] = old
        /\ [p EXCEPT !.request = [p.request EXCEPT !.headers =
                  [p.request.headers EXCEPT ![Len(p.request.headers)] = new]]] = w
    BY <1>2, Zenon DEF LastOf, LastSet
  <1>4. NameGrown(p, c) = [p EXCEPT !.request.headers[Len(p.request.headers)].name = Append(@, c)]
    BY Zenon DEF NameGrown
  <1>5. NameGrown(p, c) = [p EXCEPT !.request = [p.request EXCEPT !.headers =
                  [p.request.headers EXCEPT ![Len(p.request.headers)] =
                     [p.request.headers[Len(p.request.headers)] EXCEPT !.name =
                        Append(p.request.headers[Len(p.request.headers)].name, c)]]]]
    BY <1>4, Zenon
  <1>6. [p.request.headers[Len(p.request.headers)] EXCEPT !.name =
           Append(p.request.headers[Len(p.request.headers)].name, c)] = new
    BY <1>1, <1>3, Zenon DEF y
  <1>7. NameGrown(p, c) = w
    BY ONLY <1>3, <1>5, <1>6, Zenon
  <1> QED  BY <1>7, Zenon DEF p, w, old, new, y

LEMMA HeaderValueGrows ==
  ASSUME NEW s, NEW n, NEW m, NEW u, NEW a, NEW b, NEW H, NEW h \in Seq(H), NEW x, NEW v, NEW c
  PROVE  Parsing!ToHeaderValue(Reading(s, n, Filled(m, u, a, b, Append(h, Header(x, v)))), c)
           = Reading(s, n, Filled(m, u, a, b, Append(h, Header(x, Append(v, c)))))
  <1> DEFINE old == Header(x, v)
             y == Append(v, c)
             new == Header(x, y)
             p == Reading(s, n, Filled(m, u, a, b, Append(h, old)))
             w == Reading(s, n, Filled(m, u, a, b, Append(h, new)))
  <1>1. old.value = v /\ [old EXCEPT !.value = y] = new
    <2> HIDE DEF y
    <2> QED  BY HeaderOf
  <1> HIDE DEF old, new, y
  <1>2. LastOf(p) = old /\ LastSet(p, new) = w
    BY HeaderChanged
  <1> HIDE DEF p, w
  <1>3. /\ p.request.headers[Len(p.request.headers)] = old
        /\ [p EXCEPT !.request = [p.request EXCEPT !.headers =
                  [p.request.headers EXCEPT ![Len(p.request.headers)] = new]]] = w
    BY <1>2, Zenon DEF LastOf, LastSet
  <1>4. Parsing!ToHeaderValue(p, c)
          = [p EXCEPT !.request.headers[Len(p.request.headers)].value = Append(@, c)]
    BY Zenon DEF Parsing!ToHeaderValue
  <1>5. Parsing!ToHeaderValue(p, c) = [p EXCEPT !.request = [p.request EXCEPT !.headers =
                  [p.request.headers EXCEPT ![Len(p.request.headers)] =
                     [p.request.headers[Len(p.request.headers)] EXCEPT !.value =
                        Append(p.request.headers[Len(p.request.headers)].value, c)]]]]
    BY <1>4, Zenon
  <1>6. [p.request.headers[Len(p.request.headers)] EXCEPT !.value =
           Append(p.request.headers[Len(p.request.headers)].value, c)] = new
    BY <1>1, <1>3, Zenon DEF y
  <1>7. Parsing!ToHeaderValue(p, c) = w
    BY ONLY <1>3, <1>5, <1>6, Zenon
  <1> QED  BY <1>7, Zenon DEF p, w, old, new, y

LEMMA NameReads ==
  ASSUME NEW n, NEW m, NEW u, NEW a, NEW b, NEW H, NEW h \in Seq(H), NEW x, NEW v, NEW c,
         Parsing!IsToken(c)
  PROVE  Parsing!Step(Reading("header_name", n, Filled(m, u, a, b, Append(h, Header(x, v)))), c)
           = Reading("header_name", n + 1, Filled(m, u, a, b, Append(h, Header(Append(x, c), v))))
  <1> DEFINE r == Filled(m, u, a, b, Append(h, Header(x, v)))
             s == "header_name"
             p == Reading(s, n, r)
             q == Filled(m, u, a, b, Append(h, Header(Append(x, c), v)))
  <1>1. p.state = s
    BY DEF Reading
  <1>2. c # ":"
    BY Zenon DEF Parsing!IsToken, Parsing!IsSpecial
  <1>3. Parsing!ConsumeName(p, c) = NameGrown(p, c)
    BY <1>2, Zenon DEF Parsing!ConsumeName, NameGrown
  <1>4. NameGrown(p, c) = Reading(s, n, q)
    BY HeaderNameGrows
  <1> HIDE DEF p, q
  <1>5. Parsing!Consume(p, c) = Reading(s, n, q)
    BY <1>1, <1>3, <1>4, ConsumeCases
  <1> HIDE DEF r
  <1> QED  BY <1>5, StepOn DEF p, q, r

LEMMA NameEnds ==
  ASSUME NEW n, NEW r
  PROVE  Parsing!Step(Reading("header_name", n, r), ":")
           = Reading("space_before_header_value", n + 1, r)
  <1> DEFINE p == Reading("header_name", n, r)
             c == ":"
             t == "space_before_header_value"
  <1>1. p.state = "header_name"
    BY DEF Reading
  <1>2. Parsing!ConsumeName(p, c) = Parsing!GoTo(p, t)
    BY Zenon DEF Parsing!ConsumeName
  <1>3. Parsing!Consume(p, c) = Reading(t, n, r)
    BY <1>1, <1>2, ConsumeCases, GoneTo
  <1> HIDE DEF c
  <1> QED  BY <1>3, StepOn DEF c

LEMMA ValueReads ==
  ASSUME NEW n, NEW m, NEW u, NEW a, NEW b, NEW H, NEW h \in Seq(H), NEW x, NEW v, NEW c,
         ~Parsing!IsCtl(c)
  PROVE  Parsing!Step(Reading("header_value", n, Filled(m, u, a, b, Append(h, Header(x, v)))), c)
           = Reading("header_value", n + 1, Filled(m, u, a, b, Append(h, Header(x, Append(v, c)))))
  <1> DEFINE r == Filled(m, u, a, b, Append(h, Header(x, v)))
             s == "header_value"
             p == Reading(s, n, r)
             q == Filled(m, u, a, b, Append(h, Header(x, Append(v, c))))
  <1>1. p.state = s
    BY DEF Reading
  <1>2. c # Parsing!CR
    BY Zenon DEF Parsing!IsCtl
  <1>3. Parsing!ConsumeValue(p, c) = Parsing!ToHeaderValue(p, c)
    BY <1>2, Zenon DEF Parsing!ConsumeValue
  <1>4. Parsing!ToHeaderValue(p, c) = Reading(s, n, q)
    BY HeaderValueGrows
  <1> HIDE DEF p, q
  <1>5. Parsing!Consume(p, c) = Reading(s, n, q)
    BY <1>1, <1>3, <1>4, ConsumeCases
  <1> HIDE DEF r
  <1> QED  BY <1>5, StepOn DEF p, q, r

LEMMA ValueEnds ==
  ASSUME NEW n, NEW r
  PROVE  Parsing!Step(Reading("header_value", n, r), Parsing!CR) = Reading("expecting_newline_2", n + 1, r)
  <1> DEFINE p == Reading("header_value", n, r)
             c == Parsing!CR
             t == "expecting_newline_2"
  <1>1. p.state = "header_value"
    BY DEF Reading
  <1>2. Parsing!ConsumeValue(p, c) = Parsing!GoTo(p, t)
    BY Zenon DEF Parsing!ConsumeValue
  <1>3. Parsing!Consume(p, c) = Reading(t, n, r)
    BY <1>1, <1>2, ConsumeCases, GoneTo
  <1> HIDE DEF c
  <1> QED  BY <1>3, StepOn DEF c

\* The last character makes the request good and gives it its type.
Finished(n, m, u, a, b, h) ==
  [state |-> "expecting_newline_3", result |-> "good", consumed |-> n,
   request |-> [mtype |-> Parsing!TypeOfMethod(m), method |-> m, uri |-> u, major |-> a,
                minor |-> b, headers |-> h]]

LEMMA RequestEnds ==
  ASSUME NEW n, NEW m, NEW u, NEW a, NEW b, NEW h
  PROVE  Parsing!Step(Reading("expecting_newline_3", n, Filled(m, u, a, b, h)), Parsing!LF)
           = Finished(n + 1, m, u, a, b, h)
  <1> DEFINE r == Filled(m, u, a, b, h)
             s == "expecting_newline_3"
             p == Reading(s, n, r)
             c == Parsing!LF
             next == [Parsing!Consume(p, c) EXCEPT !.consumed = @ + 1]
             type == Parsing!TypeOfMethod(m)
             ended(k, q) == [state |-> s, result |-> "good", consumed |-> k, request |-> q]
  <1>1. p.state = s /\ p.result = "more"
    BY DEF Reading
  <1>2. Parsing!Expected[s] = c
    BY DEF Parsing!Expected
  <1>3. Parsing!ConsumeExpected(p, c) = [p EXCEPT !.result = "good"]
    BY <1>1, <1>2, Zenon DEF Parsing!ConsumeExpected
  <1>4. [p EXCEPT !.result = "good"] = ended(n, r)
    BY DEF Reading
  <1>5. Parsing!Consume(p, c) = ended(n, r)
    BY <1>1, <1>3, <1>4, ConsumeCases, ExpectedStates
  <1>6. next = ended(n + 1, r)
    <2> DEFINE d == ended(n, r)
    <2>1. [d EXCEPT !.consumed = @ + 1] = ended(n + 1, r)
      <3> HIDE DEF r
      <3> QED  OBVIOUS
    <2> QED  BY <1>5, <2>1
  <1>7. Parsing!Step(p, c) = IF p.result # "more" THEN p
                             ELSE IF next.result = "more" THEN next
                             ELSE [next EXCEPT !.request.mtype = Parsing!TypeOfMethod(next.request.method)]
    BY Zenon DEF Parsing!Step
  <1> DEFINE d == ended(n + 1, r)
  <1>8. d.result # "more" /\ d.request = r
    OBVIOUS
  <1>9. \A q : [d EXCEPT !.request = q] = ended(n + 1, q)
    <2> HIDE DEF r
    <2> QED  OBVIOUS
  <1> HIDE DEF d, next, p
  <1>10. Parsing!Step(p, c) = [d EXCEPT !.request.mtype = Parsing!TypeOfMethod(d.request.method)]
    BY <1>1, <1>6, <1>7, <1>8 DEF d
  <1>11. [d EXCEPT !.request.mtype = Parsing!TypeOfMethod(d.request.method)]
           = [d EXCEPT !.request = [d.request EXCEPT !.mtype = Parsing!TypeOfMethod(d.request.method)]]
    OBVIOUS
  <1>12. r.method = m
    BY FilledChanged
  <1>13. [r EXCEPT !.mtype = type] = [mtype |-> type, method |-> m, uri |-> u, major |-> a,
                                     minor |-> b, headers |-> h]
    <2> HIDE DEF type
    <2> QED  BY DEF Filled
  <1> HIDE DEF r
  <1>14. Parsing!Step(p, c) = ended(n + 1, [mtype |-> type, method |-> m, uri |-> u, major |-> a,
                                            minor |-> b, headers |-> h])
    <2> DEFINE full == [mtype |-> type, method |-> m, uri |-> u, major |-> a, minor |-> b, headers |-> h]
    <2>1. [d.request EXCEPT !.mtype = Parsing!TypeOfMethod(d.request.method)] = full
      BY ONLY <1>8, <1>12, <1>13, Zenon
    <2> HIDE DEF full
    <2>2. [d EXCEPT !.request = full] = ended(n + 1, full)
      BY <1>9
    <2>3. Parsing!Step(p, c) = ended(n + 1, full)
      BY ONLY <1>10, <1>11, <2>1, <2>2, Zenon
    <2> QED  BY <2>3 DEF full
  <1> QED  BY <1>14, Zenon DEF p, r, Finished

\* The parser has read text up to state s, and has filled r.
ReadTo(text, s, r) == Parsing!Parse(text) = Reading(s, Len(text), r)

\* In state s, with r filled, the character c leads to t and q.
Steps(s, r, c, t, q) == \A n : Parsing!Step(Reading(s, n, r), c) = Reading(t, n + 1, q)

LEMMA ReadOne ==
  ASSUME NEW S, NEW text \in Seq(S), NEW c \in S, NEW s, NEW r, NEW t, NEW q,
         ReadTo(text, s, r), Steps(s, r, c, t, q)
  PROVE  ReadTo(Append(text, c), t, q) /\ Append(text, c) \in Seq(S)
  <1>1. Append(text, c) \in Seq(S) /\ Len(Append(text, c)) = Len(text) + 1
    OBVIOUS
  <1>2. Parsing!Parse(Append(text, c)) = Parsing!Step(Parsing!Parse(text), c)
    BY ParseMore
  <1>3. Parsing!Step(Parsing!Parse(text), c) = Reading(t, Len(text) + 1, q)
    BY Zenon DEF ReadTo, Steps
  <1> QED  BY <1>1, <1>2, <1>3, Zenon DEF ReadTo

LEMMA ReadMany ==
  ASSUME NEW S, NEW text \in Seq(S), NEW x \in Seq(S), NEW st, NEW rq, ReadTo(text, st[0], rq[0]),
         \A i \in 1..Len(x) : Steps(st[i - 1], rq[i - 1], x[i], st[i], rq[i])
  PROVE  ReadTo(text \o x, st[Len(x)], rq[Len(x)]) /\ text \o x \in Seq(S)
  <1> DEFINE n == Len(x)
             k == Len(text)
             at == [i \in 0..n |-> Reading(st[i], k + i, rq[i])]
  <1>1. n \in Nat /\ k \in Nat /\ text \o x \in Seq(S) /\ Len(text \o x) = k + n
    OBVIOUS
  <1> HIDE DEF n, k
  <1>2. 0 \in 0..n /\ n \in 0..n /\ \A i \in 1..n : i \in 0..n /\ i - 1 \in 0..n
    BY ONLY <1>1
  <1>3. at[0] = Parsing!Parse(text)
    <2>1. k + 0 = k
      BY <1>1
    <2> QED  BY <1>2, <2>1 DEF ReadTo, k
  <1>4. \A i \in 1..n : Parsing!Step(at[i - 1], x[i]) = at[i]
    <2> TAKE i \in 1..n
    <2>1. Steps(st[i - 1], rq[i - 1], x[i], st[i], rq[i])
      BY DEF n
    <2>2. (k + (i - 1)) + 1 = k + i
      BY <1>1
    <2>3. at[i] = Reading(st[i], k + i, rq[i]) /\ at[i - 1] = Reading(st[i - 1], k + (i - 1), rq[i - 1])
      BY <1>2
    <2> HIDE DEF at
    <2> QED  BY <2>1, <2>2, <2>3, Zenon DEF Steps
  <1>5. at[n] = Reading(st[n], k + n, rq[n])
    BY <1>2
  <1> HIDE DEF at
  <1>6. Parsing!Parse(text \o x) = at[n]
    BY <1>3, <1>4, TextRead DEF n
  <1>7. ReadTo(text \o x, st[n], rq[n])
    BY <1>1, <1>5, <1>6, Zenon DEF ReadTo
  <1> QED  BY <1>1, <1>7 DEF n

\* What is read of a text grows by one character at a time.
LEMMA PrefixGrows ==
  ASSUME NEW S, NEW x \in Seq(S)
  PROVE  /\ SubSeq(x, 1, 0) = <<>> /\ SubSeq(x, 1, Len(x)) = x
         /\ Len(x) > 0 => SubSeq(x, 1, 1) = <<x[1]>>
         /\ \A i \in 1..Len(x) : Append(SubSeq(x, 1, i - 1), x[i]) = SubSeq(x, 1, i)
  <1>1. SubSeq(x, 1, 0) = <<>> /\ SubSeq(x, 1, Len(x)) = x
    BY WholeText
  <1>2. \A i \in 1..Len(x) : Append(SubSeq(x, 1, i - 1), x[i]) = SubSeq(x, 1, i)
    <2> TAKE i \in 1..Len(x)
    <2> DEFINE l == Append(SubSeq(x, 1, i - 1), x[i])
               r == SubSeq(x, 1, i)
    <2>1. l \in Seq(S) /\ r \in Seq(S) /\ Len(l) = Len(r)
      OBVIOUS
    <2>2. \A j \in 1..Len(l) : l[j] = r[j]
      OBVIOUS
    <2> HIDE DEF l, r
    <2>3. l = r
      BY ONLY <2>1, <2>2, SameSequence
    <2> QED  BY <2>3 DEF l, r
  <1>3. ASSUME Len(x) > 0 PROVE SubSeq(x, 1, 1) = <<x[1]>>
    <2>1. 1 \in 1..Len(x) /\ 1 - 1 = 0 /\ Append(<<>>, x[1]) = <<x[1]>>
      BY <1>3
    <2> QED  BY <1>1, <1>2, <2>1
  <1> QED  BY <1>1, <1>2, <1>3, Zenon

\* A text of two characters is read one by one.
LEMMA ReadTwo ==
  ASSUME NEW S, NEW text \in Seq(S), NEW c \in S, NEW d \in S, NEW s, NEW r, NEW t, NEW q, NEW t2, NEW q2,
         ReadTo(text, s, r), Steps(s, r, c, t, q), Steps(t, q, d, t2, q2)
  PROVE  ReadTo(text \o <<c, d>>, t2, q2) /\ text \o <<c, d>> \in Seq(S)
  <1> DEFINE x == Append(text, c)
  <1>1. ReadTo(x, t, q) /\ x \in Seq(S)
    BY ReadOne
  <1>2. Append(x, d) = text \o <<c, d>>
    <2> DEFINE l == Append(x, d)
               w == text \o <<c, d>>
    <2>1. l \in Seq(S) /\ w \in Seq(S) /\ Len(l) = Len(w)
      OBVIOUS
    <2>2. \A j \in 1..Len(l) : l[j] = w[j]
      OBVIOUS
    <2> HIDE DEF l, w
    <2>3. l = w
      BY ONLY <2>1, <2>2, SameSequence
    <2> QED  BY <2>3 DEF l, w
  <1> HIDE DEF x
  <1>3. ReadTo(Append(x, d), t2, q2) /\ Append(x, d) \in Seq(S)
    BY <1>1, ReadOne
  <1> QED  BY <1>2, <1>3

\* The method, from the beginning on.
LEMMA MethodRead ==
  ASSUME NEW S, NEW x \in Seq(S), x # <<>>, \A i \in 1..Len(x) : Parsing!IsToken(x[i])
  PROVE  ReadTo(x, "method", Filled(x, <<>>, Parsing!Unset, Parsing!Unset, <<>>))
  <1> DEFINE n == Len(x)
             none == Parsing!Unset
             st == [i \in 0..n |-> IF i = 0 THEN "method_start" ELSE "method"]
             rq == [i \in 0..n |-> Filled(SubSeq(x, 1, i), <<>>, none, none, <<>>)]
  <1>1. n \in Nat /\ n # 0
    OBVIOUS
  <1> HIDE DEF n, none
  <1>2. 0 \in 0..n /\ n \in 0..n /\ \A i \in 1..n : i \in 0..n /\ i - 1 \in 0..n /\ i # 0
    BY <1>1
  <1>3. ReadTo(<<>>, st[0], rq[0])
    <2>1. Len(<<>>) = 0 /\ SubSeq(x, 1, 0) = <<>>
      BY PrefixGrows
    <2>2. Parsing!Parser = Reading("method_start", 0, Filled(<<>>, <<>>, none, none, <<>>))
      BY DEF Parsing!Parser, Parsing!NoRequest, Reading, Filled, none
    <2>3. st[0] = "method_start" /\ rq[0] = Filled(<<>>, <<>>, none, none, <<>>)
      BY <1>2, <2>1
    <2> QED  BY <2>1, <2>2, <2>3, ParseNothing, Zenon DEF ReadTo
  <1>4. \A i \in 1..n : Steps(st[i - 1], rq[i - 1], x[i], st[i], rq[i])
    <2> TAKE i \in 1..n
    <2> DEFINE m == SubSeq(x, 1, i - 1)
               c == x[i]
               s == st[i - 1]
    <2>1. Append(m, c) = SubSeq(x, 1, i)
      BY PrefixGrows DEF n
    <2>2. Parsing!IsToken(c)
      BY DEF n
    <2>3. s \in {"method_start", "method"} /\ st[i] = "method"
      BY <1>2
    <2>4. rq[i - 1] = Filled(m, <<>>, none, none, <<>>) /\ rq[i] = Filled(SubSeq(x, 1, i), <<>>, none, none, <<>>)
      BY <1>2
    <2> HIDE DEF m, c, s, rq, st
    <2>5. Steps(s, Filled(m, <<>>, none, none, <<>>), c, "method", Filled(Append(m, c), <<>>, none, none, <<>>))
      <3> SUFFICES ASSUME NEW k
                   PROVE  Parsing!Step(Reading(s, k, Filled(m, <<>>, none, none, <<>>)), c)
                            = Reading("method", k + 1, Filled(Append(m, c), <<>>, none, none, <<>>))
        BY DEF Steps
      <3> QED  BY ONLY <2>2, <2>3, MethodReads
    <2> QED  BY <2>1, <2>3, <2>4, <2>5, Zenon DEF c, s
  <1>5. st[n] = "method" /\ rq[n] = Filled(x, <<>>, none, none, <<>>)
    <2>1. SubSeq(x, 1, n) = x
      BY PrefixGrows DEF n
    <2> QED  BY <1>1, <1>2, <2>1
  <1> HIDE DEF st, rq
  <1>6. <<>> \in Seq(S) /\ <<>> \o x = x
    BY JoinNothing
  <1>7. ReadTo(<<>> \o x, st[n], rq[n])
    BY <1>3, <1>4, <1>6, ReadMany DEF n
  <1> QED  BY <1>5, <1>6, <1>7 DEF none

LEMMA UriRead ==
  ASSUME NEW S, NEW text \in Seq(S), NEW x \in Seq(S), NEW m, NEW a, NEW b, NEW h,
         ReadTo(text, "uri", Filled(m, <<>>, a, b, h)),
         \A i \in 1..Len(x) : x[i] # Parsing!Space /\ ~Parsing!IsCtl(x[i])
  PROVE  ReadTo(text \o x, "uri", Filled(m, x, a, b, h)) /\ text \o x \in Seq(S)
  <1> DEFINE n == Len(x)
             st == [i \in 0..n |-> "uri"]
             rq == [i \in 0..n |-> Filled(m, SubSeq(x, 1, i), a, b, h)]
  <1>1. n \in Nat
    OBVIOUS
  <1> HIDE DEF n
  <1>2. 0 \in 0..n /\ n \in 0..n /\ \A i \in 1..n : i \in 0..n /\ i - 1 \in 0..n
    BY <1>1
  <1>3. ReadTo(text, st[0], rq[0])
    <2>1. st[0] = "uri" /\ rq[0] = Filled(m, <<>>, a, b, h)
      BY <1>2, PrefixGrows
    <2> QED  BY <2>1
  <1>4. \A i \in 1..n : Steps(st[i - 1], rq[i - 1], x[i], st[i], rq[i])
    <2> TAKE i \in 1..n
    <2> DEFINE u == SubSeq(x, 1, i - 1)
               c == x[i]
    <2>1. Append(u, c) = SubSeq(x, 1, i)
      BY PrefixGrows DEF n
    <2>2. c # Parsing!Space /\ ~Parsing!IsCtl(c)
      BY DEF n
    <2>3. st[i - 1] = "uri" /\ st[i] = "uri"
      BY <1>2
    <2>4. rq[i - 1] = Filled(m, u, a, b, h) /\ rq[i] = Filled(m, SubSeq(x, 1, i), a, b, h)
      BY <1>2
    <2> HIDE DEF u, c, rq, st
    <2>5. Steps("uri", Filled(m, u, a, b, h), c, "uri", Filled(m, Append(u, c), a, b, h))
      <3> SUFFICES ASSUME NEW k
                   PROVE  Parsing!Step(Reading("uri", k, Filled(m, u, a, b, h)), c)
                            = Reading("uri", k + 1, Filled(m, Append(u, c), a, b, h))
        BY DEF Steps
      <3> QED  BY ONLY <2>2, UriReads
    <2> QED  BY <2>1, <2>3, <2>4, <2>5, Zenon DEF c
  <1>5. st[n] = "uri" /\ rq[n] = Filled(m, x, a, b, h)
    <2>1. SubSeq(x, 1, n) = x
      BY PrefixGrows DEF n
    <2> QED  BY <1>1, <1>2, <2>1
  <1> HIDE DEF st, rq
  <1>6. ReadTo(text \o x, st[n], rq[n]) /\ text \o x \in Seq(S)
    BY <1>3, <1>4, ReadMany DEF n
  <1> QED  BY <1>5, <1>6

\* The digit of a value, and the numbers written so far if f are those before.
DigitFor == [i \in 0..2 |-> CHOOSE d \in DOMAIN Parsing!DigitValue : Parsing!DigitValue[d] = i]

DecimalOf(f, n) ==
  [i \in 0..n |-> IF i < 10 THEN <<DigitFor[i]>> ELSE Append(f[i \div 10], DigitFor[i % 10])]

LEMMA DigitForIs ==
  ASSUME NEW i \in 0..2
  PROVE  /\ DigitFor[i] \in DOMAIN Parsing!DigitValue
         /\ Parsing!DigitValue[DigitFor[i]] = i
         /\ DigitFor[i] \in {"0", "1", "2"}
  BY DEF Parsing!DigitValue, DigitFor

LEMMA DecimalIs ==
  ASSUME NEW n \in Nat
  PROVE  \E f : Parsing!Decimal(n) = f[n] /\ f = DecimalOf(f, n)
  <1> DEFINE U == {DigitFor[k] : k \in Nat}
             T == Seq(U)
             D == 0..n
             Ends == {i \in D : i < 10}
             base == [i \in D |-> <<DigitFor[i]>>]
             next == [i \in D |-> i \div 10]
             last == [i \in D |-> DigitFor[i % 10]]
             step == [i \in D |-> [t \in T |-> Append(t, last[i])]]
             m == [i \in D |-> i]
  <1>1. \A i \in D : i \in Nat /\ i <= n /\ i % 10 \in Nat
    OBVIOUS
  <1>2. \A k \in Nat : DigitFor[k] \in U
    OBVIOUS
  <1> HIDE DEF U
  <1>3. base \in [D -> T]
    BY <1>1, <1>2
  <1>4. \A i \in D : last[i] \in U
    BY <1>1, <1>2
  <1>5. step \in [D -> [T -> T]]
    <2> HIDE DEF last
    <2> QED  BY <1>4
  <1>6. m \in [D -> Nat] /\ n + 1 \in Nat /\ \A d \in D : m[d] < n + 1
    BY <1>1
  <1>7. \A d \in D : d \notin Ends => next[d] \in D /\ m[next[d]] < m[d]
    <2> TAKE d \in D
    <2> HAVE d \notin Ends
    <2>1. d \in Nat /\ d >= 10 /\ d <= n
      BY <1>1
    <2>2. d \div 10 \in Nat /\ d \div 10 < d
      BY ONLY <2>1
    <2>3. d \div 10 \in D
      BY <2>1, <2>2
    <2> QED  BY <2>2, <2>3
  <1> HIDE DEF T, base, next, step, m, Ends, D, last
  <1>8. PICK f \in [D -> T] : Descent(f, D, Ends, base, next, step)
    BY <1>3, <1>5, <1>6, <1>7, DescentExists
  <1>9. f = DecimalOf(f, n)
    <2>1. f = [i \in D |-> f[i]]
      OBVIOUS
    <2>2. \A i \in D : f[i] = IF i < 10 THEN <<DigitFor[i]>> ELSE Append(f[i \div 10], DigitFor[i % 10])
      <3> TAKE i \in D
      <3>1. f[i] = IF i \in Ends THEN base[i] ELSE step[i][f[next[i]]]
        BY <1>8, Zenon DEF Descent
      <3>2. i \in Ends <=> i < 10
        BY DEF Ends
      <3>3. base[i] = <<DigitFor[i]>> /\ next[i] = i \div 10 /\ last[i] = DigitFor[i % 10]
        BY Zenon DEF base, next, last
      <3>4. i \notin Ends => f[next[i]] \in T
        BY <1>7
      <3>5. \A t \in T : step[i][t] = Append(t, last[i])
        BY DEF step
      <3>6. i \notin Ends => step[i][f[next[i]]] = Append(f[next[i]], last[i])
        BY ONLY <3>4, <3>5, Zenon
      <3>7. CASE i < 10
        BY ONLY <3>1, <3>2, <3>3, <3>7, Zenon
      <3>8. CASE ~(i < 10)
        BY ONLY <3>1, <3>2, <3>3, <3>6, <3>8, Zenon
      <3> QED  BY <3>7, <3>8, Zenon
    <2>3. DecimalOf(f, n) = [i \in D |-> IF i < 10 THEN <<DigitFor[i]>>
                                        ELSE Append(f[i \div 10], DigitFor[i % 10])]
      BY Zenon DEF DecimalOf, D
    <2> QED  BY ONLY <2>1, <2>2, <2>3, Zenon
  <1> DEFINE g == CHOOSE g : g = DecimalOf(g, n)
  <1>10. Parsing!Decimal(n) = g[n]
    BY Zenon DEF Parsing!Decimal, DecimalOf, DigitFor
  <1>11. g = DecimalOf(g, n)
    BY <1>9, Zenon
  <1> HIDE DEF g
  <1> QED  BY <1>10, <1>11

\* The numbers whose digits the model has.
VersionNumbers(N) == /\ N \subseteq Nat
              /\ \A n \in N : n % 10 \in 0..2 /\ (n >= 10 => n \div 10 \in N)

LEMMA NumberOf ==
  ASSUME NEW N, VersionNumbers(N), NEW n \in N, NEW f, f = DecimalOf(f, n), NEW i \in N, i <= n
  PROVE  /\ i < 10 => i \in 0..2 /\ f[i] = <<DigitFor[i]>>
         /\ i >= 10 => /\ i % 10 \in 0..2 /\ i \div 10 \in N /\ i \div 10 < i
                       /\ i = (i \div 10) * 10 + (i % 10)
                       /\ f[i] = Append(f[i \div 10], DigitFor[i % 10])
  <1>1. n \in Nat /\ i \in Nat /\ i \in 0..n /\ i % 10 \in 0..2 /\ (i >= 10 => i \div 10 \in N)
    BY DEF VersionNumbers
  <1>2. f[i] = IF i < 10 THEN <<DigitFor[i]>> ELSE Append(f[i \div 10], DigitFor[i % 10])
    BY <1>1, Zenon DEF DecimalOf
  <1>9. i \in Nat
    BY ONLY <1>1, Zenon
  <1>3. i < 10 => i % 10 = i
    BY ONLY <1>9
  <1>4. i >= 10 => i \div 10 < i /\ i = (i \div 10) * 10 + (i % 10) /\ ~(i < 10)
    <2>1. i >= 10 => i \div 10 < i
      BY ONLY <1>9
    <2>2. i = (i \div 10) * 10 + (i % 10)
      BY ONLY <1>9
    <2>3. i >= 10 => ~(i < 10)
      BY ONLY <1>9
    <2> QED  BY ONLY <2>1, <2>2, <2>3, Zenon
  <1> DEFINE x == i % 10
             y == i \div 10
             dx == DigitFor[x]
             di == DigitFor[i]
  <1>5. i < 10 => f[i] = <<di>>
    <2> HIDE DEF di
    <2> QED  BY ONLY <1>2, Zenon DEF di
  <1>6. ~(i < 10) => f[i] = Append(f[y], dx)
    BY ONLY <1>2, Zenon
  <1> HIDE DEF x, y, dx, di
  <1>7. i < 10 => i \in 0..2
    BY ONLY <1>1, <1>3
  <1>8. i >= 10 => f[i] = Append(f[y], dx)
    BY ONLY <1>4, <1>6
  <1> QED  BY <1>1, <1>4, <1>5, <1>7, <1>8, Zenon DEF x, y, dx, di

\* The numbers of the version, from their first digits on.
LEMMA MajorRead ==
  ASSUME NEW S, {"0", "1", "2"} \subseteq S, NEW text \in Seq(S), NEW N, VersionNumbers(N), NEW n \in N,
         NEW m, NEW u, NEW b, NEW h,
         ReadTo(text, "http_version_major_start", Filled(m, u, 0, b, h))
  PROVE  /\ ReadTo(text \o Parsing!Decimal(n), "http_version_major", Filled(m, u, n, b, h))
         /\ text \o Parsing!Decimal(n) \in Seq(S)
  <1> DEFINE start == "http_version_major_start"
             going == "http_version_major"
             filled(i) == Filled(m, u, i, b, h)
             done(d, i) == /\ d \in Seq(S) /\ ReadTo(text \o d, going, filled(i))
                           /\ text \o d \in Seq(S)
             V == Parsing!DigitValue
  <1>1. PICK f : Parsing!Decimal(n) = f[n] /\ f = DecimalOf(f, n)
    BY DecimalIs DEF VersionNumbers
  <1>2. n \in Nat
    BY DEF VersionNumbers
  <1>3. \A i \in 0..2 : DigitFor[i] \in S /\ DigitFor[i] \in DOMAIN V /\ V[DigitFor[i]] = i
    BY DigitForIs
  <1>4. \A i, j, c, s : s \in {start, going} /\ c \in DOMAIN V /\ i * 10 + V[c] = j
          => Steps(s, filled(i), c, going, filled(j))
    <2> TAKE i, j, c, s
    <2> HAVE s \in {start, going} /\ c \in DOMAIN V /\ i * 10 + V[c] = j
    <2> SUFFICES ASSUME NEW k
                 PROVE  Parsing!Step(Reading(s, k, filled(i)), c) = Reading(going, k + 1, filled(j))
      BY DEF Steps
    <2>1. Parsing!Step(Reading(s, k, filled(i)), c) = Reading(going, k + 1, filled(i * 10 + V[c]))
      BY MajorReads
    <2> HIDE DEF V, filled, going
    <2> QED  BY <2>1
  <1>5. ReadTo(text, start, filled(0))
    OBVIOUS
  <1> HIDE DEF start, going, filled, V
  <1> DEFINE A == {k \in Nat : \A i \in N : i <= n /\ i < k => done(f[i], i)}
  <1>6. 0 \in A
    BY DEF VersionNumbers
  <1>7. ASSUME NEW k \in Nat, k \in A PROVE k + 1 \in A
    <2> SUFFICES ASSUME NEW i \in N, i <= n, i < k + 1 PROVE done(f[i], i)
      OBVIOUS
    <2>1. i \in Nat
      BY DEF VersionNumbers
    <2>2. CASE i < 10
      <3> DEFINE c == DigitFor[i]
      <3>1. i \in 0..2 /\ f[i] = <<c>>
        BY <1>1, <2>2, NumberOf
      <3>2. c \in S /\ c \in DOMAIN V /\ V[c] = i
        BY <1>3, <3>1
      <3>3. 0 * 10 + V[c] = i
        BY <2>1, <3>2
      <3> HIDE DEF c
      <3>4. Steps(start, filled(0), c, going, filled(i))
        BY <1>4, <3>2, <3>3
      <3>5. ReadTo(Append(text, c), going, filled(i)) /\ Append(text, c) \in Seq(S)
        BY <1>5, <3>2, <3>4, ReadOne
      <3>6. Append(text, c) = text \o <<c>> /\ <<c>> \in Seq(S)
        BY <3>2, AppendIsJoin
      <3> QED  BY <3>1, <3>5, <3>6
    <2>3. CASE ~(i < 10)
      <3> DEFINE x == i % 10
                 y == i \div 10
                 c == DigitFor[x]
                 d == f[y]
                 t == text \o d
      <3>1. x \in 0..2 /\ y \in N /\ y < i /\ i = (y * 10) + x /\ f[i] = Append(d, c)
        <4>1. i >= 10
          BY <2>1, <2>3
        <4> QED  BY <1>1, <4>1, NumberOf
      <3>2. c \in S /\ c \in DOMAIN V /\ V[c] = x
        BY <1>3, <3>1
      <3> HIDE DEF x, y, c
      <3>3. done(d, y)
        <4>1. y \in Nat
          BY <3>1 DEF VersionNumbers
        <4>2. y < i
          BY <3>1
        <4>3. y <= n /\ y < k
          BY ONLY <4>1, <4>2, <2>1, <1>2, i <= n, i < k + 1, k \in Nat
        <4> QED  BY <1>7, <3>1, <4>3
      <3>4. Steps(going, filled(y), c, going, filled(i))
        <4>1. y * 10 + V[c] = i
          BY <3>1, <3>2
        <4> QED  BY <1>4, <3>2, <4>1
      <3>5. ReadTo(t, going, filled(y)) /\ t \in Seq(S) /\ d \in Seq(S)
        BY <3>3
      <3> HIDE DEF t, d
      <3>6. ReadTo(Append(t, c), going, filled(i)) /\ Append(t, c) \in Seq(S)
        BY <3>2, <3>4, <3>5, ReadOne
      <3>7. Append(t, c) = text \o Append(d, c) /\ Append(d, c) \in Seq(S)
        <4>1. Append(t, c) = t \o <<c>> /\ Append(d, c) = d \o <<c>> /\ <<c>> \in Seq(S)
          BY <3>2, <3>5, AppendIsJoin
        <4>2. (text \o d) \o <<c>> = text \o (d \o <<c>>)
          BY <3>5, <4>1, JoinThree DEF Associates
        <4>3. Append(d, c) \in Seq(S)
          BY <3>2, <3>5
        <4> QED  BY <4>1, <4>2, <4>3 DEF t
      <3> QED  BY <3>1, <3>6, <3>7
    <2> QED  BY <2>2, <2>3
  <1> HIDE DEF A
  <1>8. Nat \subseteq A
    BY <1>6, <1>7, SetInduction
  <1>9. n + 1 \in A /\ n <= n /\ n < n + 1
    BY <1>2, <1>8
  <1>10. done(f[n], n)
    BY <1>9 DEF A
  <1> QED  BY <1>1, <1>10 DEF going, filled

LEMMA MinorRead ==
  ASSUME NEW S, {"0", "1", "2"} \subseteq S, NEW text \in Seq(S), NEW N, VersionNumbers(N), NEW n \in N,
         NEW m, NEW u, NEW a, NEW h,
         ReadTo(text, "http_version_minor_start", Filled(m, u, a, 0, h))
  PROVE  /\ ReadTo(text \o Parsing!Decimal(n), "http_version_minor", Filled(m, u, a, n, h))
         /\ text \o Parsing!Decimal(n) \in Seq(S)
  <1> DEFINE start == "http_version_minor_start"
             going == "http_version_minor"
             filled(i) == Filled(m, u, a, i, h)
             done(d, i) == /\ d \in Seq(S) /\ ReadTo(text \o d, going, filled(i))
                           /\ text \o d \in Seq(S)
             V == Parsing!DigitValue
  <1>1. PICK f : Parsing!Decimal(n) = f[n] /\ f = DecimalOf(f, n)
    BY DecimalIs DEF VersionNumbers
  <1>2. n \in Nat
    BY DEF VersionNumbers
  <1>3. \A i \in 0..2 : DigitFor[i] \in S /\ DigitFor[i] \in DOMAIN V /\ V[DigitFor[i]] = i
    BY DigitForIs
  <1>4. \A i, j, c, s : s \in {start, going} /\ c \in DOMAIN V /\ i * 10 + V[c] = j
          => Steps(s, filled(i), c, going, filled(j))
    <2> TAKE i, j, c, s
    <2> HAVE s \in {start, going} /\ c \in DOMAIN V /\ i * 10 + V[c] = j
    <2> SUFFICES ASSUME NEW k
                 PROVE  Parsing!Step(Reading(s, k, filled(i)), c) = Reading(going, k + 1, filled(j))
      BY DEF Steps
    <2>1. Parsing!Step(Reading(s, k, filled(i)), c) = Reading(going, k + 1, filled(i * 10 + V[c]))
      BY MinorReads
    <2> HIDE DEF V, filled, going
    <2> QED  BY <2>1
  <1>5. ReadTo(text, start, filled(0))
    OBVIOUS
  <1> HIDE DEF start, going, filled, V
  <1> DEFINE A == {k \in Nat : \A i \in N : i <= n /\ i < k => done(f[i], i)}
  <1>6. 0 \in A
    BY DEF VersionNumbers
  <1>7. ASSUME NEW k \in Nat, k \in A PROVE k + 1 \in A
    <2> SUFFICES ASSUME NEW i \in N, i <= n, i < k + 1 PROVE done(f[i], i)
      OBVIOUS
    <2>1. i \in Nat
      BY DEF VersionNumbers
    <2>2. CASE i < 10
      <3> DEFINE c == DigitFor[i]
      <3>1. i \in 0..2 /\ f[i] = <<c>>
        BY <1>1, <2>2, NumberOf
      <3>2. c \in S /\ c \in DOMAIN V /\ V[c] = i
        BY <1>3, <3>1
      <3>3. 0 * 10 + V[c] = i
        BY <2>1, <3>2
      <3> HIDE DEF c
      <3>4. Steps(start, filled(0), c, going, filled(i))
        BY <1>4, <3>2, <3>3
      <3>5. ReadTo(Append(text, c), going, filled(i)) /\ Append(text, c) \in Seq(S)
        BY <1>5, <3>2, <3>4, ReadOne
      <3>6. Append(text, c) = text \o <<c>> /\ <<c>> \in Seq(S)
        BY <3>2, AppendIsJoin
      <3> QED  BY <3>1, <3>5, <3>6
    <2>3. CASE ~(i < 10)
      <3> DEFINE x == i % 10
                 y == i \div 10
                 c == DigitFor[x]
                 d == f[y]
                 t == text \o d
      <3>1. x \in 0..2 /\ y \in N /\ y < i /\ i = (y * 10) + x /\ f[i] = Append(d, c)
        <4>1. i >= 10
          BY <2>1, <2>3
        <4> QED  BY <1>1, <4>1, NumberOf
      <3>2. c \in S /\ c \in DOMAIN V /\ V[c] = x
        BY <1>3, <3>1
      <3> HIDE DEF x, y, c
      <3>3. done(d, y)
        <4>1. y \in Nat
          BY <3>1 DEF VersionNumbers
        <4>2. y < i
          BY <3>1
        <4>3. y <= n /\ y < k
          BY ONLY <4>1, <4>2, <2>1, <1>2, i <= n, i < k + 1, k \in Nat
        <4> QED  BY <1>7, <3>1, <4>3
      <3>4. Steps(going, filled(y), c, going, filled(i))
        <4>1. y * 10 + V[c] = i
          BY <3>1, <3>2
        <4> QED  BY <1>4, <3>2, <4>1
      <3>5. ReadTo(t, going, filled(y)) /\ t \in Seq(S) /\ d \in Seq(S)
        BY <3>3
      <3> HIDE DEF t, d
      <3>6. ReadTo(Append(t, c), going, filled(i)) /\ Append(t, c) \in Seq(S)
        BY <3>2, <3>4, <3>5, ReadOne
      <3>7. Append(t, c) = text \o Append(d, c) /\ Append(d, c) \in Seq(S)
        <4>1. Append(t, c) = t \o <<c>> /\ Append(d, c) = d \o <<c>> /\ <<c>> \in Seq(S)
          BY <3>2, <3>5, AppendIsJoin
        <4>2. (text \o d) \o <<c>> = text \o (d \o <<c>>)
          BY <3>5, <4>1, JoinThree DEF Associates
        <4>3. Append(d, c) \in Seq(S)
          BY <3>2, <3>5
        <4> QED  BY <4>1, <4>2, <4>3 DEF t
      <3> QED  BY <3>1, <3>6, <3>7
    <2> QED  BY <2>2, <2>3
  <1> HIDE DEF A
  <1>8. Nat \subseteq A
    BY <1>6, <1>7, SetInduction
  <1>9. n + 1 \in A /\ n <= n /\ n < n + 1
    BY <1>2, <1>8
  <1>10. done(f[n], n)
    BY <1>9 DEF A
  <1> QED  BY <1>1, <1>10 DEF going, filled

\* A header's name, and its value behind it.
LEMMA NameRead ==
  ASSUME NEW S, NEW text \in Seq(S), NEW x \in Seq(S), x # <<>>,
         \A i \in 1..Len(x) : Parsing!IsToken(x[i]),
         NEW m, NEW u, NEW a, NEW b, NEW H, NEW h \in Seq(H),
         ReadTo(text, "header_line_start", Filled(m, u, a, b, h))
  PROVE  /\ ReadTo(text \o x, "header_name", Filled(m, u, a, b, Append(h, Header(x, <<>>))))
         /\ text \o x \in Seq(S)
  <1> DEFINE n == Len(x)
             start == "header_line_start"
             name == "header_name"
             none == <<>>
             named(y) == Filled(m, u, a, b, Append(h, Header(y, none)))
             r == Filled(m, u, a, b, h)
             st == [i \in 0..n |-> IF i = 0 THEN start ELSE name]
             rq == [i \in 0..n |-> IF i = 0 THEN r ELSE named(SubSeq(x, 1, i))]
  <1>1. n \in Nat /\ n # 0
    OBVIOUS
  <1>2. \A c, k : Parsing!IsToken(c) =>
          Parsing!Step(Reading(start, k, r), c) = Reading(name, k + 1, named(<<c>>))
    BY NameBegins
  <1>3. \A c : Parsing!IsToken(c) => Steps(start, r, c, name, named(<<c>>))
    <2> HIDE DEF start, name, named, r
    <2> QED  BY <1>2 DEF Steps
  <1>4. \A c, y, k : Parsing!IsToken(c) =>
          Parsing!Step(Reading(name, k, named(y)), c) = Reading(name, k + 1, named(Append(y, c)))
    BY NameReads
  <1>5. \A c, y : Parsing!IsToken(c) => Steps(name, named(y), c, name, named(Append(y, c)))
    <2> HIDE DEF start, name, named, r
    <2> QED  BY <1>4 DEF Steps
  <1>6. ReadTo(text, start, r)
    OBVIOUS
  <1> HIDE DEF n, start, name, r, named
  <1>7. 0 \in 0..n /\ n \in 0..n /\ \A i \in 1..n : i \in 0..n /\ i - 1 \in 0..n /\ i # 0
    BY <1>1
  <1>8. ReadTo(text, st[0], rq[0])
    <2>1. st[0] = start /\ rq[0] = r
      BY <1>7
    <2> HIDE DEF st, rq
    <2> QED  BY <1>6, <2>1
  <1>9. \A i \in 1..n : Steps(st[i - 1], rq[i - 1], x[i], st[i], rq[i])
    <2> TAKE i \in 1..n
    <2> DEFINE y == SubSeq(x, 1, i - 1)
               z == SubSeq(x, 1, i)
               c == x[i]
    <2>1. Append(y, c) = z
      BY PrefixGrows DEF n
    <2>2. Parsing!IsToken(c)
      BY DEF n
    <2>3. st[i] = name /\ rq[i] = named(z)
      BY <1>7
    <2>4. CASE i = 1
      <3>1. z = <<c>>
        <4>1. Len(x) > 0
          BY <1>1 DEF n
        <4> QED  BY <2>4, <4>1, PrefixGrows
      <3>2. st[i - 1] = start /\ rq[i - 1] = r
        BY <2>4, <1>7
      <3> HIDE DEF st, rq, c, z
      <3> QED  BY <1>3, <2>2, <2>3, <3>1, <3>2, Zenon DEF c
    <2>5. CASE i # 1
      <3>1. st[i - 1] = name /\ rq[i - 1] = named(y)
        <4>1. i - 1 # 0
          BY <2>5
        <4> QED  BY <1>7, <4>1
      <3> HIDE DEF st, rq, c, z, y
      <3> QED  BY <1>5, <2>1, <2>2, <2>3, <3>1, Zenon DEF c
    <2> QED  BY <2>4, <2>5, Zenon
  <1>10. st[n] = name /\ rq[n] = named(x)
    <2>1. SubSeq(x, 1, n) = x
      BY PrefixGrows DEF n
    <2> QED  BY <1>1, <1>7, <2>1
  <1> HIDE DEF st, rq
  <1>11. ReadTo(text \o x, st[n], rq[n]) /\ text \o x \in Seq(S)
    BY <1>8, <1>9, ReadMany DEF n
  <1> QED  BY <1>10, <1>11 DEF name, named

LEMMA ValueRead ==
  ASSUME NEW S, NEW text \in Seq(S), NEW y \in Seq(S), \A i \in 1..Len(y) : ~Parsing!IsCtl(y[i]),
         NEW m, NEW u, NEW a, NEW b, NEW H, NEW h \in Seq(H), NEW x,
         ReadTo(text, "header_value", Filled(m, u, a, b, Append(h, Header(x, <<>>))))
  PROVE  /\ ReadTo(text \o y, "header_value", Filled(m, u, a, b, Append(h, Header(x, y))))
         /\ text \o y \in Seq(S)
  <1> DEFINE n == Len(y)
             value == "header_value"
             valued(v) == Filled(m, u, a, b, Append(h, Header(x, v)))
             st == [i \in 0..n |-> value]
             rq == [i \in 0..n |-> valued(SubSeq(y, 1, i))]
  <1>1. n \in Nat
    OBVIOUS
  <1>2. \A c, v, k : ~Parsing!IsCtl(c) =>
          Parsing!Step(Reading(value, k, valued(v)), c) = Reading(value, k + 1, valued(Append(v, c)))
    BY ValueReads
  <1>3. \A c, v : ~Parsing!IsCtl(c) => Steps(value, valued(v), c, value, valued(Append(v, c)))
    <2> HIDE DEF value, valued
    <2> QED  BY <1>2 DEF Steps
  <1>4. ReadTo(text, value, valued(<<>>))
    OBVIOUS
  <1> HIDE DEF n, value, valued
  <1>5. 0 \in 0..n /\ n \in 0..n /\ \A i \in 1..n : i \in 0..n /\ i - 1 \in 0..n
    BY <1>1
  <1>6. ReadTo(text, st[0], rq[0])
    <2>1. st[0] = value /\ rq[0] = valued(<<>>)
      BY <1>5, PrefixGrows
    <2> HIDE DEF st, rq
    <2> QED  BY <1>4, <2>1
  <1>7. \A i \in 1..n : Steps(st[i - 1], rq[i - 1], y[i], st[i], rq[i])
    <2> TAKE i \in 1..n
    <2> DEFINE v == SubSeq(y, 1, i - 1)
               w == SubSeq(y, 1, i)
               c == y[i]
    <2>1. Append(v, c) = w
      BY PrefixGrows DEF n
    <2>2. ~Parsing!IsCtl(c)
      BY DEF n
    <2>3. st[i] = value /\ rq[i] = valued(w) /\ st[i - 1] = value /\ rq[i - 1] = valued(v)
      BY <1>5
    <2> HIDE DEF st, rq, v, w, c
    <2> QED  BY <1>3, <2>1, <2>2, <2>3, Zenon DEF c
  <1>8. st[n] = value /\ rq[n] = valued(y)
    <2>1. SubSeq(y, 1, n) = y
      BY PrefixGrows DEF n
    <2> QED  BY <1>5, <2>1
  <1> HIDE DEF st, rq
  <1>9. ReadTo(text \o y, st[n], rq[n]) /\ text \o y \in Seq(S)
    BY <1>6, <1>7, ReadMany DEF n
  <1> QED  BY <1>8, <1>9 DEF value, valued

\* The line of a header.
LineOf(x, y) == ((x \o <<":", Parsing!Space>>) \o y) \o <<Parsing!CR, Parsing!LF>>

\* The characters between the fields of a request.
Marks == {"0", "1", "2", ":", "/", ".", "H", "T", "P", Parsing!Space, Parsing!CR, Parsing!LF}

LEMMA JoinFive ==
  ASSUME NEW S, NEW text \in Seq(S), NEW x \in Seq(S), NEW c \in Seq(S), NEW y \in Seq(S), NEW e \in Seq(S)
  PROVE  /\ text \o (((x \o c) \o y) \o e) = (((text \o x) \o c) \o y) \o e
         /\ ((x \o c) \o y) \o e \in Seq(S)
  <1> DEFINE xc == x \o c
             xcy == xc \o y
  <1>1. xc \in Seq(S) /\ text \o xc = (text \o x) \o c
    <2>1. xc \in Seq(S)
      BY JoinTyped
    <2>2. text \o xc = (text \o x) \o c
      <3>1. Associates(text, x, c)
        BY JoinThree
      <3> QED  BY <3>1, Zenon DEF Associates, xc
    <2> QED  BY <2>1, <2>2
  <1> HIDE DEF xc
  <1>2. xcy \in Seq(S) /\ text \o xcy = (text \o xc) \o y
    <2>1. xcy \in Seq(S)
      BY <1>1, JoinTyped
    <2>2. text \o xcy = (text \o xc) \o y
      <3>1. Associates(text, xc, y)
        BY <1>1, JoinThree
      <3> QED  BY <3>1, Zenon DEF Associates, xcy
    <2> QED  BY <2>1, <2>2
  <1> HIDE DEF xcy
  <1>3. xcy \o e \in Seq(S) /\ text \o (xcy \o e) = (text \o xcy) \o e
    <2>1. xcy \o e \in Seq(S)
      BY <1>2, JoinTyped
    <2>2. text \o (xcy \o e) = (text \o xcy) \o e
      <3>1. Associates(text, xcy, e)
        BY <1>2, JoinThree
      <3> QED  BY <3>1, Zenon DEF Associates
    <2> QED  BY <2>1, <2>2
  <1> QED  BY <1>1, <1>2, <1>3, Zenon DEF xc, xcy

LEMMA HeaderRead ==
  ASSUME NEW S, Marks \subseteq S, NEW text \in Seq(S), NEW x \in Seq(S), x # <<>>,
         \A i \in 1..Len(x) : Parsing!IsToken(x[i]),
         NEW y \in Seq(S), \A i \in 1..Len(y) : ~Parsing!IsCtl(y[i]),
         NEW m, NEW u, NEW a, NEW b, NEW H, NEW h \in Seq(H),
         ReadTo(text, "header_line_start", Filled(m, u, a, b, h))
  PROVE  /\ ReadTo(text \o LineOf(x, y), "header_line_start", Filled(m, u, a, b, Append(h, Header(x, y))))
         /\ LineOf(x, y) \in Seq(S)
  <1> DEFINE colon == ":"
             space == Parsing!Space
             cr == Parsing!CR
             lf == Parsing!LF
             none == <<>>
             r(v) == Filled(m, u, a, b, Append(h, Header(x, v)))
             t1 == text \o x
             t2 == t1 \o <<colon, space>>
             t3 == t2 \o y
             t4 == t3 \o <<cr, lf>>
  <1>1. colon \in S /\ space \in S /\ cr \in S /\ lf \in S
    BY DEF Marks
  <1>2. ReadTo(t1, "header_name", r(none)) /\ t1 \in Seq(S)
    BY NameRead
  <1> DEFINE q == r(none)
             f == r(y)
  <1>3. /\ Steps("header_name", q, colon, "space_before_header_value", q)
        /\ Steps("space_before_header_value", q, space, "header_value", q)
    <2> HIDE DEF q
    <2>1. \A k : Parsing!Step(Reading("header_name", k, q), colon)
                   = Reading("space_before_header_value", k + 1, q)
      BY NameEnds
    <2>2. \A k : Parsing!Step(Reading("space_before_header_value", k, q), space)
                   = Reading("header_value", k + 1, q)
      <3> DEFINE s == "space_before_header_value"
      <3>1. /\ s \in DOMAIN Parsing!Expected /\ s # "expecting_newline_3" /\ s # "http_version_slash"
            /\ Parsing!Expected[s] = space /\ Parsing!After[s] = "header_value"
        BY DEF Parsing!Expected, Parsing!After
      <3> HIDE DEF s, space
      <3>2. \A k : Parsing!Step(Reading(s, k, q), Parsing!Expected[s]) = Reading(Parsing!After[s], k + 1, q)
        BY <3>1, ExpectedReads
      <3>3. \A k : Parsing!Step(Reading(s, k, q), space) = Reading("header_value", k + 1, q)
        BY <3>1, <3>2
      <3> QED  BY <3>3 DEF s
    <2> QED  BY <2>1, <2>2 DEF Steps
  <1>4. /\ Steps("header_value", f, cr, "expecting_newline_2", f)
        /\ Steps("expecting_newline_2", f, lf, "header_line_start", f)
    <2> HIDE DEF f
    <2>1. \A k : Parsing!Step(Reading("header_value", k, f), cr) = Reading("expecting_newline_2", k + 1, f)
      BY ValueEnds
    <2>2. \A k : Parsing!Step(Reading("expecting_newline_2", k, f), lf) = Reading("header_line_start", k + 1, f)
      <3> DEFINE s == "expecting_newline_2"
      <3>1. /\ s \in DOMAIN Parsing!Expected /\ s # "expecting_newline_3" /\ s # "http_version_slash"
            /\ Parsing!Expected[s] = lf /\ Parsing!After[s] = "header_line_start"
        BY DEF Parsing!Expected, Parsing!After
      <3> HIDE DEF s, lf
      <3>2. \A k : Parsing!Step(Reading(s, k, f), Parsing!Expected[s]) = Reading(Parsing!After[s], k + 1, f)
        BY <3>1, ExpectedReads
      <3>3. \A k : Parsing!Step(Reading(s, k, f), lf) = Reading("header_line_start", k + 1, f)
        BY <3>1, <3>2
      <3> QED  BY <3>3 DEF s
    <2> QED  BY <2>1, <2>2 DEF Steps
  <1>5. ReadTo(t2, "header_value", q) /\ t2 \in Seq(S)
    <2> HIDE DEF t1, q, colon, space
    <2> QED  BY <1>1, <1>2, <1>3, ReadTwo DEF q
  <1>6. ReadTo(t3, "header_value", f) /\ t3 \in Seq(S)
    <2> HIDE DEF t2
    <2> QED  BY <1>5, ValueRead
  <1>7. ReadTo(t4, "header_line_start", f)
    <2> HIDE DEF t3, f, cr, lf
    <2> QED  BY <1>1, <1>4, <1>6, ReadTwo
  <1>8. text \o LineOf(x, y) = t4 /\ LineOf(x, y) \in Seq(S)
    <2> DEFINE c == <<colon, space>>
               e == <<cr, lf>>
    <2>1. c \in Seq(S) /\ e \in Seq(S)
      <3> HIDE DEF colon, space, cr, lf
      <3> QED  BY <1>1
    <2> HIDE DEF c, e
    <2>2. /\ text \o (((x \o c) \o y) \o e) = (((text \o x) \o c) \o y) \o e
          /\ ((x \o c) \o y) \o e \in Seq(S)
      BY <2>1, JoinFive
    <2> QED  BY <2>2, Zenon DEF c, e, LineOf, t1, t2, t3, t4, colon, space, cr, lf
  <1> QED  BY <1>7, <1>8, Zenon DEF f

LEMMA ReadSingle ==
  ASSUME NEW S, NEW text \in Seq(S), NEW c \in S, NEW s, NEW r, NEW t, NEW q,
         ReadTo(text, s, r), Steps(s, r, c, t, q)
  PROVE  ReadTo(text \o <<c>>, t, q) /\ text \o <<c>> \in Seq(S)
  <1>1. ReadTo(Append(text, c), t, q) /\ Append(text, c) \in Seq(S)
    BY ReadOne
  <1>2. Append(text, c) = text \o <<c>>
    BY AppendIsJoin
  <1> QED  BY <1>1, <1>2, Zenon

\* One character that is waited for.
LEMMA ExpectedSteps ==
  ASSUME NEW s \in DOMAIN Parsing!Expected, s # "expecting_newline_3", s # "http_version_slash", NEW r
  PROVE  Steps(s, r, Parsing!Expected[s], Parsing!After[s], r)
  BY ExpectedReads DEF Steps

\* The protocol's name, from the uri's end to the version.
Protocol == <<Parsing!Space, "H", "T", "T", "P", "/">>

LEMMA ProtocolRead ==
  ASSUME NEW S, Marks \subseteq S, NEW text \in Seq(S), NEW m, NEW u, NEW a, NEW b, NEW h,
         ReadTo(text, "uri", Filled(m, u, a, b, h))
  PROVE  /\ ReadTo(text \o Protocol, "http_version_major_start", Filled(m, u, 0, 0, h))
         /\ text \o Protocol \in Seq(S)
  <1> DEFINE r == Filled(m, u, a, b, h)
             q == Filled(m, u, 0, 0, h)
             states == <<"uri", "http_version_h", "http_version_t_1", "http_version_t_2", "http_version_p",
                         "http_version_slash", "http_version_major_start">>
             st == [i \in 0..6 |-> states[i + 1]]
             rq == [i \in 0..6 |-> IF i = 6 THEN q ELSE r]
  <1>1. /\ Steps("uri", r, Parsing!Space, "http_version_h", r)
        /\ Steps("http_version_slash", r, "/", "http_version_major_start", q)
    <2>1. \A k : Parsing!Step(Reading("uri", k, r), Parsing!Space) = Reading("http_version_h", k + 1, r)
      <3> HIDE DEF r
      <3> QED  BY UriEnds
    <2>2. \A k : Parsing!Step(Reading("http_version_slash", k, r), "/")
                   = Reading("http_version_major_start", k + 1, q)
      BY SlashReads
    <2> HIDE DEF r, q
    <2> QED  BY <2>1, <2>2, Zenon DEF Steps
  <1> HIDE DEF r, q
  <1>2. /\ Steps("http_version_h", r, "H", "http_version_t_1", r)
        /\ Steps("http_version_t_1", r, "T", "http_version_t_2", r)
        /\ Steps("http_version_t_2", r, "T", "http_version_p", r)
        /\ Steps("http_version_p", r, "P", "http_version_slash", r)
    <2>1. \A s \in {"http_version_h", "http_version_t_1", "http_version_t_2", "http_version_p"} :
            Steps(s, r, Parsing!Expected[s], Parsing!After[s], r)
      BY ExpectedStates, ExpectedSteps
    <2>2. /\ Parsing!Expected["http_version_h"] = "H" /\ Parsing!After["http_version_h"] = "http_version_t_1"
          /\ Parsing!Expected["http_version_t_1"] = "T"
          /\ Parsing!After["http_version_t_1"] = "http_version_t_2"
          /\ Parsing!Expected["http_version_t_2"] = "T" /\ Parsing!After["http_version_t_2"] = "http_version_p"
          /\ Parsing!Expected["http_version_p"] = "P" /\ Parsing!After["http_version_p"] = "http_version_slash"
      BY DEF Parsing!Expected, Parsing!After
    <2> QED  BY <2>1, <2>2, Zenon
  <1>3. Protocol \in Seq(S) /\ Len(Protocol) = 6
    <2> DEFINE c == Parsing!Space
    <2>1. c \in S /\ "H" \in S /\ "T" \in S /\ "P" \in S /\ "/" \in S
      BY DEF Marks
    <2> HIDE DEF c
    <2>2. <<c, "H", "T", "T", "P", "/">> \in Seq(S) /\ Len(<<c, "H", "T", "T", "P", "/">>) = 6
      BY <2>1
    <2> QED  BY <2>2 DEF Protocol, c
  <1>4. ReadTo(text, st[0], rq[0])
    <2>1. st[0] = "uri" /\ rq[0] = r
      OBVIOUS
    <2> QED  BY <2>1 DEF r
  <1>5. \A i \in 1..6 : Steps(st[i - 1], rq[i - 1], Protocol[i], st[i], rq[i])
    <2> TAKE i \in 1..6
    <2> DEFINE c == Parsing!Space
    <2>1. /\ Protocol[1] = c /\ Protocol[2] = "H" /\ Protocol[3] = "T" /\ Protocol[4] = "T"
          /\ Protocol[5] = "P" /\ Protocol[6] = "/"
      BY DEF Protocol
    <2>2. /\ st[0] = "uri" /\ st[1] = "http_version_h" /\ st[2] = "http_version_t_1"
          /\ st[3] = "http_version_t_2" /\ st[4] = "http_version_p" /\ st[5] = "http_version_slash"
          /\ st[6] = "http_version_major_start"
      OBVIOUS
    <2>3. rq[0] = r /\ rq[1] = r /\ rq[2] = r /\ rq[3] = r /\ rq[4] = r /\ rq[5] = r /\ rq[6] = q
      OBVIOUS
    <2>4. /\ i = 1 \/ i = 2 \/ i = 3 \/ i = 4 \/ i = 5 \/ i = 6
          /\ 1 - 1 = 0 /\ 2 - 1 = 1 /\ 3 - 1 = 2 /\ 4 - 1 = 3 /\ 5 - 1 = 4 /\ 6 - 1 = 5
      OBVIOUS
    <2> HIDE DEF st, rq
    <2>5. Steps(st[1 - 1], rq[1 - 1], Protocol[1], st[1], rq[1])
      BY <1>1, <2>1, <2>2, <2>3, <2>4, Zenon
    <2>6. Steps(st[2 - 1], rq[2 - 1], Protocol[2], st[2], rq[2])
      BY <1>2, <2>1, <2>2, <2>3, <2>4, Zenon
    <2>7. Steps(st[3 - 1], rq[3 - 1], Protocol[3], st[3], rq[3])
      BY <1>2, <2>1, <2>2, <2>3, <2>4, Zenon
    <2>8. Steps(st[4 - 1], rq[4 - 1], Protocol[4], st[4], rq[4])
      BY <1>2, <2>1, <2>2, <2>3, <2>4, Zenon
    <2>9. Steps(st[5 - 1], rq[5 - 1], Protocol[5], st[5], rq[5])
      BY <1>2, <2>1, <2>2, <2>3, <2>4, Zenon
    <2>10. Steps(st[6 - 1], rq[6 - 1], Protocol[6], st[6], rq[6])
      BY <1>1, <2>1, <2>2, <2>3, <2>4, Zenon
    <2> QED  BY ONLY <2>4, <2>5, <2>6, <2>7, <2>8, <2>9, <2>10, Zenon
  <1>6. st[6] = "http_version_major_start" /\ rq[6] = q
    OBVIOUS
  <1> HIDE DEF st, rq
  <1>7. ReadTo(text \o Protocol, st[6], rq[6]) /\ text \o Protocol \in Seq(S)
    BY <1>3, <1>4, <1>5, ReadMany
  <1> QED  BY <1>6, <1>7 DEF q

\* A request that can be written: its characters are those of S, its version's numbers those of N.
Writable(q, S, N) ==
  /\ q \in [method : Seq(S), uri : Seq(S), major : N, minor : N,
            headers : Seq([name : Seq(S), value : Seq(S)])]
  /\ q.method # <<>> /\ \A i \in 1..Len(q.method) : Parsing!IsToken(q.method[i])
  /\ \A i \in 1..Len(q.uri) : q.uri[i] # Parsing!Space /\ ~Parsing!IsCtl(q.uri[i])
  /\ \A k \in 1..Len(q.headers) :
       /\ q.headers[k].name # <<>>
       /\ \A i \in 1..Len(q.headers[k].name) : Parsing!IsToken(q.headers[k].name[i])
       /\ \A i \in 1..Len(q.headers[k].value) : ~Parsing!IsCtl(q.headers[k].value[i])

HeaderLines(headers) == [i \in DOMAIN headers |-> LineOf(headers[i].name, headers[i].value)]

LEMMA HeadersRead ==
  ASSUME NEW S, Marks \subseteq S, NEW text \in Seq(S), NEW m, NEW u, NEW a, NEW b,
         NEW headers \in Seq([name : Seq(S), value : Seq(S)]),
         \A k \in 1..Len(headers) :
           /\ headers[k].name # <<>>
           /\ \A i \in 1..Len(headers[k].name) : Parsing!IsToken(headers[k].name[i])
           /\ \A i \in 1..Len(headers[k].value) : ~Parsing!IsCtl(headers[k].value[i]),
         ReadTo(text, "header_line_start", Filled(m, u, a, b, <<>>))
  PROVE  /\ ReadTo(text \o Requests!FlattenSeq(HeaderLines(headers)), "header_line_start",
                   Filled(m, u, a, b, headers))
         /\ text \o Requests!FlattenSeq(HeaderLines(headers)) \in Seq(S)
  <1> DEFINE H == [name : Seq(S), value : Seq(S)]
             n == Len(headers)
             parts == HeaderLines(headers)
             start == "header_line_start"
             read(i) == SubSeq(headers, 1, i)
             filled(i) == Filled(m, u, a, b, read(i))
  <1>1. n \in Nat /\ DOMAIN headers = 1..n /\ \A i \in 1..n : headers[i] \in H
    <2> HIDE DEF H
    <2>1. headers \in Seq(H)
      BY DEF H
    <2> QED  BY <2>1
  <1>2. \A i \in 1..n : parts[i] = LineOf(headers[i].name, headers[i].value)
    BY <1>1 DEF HeaderLines
  <1>3. ASSUME NEW i \in 1..n, NEW t \in Seq(S), ReadTo(t, start, filled(i - 1))
        PROVE  ReadTo(t \o parts[i], start, filled(i)) /\ parts[i] \in Seq(S)
    <2> DEFINE x == headers[i].name
               y == headers[i].value
               h == read(i - 1)
    <2>1. x \in Seq(S) /\ y \in Seq(S) /\ headers[i] = Header(x, y)
      <3>1. headers[i] \in [name : Seq(S), value : Seq(S)]
        BY <1>1
      <3> QED  BY <3>1 DEF Header
    <2>2. x # <<>> /\ (\A j \in 1..Len(x) : Parsing!IsToken(x[j])) /\ \A j \in 1..Len(y) : ~Parsing!IsCtl(y[j])
      OBVIOUS
    <2>3. h \in Seq(H) /\ Append(h, headers[i]) = read(i)
      <3> HIDE DEF H
      <3>1. headers \in Seq(H)
        BY DEF H
      <3>2. h \in Seq(H)
        BY <1>1, <3>1
      <3>3. Append(h, headers[i]) = read(i)
        BY <3>1, PrefixGrows
      <3> QED  BY <3>2, <3>3
    <2>4. ReadTo(t, start, Filled(m, u, a, b, h))
      BY <1>3
    <2> HIDE DEF x, y, h, H
    <2>5. /\ ReadTo(t \o LineOf(x, y), start, Filled(m, u, a, b, Append(h, Header(x, y))))
          /\ LineOf(x, y) \in Seq(S)
      BY <2>1, <2>2, <2>3, <2>4, HeaderRead
    <2>6. parts[i] = LineOf(x, y)
      BY <1>2 DEF x, y
    <2> QED  BY <2>1, <2>3, <2>5, <2>6, Zenon
  <1>4. \A i \in 1..n : parts[i] \in Seq(S)
    <2> TAKE i \in 1..n
    <2> DEFINE x == headers[i].name
               y == headers[i].value
    <2>1. x \in Seq(S) /\ y \in Seq(S)
      BY <1>1
    <2> HIDE DEF x, y
    <2>2. <<":", Parsing!Space>> \in Seq(S) /\ <<Parsing!CR, Parsing!LF>> \in Seq(S)
      BY DEF Marks
    <2>3. LineOf(x, y) \in Seq(S)
      BY <2>1, <2>2, JoinFive DEF LineOf
    <2> QED  BY <1>2, <2>3 DEF x, y
  <1>5. parts \in Seq(Seq(S)) /\ Len(parts) = n
    <2>1. parts = [i \in 1..n |-> LineOf(headers[i].name, headers[i].value)]
      BY <1>1 DEF HeaderLines
    <2>2. parts = [i \in 1..n |-> parts[i]]
      BY <2>1
    <2> DEFINE T == Seq(S)
    <2> HIDE DEF parts, n, T
    <2>3. \A i \in 1..n : parts[i] \in T
      BY <1>4 DEF T
    <2>4. parts \in [1..n -> T]
      BY <2>2, <2>3
    <2>5. parts \in Seq(T) /\ Len(parts) = n
      BY <1>1, <2>4
    <2> QED  BY <2>5 DEF T
  <1> HIDE DEF parts, n
  <1>6. PICK g \in [0..n -> Seq(S)] :
           /\ Requests!FlattenSeq(parts) = g[n] /\ g[0] = <<>>
           /\ \A i \in 1..n : Longer(g[i], g[i - 1], parts[i])
    BY <1>5, FlattenFrom
  <1>7. \A i \in 0..n : g[i] \in Seq(S) /\ text \o g[i] \in Seq(S)
    BY <1>6
  <1> HIDE DEF filled, start
  <1> DEFINE A == {k \in Nat : k <= n => ReadTo(text \o g[k], start, filled(k))}
  <1>8. 0 \in A
    <2>1. read(0) = <<>>
      OBVIOUS
    <2>2. text \o <<>> = text
      BY JoinNothing
    <2>3. ReadTo(text, start, filled(0))
      BY <2>1 DEF filled, start
    <2> HIDE DEF read
    <2> QED  BY <1>6, <2>2, <2>3
  <1>9. ASSUME NEW k \in Nat, k \in A PROVE k + 1 \in A
    <2> DEFINE e == k + 1
    <2> SUFFICES ASSUME e <= n PROVE ReadTo(text \o g[e], start, filled(e))
      OBVIOUS
    <2>1. e \in 1..n /\ e - 1 = k /\ k \in 0..n /\ k <= n
      BY <1>1
    <2> HIDE DEF e
    <2> DEFINE t == text \o g[k]
    <2>2. t \in Seq(S) /\ ReadTo(t, start, filled(e - 1))
      BY <1>7, <1>9, <2>1
    <2> HIDE DEF t
    <2>3. ReadTo(t \o parts[e], start, filled(e))
      BY <1>3, <2>1, <2>2
    <2>4. t \o parts[e] = text \o g[e]
      <3>1. g[e] = g[k] \o parts[e]
        BY <1>6, <2>1 DEF Longer
      <3>2. g[k] \in Seq(S) /\ parts[e] \in Seq(S)
        BY <1>4, <1>7, <2>1
      <3>3. Associates(text, g[k], parts[e])
        BY <3>2, JoinThree
      <3> QED  BY <3>1, <3>3, Zenon DEF Associates, t
    <2> QED  BY <2>3, <2>4, Zenon
  <1> HIDE DEF A
  <1>10. Nat \subseteq A
    BY <1>8, <1>9, SetInduction
  <1>11. ReadTo(text \o g[n], start, filled(n))
    BY <1>1, <1>10 DEF A
  <1>12. read(n) = headers
    BY PrefixGrows DEF n
  <1>13. n \in 0..n
    BY <1>1
  <1> QED  BY <1>6, <1>7, <1>11, <1>12, <1>13, Zenon DEF filled, start, parts

\* The line break behind the version's numbers, and the last one.
LEMMA BreaksRead ==
  ASSUME NEW S, Marks \subseteq S, NEW text \in Seq(S), NEW r, ReadTo(text, "http_version_minor", r)
  PROVE  /\ ReadTo(text \o <<Parsing!CR, Parsing!LF>>, "header_line_start", r)
         /\ text \o <<Parsing!CR, Parsing!LF>> \in Seq(S)
  <1> DEFINE cr == Parsing!CR
             lf == Parsing!LF
             s == "expecting_newline_1"
  <1>1. cr \in S /\ lf \in S
    BY DEF Marks
  <1>2. Steps("http_version_minor", r, cr, s, r)
    BY MinorEnds DEF Steps
  <1>3. Steps(s, r, lf, "header_line_start", r)
    <2>1. /\ s \in DOMAIN Parsing!Expected /\ s # "expecting_newline_3" /\ s # "http_version_slash"
          /\ Parsing!Expected[s] = lf /\ Parsing!After[s] = "header_line_start"
      BY DEF Parsing!Expected, Parsing!After
    <2> HIDE DEF s, lf
    <2>2. Steps(s, r, Parsing!Expected[s], Parsing!After[s], r)
      BY <2>1, ExpectedSteps
    <2> QED  BY <2>1, <2>2
  <1> HIDE DEF cr, lf, s
  <1>4. ReadTo(text \o <<cr, lf>>, "header_line_start", r) /\ text \o <<cr, lf>> \in Seq(S)
    BY <1>1, <1>2, <1>3, ReadTwo
  <1> QED  BY <1>4 DEF cr, lf

LEMMA LastRead ==
  ASSUME NEW S, Marks \subseteq S, NEW text \in Seq(S), NEW m, NEW u, NEW a, NEW b, NEW h,
         ReadTo(text, "header_line_start", Filled(m, u, a, b, h))
  PROVE  Parsing!Parse(text \o <<Parsing!CR, Parsing!LF>>)
           = Finished(Len(text \o <<Parsing!CR, Parsing!LF>>), m, u, a, b, h)
  <1> DEFINE cr == Parsing!CR
             lf == Parsing!LF
             r == Filled(m, u, a, b, h)
             s == "expecting_newline_3"
             x == Append(text, cr)
             y == Append(x, lf)
             w == text \o <<cr, lf>>
  <1>1. cr \in S /\ lf \in S
    BY DEF Marks
  <1>2. Steps("header_line_start", r, cr, s, r)
    <2> HIDE DEF r
    <2> QED  BY HeadersEnd DEF Steps
  <1>3. \A k : Parsing!Step(Reading(s, k, r), lf) = Finished(k + 1, m, u, a, b, h)
    BY RequestEnds
  <1>4. ReadTo(text, "header_line_start", r)
    OBVIOUS
  <1> HIDE DEF cr, lf, r, s
  <1>5. ReadTo(x, s, r) /\ x \in Seq(S)
    BY <1>1, <1>2, <1>4, ReadOne
  <1>6. y = w /\ Len(w) = Len(x) + 1
    <2>1. y \in Seq(S) /\ w \in Seq(S) /\ Len(y) = Len(w) /\ Len(w) = Len(x) + 1
      BY <1>1
    <2>2. \A j \in 1..Len(y) : y[j] = w[j]
      BY <1>1
    <2> HIDE DEF y, w, x
    <2>3. y = w
      BY ONLY <2>1, <2>2, SameSequence
    <2> QED  BY <2>1, <2>3
  <1> HIDE DEF x
  <1>7. Parsing!Parse(y) = Parsing!Step(Parsing!Parse(x), lf)
    BY <1>1, <1>5, ParseMore
  <1> HIDE DEF y, w
  <1>8. Parsing!Parse(y) = Finished(Len(x) + 1, m, u, a, b, h)
    BY <1>3, <1>5, <1>7, Zenon DEF ReadTo
  <1>9. Parsing!Parse(w) = Finished(Len(w), m, u, a, b, h)
    BY <1>6, <1>8, Zenon
  <1> QED  BY <1>9 DEF w, cr, lf

\* Every request that can be written is read as it is written (http_request_parser.cpp:65): the
\* parser accepts its text, at the last character and not before, and has filled in its method, its
\* uri, its version and each of its headers, in their order; the type is that of its method.
THEOREM EveryRequestWrittenIsRead ==
  ASSUME NEW S, Marks \subseteq S, NEW N, VersionNumbers(N), NEW q, Writable(q, S, N)
  PROVE  Parsing!WrittenIsRead(q)
  <1> DEFINE m == q.method
             u == q.uri
             a == q.major
             b == q.minor
             h == q.headers
             none == Parsing!Unset
             space == Parsing!Space
             dot == "."
             break == <<Parsing!CR, Parsing!LF>>
             lines == Requests!FlattenSeq(HeaderLines(h))
             t1 == m \o <<space>>
             t2 == t1 \o u
             t3 == t2 \o Protocol
             t4 == t3 \o Parsing!Decimal(a)
             t5 == t4 \o <<dot>>
             t6 == t5 \o Parsing!Decimal(b)
             t7 == t6 \o break
             t8 == t7 \o lines
             t9 == t8 \o break
             p == Parsing!Parse(t9)
  <1>1. q \in [method : Seq(S), uri : Seq(S), major : N, minor : N,
               headers : Seq([name : Seq(S), value : Seq(S)])]
    BY Zenon DEF Writable
  <1>2. m \in Seq(S) /\ u \in Seq(S) /\ a \in N /\ b \in N /\ h \in Seq([name : Seq(S), value : Seq(S)])
    BY <1>1
  <1>3. m # <<>> /\ \A i \in 1..Len(m) : Parsing!IsToken(m[i])
    BY Zenon DEF Writable
  <1>4. \A i \in 1..Len(u) : u[i] # Parsing!Space /\ ~Parsing!IsCtl(u[i])
    BY Zenon DEF Writable
  <1>5. \A k \in 1..Len(h) :
          /\ h[k].name # <<>>
          /\ \A i \in 1..Len(h[k].name) : Parsing!IsToken(h[k].name[i])
          /\ \A i \in 1..Len(h[k].value) : ~Parsing!IsCtl(h[k].value[i])
    BY Zenon DEF Writable
  <1>6. space \in S /\ dot \in S /\ {"0", "1", "2"} \subseteq S
    BY DEF Marks
  <1>7. Parsing!Written(q) = t9
    <2>1. \A w : Parsing!FlattenSeq(w) = Requests!FlattenSeq(w)
      BY Zenon DEF Parsing!FlattenSeq, Requests!FlattenSeq
    <2>2. Parsing!Written(q)
            = ((((((((m \o <<space>>) \o u) \o Protocol) \o Parsing!Decimal(a)) \o <<dot>>)
                  \o Parsing!Decimal(b)) \o break) \o Parsing!FlattenSeq(HeaderLines(h))) \o break
      BY Zenon DEF Parsing!Written, HeaderLines, LineOf, Protocol
    <2> QED  BY <2>1, <2>2, Zenon
  <1>8. DOMAIN q = {"method", "uri", "major", "minor", "headers"}
    BY <1>1
  <1> HIDE DEF m, u, a, b, h, none, space, dot, break, lines
  <1>9. ReadTo(m, "method", Filled(m, <<>>, none, none, <<>>))
    BY <1>2, <1>3, MethodRead DEF none
  <1>10. ReadTo(t1, "uri", Filled(m, <<>>, none, none, <<>>)) /\ t1 \in Seq(S)
    <2> DEFINE r == Filled(m, <<>>, none, none, <<>>)
    <2> HIDE DEF r
    <2>1. Steps("method", r, space, "uri", r)
      BY MethodEnds DEF Steps, space
    <2>2. ReadTo(m, "method", r)
      BY <1>9 DEF r
    <2>3. ReadTo(t1, "uri", r) /\ t1 \in Seq(S)
      BY <1>2, <1>6, <2>1, <2>2, ReadSingle
    <2> QED  BY <2>3 DEF r
  <1> HIDE DEF t1
  <1>11. ReadTo(t2, "uri", Filled(m, u, none, none, <<>>)) /\ t2 \in Seq(S)
    BY <1>2, <1>4, <1>10, UriRead
  <1> HIDE DEF t2
  <1>12. ReadTo(t3, "http_version_major_start", Filled(m, u, 0, 0, <<>>)) /\ t3 \in Seq(S)
    BY <1>11, ProtocolRead
  <1> HIDE DEF t3
  <1>13. ReadTo(t4, "http_version_major", Filled(m, u, a, 0, <<>>)) /\ t4 \in Seq(S)
    BY <1>2, <1>6, <1>12, MajorRead
  <1> HIDE DEF t4
  <1>14. ReadTo(t5, "http_version_minor_start", Filled(m, u, a, 0, <<>>)) /\ t5 \in Seq(S)
    <2> DEFINE r == Filled(m, u, a, 0, <<>>)
    <2> HIDE DEF r
    <2>1. Steps("http_version_major", r, dot, "http_version_minor_start", r)
      BY MajorEnds DEF Steps, dot
    <2>2. ReadTo(t4, "http_version_major", r)
      BY <1>13 DEF r
    <2>3. ReadTo(t5, "http_version_minor_start", r) /\ t5 \in Seq(S)
      BY <1>6, <1>13, <2>1, <2>2, ReadSingle
    <2> QED  BY <2>3 DEF r
  <1> HIDE DEF t5
  <1>15. ReadTo(t6, "http_version_minor", Filled(m, u, a, b, <<>>)) /\ t6 \in Seq(S)
    BY <1>2, <1>6, <1>14, MinorRead
  <1> HIDE DEF t6
  <1>16. ReadTo(t7, "header_line_start", Filled(m, u, a, b, <<>>)) /\ t7 \in Seq(S)
    <2> DEFINE r == Filled(m, u, a, b, <<>>)
    <2> HIDE DEF r
    <2>1. ReadTo(t6, "http_version_minor", r)
      BY <1>15 DEF r
    <2>2. ReadTo(t7, "header_line_start", r) /\ t7 \in Seq(S)
      BY <1>15, <2>1, BreaksRead DEF break
    <2> QED  BY <2>2 DEF r
  <1> HIDE DEF t7
  <1>17. ReadTo(t8, "header_line_start", Filled(m, u, a, b, h)) /\ t8 \in Seq(S)
    BY <1>2, <1>5, <1>16, HeadersRead DEF lines
  <1> HIDE DEF t8
  <1>18. p = Finished(Len(t9), m, u, a, b, h)
    BY <1>17, LastRead DEF break
  <1> HIDE DEF p, t9
  <1>19. /\ p.result = "good" /\ p.consumed = Len(t9)
         /\ p.request.mtype = Parsing!TypeOfMethod(m)
         /\ p.request["method"] = m /\ p.request["uri"] = u /\ p.request["major"] = a
         /\ p.request["minor"] = b /\ p.request["headers"] = h
    BY <1>18 DEF Finished
  <1>20. \A field \in DOMAIN q : p.request[field] = q[field]
    BY <1>8, <1>19 DEF m, u, a, b, h
  <1>21. p = Parsing!Parse(Parsing!Written(q))
    BY <1>7, Zenon DEF p
  <1> QED  BY <1>7, <1>19, <1>20, <1>21, Zenon DEF Parsing!WrittenIsRead, m

\* The requests that the run writes can be written.
LEMMA RunNumbers == VersionNumbers({0, 1, 10, 12})
  <1> DEFINE N == {0, 1, 10, 12}
  <1>1. N \subseteq Nat
    OBVIOUS
  <1>2. 0 % 10 = 0 /\ 1 % 10 = 1 /\ 10 % 10 = 0 /\ 12 % 10 = 2 /\ 10 \div 10 = 1 /\ 12 \div 10 = 1
    OBVIOUS
  <1>3. \A n \in N : n % 10 \in 0..2 /\ (n >= 10 => n \div 10 \in N)
    <2> TAKE n \in N
    <2>1. n = 0 \/ n = 1 \/ n = 10 \/ n = 12
      OBVIOUS
    <2> QED  BY <1>2, <2>1
  <1> QED  BY <1>1, <1>3 DEF VersionNumbers

RunSigns == Marks \cup {"G", "E", "T", "P", "O", "S", "H", "A", "D", "a", "b", "HIGH"}

LEMMA RunCharacters ==
  /\ Marks \subseteq RunSigns
  /\ \A c \in {"G", "E", "T", "P", "O", "S", "H", "A", "D", "b"} : c \in RunSigns /\ Parsing!IsToken(c)
  /\ \A c \in {"/", "a", "HIGH"} : c \in RunSigns /\ c # Parsing!Space /\ ~Parsing!IsCtl(c)
  /\ \A c \in {"a", ":", " ", "HIGH"} : c \in RunSigns /\ ~Parsing!IsCtl(c)
  <1>1. Marks \subseteq RunSigns
    BY Zenon DEF RunSigns
  <1>2. \A c \in {"G", "E", "T", "P", "O", "S", "H", "A", "D", "b"} : c \in RunSigns
    BY Zenon DEF RunSigns
  <1>3. \A c \in {"G", "E", "T", "P", "O", "S", "H", "A", "D", "b"} : Parsing!IsToken(c)
    <2> TAKE c \in {"G", "E", "T", "P", "O", "S", "H", "A", "D", "b"}
    <2>1. c # Parsing!High
      BY DEF Parsing!High
    <2>2. ~Parsing!IsCtl(c)
      BY DEF Parsing!IsCtl, Parsing!CR, Parsing!LF, Parsing!Tab
    <2>3. ~Parsing!IsSpecial(c)
      BY DEF Parsing!IsSpecial, Parsing!Quote, Parsing!Backslash, Parsing!Tab, Parsing!Space
    <2> QED  BY <2>1, <2>2, <2>3, Zenon DEF Parsing!IsToken
  <1>4. \A c \in {"/", "a", ":", " ", "HIGH"} : c \in RunSigns
    BY Zenon DEF RunSigns, Marks, Parsing!Space
  <1>5. \A c \in {"/", "a", ":", " ", "HIGH"} : ~Parsing!IsCtl(c)
    BY DEF Parsing!IsCtl, Parsing!CR, Parsing!LF, Parsing!Tab
  <1>6. \A c \in {"/", "a", "HIGH"} : c # Parsing!Space
    BY DEF Parsing!Space
  <1> QED  BY <1>1, <1>2, <1>3, <1>4, <1>5, <1>6

LEMMA RunTexts ==
  /\ \A w \in MethodNames : w \in Seq(RunSigns) /\ w # <<>> /\ \A i \in 1..Len(w) : Parsing!IsToken(w[i])
  /\ \A w \in Uris : w \in Seq(RunSigns)
                     /\ \A i \in 1..Len(w) : w[i] # Parsing!Space /\ ~Parsing!IsCtl(w[i])
  /\ \A w \in {<<"A">>, <<"A", "b">>} :
       w \in Seq(RunSigns) /\ w # <<>> /\ \A i \in 1..Len(w) : Parsing!IsToken(w[i])
  /\ \A w \in {<<>>, <<"a", ":", " ", "HIGH">>, <<" ", "a">>} :
       w \in Seq(RunSigns) /\ \A i \in 1..Len(w) : ~Parsing!IsCtl(w[i])
  <1> DEFINE C == {c \in RunSigns : Parsing!IsToken(c)}
             D == {c \in RunSigns : c # Parsing!Space /\ ~Parsing!IsCtl(c)}
             E == {c \in RunSigns : ~Parsing!IsCtl(c)}
  <1>1. \A c \in {"G", "E", "T", "P", "O", "S", "H", "A", "D", "b"} : c \in C
    BY RunCharacters
  <1>2. \A c \in {"/", "a", "HIGH"} : c \in D
    BY RunCharacters
  <1>3. \A c \in {"a", ":", " ", "HIGH"} : c \in E
    BY RunCharacters
  <1>4. /\ \A c \in C : c \in RunSigns /\ Parsing!IsToken(c)
        /\ \A c \in D : c \in RunSigns /\ c # Parsing!Space /\ ~Parsing!IsCtl(c)
        /\ \A c \in E : c \in RunSigns /\ ~Parsing!IsCtl(c)
    OBVIOUS
  <1> HIDE DEF C, D, E
  <1>5. /\ <<"G", "E", "T">> \in Seq(C) /\ <<"P", "O", "S", "T">> \in Seq(C)
        /\ <<"H", "E", "A", "D">> \in Seq(C) /\ <<"P">> \in Seq(C)
        /\ <<"A">> \in Seq(C) /\ <<"A", "b">> \in Seq(C)
    BY <1>1
  <1>6. <<>> \in Seq(D) /\ <<"/">> \in Seq(D) /\ <<"/", "a", "HIGH">> \in Seq(D)
    BY <1>2
  <1>7. <<>> \in Seq(E) /\ <<"a", ":", " ", "HIGH">> \in Seq(E) /\ <<" ", "a">> \in Seq(E)
    <2>1. "a" \in E /\ ":" \in E /\ " " \in E /\ "HIGH" \in E
      BY <1>3, Zenon
    <2>2. \A a, b, c, d \in E : <<a, b, c, d>> \in Seq(E) /\ <<c, a>> \in Seq(E) /\ <<>> \in Seq(E)
      OBVIOUS
    <2> QED  BY <2>1, <2>2, Zenon
  <1>8. /\ \A w \in Seq(C) : w \in Seq(RunSigns) /\ \A i \in 1..Len(w) : Parsing!IsToken(w[i])
        /\ \A w \in Seq(D) : w \in Seq(RunSigns)
                             /\ \A i \in 1..Len(w) : w[i] # Parsing!Space /\ ~Parsing!IsCtl(w[i])
        /\ \A w \in Seq(E) : w \in Seq(RunSigns) /\ \A i \in 1..Len(w) : ~Parsing!IsCtl(w[i])
    <2>1. \A T, w : w \in Seq(T) => \A i \in 1..Len(w) : w[i] \in T
      OBVIOUS
    <2>2. C \subseteq RunSigns /\ D \subseteq RunSigns /\ E \subseteq RunSigns
      BY <1>4
    <2>3. \A T, w : T \subseteq RunSigns /\ w \in Seq(T) => w \in Seq(RunSigns)
      OBVIOUS
    <2> QED  BY <1>4, <2>1, <2>2, <2>3, Zenon
  <1>9. /\ <<"G", "E", "T">> # <<>> /\ <<"P", "O", "S", "T">> # <<>> /\ <<"H", "E", "A", "D">> # <<>>
        /\ <<"P">> # <<>> /\ <<"A">> # <<>> /\ <<"A", "b">> # <<>>
    OBVIOUS
  <1>10. \A w \in MethodNames : w \in Seq(C) /\ w # <<>>
    BY <1>5, <1>9, Zenon DEF MethodNames
  <1>11. \A w \in Uris : w \in Seq(D)
    BY <1>6, Zenon DEF Uris
  <1>12. \A w \in {<<"A">>, <<"A", "b">>} : w \in Seq(C) /\ w # <<>>
    BY <1>5, <1>9, Zenon
  <1>13. \A w \in {<<>>, <<"a", ":", " ", "HIGH">>, <<" ", "a">>} : w \in Seq(E)
    BY <1>7, Zenon
  <1> QED  BY <1>8, <1>10, <1>11, <1>12, <1>13, Zenon

\* The run's own requests are among those that can be written.
THEOREM RunRequestsAreRead == EveryWrittenIsRead
  <1> DEFINE S == RunSigns
             N == {0, 1, 10, 12}
             names == {<<"A">>, <<"A", "b">>}
             values == {<<>>, <<"a", ":", " ", "HIGH">>, <<" ", "a">>}
             H == [name : names, value : values]
             G == [name : Seq(S), value : Seq(S)]
  <1> SUFFICES ASSUME NEW q \in WrittenRequests PROVE Parsing!WrittenIsRead(q)
    BY DEF EveryWrittenIsRead
  <1>1. \A w \in HeaderLists : w \in Seq(H)
    <2>1. <<>> \in Seq(H)
      OBVIOUS
    <2>2. \A h \in [name : {<<"A">>}, value : {<<>>, <<"a", ":", " ", "HIGH">>}] : h \in H
      <3>1. <<"A">> \in names /\ <<>> \in values /\ <<"a", ":", " ", "HIGH">> \in values
        BY Zenon
      <3> HIDE DEF names, values
      <3> QED  BY <3>1
    <2>3. \A h \in [name : {<<"A", "b">>}, value : {<<" ", "a">>}] : h \in H
      <3>1. <<"A", "b">> \in names /\ <<" ", "a">> \in values
        BY Zenon
      <3> HIDE DEF names, values
      <3> QED  BY <3>1
    <2> HIDE DEF H
    <2>4. \A h \in H : <<h>> \in Seq(H) /\ <<h, h>> \in Seq(H)
      OBVIOUS
    <2> QED  BY <2>1, <2>2, <2>3, <2>4, Zenon DEF HeaderLists
  <1>2. q.method \in MethodNames /\ q.uri \in Uris /\ q.headers \in Seq(H) /\ q.major \in N /\ q.minor \in N
        /\ q \in [method : MethodNames, uri : Uris, major : N, minor : N, headers : HeaderLists]
    <2>1. q \in [method : MethodNames, uri : Uris, major : {0, 1, 12}, minor : {0, 10}, headers : HeaderLists]
      BY Zenon DEF WrittenRequests
    <2> HIDE DEF H
    <2> QED  BY <1>1, <2>1
  <1>3. \A h \in H : /\ h \in G /\ h.name # <<>> /\ \A i \in 1..Len(h.name) : Parsing!IsToken(h.name[i])
                     /\ \A i \in 1..Len(h.value) : ~Parsing!IsCtl(h.value[i])
    <2> TAKE h \in H
    <2>1. h.name \in names /\ h.value \in values /\ h = [name |-> h.name, value |-> h.value]
      <3> HIDE DEF names, values
      <3> QED  OBVIOUS
    <2>2. /\ h.name \in Seq(S) /\ h.name # <<>> /\ \A i \in 1..Len(h.name) : Parsing!IsToken(h.name[i])
          /\ h.value \in Seq(S) /\ \A i \in 1..Len(h.value) : ~Parsing!IsCtl(h.value[i])
      BY <2>1, RunTexts, Zenon
    <2> HIDE DEF S, names, values
    <2>3. h \in G
      BY <2>1, <2>2
    <2> QED  BY <2>2, <2>3
  <1> HIDE DEF H
  <1>4. q.headers \in Seq(G) /\ \A k \in 1..Len(q.headers) : q.headers[k] \in H
    <2>1. \A k \in 1..Len(q.headers) : q.headers[k] \in H
      BY <1>2
    <2>2. H \subseteq G
      BY <1>3
    <2> HIDE DEF G
    <2> QED  BY <1>2, <2>1, <2>2
  <1> DEFINE F == Seq(G)
             T == Seq(S)
  <1>5. /\ q.method \in T /\ q.method # <<>> /\ \A i \in 1..Len(q.method) : Parsing!IsToken(q.method[i])
        /\ q.uri \in T /\ \A i \in 1..Len(q.uri) : q.uri[i] # Parsing!Space /\ ~Parsing!IsCtl(q.uri[i])
    BY <1>2, RunTexts, Zenon
  <1>6. q \in [method : T, uri : T, major : N, minor : N, headers : F]
    <2>1. q.headers \in F
      BY <1>4
    <2> HIDE DEF F, T, N, G
    <2> QED  BY <1>2, <1>5, <2>1
  <1>7. Writable(q, S, N)
    <2>1. q \in [method : Seq(S), uri : Seq(S), major : N, minor : N,
                 headers : Seq([name : Seq(S), value : Seq(S)])]
      BY <1>6, Zenon
    <2> HIDE DEF S, N
    <2> QED  BY <1>3, <1>4, <1>5, <2>1, Zenon DEF Writable
  <1> QED  BY <1>7, RunNumbers, RunCharacters, EveryRequestWrittenIsRead
=============================================================================
