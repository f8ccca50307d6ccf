--------------------------- MODULE RequestParser ---------------------------
(***************************************************************************)
(* utility::http_request_parser: an HTTP request read one character at a   *)
(* time.  A parser is the record of its state and of the http_request it   *)
(* has filled so far; Parse feeds it a word until the word ends or the     *)
(* request is complete ("good") or refused ("bad").                        *)
(*                                                                         *)
(* A character is a string of length one, or one of the names below; the   *)
(* words that are checked use a few characters of each class the code      *)
(* distinguishes.  The version numbers stay small: the overflow of the     *)
(* int they are read into is not reached.                                  *)
(***************************************************************************)
EXTENDS Integers, Sequences, SequencesExt, Histories

CR == "CR"
LF == "LF"
Tab == "TAB"
Space == " "
Quote == "QUOTE"
Backslash == "BACKSLASH"
High == "HIGH"     \* any character above 127: negative in a signed char

DigitValue == [d \in {"0", "1", "2"} |-> CASE d = "0" -> 0 [] d = "1" -> 1 [] d = "2" -> 2]

IsDigit(c) == c \in DOMAIN DigitValue
IsCtl(c) == c \in {CR, LF, Tab}
IsSpecial(c) == c \in {"(", ")", "<", ">", "@", ",", ";", ":", "/", "[", "]", "?", "=", "{", "}",
                       Quote, Backslash, Space, Tab}

(* What a method and a header's name are made of.                          *)
IsToken(c) == c # High /\ ~IsCtl(c) /\ ~IsSpecial(c)

(* Neither the type nor the version of a new http_request is initialised.  *)
Unset == -1

NoRequest == [mtype |-> Unset, method |-> <<>>, uri |-> <<>>, major |-> Unset, minor |-> Unset,
              headers |-> <<>>]

Parser == [state |-> "method_start", result |-> "more", consumed |-> 0, request |-> NoRequest]

Reject(p) == [p EXCEPT !.result = "bad"]
GoTo(p, s) == [p EXCEPT !.state = s]
ToHeaderValue(p, c) == [p EXCEPT !.request.headers[Len(p.request.headers)].value = Append(@, c)]

(***************************************************************************)
(* The request line.  After the method's space the parser is in state uri: *)
(* uri_start is never entered, and an empty uri passes.                    *)
(***************************************************************************)
ConsumeMethod(p, c) ==
  IF p.state = "method" /\ c = Space THEN GoTo(p, "uri")
  ELSE IF IsToken(c) THEN [GoTo(p, "method") EXCEPT !.request.method = Append(@, c)]
  ELSE Reject(p)

ConsumeUri(p, c) ==
  IF c = Space THEN GoTo(p, "http_version_h")
  ELSE IF IsCtl(c) THEN Reject(p)
  ELSE [p EXCEPT !.request.uri = Append(@, c)]

(* The states that wait for one character, and the state after it.         *)
Expected ==
  [http_version_h |-> "H", http_version_t_1 |-> "T", http_version_t_2 |-> "T",
   http_version_p |-> "P", http_version_slash |-> "/",
   expecting_newline_1 |-> LF, expecting_newline_2 |-> LF, expecting_newline_3 |-> LF,
   space_before_header_value |-> Space]

After ==
  [http_version_h |-> "http_version_t_1", http_version_t_1 |-> "http_version_t_2",
   http_version_t_2 |-> "http_version_p", http_version_p |-> "http_version_slash",
   http_version_slash |-> "http_version_major_start",
   expecting_newline_1 |-> "header_line_start", expecting_newline_2 |-> "header_line_start",
   expecting_newline_3 |-> "expecting_newline_3",
   space_before_header_value |-> "header_value"]

ConsumeExpected(p, c) ==
  IF c # Expected[p.state] THEN Reject(p)
  ELSE IF p.state = "expecting_newline_3" THEN [p EXCEPT !.result = "good"]
  ELSE IF p.state = "http_version_slash"
    THEN [GoTo(p, After[p.state]) EXCEPT !.request.major = 0, !.request.minor = 0]
  ELSE GoTo(p, After[p.state])

ConsumeMajor(p, c) ==
  IF IsDigit(c)
    THEN [GoTo(p, "http_version_major") EXCEPT !.request.major = @ * 10 + DigitValue[c]]
  ELSE IF c = "." /\ p.state = "http_version_major" THEN GoTo(p, "http_version_minor_start")
  ELSE Reject(p)

ConsumeMinor(p, c) ==
  IF IsDigit(c)
    THEN [GoTo(p, "http_version_minor") EXCEPT !.request.minor = @ * 10 + DigitValue[c]]
  ELSE IF c = CR /\ p.state = "http_version_minor" THEN GoTo(p, "expecting_newline_1")
  ELSE Reject(p)

(***************************************************************************)
(* The headers.  A line that begins with white space, once there is a      *)
(* header, continues the value of the last one (header_lws).               *)
(***************************************************************************)
ConsumeLineStart(p, c) ==
  IF c = CR THEN GoTo(p, "expecting_newline_3")
  ELSE IF p.request.headers # <<>> /\ c \in {Space, Tab} THEN GoTo(p, "header_lws")
  ELSE IF IsToken(c)
    THEN [GoTo(p, "header_name")
            EXCEPT !.request.headers = Append(@, [name |-> <<c>>, value |-> <<>>])]
  ELSE Reject(p)

ConsumeName(p, c) ==
  IF c = ":" THEN GoTo(p, "space_before_header_value")
  ELSE IF IsToken(c)
    THEN [p EXCEPT !.request.headers[Len(p.request.headers)].name = Append(@, c)]
  ELSE Reject(p)

(* A variant that takes the first character of a continued line for a      *)
(* separator.                                                              *)
ConsumeContinuationLost(p, c) ==
  IF c \notin {CR, Space, Tab} /\ ~IsCtl(c) THEN GoTo(p, "header_value")
  ELSE IF c = CR THEN GoTo(p, "expecting_newline_2")
  ELSE IF c \in {Space, Tab} THEN p
  ELSE Reject(p)

ConsumeContinuation(p, c) ==
  IF c = CR THEN GoTo(p, "expecting_newline_2")
  ELSE IF c \in {Space, Tab} THEN p
  ELSE IF IsCtl(c) THEN Reject(p)
  ELSE ToHeaderValue(GoTo(p, "header_value"), c)

ConsumeValue(p, c) ==
  IF c = CR THEN GoTo(p, "expecting_newline_2")
  ELSE IF IsCtl(c) THEN Reject(p)
  ELSE ToHeaderValue(p, c)

Consume(p, c) ==
  CASE p.state \in {"method_start", "method"} -> ConsumeMethod(p, c)
    [] p.state = "uri" -> ConsumeUri(p, c)
    [] p.state \in DOMAIN Expected -> ConsumeExpected(p, c)
    [] p.state \in {"http_version_major_start", "http_version_major"} -> ConsumeMajor(p, c)
    [] p.state \in {"http_version_minor_start", "http_version_minor"} -> ConsumeMinor(p, c)
    [] p.state = "header_line_start" -> ConsumeLineStart(p, c)
    [] p.state = "header_name" -> ConsumeName(p, c)
    [] p.state = "header_lws" -> ConsumeContinuation(p, c)
    [] p.state = "header_value" -> ConsumeValue(p, c)

(* http_request_set_mtype                                                  *)
TypeOfMethod(method) ==
  CASE method = <<"G", "E", "T">> -> "mget"
    [] method = <<"P", "O", "S", "T">> -> "mpost"
    [] method = <<"H", "E", "A", "D">> -> "mhead"
    [] OTHER -> "munknown"

(* One turn of parse's loop: it stops at the character that decides, and   *)
(* gives the request its type.                                             *)
Step(p, c) ==
  LET q == [Consume(p, c) EXCEPT !.consumed = @ + 1]
  IN  IF p.result # "more" THEN p
      ELSE IF q.result = "more" THEN q
      ELSE [q EXCEPT !.request.mtype = TypeOfMethod(q.request.method)]

Parse(word) == StateAfter(Step, Parser, word)

-----------------------------------------------------------------------------
(***************************************************************************)
(* The reference: how a request is written.  It does not look at the       *)
(* parser's states.                                                        *)
(***************************************************************************)
Decimal(n) ==
  LET digit == [i \in 0..2 |-> CHOOSE d \in DOMAIN DigitValue : DigitValue[d] = i]
      digits[i \in 0..n] == IF i < 10 THEN <<digit[i]>> ELSE Append(digits[i \div 10], digit[i % 10])
  IN  digits[n]

Written(q) ==
  LET line(h) == h.name \o <<":", Space>> \o h.value \o <<CR, LF>>
  IN  q.method \o <<Space>> \o q.uri \o <<Space, "H", "T", "T", "P", "/">>
        \o Decimal(q.major) \o <<".">> \o Decimal(q.minor) \o <<CR, LF>>
        \o FlattenSeq([i \in DOMAIN q.headers |-> line(q.headers[i])]) \o <<CR, LF>>

(* The word without the line breaks that a continued line hides, and       *)
(* without the white space after them.                                     *)
Unfolded(word) ==
  LET breaks == {i \in 1..(Len(word) - 2) :
                   word[i] = CR /\ word[i + 1] = LF /\ word[i + 2] \in {Space, Tab}}
      hidden == {i \in DOMAIN word : \E b \in breaks :
                   i >= b /\ \A j \in (b + 2)..i : word[j] \in {Space, Tab}}
      shown == SelectSeq([i \in DOMAIN word |-> i], LAMBDA i : i \notin hidden)
  IN  [k \in DOMAIN shown |-> word[shown[k]]]

(* A request is read as it is written: a word the parser accepts is, but    *)
(* for the folding of its headers' lines, the written form of the request  *)
(* it has filled in, to the last character and with none left over.        *)
(* (http_request_parser.cpp:65, consume, and the loop of parse; a lost or  *)
(* doubled character of a name or a value, or one request's text in        *)
(* another's field, would show.)                                           *)
ReadAsWritten(word) ==
  LET p == Parse(word)
  IN  p.result = "good" => /\ p.consumed = Len(word)
                           /\ Written(p.request) = Unfolded(word)

(* Every request that can be written is accepted, not before its last      *)
(* character, and gets its fields back with the type of its method.        *)
WrittenIsRead(q) ==
  LET p == Parse(Written(q))
  IN  /\ p.result = "good"
      /\ p.consumed = Len(Written(q))
      /\ p.request.mtype = TypeOfMethod(q.method)
      /\ \A field \in DOMAIN q : p.request[field] = q[field]
=============================================================================
