---------------------------- MODULE HttpRequests ----------------------------
(***************************************************************************)
(* What a request asks for and which replies it gets: the range header     *)
(* (http_utility.cpp), the name of the file (mongoose's decoding of the    *)
(* uri, then http_normalize_uri), the choice of the handlers               *)
(* (dispatch_http_message) and the figures of a 206 reply                  *)
(* (on_partial_content_request, partial_content_reply).                    *)
(*                                                                         *)
(* A text is a sequence of strings of length one.  Numbers stay far from   *)
(* the limits of int64_t.                                                  *)
(***************************************************************************)
EXTENDS Integers, Sequences, SequencesExt

All == -1     \* range_header::all
Bad == -2     \* range_header::bad

DigitOf == [d \in {"0", "1", "2", "3"} |->
              CASE d = "0" -> 0 [] d = "1" -> 1 [] d = "2" -> 2 [] d = "3" -> 3]

IsNumber(text) == text # <<>> /\ \A i \in DOMAIN text : text[i] \in DOMAIN DigitOf

NumberOf(text) ==
  LET upTo[n \in 0..Len(text)] == IF n = 0 THEN 0 ELSE upTo[n - 1] * 10 + DigitOf[text[n]]
  IN  upTo[Len(text)]

(***************************************************************************)
(* One bound.  lexical_cast reads a sign, so that "-1" is All and "-2" is  *)
(* Bad.                                                                    *)
(***************************************************************************)
Cast(text) ==
  IF text \in {<<>>, <<"*">>} THEN All
  ELSE IF IsNumber(text) THEN NumberOf(text)
  ELSE IF text[1] \in {"-", "+"} /\ IsNumber(Tail(text))
    THEN (IF text[1] = "-" THEN -1 ELSE 1) * NumberOf(Tail(text))
  ELSE Bad

Position(text, c) == SelectInSeq(text, LAMBDA x : x = c)     \* 0 if there is none

(* http_range_header_value_parser for the part of the value from first to  *)
(* last.  With last before first - 1 the copy runs off the value and at()  *)
(* throws.                                                                 *)
Part(value, first, last) ==
  LET text == SubSeq(value, first, last)
      dash == Position(text, "-")
      start == Cast(SubSeq(text, 1, dash - 1))
      end == Cast(SubSeq(text, dash + 1, Len(text)))
  IN  IF last < first - 1 THEN [outcome |-> "throws"]
      ELSE IF dash = 0 \/ start = Bad \/ end = Bad THEN [outcome |-> "refused"]
      ELSE [outcome |-> "taken", start |-> start, end |-> end]

NoPart == [outcome |-> "absent", start |-> Bad, end |-> Bad]

(* http_translate_range_header: the second part, if there is one, is read  *)
(* first, and the first part only if that one was taken.                   *)
Translate(value) ==
  LET equals == Position(value, "=")
      comma == Position(value, ",")
      second == IF comma = 0 THEN NoPart ELSE Part(value, comma + 1, Len(value))
      first == Part(value, equals + 1, IF comma = 0 THEN Len(value) ELSE comma - 1)
      outcome == IF equals = 0 \/ (comma # 0 /\ comma = Len(value)) THEN "refused"
                 ELSE IF second.outcome \in {"refused", "throws"} THEN second.outcome
                 ELSE first.outcome
  IN  IF outcome = "taken" THEN [outcome |-> outcome, first |-> first, second |-> second]
      ELSE [outcome |-> outcome]

(***************************************************************************)
(* The helpers for a list of headers, each a record of a name and a value: *)
(* http_get_header compares the names as they are written, and the first   *)
(* of the name is the one that counts.                                     *)
(***************************************************************************)
HttpGetHeader(headers, name) ==
  LET found == SelectInSeq(headers, LAMBDA h : h.name = name)
  IN  IF found = 0 THEN [state |-> FALSE] ELSE [state |-> TRUE, header |-> headers[found]]

(* http_translate_range_header of a list, which does the same as that of a *)
(* value, once it has found one.                                           *)
TranslateHeaders(headers) ==
  LET range == HttpGetHeader(headers, "Range")
  IN  IF range.state THEN Translate(range.header.value) ELSE [outcome |-> "refused"]

-----------------------------------------------------------------------------
(***************************************************************************)
(* The handlers a new request reaches.  A request is a record of its       *)
(* method, its version and what is made of its Range header (NoRange if it *)
(* has none); mongoose has refused the versions other than 1.0 and 1.1.    *)
(***************************************************************************)
NoRange == [outcome |-> "absent"]

IsRange(request) ==
  request.version = "1.1" /\ request.method = "GET" /\ request.range # NoRange

IsHead(request) == request.version \in {"1.0", "1.1"} /\ request.method = "HEAD"

IsContent(request) == request.version \in {"1.0", "1.1"} /\ request.method \in {"GET", "POST"}

(* The handlers that send the file.  They open it anew for each chunk,     *)
(* behind the headers of the reply; opening, seeking and reading throw     *)
(* (write_content_impl), and no handler catches that.                      *)
Senders == {"on_partial_content_request", "on_content_request"}

(* A variant in which each handler has a try block of its own.             *)
DispatchGoesOn(request, throwing) ==
  LET outcome == IF IsRange(request) THEN request.range.outcome ELSE "absent"
      called(condition, handler) == IF condition THEN <<handler>> ELSE <<>>
  IN  [served |-> outcome # "throws",
       handlers |-> called(outcome = "taken", "on_partial_content_request")
                      \o called(IsHead(request), "on_head_request")
                      \o called(IsContent(request), "on_content_request")]

(* One try block is around the test of the range header and all handlers,  *)
(* of which those in throwing would throw.  An exception skips what is     *)
(* left to do, and NULL makes mongoose reply itself (MongooseRequest.tla). *)
(* A handler that only fails (no such file, no bytes in time, no client)   *)
(* lets the next one go on, and the request is served.                     *)
Dispatch(request, throwing) ==
  LET outcome == IF IsRange(request) THEN request.range.outcome ELSE "absent"
      called(condition, handler) == IF condition THEN <<handler>> ELSE <<>>
      due == called(outcome = "taken", "on_partial_content_request")
               \o called(IsHead(request), "on_head_request")
               \o called(IsContent(request), "on_content_request")
      thrower == SelectInSeq(due, LAMBDA handler : handler \in throwing)
  IN  IF outcome = "throws" THEN [served |-> FALSE, handlers |-> <<>>]
      ELSE IF thrower = 0 THEN [served |-> TRUE, handlers |-> due]
      ELSE [served |-> FALSE, handlers |-> SubSeq(due, 1, thrower)]

(***************************************************************************)
(* The replies for a file of size bytes: their figures, and the bytes the  *)
(* handler gives the content stream to send, from start up to, but not     *)
(* including, to (ContentStream.tla: it waits for the bytes before to).    *)
(***************************************************************************)
Bounds(part, size) ==
  [start |-> IF part.start = All THEN 0 ELSE part.start,
   to |-> IF part.end = All THEN size ELSE part.end]

(* A variant that takes the end of a range for the byte after it.          *)
PartialReplyHalfOpen(part, size) ==
  LET b == Bounds(part, size)
      asked == b.to - b.start
  IN  [status |-> 206, first |-> b.start, last |-> IF b.to = size THEN b.to - 1 ELSE b.to,
       length |-> IF asked > size THEN size ELSE asked,
       body |-> TRUE, start |-> b.start, to |-> b.to]

PartialReply(part, size) ==
  LET b == Bounds(part, size)
      asked == b.to - b.start + 1
  IN  [status |-> 206, first |-> b.start, last |-> IF b.to = size THEN b.to - 1 ELSE b.to,
       length |-> IF asked > size THEN size ELSE asked,
       body |-> TRUE, start |-> b.start, to |-> b.to]

HeadReply(size) == [status |-> 200, length |-> size, body |-> FALSE, start |-> 0, to |-> size]

ContentReply(size) == [status |-> 200, length |-> size, body |-> TRUE, start |-> 0, to |-> size]

(* The replies the handlers begin for a request of a file in the buffer    *)
(* (for any other file, none).  One that throws has sent its headers.      *)
Replies(request, size, throwing) ==
  LET handlers == Dispatch(request, throwing).handlers
      reply(handler) ==
        CASE handler = "on_partial_content_request" ->
               PartialReply(request.range.first, size)
          [] handler = "on_head_request" -> HeadReply(size)
          [] handler = "on_content_request" -> ContentReply(size)
  IN  [i \in DOMAIN handlers |-> reply(handlers[i])]

-----------------------------------------------------------------------------
(***************************************************************************)
(* The name of the file.  The percent-encoding of the characters the names *)
(* are made of.                                                            *)
(***************************************************************************)
Encoded ==
  [c \in {" ", "+", "?", "%"} |->
     CASE c = " " -> <<"%", "2", "0">>
       [] c = "+" -> <<"%", "2", "B">>
       [] c = "?" -> <<"%", "3", "F">>
       [] c = "%" -> <<"%", "2", "5">>]

(* The prefix stands in the text at i.                                     *)
Begins(text, i, prefix) ==
  i + Len(prefix) - 1 <= Len(text) /\ SubSeq(text, i, i + Len(prefix) - 1) = prefix

(* mongoose's url_decode: one character for each escape, every other       *)
(* character, '+' too, as it is.                                           *)
UrlDecode(text) ==
  LET from[i \in 1..(Len(text) + 1)] ==
        IF i > Len(text) THEN <<>>
        ELSE IF \E c \in DOMAIN Encoded : Begins(text, i, Encoded[c])
          THEN <<CHOOSE c \in DOMAIN Encoded : Begins(text, i, Encoded[c])>> \o from[i + 3]
        ELSE <<text[i]>> \o from[i + 1]
  IN  from[1]

(* remove_double_dots_and_double_slashes: after a slash, all slashes and    *)
(* pairs of dots are left out.                                             *)
RemoveDoubleDots(text) ==
  LET from[at \in (1..(Len(text) + 1)) \X {"copying", "skipping"}] ==
        LET i == at[1]
            skipping == at[2] = "skipping"
        IN  IF i > Len(text) THEN <<>>
            ELSE IF skipping /\ text[i] = "/" THEN from[<<i + 1, "skipping">>]
            ELSE IF skipping /\ Begins(text, i, <<".", ".">>) THEN from[<<i + 2, "skipping">>]
            ELSE <<text[i]>> \o from[<<i + 1, IF text[i] = "/" THEN "skipping" ELSE "copying">>]
  IN  from[<<1, "copying">>]

(* utility::url_decode: a '+' is a blank, and of the two characters of an  *)
(* escape a number is read as a stream reads it, so that one digit will    *)
(* do; without a number, or at the end of the text, it gives up.  OtherByte *)
(* is any character the names do not have.                                 *)
OtherByte == "byte"
HexDigits == DOMAIN DigitOf \cup {"5", "a", "B", "F"}

HasNumber(escape) ==
  /\ Len(escape) = 3
  /\ \/ escape[2] \in HexDigits
     \/ escape[2] \in {" ", "+", "-"} /\ escape[3] \in HexDigits

StrictDecode(text) ==
  LET escape(i) == SubSeq(text, i, Min({i + 2, Len(text)}))
      character(e) == IF \E c \in DOMAIN Encoded : Encoded[c] = e
                        THEN CHOOSE c \in DOMAIN Encoded : Encoded[c] = e ELSE OtherByte
      from[i \in 1..(Len(text) + 1)] ==
        IF i > Len(text) THEN [decoded |-> TRUE, out |-> <<>>]
        ELSE IF text[i] # "%"
          THEN [from[i + 1] EXCEPT !.out = <<IF text[i] = "+" THEN " " ELSE text[i]>> \o @]
        ELSE IF HasNumber(escape(i))
          THEN [from[i + 3] EXCEPT !.out = <<character(escape(i))>> \o @]
        ELSE [decoded |-> FALSE, out |-> <<>>]
  IN  from[1]

NormalizeUri(text) == [i \in DOMAIN text |-> IF text[i] = "+" THEN " " ELSE text[i]]

(* handle_request, then dispatch_http_message: what is looked up, behind   *)
(* the document root.                                                      *)
LookedUp(uri) ==
  LET query == Position(uri, "?")
      path == IF query = 0 THEN uri ELSE SubSeq(uri, 1, query - 1)
  IN  NormalizeUri(RemoveDoubleDots(UrlDecode(path)))

-----------------------------------------------------------------------------
(***************************************************************************)
(* The reference for the range header: the marks that may stand for a      *)
(* bound, and what a header written from two or four of them means.        *)
(***************************************************************************)
Marks == {<<>>, <<"*">>} \cup {<<"0">>, <<"1">>, <<"2">>, <<"1", "0">>}

Meaning(mark) == IF mark \in {<<>>, <<"*">>} THEN All ELSE NumberOf(mark)

Means(part, a, b) ==
  part.outcome = "taken" /\ part.start = Meaning(a) /\ part.end = Meaning(b)

(* The bounds that reach the handler are those of the header, each in its  *)
(* place, for one range and for two (http_utility.cpp:139).                *)
BoundsAsWritten(value) ==
  LET range(a, b) == a \o <<"-">> \o b
  IN  \A t \in {Translate(value)} : \A a, b \in Marks :
        /\ value = <<"b", "=">> \o range(a, b) =>
             t.outcome = "taken" /\ Means(t.first, a, b) /\ t.second = NoPart
        /\ \A c, d \in Marks :
             value = <<"b", "=">> \o range(a, b) \o <<",">> \o range(c, d) =>
               t.outcome = "taken" /\ Means(t.first, a, b) /\ Means(t.second, c, d)

(* The Range header is found wherever it stands in a list, an earlier one  *)
(* hides a later one, and one written in another case is not seen          *)
(* (http_utility.cpp:113), while the transport asks mongoose, which sees it *)
(* (mongoose.c:808).                                                       *)
FirstRangeCounts(value) ==
  LET range(v) == [name |-> "Range", value |-> v]
      lower == [name |-> "range", value |-> value]
      other == [name |-> "Host", value |-> <<"a">>]
  IN  /\ \A before \in {<<>>, <<other>>, <<lower, other>>} :
           \A after \in {<<>>, <<other>>, <<range(<<>>)>>} :
             TranslateHeaders(before \o <<range(value)>> \o after) = Translate(value)
      /\ TranslateHeaders(<<lower, other>>).outcome = "refused"

(* A range inside the file is answered with the bytes it names: the        *)
(* Content-Range holds its first and last byte and the Content-Length      *)
(* their number, one more for an open range that does not begin at 0       *)
(* (http_server_core.cpp:175 makes the end the size of the file, which     *)
(* partial_content_reply.cpp:24 counts as a byte).  The stream is told to  *)
(* stop behind the last byte of an open range, and before that of one with *)
(* an end.                                                                 *)
PartFigures(part, size) ==
  LET open == part.end = All
      first == IF part.start = All THEN 0 ELSE part.start
      last == IF open THEN size - 1 ELSE part.end
      extra == IF open /\ first > 0 THEN 1 ELSE 0
  IN  0 <= first /\ first <= last /\ last < size =>
        PartialReply(part, size) =
          [status |-> 206, first |-> first, last |-> last, length |-> last - first + 1 + extra,
           body |-> TRUE, start |-> first, to |-> IF open THEN last + 1 ELSE last]

FiguresAgree(value, size) ==
  \A t \in {Translate(value)} : t.outcome = "taken" => PartFigures(t.first, size)

(* Whichever handlers throw, a request is replied to once, with the whole  *)
(* file or its headers; only a range that is taken comes with a second     *)
(* reply, the whole file behind the part (http_mongoose_transport.cpp:173: *)
(* three ifs), unless sending the part throws, which skips the whole file. *)
(* The request is served, or left to mongoose to reply to once more,       *)
(* exactly as no handler that is reached throws: a HEAD, which reads no    *)
(* file, always is, and so is a method that has no handler.  No header     *)
(* throws: with the comma before the '=', the second part, which holds the *)
(* '=', is refused before the copy of the first runs off the value.        *)
RepliesFor(value, size) ==
  LET whole == [status |-> 200, length |-> size, body |-> TRUE, start |-> 0, to |-> size]
      taken(q) == q.method = "GET" /\ q.version = "1.1" /\ q.range.outcome = "taken"
  IN  \A q \in [method : {"GET", "HEAD", "POST", "OPTIONS"}, version : {"1.0", "1.1"},
               range : {Translate(value), NoRange}] :
      \A throwing \in SUBSET Senders :
        LET replies == Replies(q, size, throwing)
            served == Dispatch(q, throwing).served
        IN  CASE q.method = "HEAD" -> served /\ replies = <<[whole EXCEPT !.body = FALSE]>>
              [] q.method = "OPTIONS" -> served /\ replies = <<>>
              [] taken(q) ->
                   /\ served <=> throwing = {}
                   /\ Len(replies) = IF "on_partial_content_request" \in throwing THEN 1 ELSE 2
                   /\ replies[1].status = 206
                   /\ Len(replies) = 2 => replies[2] = whole
              [] OTHER ->
                   /\ served <=> "on_content_request" \notin throwing
                   /\ replies = <<whole>>

(* A file is found under the name a client escapes, whatever the name is   *)
(* made of, but for a '+' (mongoose has decoded it before                  *)
(* http_normalize_uri makes it a space) and for what follows a slash as a  *)
(* slash or two dots.                                                      *)
FoundAsNamed(name) ==
  LET path == <<"/">> \o name
      escaped == FlattenSeq([i \in DOMAIN path |->
                   IF path[i] \in DOMAIN Encoded THEN Encoded[path[i]] ELSE <<path[i]>>])
      plain == /\ Position(path, "+") = 0
               /\ \A i \in 1..(Len(path) - 1) : path[i] = "/" =>
                    path[i + 1] # "/" /\ ~Begins(path, i + 1, <<".", ".">>)
  IN  (LookedUp(escaped) = path) <=> plain

(* The two decoders of the program differ in the '+' only, as long as each *)
(* '%' begins an escape: url_decode gives what mongoose's decoder and      *)
(* http_normalize_uri give in the other order, and so finds every name a   *)
(* client escapes.  It gives up only at a '%' that begins none             *)
(* (http_utility.cpp:41, mongoose.c:1841).                                 *)
DecodersAgree(text) ==
  LET strict == StrictDecode(text)
      escaped == FlattenSeq([i \in DOMAIN text |->
                   IF text[i] \in DOMAIN Encoded THEN Encoded[text[i]] ELSE <<text[i]>>])
      begins(i) == \E c \in DOMAIN Encoded : Begins(text, i, Encoded[c])
  IN  /\ StrictDecode(escaped) = [decoded |-> TRUE, out |-> text]
      /\ (\A i \in DOMAIN text : text[i] = "%" => begins(i)) =>
           strict = [decoded |-> TRUE, out |-> UrlDecode(NormalizeUri(text))]
=============================================================================
