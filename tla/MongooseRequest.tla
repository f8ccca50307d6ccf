-------------------------- MODULE MongooseRequest --------------------------
(***************************************************************************)
(* How mongoose reads a request out of a connection's buffer, before the   *)
(* transport sees it, what it answers itself when no handler has served    *)
(* the request (HttpTransport.tla: ServeFile), and how it writes.          *)
(*                                                                         *)
(* A text is a sequence of characters, as in HttpRequests; a longer string *)
(* without a blank, a colon or a line break in it ("GET", "HTTP/") counts  *)
(* as one.  The 64 headers a request may have are not reached.             *)
(***************************************************************************)
EXTENDS HttpRequests

CR == "CR"
LF == "LF"
Space == " "

(* isprint, or above 127, or a line break.  TAB stands for the others.     *)
IsAllowed(c) == c # "TAB"

(* strspn: the first position from i on that is not in chars.              *)
Span(text, i, chars) == Min({j \in i..Len(text) : text[j] \notin chars} \cup {Len(text) + 1})

(* strcspn                                                                 *)
Until(text, i, chars) == Min({j \in i..Len(text) : text[j] \in chars} \cup {Len(text) + 1})

(* get_request_len: -1 malformed, 0 not complete, or the length up to an   *)
(* empty line.  The last character is not looked at by itself.             *)
RequestLen(text) ==
  LET lineEnd(i) == CASE text[i] # LF -> 0
                      [] text[i + 1] = LF -> i + 1
                      [] i + 2 <= Len(text) /\ text[i + 1] = CR /\ text[i + 2] = LF -> i + 2
                      [] OTHER -> 0
      decide == {i \in 1..(Len(text) - 1) : ~IsAllowed(text[i]) \/ lineEnd(i) # 0}
      first == Min(decide)
  IN  IF decide = {} THEN 0 ELSE IF IsAllowed(text[first]) THEN lineEnd(first) ELSE -1

(* skip_quoted without a quote: a word and where the text goes on, behind  *)
(* the delimiter and the whitespace that follows it.                       *)
Skip(text, i, delimiters, whitespace) ==
  LET end == Until(text, i, delimiters)
  IN  [word |-> SubSeq(text, i, end - 1), next |-> Span(text, end + 1, whitespace)]

(* parse_http_headers, up to an empty name.  A line without a colon is a   *)
(* part of the next header's name.                                         *)
ParseHeaders(text, start) ==
  LET name(i) == Skip(text, i, {":"}, {Space})
      value(i) == Skip(text, name(i).next, {CR, LF}, {CR, LF})
      from[i \in start..(Len(text) + 2)] ==
        IF name(i).word = <<>> THEN <<>>
        ELSE <<[name |-> name(i).word, value |-> value(i).word]>> \o from[value(i).next]
  IN  from[start]

(* parse_http_message: its last character is overwritten by the terminator *)
ParseMessage(text) ==
  LET line == SubSeq(text, 1, RequestLen(text) - 1)
      method == Skip(line, Span(line, 1, {Space, CR, LF}), {Space}, {Space})
      uri == Skip(line, method.next, {Space}, {Space})
      version == Skip(line, uri.next, {CR, LF}, {CR, LF})
  IN  [method |-> method.word, uri |-> uri.word, version |-> version.word,
       headers |-> ParseHeaders(line, version.next)]

ValidMethods == {"GET", "POST", "HEAD", "CONNECT", "PUT", "DELETE", "OPTIONS", "PROPFIND"}

(* parse_http_request and is_valid_uri                                     *)
IsHttpRequest(ri) ==
  /\ ri.method \in {<<m>> : m \in ValidMethods}
  /\ Begins(ri.version, 1, <<"HTTP/">>)
  /\ Begins(ri.uri, 1, <<"/">>) \/ ri.uri = <<"*">>

Lowercase(c) == IF c = "Content-Length" THEN "content-length" ELSE c

(* get_header: the first of the name, in any case; NoHeader for NULL.      *)
NoHeader == <<"none">>

GetHeader(ri, name) ==
  LET same(h) == [i \in DOMAIN h.name |-> Lowercase(h.name[i])] = <<Lowercase(name)>>
      found == SelectInSeq(ri.headers, same)
  IN  IF found = 0 THEN NoHeader ELSE ri.headers[found].value

(* A number as strtoll and sscanf read it.                                 *)
Scan(text, i) ==
  LET sign == Span(text, i, {Space})
      digits == IF Begins(text, sign, <<"-">>) \/ Begins(text, sign, <<"+">>)
                  THEN sign + 1 ELSE sign
      end == Span(text, digits, DOMAIN DigitOf)
      value == NumberOf(SubSeq(text, digits, end - 1))
  IN  IF end = digits THEN [found |-> FALSE, value |-> 0, next |-> i]
      ELSE [found |-> TRUE, value |-> IF Begins(text, sign, <<"-">>) THEN -value ELSE value,
            next |-> end]

ContentLen(ri) ==
  IF GetHeader(ri, "Content-Length") # NoHeader
    THEN Scan(GetHeader(ri, "Content-Length"), 1).value
  ELSE IF ri.method \in {<<"POST">>, <<"PUT">>} THEN -1 ELSE 0

(* process_new_connection: what is done with the bytes received so far. A  *)
(* request that is refused leaves content_len as reset.                    *)
Process(text) ==
  LET length == RequestLen(text)
      ri == ParseMessage(text)
  IN  IF length = 0 THEN [outcome |-> "read on"]
      ELSE IF length < 0 THEN [outcome |-> "close"]
      ELSE IF ~IsHttpRequest(ri) THEN [outcome |-> "400", contentLen |-> -1]
      ELSE IF ri.version \notin {<<"HTTP/", "1.0">>, <<"HTTP/", "1.1">>}
        THEN [outcome |-> "505", contentLen |-> -1]
      ELSE [outcome |-> "handle", request |-> ri, contentLen |-> ContentLen(ri)]

(* What stays in the buffer when the request has been handled.             *)
Leftover(text) ==
  LET end == RequestLen(text) + Process(text).contentLen
  IN  IF Process(text).contentLen >= 0 /\ end < Len(text)
        THEN SubSeq(text, end + 1, Len(text)) ELSE <<>>

-----------------------------------------------------------------------------
(* handle_file_request, for the value of the Range header (<<"b", "=">> is *)
(* "bytes="): the figures and the number of bytes that are there to send.  *)
(* The bounds stay set when they are not taken for a range; from a start   *)
(* below 0 the seek fails.                                                 *)
FileReply(value, size) ==
  LET from == IF Begins(value, 1, <<"b", "=">>) THEN Scan(value, 3) ELSE [found |-> FALSE, value |-> 0]
      to == IF from.found /\ Begins(value, from.next, <<"-">>) THEN Scan(value, from.next + 1)
            ELSE [found |-> FALSE, value |-> 0]
      partial == from.found /\ from.value >= 0 /\ to.value > 0
      length == IF partial THEN Min({to.value, size}) - from.value + 1 ELSE size
      start == Max({from.value, 0})
  IN  [status |-> IF partial THEN 206 ELSE 200, length |-> length, start |-> start,
       sent |-> Max({0, Min({length, size - start})})]

-----------------------------------------------------------------------------
(* is_not_modified: ifNoneMatch is the file's etag, another, or absent;    *)
(* ifModifiedSince a time before the file's, none before it, or absent.    *)
IsNotModified(ifNoneMatch, ifModifiedSince) == ifNoneMatch = "etag" \/ ifModifiedSince = "late"

(* What the transport leaves unset of mongoose's options, or sets to no.   *)
PutDeletePasswordsFile == FALSE
EnableDirectoryListing == FALSE

(* handle_request behind the call of the handlers: the first condition     *)
(* that holds decides.  target is what mg_stat and the path tell of the    *)
(* file; served, whether a handler has served the request.  No request is  *)
(* refused for want of an authorization.                                   *)
HandleRequest(method, target, served) ==
  LET rules ==
        <<<<served, "served">>,
          <<method = "OPTIONS", "options">>,
          <<method \in {"PUT", "DELETE"} /\ ~PutDeletePasswordsFile, "401">>,
          <<method = "PUT", "put">>,
          <<method = "DELETE", "remove">>,
          <<~target.exists \/ target.hidden, "404">>,
          <<target.directory /\ ~target.slash, "301">>,
          <<method = "PROPFIND", "properties">>,
          <<target.directory /\ ~target.index /\ EnableDirectoryListing, "listing">>,
          <<target.directory /\ ~target.index, "403">>,
          <<target.kind = "cgi" /\ method \notin {"GET", "POST"}, "501">>,
          <<target.kind = "cgi", "program">>,
          <<target.kind = "ssi", "includes">>,
          <<IsNotModified(target.ifNoneMatch, target.ifModifiedSince), "304">>,
          <<TRUE, "file">>>>
  IN  rules[SelectInSeq(rules, LAMBDA rule : rule[1])][2]

(* push, for len bytes and what each send may take or -1: the bytes passed  *)
(* to the socket, in order.  It ends at an error, at the last byte, or     *)
(* when no answer is left (the send blocks).  mg_write, for which no       *)
(* throttle is set, answers their number, and the transport's ostream 0    *)
(* when it is not positive.                                                *)
Push(takes, len) ==
  LET from[at \in (1..(Len(takes) + 1)) \X (0..len)] ==
        LET i == at[1]
            sent == at[2]
            n == Min({takes[i], len - sent})
        IN  IF sent = len \/ i > Len(takes) THEN <<>>
            ELSE IF takes[i] < 0 THEN <<>>
            ELSE [k \in 1..n |-> sent + k] \o from[<<i + 1, sent + n>>]
  IN  from[<<1, 0>>]

OstreamWrite(takes, len) == Len(Push(takes, len))

-----------------------------------------------------------------------------
(* However the bytes of a request arrive, it is the same request: once a    *)
(* part of the text has decided where the request ends, or that it is      *)
(* refused, no later byte changes that (read_request tests after each      *)
(* read, and parse_http_request scans the whole buffer again,              *)
(* mongoose.c:4659).                                                       *)
ReadInParts(text) ==
  LET before == RequestLen(Front(text))
  IN  text # <<>> /\ before # 0 => RequestLen(text) = before

(* No character of a request that is handled is lost, doubled or moved to   *)
(* another field, but for the delimiters, and for the headers from the     *)
(* first line that begins with a colon on (mongoose.c:2815).               *)
NothingMoved(text) ==
  LET shown(t) == SelectSeq(t, LAMBDA c : c \notin {Space, CR, LF, ":"})
      ri == Process(text).request
      headers == FlattenSeq([i \in DOMAIN ri.headers |-> ri.headers[i].name \o ri.headers[i].value])
      fields == shown(ri.method \o ri.uri \o ri.version \o headers)
      all == shown(SubSeq(text, 1, RequestLen(text)))
      named == \A i \in 2..Len(text) : text[i] = ":" => text[i - 1] \notin {CR, LF, Space}
  IN  Process(text).outcome = "handle" =>
        /\ Begins(all, 1, fields)
        /\ named => fields = all

(* The reference: how a request is written, with its line breaks.          *)
WrittenWith(q, break) ==
  <<q.method, Space>> \o q.uri \o <<Space, "HTTP/", q.version>> \o break
    \o FlattenSeq([i \in DOMAIN q.headers |->
         q.headers[i].name \o <<":", Space>> \o q.headers[i].value \o break])
    \o break

(* Every written request is handled with its own fields, wherever the      *)
(* stream of the connection goes on, and, if it tells the length of its    *)
(* body, exactly what follows that body stays for the next one; a POST     *)
(* that does not swallows what follows (mongoose.c:4690).                  *)
WrittenIsHandled(q, rest) ==
  \A break \in {<<CR, LF>>, <<LF>>} :
    LET text == WrittenWith(q, break) \o rest
        length == Len(WrittenWith(q, break))
        given == SelectSeq(q.headers, LAMBDA h : h.name = <<"content-length">>)
        body == IF given = <<>> THEN 0 ELSE NumberOf(Head(given).value)
        ri == [method |-> <<q.method>>, uri |-> q.uri, version |-> <<"HTTP/", q.version>>,
               headers |-> q.headers]
    IN  /\ RequestLen(text) = length
        /\ ParseMessage(text) = ri
        /\ Process(text).outcome = IF q.version \in {"1.0", "1.1"} THEN "handle" ELSE "505"
        /\ q.version \in {"1.0", "1.1"} =>
             Leftover(text) = IF q.method = "POST" /\ given = <<>> THEN <<>>
                              ELSE SubSeq(text, length + body + 1, Len(text))

(* When a handler has failed, mongoose neither writes nor removes a file    *)
(* nor lists a directory, whatever the request: those refusals come before *)
(* the file is looked at.  An existing plain file is sent for any other    *)
(* method, unless one of the two conditions says it is known, and then     *)
(* even if the other says it is not (mongoose.c:4077, 2949).               *)
FallbackReadsOnly ==
  \A method \in ValidMethods \ {"CONNECT"} :
    \A target \in [exists : BOOLEAN, hidden : BOOLEAN, directory : BOOLEAN, slash : BOOLEAN,
                   index : BOOLEAN, kind : {"plain", "cgi", "ssi"},
                   ifNoneMatch : {"etag", "other", "none"}, ifModifiedSince : {"early", "late", "none"}] :
      LET answer == HandleRequest(method, target, FALSE)
          plain == target.exists /\ ~target.hidden /\ ~target.directory /\ target.kind = "plain"
      IN  /\ answer \notin {"served", "put", "remove", "listing"}
          /\ method \in {"GET", "POST", "HEAD"} =>
               /\ plain => answer = IF target.ifNoneMatch = "etag" \/ target.ifModifiedSince = "late"
                                      THEN "304" ELSE "file"
               /\ ~target.exists => answer = "404"
               /\ answer = "403" => target.directory /\ target.slash

(* However the socket takes the bytes of a chunk, those it has taken are    *)
(* the first of the chunk, each once and in order, and the answer is their *)
(* number: a chunk counts as written only if all of it went out, before    *)
(* any send has failed (mongoose.c:1421, hs_chunked_ostream_impl.cpp:111). *)
WrittenInOrder(takes, len) ==
  LET passed == Push(takes, len)
      taken[i \in 0..Len(takes)] == IF i = 0 THEN 0 ELSE taken[i - 1] + takes[i]
  IN  /\ passed = [k \in 1..Len(passed) |-> k]
      /\ OstreamWrite(takes, len) = len <=>
           \E i \in 0..Len(takes) : taken[i] >= len /\ \A k \in 1..i : takes[k] >= 0

(* The reply mongoose makes itself to a range with two bounds, not both 0, *)
(* has its bytes, but announces one more than there is when the range ends *)
(* behind the file; a range without an end is answered 200, with the       *)
(* length of the whole file before the rest of it (mongoose.c:2754).       *)
FileFiguresAgree(value, size) ==
  LET first == {<<"0">>, <<"1">>, <<"1", "0">>}
  IN  \A reply \in {FileReply(value, size)}, a \in first :
        LET start == NumberOf(a)
        IN  /\ \A b \in first :
                 LET end == NumberOf(b)
                     behind == Max({0, Min({end, size - 1}) - start + 1})
                 IN  value = <<"b", "=">> \o a \o <<"-">> \o b /\ start <= end /\ end # 0 /\ start < size =>
                       /\ reply.status = 206 /\ reply.start = start /\ reply.sent = behind
                       /\ reply.length = IF end >= size THEN behind + 1 ELSE behind
            /\ value = <<"b", "=">> \o a \o <<"-">> /\ start < size =>
                 reply = [status |-> 200, length |-> size, start |-> start, sent |-> size - start]
=============================================================================
