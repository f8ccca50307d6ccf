---------------------------- MODULE MCAlgorithms ----------------------------
(***************************************************************************)
(* The algorithms that keep no state of their own, over every word of      *)
(* bounded length: the word grows by one symbol a step from one of the     *)
(* starting words of its kind.                                             *)
(***************************************************************************)
EXTENDS ErrorResolver

Parsing == INSTANCE RequestParser
Requests == INSTANCE HttpRequests
Replies == INSTANCE HttpReply
Wire == INSTANCE MongooseRequest
Console == INSTANCE ConsoleClient

VARIABLES kind, word, left

RequestLine == <<"G", " ", "/", " ", "H", "T", "T", "P", "/", "1", ".", "1", "CR", "LF">>

(* A request as a client writes it, to be read from its beginning.         *)
MethodNames == {<<"G", "E", "T">>, <<"P", "O", "S", "T">>, <<"H", "E", "A", "D">>, <<"P">>}
Uris == {<<>>, <<"/">>, <<"/", "a", "HIGH">>}
HeaderLists ==
  {<<>>} \cup {<<h>> : h \in [name : {<<"A">>}, value : {<<>>, <<"a", ":", " ", "HIGH">>}]}
         \cup {<<h, h>> : h \in [name : {<<"A", "b">>}, value : {<<" ", "a">>}]}
WrittenRequests ==
  [method : MethodNames, uri : Uris, major : {0, 1, 12}, minor : {0, 10}, headers : HeaderLists]

(* A request as a client sends it, and what may follow it in the stream.   *)
WireHeaders ==
  [name : {<<"a">>, <<"content-length">>}, value : {<<"2">>}]
    \cup [name : {<<"a", "a">>}, value : {<<>>, <<"a", ":", " ", "a">>}]
SentRequests ==
  [method : {"GET", "POST", "HEAD", "OPTIONS"}, uri : {<<"/">>, <<"/", "a">>, <<"*">>},
   version : {"1.0", "1.1", "2.0"},
   headers : {<<>>} \cup {<<h>> : h \in WireHeaders} \cup {<<g, h>> : g, h \in WireHeaders}]
Rests == {<<>>, <<"a", "a">>, <<"a", "LF", "GET", " ">>, <<"LF", "LF", "TAB">>}

Hanging == [paused |-> FALSE, state |-> "downloading", peers |-> 0, candidates |-> 1, progress |-> 0]
Recovered == [Hanging EXCEPT !.peers = 1]

Runs ==
  LET run(core, options, directory, files) ==
        [core |-> core, options |-> options, directory |-> directory, files |-> files]
  IN  {run(TRUE, TRUE, TRUE, <<>>), run(TRUE, TRUE, TRUE, <<"refused", "ok">>),
       run(FALSE, TRUE, TRUE, <<"ok">>), run(TRUE, TRUE, FALSE, <<>>)}
Typed(option) == [event |-> "line", option |-> option]
TypedId(option) == [event |-> "line", option |-> option, id |-> 1]
TypedPair(text) == [event |-> "line", option |-> "start", text |-> text]
TypedFile(answer) == [event |-> "line", option |-> "add", answer |-> answer]

Starts(k) ==
  CASE k = "version" -> {SubSeq(RequestLine, 1, 4)}
    [] k = "headers" -> {RequestLine}
    [] k = "sentHeaders" -> {<<"GET", " ", "/", " ", "HTTP/", "1.1", "CR", "LF">>}
    [] k = "range" -> {<<>>, <<"b", "=">>}
    [] k = "console" -> {<<run>> : run \in Runs}
    [] OTHER -> {<<>>}

Symbols(k) ==
  CASE k = "method" -> {"G", "/", "1", ":", " ", "HIGH", "TAB", "CR"}
    [] k = "version" -> {"H", "T", "P", "/", "1", "2", ".", " ", "CR", "LF"}
    [] k = "headers" -> {"a", ":", " ", "TAB", "CR", "LF"}
    [] k = "sent" -> {"GET", " ", "/", "HTTP/", "1.1", "CR", "LF", "TAB"}
    [] k = "sentHeaders" -> {"a", ":", " ", "CR", "LF"}
    [] k = "range" -> {"=", "-", "+", ",", "*", "1", "0"}
    [] k = "name" -> {"a", "+", " ", "%", "?", "/", ".", "2", "0"}
    [] k = "reply" ->
         {[op |-> "add_status", status |-> "ok"], [op |-> "add_header", name |-> "A"],
          [op |-> "add_header", name |-> "B"], [op |-> "add_content"], [op |-> "add_crlf"],
          [op |-> "stock_reply", status |-> "not_found"],
          [op |-> "enable_buf_realocation", state |-> FALSE]}
    [] k = "updates" ->
         [gap : {1, 3, 4}, status : {Hanging, Recovered}, handleValid : {TRUE}]
           \cup [gap : {1, 3, 4}, status : {Hanging}, handleValid : {FALSE}]
    [] k = "sends" -> {0, 1, 2, 4, -1}
    [] k = "typed" -> {"1", "2", ",", " ", "a"}
    [] k = "console" ->
         {TypedPair(<<"1", ",", "2">>), TypedPair(<<"2", ",", "1">>), TypedFile("ok"),
          TypedFile("refused"), TypedId("remove"), TypedId("pause"), TypedId("resume"),
          TypedId("get_info"), Typed("quit"), Typed("none"), [event |-> "end of input"]}
           \cup [event : {"interrupt"}, atLoopTop : BOOLEAN]

(* The number of symbols a word of each kind may grow by.                  *)
Growth == [method |-> 5, version |-> 14, headers |-> 11, range |-> 5, name |-> 4, reply |-> 5,
           updates |-> 5, sent |-> 5, sentHeaders |-> 7, console |-> 4, typed |-> 5,
           sends |-> 5]

Kinds == DOMAIN Growth

Init ==
  \E k \in Kinds : kind = k /\ word \in Starts(k) /\ left = Growth[k]

Parsed == {"method", "version", "headers"}

ConsoleRuns == Console!After(Head(word), Tail(word))[Len(word) - 1].at \in {"input", "spinning"}

Undecided ==
  /\ kind \in Parsed => Parsing!Parse(word).result = "more"
  /\ kind = "console" => ConsoleRuns

Grow ==
  /\ left > 0 /\ Undecided
  /\ \E symbol \in Symbols(kind) : word' = Append(word, symbol)
  /\ left' = left - 1
  /\ UNCHANGED kind

Next == Grow

Spec == Init /\ [][Next]_<<kind, word, left>>

(* The history of the updates of the word: elapsed is the sum of the gaps. *)
History ==
  LET elapsed[n \in 0..Len(word)] == IF n = 0 THEN 0 ELSE elapsed[n - 1] + word[n].gap
  IN  [n \in DOMAIN word |->
         [elapsed |-> elapsed[n], status |-> word[n].status, handleValid |-> word[n].handleValid]]

FileSizes == {1, 3, 12}

EveryWrittenIsRead == \A q \in WrittenRequests : Parsing!WrittenIsRead(q)

EverySentIsHandled == \A q \in SentRequests, rest \in Rests : Wire!WrittenIsHandled(q, rest)

(* What http_request_parser makes of every word and of every request that  *)
(* a client may write (http_request_parser.cpp:65), and what mongoose makes *)
(* of them (mongoose.c:2832).                                              *)
RequestsRead ==
  /\ kind = "method" /\ word = <<>> => EveryWrittenIsRead
  /\ kind = "sent" /\ word = <<>> => EverySentIsHandled
  /\ kind \in {"sent", "sentHeaders"} => Wire!ReadInParts(word) /\ Wire!NothingMoved(word)
  /\ kind \in Parsed => Parsing!ReadAsWritten(word)

(* What every Range header, every file name and every sequence of calls of *)
(* a reply leads to (http_utility.cpp:139, http_reply.cpp:34).             *)
RequestsAnswered ==
  /\ kind = "range" =>
       /\ Requests!BoundsAsWritten(word) /\ Requests!FirstRangeCounts(word)
       /\ \A size \in FileSizes :
            Requests!FiguresAgree(word, size) /\ Requests!RepliesFor(word, size)
            /\ Wire!FileFiguresAgree(word, size)
  /\ kind = "sends" =>
       /\ Wire!WrittenInOrder(word, 4)
       /\ word = <<>> => Wire!FallbackReadsOnly
  /\ kind = "name" => Requests!FoundAsNamed(word) /\ Requests!DecodersAgree(word)
  /\ kind = "reply" => Replies!BuiltInOrder(word) /\ Replies!StockReplyWhole(word)

(* What every history of the console does (full_model.cpp:139).            *)
CommandsCarriedOut ==
  /\ kind = "console" =>
       /\ Console!InterruptEnds(Head(word), Tail(word))
       /\ Console!CallsAsTyped(Head(word), Tail(word))
       /\ Console!TorrentsListed(Head(word), Tail(word))
  /\ kind = "typed" => Console!PairsRead(word)

(* What the help of the console says of a pause (full_model.cpp:361) and   *)
(* what comes of it.                                                       *)
PausesCarriedOut == kind = "console" => Console!PauseReachesCore(Head(word), Tail(word))

(* What every history of updates of a torrent leads to                     *)
(* (sequential_torrent_controller.cpp:321).                                *)
HangsResolved == kind = "updates" => RecheckEarned(History) /\ RecheckComes(History)
=============================================================================
