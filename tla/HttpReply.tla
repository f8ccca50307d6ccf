------------------------------ MODULE HttpReply ------------------------------
(***************************************************************************)
(* utility::http_reply: the text of a reply built by calls that append to  *)
(* a buffer.  A reply is its buffer, a sequence of pieces of text, and     *)
(* enable_buf_realocation_.  A status line is three pieces, a header four; *)
(* resize fills with zeros.                                                *)
(***************************************************************************)
EXTENDS Integers, Sequences, SequencesExt, Histories

Zero == "0"
Crlf == "crlf"

NewReply == [buffer |-> <<>>, growing |-> TRUE]

Statuses ==
  {"ok", "created", "accepted", "no_content", "partial_content", "multiple_choices",
   "moved_permanently", "moved_temporarily", "not_modified", "bad_request", "unauthorized",
   "forbidden", "not_found", "internal_server_error", "not_implemented", "bad_gateway",
   "service_unavailable"}

StatusLine(status) == <<"HTTP/1.1", status, Crlf>>

(* stock_replies::cast_to_string: "ok" has an empty page, and a partial     *)
(* content, which has none, gets the page of the internal server error.    *)
Page(status) ==
  CASE status = "ok" -> <<>>
    [] status = "partial_content" -> <<"page", "internal_server_error">>
    [] OTHER -> <<"page", status>>

(* cast_helper grows the buffer by the line and writes it at the beginning *)
(* of the buffer, whatever is there.                                       *)
AddStatus(reply, status) ==
  LET line == StatusLine(status)
      old == reply.buffer
  IN  [reply EXCEPT !.buffer =
         [i \in 1..(Len(old) + Len(line)) |->
            IF i <= Len(line) THEN line[i] ELSE IF i <= Len(old) THEN old[i] ELSE Zero]]

AddCrlf(reply) == [reply EXCEPT !.buffer = Append(@, Crlf)]

(* Without reallocation the first at() throws: nothing is added, and       *)
(* add_header answers false.                                               *)
AddHeader(reply, name, value) ==
  IF reply.growing THEN AddCrlf([reply EXCEPT !.buffer = @ \o <<name, ": ", value>>])
  ELSE reply

(* Without reallocation the blank line is there when at() throws, and      *)
(* everything is thrown away.                                              *)
AddContent(reply, content) ==
  IF content = <<>> THEN reply
  ELSE IF reply.growing THEN [AddCrlf(reply) EXCEPT !.buffer = @ \o content]
  ELSE [reply EXCEPT !.buffer = <<>>]

(* What the calls inside answer is not looked at: stock_reply is true.     *)
StockReply(reply, status) ==
  LET page == Page(status)
      reset == [reply EXCEPT !.buffer = <<>>]
      headed == AddHeader(AddHeader(AddStatus(reset, status), "Content-Length", Len(page)),
                          "Content-Type", "text/html")
  IN  AddContent(headed, page)

Call(reply, call) ==
  CASE call.op = "add_status" -> AddStatus(reply, call.status)
    [] call.op = "add_header" -> AddHeader(reply, call.name, "value")
    [] call.op = "add_content" -> AddContent(reply, <<"content">>)
    [] call.op = "add_crlf" -> AddCrlf(reply)
    [] call.op = "stock_reply" -> StockReply(reply, call.status)
    [] call.op = "enable_buf_realocation" -> [reply EXCEPT !.growing = call.state]

Built(calls) == StateAfter(Call, NewReply, calls)

-----------------------------------------------------------------------------
(***************************************************************************)
(* The reference: the text of a message made of a status, headers and a    *)
(* content.                                                                *)
(***************************************************************************)
Message(status, headers, content) ==
  StatusLine(status)
    \o FlattenSeq([i \in DOMAIN headers |-> <<headers[i].name, ": ", headers[i].value, Crlf>>])
    \o (IF content = <<>> THEN <<>> ELSE <<Crlf>> \o content)

(* Calls made in the order of a message build that message.                *)
BuiltInOrder(calls) ==
  LET n == Len(calls)
      ordered == /\ n > 0 /\ calls[1].op = "add_status"
                 /\ \A i \in 2..n : calls[i].op = "add_header" \/ (i = n /\ calls[i].op = "add_content")
      content == IF n > 0 /\ calls[n].op = "add_content" THEN <<"content">> ELSE <<>>
      headed == SubSeq(calls, 2, n - Len(content))
  IN  ordered =>
        Built(calls).buffer =
          Message(calls[1].status,
                  [i \in DOMAIN headed |-> [name |-> headed[i].name, value |-> "value"]],
                  content)

(* A stock reply is a whole message whatever was built before it, with the *)
(* length of its own page, unless the buffer may not grow: then its text   *)
(* is empty and the call succeeds all the same (http_reply.cpp:34).  Only  *)
(* a page ends its headers: the reply of "ok" has no blank line.           *)
StockReplyWhole(calls) ==
  \A status \in Statuses :
    LET reply == Built(calls)
        page == Page(status)
        headers == <<[name |-> "Content-Length", value |-> Len(page)],
                     [name |-> "Content-Type", value |-> "text/html"]>>
        text == StockReply(reply, status).buffer
    IN  IF reply.growing THEN text = Message(status, headers, page)
        ELSE text = IF page = <<>> THEN StatusLine(status) ELSE <<>>
=============================================================================
