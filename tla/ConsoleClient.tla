--------------------------- MODULE ConsoleClient ---------------------------
(***************************************************************************)
(* The program apps/full_model.cpp, a client of the C API: it adds the     *)
(* torrents of a directory, then carries out the commands of the console   *)
(* until it is told to quit or interrupted.                                *)
(*                                                                         *)
(* A history is a sequence of what happens to it: a line that is typed,    *)
(* the end of its input, or an interrupt.  A line is an option with an id, *)
(* a text, or (for "add") the answer of the core; which of the options     *)
(* boost's parser takes a line for is not modelled, "none" is a line it    *)
(* refuses.  Torrents are numbered as they are made (T2H_INT_WORKAROUND   *)
(* is not set).  Where a null pointer is printed the stream is taken to be *)
(* libstdc++'s, which prints nothing from then on.                         *)
(***************************************************************************)
EXTENDS Integers, Sequences, Histories

Text == INSTANCE HttpRequests

(* What the option's value was registered as, and what it is read as.      *)
Registered ==
  [stop |-> "number", pause |-> "number", resume |-> "number", get_info |-> "number",
   remove |-> "number", add |-> "text", start |-> "text", get_ids |-> "switch",
   quit |-> "switch", help |-> "switch"]

ReadAs == [Registered EXCEPT !.pause = "text"]

(* get_from_string_: without a comma the text is both numbers.  The blanks *)
(* are taken out of a copy that is not used.                               *)
GetFromString(text) ==
  LET comma == Text!Position(text, ",")
      first == IF comma = 0 THEN text ELSE SubSeq(text, 1, comma - 1)
      second == SubSeq(text, comma + 1, Len(text))
  IN  IF Text!IsNumber(first) /\ Text!IsNumber(second)
        THEN [state |-> TRUE, torrent |-> Text!NumberOf(first), file |-> Text!NumberOf(second)]
        ELSE [state |-> FALSE]

(***************************************************************************)
(* The program: at what its console thread is; core, whether t2h_init gave *)
(* a handle; ids, the keys of info_map; held, the torrents of the handle;  *)
(* made, how many it has made; calls, what it has asked of the core; mute, *)
(* its output has failed.                                                  *)
(***************************************************************************)
Called(s, op, id, file) == [s EXCEPT !.calls = Append(@, [op |-> op, id |-> id, file |-> file])]

Remembered(s) ==
  [s EXCEPT !.made = @ + 1, !.ids = @ \cup {s.made + 1}, !.held = @ \cup {s.made + 1}]

StartDownload(s, text) ==
  LET pair == GetFromString(text)
  IN  IF pair.state THEN (IF pair.torrent \in s.ids THEN Called(s, "start", pair.torrent, pair.file) ELSE s)
      ELSE s

DeleteTorrent(s, id) == [Called(s, "remove", id, 0) EXCEPT !.held = @ \ {id}]

AddTorrent(s, answer) ==
  LET called == Called(s, "add", 0, 0)
  IN  IF s.core /\ answer = "ok" THEN Remembered(called) ELSE called

GetInfo(s, id) == [Called(s, "get_info", id, 0) EXCEPT !.mute = @ \/ id \notin s.held]

(* _dispatch_vm, under im_lock.  A value that is read as another type than *)
(* it was registered as throws, and console_controller reports an error.   *)
DispatchVm(s, line) ==
  CASE Registered[line.option] # ReadAs[line.option] -> s
    [] line.option = "stop" -> Called(s, "stop", line.id, 0)
    [] line.option = "remove" -> DeleteTorrent(s, line.id)
    [] line.option = "start" -> StartDownload(s, line.text)
    [] line.option = "resume" -> Called(s, "resume", line.id, 1)
    [] line.option = "add" -> AddTorrent(s, line.answer)
    [] line.option = "get_info" -> GetInfo(s, line.id)
    [] line.option = "quit" -> [s EXCEPT !.exit = TRUE]
    [] OTHER -> s

(* dispatch_text_command                                                   *)
DispatchText(s, line) ==
  IF line.option \in {"none", "help"} THEN s ELSE DispatchVm(s, line)

(* A variant of the top of the loop that only looks for a quit.            *)
LoopTopQuitOnly(s) == IF s.exit THEN [s EXCEPT !.at = "ended"] ELSE s

(* The top of console_controller's loop, under sig_state.lock              *)
LoopTop(s) == IF s.exit \/ s.sigExit THEN [s EXCEPT !.at = "ended"] ELSE s

(* get_input_stream: at the end of the input what it has read is refused,  *)
(* and from then on it returns at once with nothing, which is refused too. *)
EndOfInput(s) == IF s.at = "input" THEN LoopTop([s EXCEPT !.at = "spinning"]) ELSE s

Line(s, line) == IF s.at = "input" THEN LoopTop(DispatchText(s, line)) ELSE s

(* sig_handler.  It may run in any thread; in the console thread, at the   *)
(* top of the loop, it waits for a lock this thread holds.  A thread that  *)
(* reads does not look at the flag, one that spins does.                   *)
Interrupt(s, atLoopTop) ==
  LET told == [s EXCEPT !.sigExit = TRUE]
  IN  IF s.at \notin {"input", "spinning"} THEN s
      ELSE IF atLoopTop THEN [s EXCEPT !.at = "stuck"]
      ELSE IF s.at = "spinning" THEN LoopTop(told) ELSE told

(* addrents_from_directory: files are the core's answers.                  *)
AddFromDirectory(s, files) == StateAfter(AddTorrent, s, files)

(* get_options and main, up to the console thread.  A t2h_init that failed *)
(* goes unnoticed: 0 is looked for, and the invalid handle is -1.          *)
Main(run) ==
  LET s == [at |-> "input", core |-> run.core, ids |-> {}, held |-> {}, made |-> 0,
            calls |-> <<>>, exit |-> FALSE, sigExit |-> FALSE, mute |-> FALSE]
  IN  IF ~run.options \/ ~run.directory THEN [s EXCEPT !.at = "died"]
      ELSE AddFromDirectory(s, run.files)

Happen(s, event) ==
  CASE event.event = "line" -> Line(s, event)
    [] event.event = "end of input" -> EndOfInput(s)
    [] event.event = "interrupt" -> Interrupt(s, event.atLoopTop)

(* The program after the first n events of a history.                      *)
After(run, history) == StatesAfter(Happen, Main(run), history)

-----------------------------------------------------------------------------
(* After an interrupt that its console thread did not itself answer at the  *)
(* top of the loop, one more line is read and carried out, whatever it     *)
(* says, and then the loop ends; without input it ends at once, and only   *)
(* an interrupt ends a program that has no input (full_model.cpp:143, 388).*)
InterruptEnds(run, history) ==
  LET after == After(run, history)
      told(i) == history[i].event = "interrupt" /\ ~history[i].atLoopTop
                   /\ after[i - 1].at \in {"input", "spinning"}
  IN  \A i \in DOMAIN history :
        /\ told(i) => after[i].at = IF after[i - 1].at = "input" THEN "input" ELSE "ended"
        /\ \A j \in (i + 1)..Len(history) : told(i) =>
             /\ history[j].event = "line" => after[j].at \in {"ended", "stuck"}
             /\ Len(after[j].calls) <= Len(after[i].calls) + 1
        /\ after[i - 1].at = "spinning" /\ after[i].at = "ended" => history[i].event = "interrupt"

(* The core is asked for nothing but what was typed, with the numbers as    *)
(* typed: a start names a torrent that was added, possibly removed since,  *)
(* and a resume is always one of file 1 (full_model.cpp:297, 306).         *)
CallsAsTyped(run, history) ==
  LET after == After(run, history)
      pairs == {<<"1", ",", "2">>, <<"2", ",", "1">>}
  IN  \A i \in DOMAIN history : after[i].calls # after[i - 1].calls =>
        LET call == after[i].calls[Len(after[i].calls)]
        IN  /\ after[i].calls = Append(after[i - 1].calls, call)
            /\ history[i].event = "line" /\ call.op = history[i].option
            /\ call.op \in {"stop", "remove", "resume", "get_info"} => call.id = history[i].id
            /\ call.op = "resume" => call.file = 1
            /\ call.op = "start" =>
                 /\ call.id \in 1..after[i].made
                 /\ history[i].text \in pairs =>
                      call.id = Text!NumberOf(<<history[i].text[1]>>)
                        /\ call.file = Text!NumberOf(<<history[i].text[3]>>)

(* What the help says, "take id for pause download" (full_model.cpp:361):  *)
(* a pause that is typed for a torrent the core has makes the core pause   *)
(* it, which the call at 277 is for.  It never does: the option is         *)
(* registered as a number, and reading it as a text, at 270, throws.       *)
PauseReachesCore(run, history) ==
  LET after == After(run, history)
      paused(i) == /\ history[i].event = "line" /\ history[i].option = "pause"
                   /\ after[i - 1].at = "input" /\ history[i].id \in after[i - 1].held
  IN  \A i \in DOMAIN history : paused(i) =>
        /\ Len(after[i].calls) = Len(after[i - 1].calls) + 1
        /\ after[i].calls[Len(after[i].calls)].op = "pause"

(* Every torrent the handle has can be named to the console, which also    *)
(* goes on listing the ones it has removed; without a core it has none.    *)
(* While nothing but torrents the handle has is asked about, the answers   *)
(* are shown (full_model.cpp:279, 320).                                    *)
TorrentsListed(run, history) ==
  LET after == After(run, history)
  IN  \A i \in 0..Len(history) :
        /\ after[i].held \subseteq after[i].ids /\ after[i].ids = 1..after[i].made
        /\ ~run.core => after[i].ids = {}
        /\ \A id \in after[i].ids \ after[i].held :
             \E k \in DOMAIN after[i].calls :
               after[i].calls[k].op = "remove" /\ after[i].calls[k].id = id
        /\ (\A k \in 1..i : history[k].event = "line" /\ history[k].option = "get_info" =>
              history[k].id \in after[k - 1].held) => ~after[i].mute

(* A start is carried out for one number, which is then both, or for two   *)
(* with a comma and no blank between them (full_model.cpp:250-252).        *)
PairsRead(text) ==
  LET pair == GetFromString(text)
      one == Text!IsNumber(text)
      two == \E k \in DOMAIN text : /\ text[k] = ","
                                    /\ Text!IsNumber(SubSeq(text, 1, k - 1))
                                    /\ Text!IsNumber(SubSeq(text, k + 1, Len(text)))
  IN  /\ pair.state <=> one \/ two
      /\ one => pair.torrent = Text!NumberOf(text) /\ pair.file = pair.torrent
=============================================================================
