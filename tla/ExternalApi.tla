----------------------------- MODULE ExternalApi -----------------------------
(***************************************************************************)
(* The C API of t2h.h over everything below it: the table of handles, the  *)
(* settings all cores of the process share, the life of the two services   *)
(* of a core from t2h_init to t2h_close, t2h_wait, and the operations on   *)
(* torrents that only pass through.  Clients use the numbers they were     *)
(* given, from any thread.                                                 *)
(*                                                                         *)
(* A launch reads the settings in one step and a torrent is added or not   *)
(* (TorrentAdd has the steps); no request is in progress when a server     *)
(* stops (HttpTransport has those).  http_server_core and its transport    *)
(* hold each other, so only stop_all ends a server, no destructor does.    *)
(***************************************************************************)
EXTENDS Settings, FiniteSets

CONSTANTS
  Threads,        \* the threads of the client
  IntWorkaround,  \* T2H_INT_WORKAROUND
  Uses,           \* the operations on torrents that clients call
  MaxMade,        \* bound: how many cores and torrents are made together
  MaxErrors       \* bound: how many cores have a listen error

ASSUME ApiAssumption ==
  /\ IntWorkaround \in BOOLEAN
  /\ Uses \subseteq {"files", "start", "pause", "resume", "stop"}
  /\ MaxMade \in Nat /\ MaxErrors \in Nat

VARIABLES
  crashed,       \* a null pointer was used or an exception left the C API
  settings,      \* the configuration in key_storage_ of the shared manager
  settingsError, \* last_error_ is not empty
  created,       \* cores made so far; they are numbered
  conf,          \* history: the configuration each was made with, until it is closed
  torrent,       \* cur_state_ of each torrent core
  loop,          \* its main loop
  session,       \* core_session_ exists
  listenFailed,  \* history: its loop was ended by a listen error
  http,          \* cur_state_ of each HTTP server
  server,        \* the configuration its mongoose listens with, or NoConfig
  services,      \* services_ of each core's manager
  handles,       \* handles_map_: numbers to cores
  number,        \* history: the number the client of a core holds, or 0
  added,         \* torrents added so far; they are numbered
  infos,         \* torrents of each handle: identifiers to torrents
  buffer,        \* the torrents of each core's shared_buffer
  wanted,        \* torrents whose file has normal_prior
  paused,        \* torrents stopped with handle.pause()
  given,         \* history: the identifier the client of a core got for a torrent
  calls,         \* the call each thread is in
  closed,        \* history: the cores whose t2h_close has returned
  orderly,       \* history: always the newest of what is open was closed
  alone          \* history: a core was only made when no other was open

settingVars == <<settings, settingsError>>
serviceVars == <<torrent, loop, session, listenFailed, http, server>>
numberVars == <<handles, number, infos, given, orderly>>
torrentVars == <<added, buffer, wanted, paused>>
makingVars == <<created, conf, alone>>
coreVars == <<serviceVars, services, closed>>
vars == <<crashed, settingVars, coreVars, numberVars, torrentVars, makingVars, calls>>

Cores == 1 .. MaxMade
Torrents == 1 .. MaxMade
Numbers == 1 .. MaxMade

InitSteps == {"load", "check", "launchTorrent", "launchHttp", "stuck", "register"}
CloseSteps == {"stopHttp", "stopTorrent", "join", "clear"}
WaitSteps == {"waitHttp", "waitStop", "waitTorrent", "waitJoin"}
Steps == {"idle", "add", "delete", "forget"} \cup Uses \cup InitSteps \cup CloseSteps \cup WaitSteps

\* core: what the handle named; client: whose number it was; id and torrent: the
\* identifier passed and the torrent the client means by it.
Calls == [at : Steps, core : Cores \cup {0}, client : Cores \cup {0},
          id : Numbers \cup {0}, torrent : Torrents \cup {0}]
Call(step, c, owner, n, k) ==
  [at |-> step, core |-> c, client |-> owner, id |-> n, torrent |-> k]
Idle == Call("idle", 0, 0, 0, 0)
NotGiven == [core |-> 0, id |-> 0]
IsMap(m, D, R) == DOMAIN m \subseteq D /\ \A x \in DOMAIN m : m[x] \in R

TypeOK ==
  /\ crashed \in BOOLEAN
  /\ settings \in Parsable \cup {NoConfig} /\ settingsError \in BOOLEAN
  /\ created \in 0 .. MaxMade /\ added \in 0 .. MaxMade
  /\ conf \in [Cores -> Configs \cup {NoConfig}]
  /\ torrent \in [Cores -> {"off", "running", "stoped"}]
  /\ loop \in [Cores -> {"off", "running", "ended"}]
  /\ session \in [Cores -> BOOLEAN] /\ listenFailed \in [Cores -> BOOLEAN]
  /\ http \in [Cores -> {"off", "running", "stoped"}]
  /\ server \in [Cores -> Configs \cup {NoConfig}]
  /\ services \in [Cores -> SUBSET {"http", "torrent"}]
  /\ IsMap(handles, Numbers, Cores) /\ number \in [Cores -> Numbers \cup {0}]
  /\ DOMAIN infos = Cores /\ \A c \in Cores : IsMap(infos[c], Numbers, Torrents)
  /\ buffer \in [Cores -> SUBSET Torrents]
  /\ wanted \in SUBSET Torrents /\ paused \in SUBSET Torrents
  /\ given \in [Torrents -> [core : Cores \cup {0}, id : Numbers \cup {0}]]
  /\ calls \in [Threads -> Calls]
  /\ closed \in SUBSET Cores
  /\ orderly \in BOOLEAN /\ alone \in BOOLEAN

Init ==
  /\ crashed = FALSE
  /\ settings = NoConfig /\ settingsError = FALSE
  /\ created = 0 /\ conf = [c \in Cores |-> NoConfig] /\ alone = TRUE
  /\ torrent = [c \in Cores |-> "off"] /\ loop = [c \in Cores |-> "off"]
  /\ session = [c \in Cores |-> FALSE] /\ listenFailed = [c \in Cores |-> FALSE]
  /\ http = [c \in Cores |-> "off"] /\ server = [c \in Cores |-> NoConfig]
  /\ services = [c \in Cores |-> {}] /\ closed = {}
  /\ handles = [n \in {} |-> 0] /\ number = [c \in Cores |-> 0]
  /\ infos = [c \in Cores |-> [n \in {} |-> 0]]
  /\ given = [k \in Torrents |-> NotGiven] /\ orderly = TRUE
  /\ added = 0 /\ buffer = [c \in Cores |-> {}] /\ wanted = {} /\ paused = {}
  /\ calls = [t \in Threads |-> Idle]

-----------------------------------------------------------------------------
At(t, step) == ~crashed /\ calls[t].at = step
Goto(t, step) == calls' = [calls EXCEPT ![t].at = step]
Return(t) == calls' = [calls EXCEPT ![t] = Idle]
Put(m, k, v) == [x \in DOMAIN m \cup {k} |-> IF x = k THEN v ELSE m[x]]
Without(m, k) == [x \in DOMAIN m \ {k} |-> m[x]]
Size(m) == Cardinality(DOMAIN m)

Crash ==
  /\ crashed' = TRUE
  /\ UNCHANGED <<settingVars, coreVars, numberVars, torrentVars, makingVars, calls>>

\* A core is kept by its handle and by every call in it.
Referred(table, inside, c) ==
  (\E n \in DOMAIN table : table[n] = c) \/ \E t \in Threads : inside[t].core = c

\* ~torrent_core of the cores whose last reference goes with the step: stop_service,
\* which does nothing to one that a listen error has stopped.  The server stays.
DestroyReleased(table) ==
  LET ended == {c \in Cores : /\ torrent[c] = "running"
                              /\ Referred(handles, calls, c)
                              /\ ~Referred(table, calls', c)}
  IN  /\ torrent' = [c \in Cores |-> IF c \in ended THEN "stoped" ELSE torrent[c]]
      /\ loop' = [c \in Cores |-> IF c \in ended THEN "ended" ELSE loop[c]]
      /\ session' = [c \in Cores |-> session[c] /\ c \notin ended]
      /\ UNCHANGED <<listenFailed, http, server>>

\* The call ends, and with it its reference to the core.
Leave(t) == Return(t) /\ DestroyReleased(handles)

-----------------------------------------------------------------------------
(* t2h_init                                                                *)

Open == \E c \in Cores : number[c] # 0
Busy == \E t \in Threads : calls[t].at \in InitSteps \cup CloseSteps

InitCall(t, cfg) ==
  /\ At(t, "idle")
  /\ created + added < MaxMade
  /\ created' = created + 1
  /\ conf' = [conf EXCEPT ![created'] = cfg]
  /\ alone' = (alone /\ ~Open /\ ~Busy)
  /\ calls' = [calls EXCEPT ![t] = Call("load", created', created', 0, 0)]
  /\ UNCHANGED <<crashed, settingVars, coreVars, numberVars, torrentVars>>

\* Variant of LoadSettings: what is there is kept.
LoadSettingsOnce(t) ==
  LET cfg == conf[calls[t].core]
  IN  /\ At(t, "load")
      /\ settings' = IF cfg \in Parsable /\ settings = NoConfig THEN cfg ELSE settings
      /\ settingsError' = (cfg \notin Parsable)
      /\ Goto(t, "check")
      /\ UNCHANGED <<crashed, coreVars, numberVars, torrentVars, makingVars>>

\* load_config, init_config: the storage is new whatever the text is.
LoadSettings(t) ==
  LET cfg == conf[calls[t].core]
  IN  /\ At(t, "load")
      /\ settings' = IF cfg \in Parsable THEN cfg ELSE NoConfig
      /\ settingsError' = (cfg \notin Parsable)
      /\ Goto(t, "check")
      /\ UNCHANGED <<crashed, coreVars, numberVars, torrentVars, makingVars>>

\* config_is_well looks at the error of whoever loaded last.
CheckConfig(t) ==
  /\ At(t, "check")
  /\ IF settingsError
     THEN Return(t) /\ conf' = [conf EXCEPT ![calls[t].core] = NoConfig]
     ELSE Goto(t, "launchTorrent") /\ UNCHANGED conf
  /\ UNCHANGED <<crashed, settingVars, coreVars, numberVars, torrentVars, created, alone>>

LaunchTorrent(t) ==
  LET c == calls[t].core
  IN  /\ At(t, "launchTorrent")
      /\ ControllerReady(settings) /\ SessionReady(settings)
      /\ torrent' = [torrent EXCEPT ![c] = "running"]
      /\ loop' = [loop EXCEPT ![c] = "running"]
      /\ session' = [session EXCEPT ![c] = TRUE]
      /\ Goto(t, "launchHttp")
      /\ UNCHANGED <<crashed, settingVars, listenFailed, http, server, services, closed,
                     numberVars, torrentVars, makingVars>>

HttpReady(cfg) == LocalConfigReady(cfg) /\ TransportReady(cfg)

\* Settings that do not do or a failed listen_on: init_core_services stops services it
\* has not got.
LaunchFails(t) ==
  /\ \/ At(t, "launchTorrent")
     \/ At(t, "launchHttp") /\ ~HttpReady(settings)
  /\ Crash

PortFree(port) ==
  ~\E c \in Cores : server[c] # NoConfig /\ GetValue(server[c], "server_port") = port

\* services_manager::registrate, for both services of a new core.
Registrate(c) == services' = [services EXCEPT ![c] = {"http", "torrent"}]

LaunchHttp(t) ==
  LET c == calls[t].core
  IN  /\ At(t, "launchHttp")
      /\ HttpReady(settings) /\ PortFree(GetValue(settings, "server_port"))
      /\ http' = [http EXCEPT ![c] = "running"]
      /\ server' = [server EXCEPT ![c] = settings]
      /\ Registrate(c)
      /\ Goto(t, "register")
      /\ UNCHANGED <<crashed, settingVars, torrent, loop, session, listenFailed, closed,
                     numberVars, torrentVars, makingVars>>

\* bind fails and cry tells the transport, which waits in is_connected for the lock_
\* that establish_connection holds: t2h_init never returns.
LaunchHangs(t) ==
  /\ At(t, "launchHttp")
  /\ HttpReady(settings) /\ ~PortFree(GetValue(settings, "server_port"))
  /\ Goto(t, "stuck")
  /\ UNCHANGED <<crashed, settingVars, coreVars, numberVars, torrentVars, makingVars>>

\* Variant of NewNumber: the size itself.
NewNumberLast(m) == Size(m)

\* registr_new_handle: whatever has that number is overwritten.
NewNumber(m) == Size(m) + 1

RegisterHandle(t) ==
  LET c == calls[t].core
  IN  /\ At(t, "register")
      /\ handles' = Put(handles, NewNumber(handles), c)
      /\ number' = [number EXCEPT ![c] = NewNumber(handles)]
      /\ Return(t) /\ DestroyReleased(handles')
      /\ UNCHANGED <<crashed, settingVars, services, closed, infos, given, orderly,
                     torrentVars, makingVars>>

-----------------------------------------------------------------------------
(* t2h_close: stop_all stops "t2h_http_core", then "torrent_core"           *)

Newest(m, n) == \A x \in DOMAIN m : x <= n

Close(t, c) ==
  LET n == number[c]
  IN  /\ At(t, "idle")
      /\ n # 0 /\ n \in DOMAIN handles
      /\ handles' = Without(handles, n)
      /\ number' = [number EXCEPT ![c] = 0]
      /\ orderly' = (orderly /\ Newest(handles, n))
      /\ calls' = [calls EXCEPT ![t] = Call("stopHttp", handles[n], c, 0, 0)]
      /\ UNCHANGED <<crashed, settingVars, coreVars, infos, given, torrentVars, makingVars>>

\* get_handle and unregistr_handle return nothing for a number another client gave up.
DeadNumber(t, c) ==
  /\ At(t, "idle")
  /\ number[c] # 0 /\ number[c] \notin DOMAIN handles
  /\ Crash

StopHttp(t) ==
  LET c == calls[t].core
  IN  /\ At(t, "stopHttp")
      /\ http' = [http EXCEPT ![c] = "stoped"]
      /\ server' = [server EXCEPT ![c] = NoConfig]
      /\ Goto(t, "stopTorrent")
      /\ UNCHANGED <<crashed, settingVars, torrent, loop, session, listenFailed, services,
                     closed, numberVars, torrentVars, makingVars>>

\* Variant of StopTorrent: the main loop is not joined.
StopTorrentUnjoined(t) ==
  LET c == calls[t].core
  IN  /\ At(t, "stopTorrent")
      /\ torrent' = [torrent EXCEPT ![c] = "stoped"]
      /\ Goto(t, "clear")
      /\ UNCHANGED <<crashed, settingVars, loop, session, listenFailed, http, server,
                     services, closed, numberVars, torrentVars, makingVars>>

\* A torrent core that is not running any more is neither stopped nor joined.
StopTorrent(t) ==
  LET c == calls[t].core
  IN  /\ At(t, "stopTorrent")
      /\ torrent' = [torrent EXCEPT ![c] = "stoped"]
      /\ Goto(t, IF torrent[c] = "running" THEN "join" ELSE "clear")
      /\ UNCHANGED <<crashed, settingVars, loop, session, listenFailed, http, server,
                     services, closed, numberVars, torrentVars, makingVars>>

Join(t) ==
  LET c == calls[t].core
  IN  /\ At(t, "join")
      /\ loop[c] = "ended"
      /\ session' = [session EXCEPT ![c] = FALSE]
      /\ Goto(t, "clear")
      /\ UNCHANGED <<crashed, settingVars, torrent, loop, listenFailed, http, server,
                     services, closed, numberVars, torrentVars, makingVars>>

ClearServices(t) ==
  LET c == calls[t].core
  IN  /\ At(t, "clear")
      /\ services' = [services EXCEPT ![c] = {}]
      /\ closed' = closed \cup {c}
      /\ conf' = [conf EXCEPT ![c] = NoConfig]
      /\ Leave(t)
      /\ UNCHANGED <<crashed, settingVars, numberVars, torrentVars, created, alone>>

-----------------------------------------------------------------------------
(* t2h_wait: wait_all walks services_ without the manager's lock            *)

Wait(t, c) ==
  /\ At(t, "idle")
  /\ number[c] # 0 /\ number[c] \in DOMAIN handles
  /\ calls' = [calls EXCEPT ![t] = Call("waitHttp", handles[number[c]], c, 0, 0)]
  /\ UNCHANGED <<crashed, settingVars, coreVars, numberVars, torrentVars, makingVars>>

WaitHttp(t) ==
  LET c == calls[t].core
  IN  /\ At(t, "waitHttp")
      /\ \/ services[c] = {} /\ Leave(t)
         \/ /\ services[c] # {}
            /\ Goto(t, IF http[c] = "running" THEN "waitStop" ELSE "waitTorrent")
            /\ UNCHANGED serviceVars
      /\ UNCHANGED <<crashed, settingVars, services, closed, numberVars, torrentVars, makingVars>>

\* Woken by stop_connection; a sleeper that came late stays asleep.
WaitStop(t) ==
  /\ At(t, "waitStop")
  /\ http[calls[t].core] = "stoped"
  /\ Goto(t, "waitTorrent")
  /\ UNCHANGED <<crashed, settingVars, coreVars, numberVars, torrentVars, makingVars>>

WaitTorrent(t) ==
  LET c == calls[t].core
  IN  /\ At(t, "waitTorrent")
      /\ \/ torrent[c] = "running" /\ services[c] # {} /\ Goto(t, "waitJoin") /\ UNCHANGED serviceVars
         \/ (torrent[c] # "running" \/ services[c] = {}) /\ Leave(t)
      /\ UNCHANGED <<crashed, settingVars, services, closed, numberVars, torrentVars, makingVars>>

WaitJoin(t) ==
  /\ At(t, "waitJoin")
  /\ loop[calls[t].core] = "ended"
  /\ Leave(t)
  /\ UNCHANGED <<crashed, settingVars, services, closed, numberVars, torrentVars, makingVars>>

\* The iterator goes on in a map that stop_all has cleared.
WaitLost(t) ==
  /\ \/ At(t, "waitTorrent")
     \/ At(t, "waitJoin") /\ loop[calls[t].core] = "ended"
  /\ services[calls[t].core] = {}
  /\ Crash

-----------------------------------------------------------------------------
(* The operations on torrents: the handle first, then the torrent core      *)

EnterAdd(t, c) ==
  /\ At(t, "idle")
  /\ number[c] # 0 /\ number[c] \in DOMAIN handles
  /\ calls' = [calls EXCEPT ![t] = Call("add", handles[number[c]], c, 0, 0)]
  /\ UNCHANGED <<crashed, settingVars, coreVars, numberVars, torrentVars, makingVars>>

EnterUse(t, k, op) ==
  LET c == given[k].core
  IN  /\ At(t, "idle")
      /\ given[k].id # 0 /\ number[c] # 0 /\ number[c] \in DOMAIN handles
      /\ calls' = [calls EXCEPT ![t] = Call(op, handles[number[c]], c, given[k].id, k)]
      /\ UNCHANGED <<crashed, settingVars, coreVars, numberVars, torrentVars, makingVars>>

EnterDelete(t, k) ==
  LET c == given[k].core
  IN  /\ At(t, "idle")
      /\ given[k].id # 0 /\ number[c] # 0 /\ number[c] \in DOMAIN handles
      /\ calls' = [calls EXCEPT ![t] = Call("delete", handles[number[c]], c, given[k].id, k)]
      /\ given' = [given EXCEPT ![k] = NotGiven]
      /\ UNCHANGED <<crashed, settingVars, coreVars, handles, number, infos, orderly,
                     torrentVars, makingVars>>

\* get_info
Known(t) == calls[t].id \in DOMAIN infos[calls[t].core]

\* get_torrent_core after stop_all returns nothing, and the call goes through it.
CoreGone(t) ==
  LET c == calls[t].core
  IN  /\ ~crashed
      /\ \/ calls[t].at = "add"
         \/ calls[t].at \in Uses \cup {"delete"} /\ Known(t)
      /\ services[c] = {}
      /\ Crash

\* create_url: get_value throws, out of t2h_start_download, when another t2h_init has
\* taken the settings away.
UrlFails(t) ==
  LET c == calls[t].core
  IN  /\ At(t, "start")
      /\ torrent[c] = "running" /\ Known(t)
      /\ infos[c][calls[t].id] \in buffer[c] /\ ~UrlReady(settings)
      /\ Crash

\* Variant of NewIdentifier: the second torrent gets the identifier of the first.
NewIdentifierLast(m, k) ==
  IF IntWorkaround THEN Size(m) + (IF DOMAIN m = {} THEN 1 ELSE 0) ELSE k

\* Variant of NewIdentifier: always the first.
NewIdentifierFirst(m, k) == 1

\* add_info: insert leaves an identifier that is there alone, and it is returned.
NewIdentifier(m, k) == IF IntWorkaround THEN Size(m) + 1 ELSE k
Inserted(m, n, k) == IF n \in DOMAIN m THEN m ELSE Put(m, n, k)

AddTorrent(t) ==
  LET c == calls[t].core
      k == added + 1
      n == NewIdentifier(infos[c], k)
  IN  /\ At(t, "add")
      /\ torrent[c] = "running" /\ created + added < MaxMade
      /\ added' = k
      /\ buffer' = [buffer EXCEPT ![c] = @ \cup {k}]
      /\ infos' = [infos EXCEPT ![c] = Inserted(@, n, k)]
      /\ given' = [given EXCEPT ![k] = [core |-> calls[t].client, id |-> n]]
      /\ Leave(t)
      /\ UNCHANGED <<crashed, settingVars, services, closed, handles, number, orderly,
                     wanted, paused, makingVars>>

\* The core does not run, the torrent is not added, or the identifier is not known.
Nothing(t) ==
  LET c == calls[t].core
  IN  /\ ~crashed
      /\ \/ At(t, "add")
         \/ calls[t].at \in Uses /\ torrent[c] # "running"
         \/ calls[t].at \in Uses \cup {"delete"} /\ ~Known(t)
      /\ Leave(t)
      /\ UNCHANGED <<crashed, settingVars, services, closed, numberVars, torrentVars, makingVars>>

Wanted(op, k, before) ==
  CASE op \in {"start", "resume"} -> before \cup {k}
    [] op = "pause" -> before \ {k}
    [] OTHER -> before

\* start_torrent_download raises the file's priority but does not resume the torrent.
Paused(op, k, before) ==
  CASE op = "stop" -> before \cup {k}
    [] op = "resume" -> before \ {k}
    [] OTHER -> before

UseTorrent(t) ==
  LET call == calls[t]
      c == call.core
      k == infos[c][call.id]
  IN  /\ ~crashed /\ call.at \in Uses
      /\ torrent[c] = "running" /\ Known(t)
      /\ call.at = "start" /\ k \in buffer[c] => UrlReady(settings)
      /\ wanted' = IF k \in buffer[c] THEN Wanted(call.at, k, wanted) ELSE wanted
      /\ paused' = IF k \in buffer[c] THEN Paused(call.at, k, paused) ELSE paused
      /\ Leave(t)
      /\ UNCHANGED <<crashed, settingVars, services, closed, numberVars, added, buffer, makingVars>>

\* remove_torrent; a core that does not run does nothing.  Then remove_info.
DeleteTorrent(t) ==
  LET call == calls[t]
      c == call.core
      k == infos[c][call.id]
  IN  /\ At(t, "delete")
      /\ Known(t)
      /\ buffer' = [buffer EXCEPT ![c] = IF torrent[c] = "running" THEN @ \ {k} ELSE @]
      /\ Goto(t, "forget")
      /\ UNCHANGED <<crashed, settingVars, coreVars, numberVars, added, wanted, paused,
                     makingVars>>

Forget(t) ==
  LET call == calls[t]
      c == call.core
  IN  /\ At(t, "forget")
      /\ infos' = [infos EXCEPT ![c] = Without(@, call.id)]
      /\ orderly' = (orderly /\ Newest(infos[c], call.id))
      /\ Leave(t)
      /\ UNCHANGED <<crashed, settingVars, services, closed, handles, number, given,
                     torrentVars, makingVars>>

-----------------------------------------------------------------------------
(* The main loop of a torrent core                                          *)

\* listen_failed_alert: cur_state_ is written without core_lock_.
ListenError(c) ==
  /\ ~crashed /\ loop[c] = "running" /\ torrent[c] = "running"
  /\ Cardinality({d \in Cores : listenFailed[d]}) < MaxErrors
  /\ torrent' = [torrent EXCEPT ![c] = "stoped"]
  /\ listenFailed' = [listenFailed EXCEPT ![c] = TRUE]
  /\ UNCHANGED <<crashed, settingVars, loop, session, http, server, services, closed,
                 numberVars, torrentVars, makingVars, calls>>

LoopEnds(c) ==
  /\ ~crashed /\ loop[c] = "running" /\ torrent[c] = "stoped"
  /\ loop' = [loop EXCEPT ![c] = "ended"]
  /\ UNCHANGED <<crashed, settingVars, torrent, session, listenFailed, http, server,
                 services, closed, numberVars, torrentVars, makingVars, calls>>

Next ==
  \/ \E t \in Threads, cfg \in Configs : InitCall(t, cfg)
  \/ \E t \in Threads :
       \/ LoadSettings(t) \/ CheckConfig(t) \/ LaunchTorrent(t) \/ LaunchFails(t)
       \/ LaunchHttp(t) \/ LaunchHangs(t) \/ RegisterHandle(t)
       \/ StopHttp(t) \/ StopTorrent(t) \/ Join(t) \/ ClearServices(t)
       \/ WaitHttp(t) \/ WaitStop(t) \/ WaitTorrent(t) \/ WaitJoin(t) \/ WaitLost(t)
       \/ CoreGone(t) \/ UrlFails(t) \/ AddTorrent(t) \/ Nothing(t) \/ UseTorrent(t)
       \/ DeleteTorrent(t) \/ Forget(t)
  \/ \E t \in Threads, c \in Cores :
       Close(t, c) \/ DeadNumber(t, c) \/ Wait(t, c) \/ EnterAdd(t, c)
  \/ \E t \in Threads, k \in Torrents :
       EnterDelete(t, k) \/ \E op \in Uses : EnterUse(t, k, op)
  \/ \E c \in Cores : ListenError(c) \/ LoopEnds(c)

Spec == Init /\ [][Next]_vars

-----------------------------------------------------------------------------
\* As long as what is closed and deleted is always the newest, every number and every
\* identifier a client holds leads to its own core and its own torrent, however the
\* threads' calls mix (handles_manager::registr_new_handle, underlying_handle::add_info:
\* size() + 1 is then always free).
NumbersAreOwn ==
  orderly =>
    /\ \A c \in Cores : number[c] # 0 =>
         number[c] \in DOMAIN handles /\ handles[number[c]] = c
    /\ \A k \in Torrents : given[k].id # 0 =>
         /\ given[k].id \in DOMAIN infos[given[k].core]
         /\ infos[given[k].core][given[k].id] = k

\* An operation changes the torrent its client means and no other, under the same
\* condition and unless that client deletes the torrent while the call runs.
OwnEffects ==
  [][orderly => \A k \in Torrents :
       (k \in wanted) # (k \in wanted)' \/ (k \in paused) # (k \in paused)' =>
         \E t \in Threads : /\ calls[t].at \in Uses /\ calls'[t] = Idle
                            /\ \/ calls[t].torrent = k
                               \/ given[calls[t].torrent].id = 0]_vars

\* Once t2h_close has returned nothing of that core listens any more; and, unless a
\* listen error ended its loop first, the loop has ended and the session is gone
\* (services_manager::stop_all, torrent_core::stop_service).
ClosedIsQuiet ==
  \A c \in closed :
    /\ server[c] = NoConfig /\ http[c] = "stoped"
    /\ ~listenFailed[c] => loop[c] = "ended" /\ ~session[c]

\* A process that has one core at a time is served by it with its own settings: what
\* create_url reads is what the server listens with (setting_manager is shared).
OneAtATimeServed ==
  alone => \A c \in Cores : number[c] # 0 =>
    /\ settings = conf[c] /\ server[c] = conf[c] /\ http[c] = "running"
    /\ torrent[c] = "running" \/ listenFailed[c]
=============================================================================
