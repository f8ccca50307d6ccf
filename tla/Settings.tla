------------------------------ MODULE Settings ------------------------------
(***************************************************************************)
(* The keys of setting_manager and what the two services of a core ask of  *)
(* them when they are launched.                                            *)
(*                                                                         *)
(* Values that boost::lexical_cast refuses are left out: get_value answers *)
(* an uninitialised number for them.                                       *)
(***************************************************************************)
EXTENDS Integers

CONSTANTS
  Configs,     \* the JSON texts or files a client passes to t2h_init
  Parsable,    \* those that read_json accepts
  Given,       \* what each of these says: keys to values
  NoConfig,    \* key storage without values
  Directories  \* the names of directories

ASSUME SettingsAssumption == Parsable \subseteq Configs /\ NoConfig \notin Configs

Defaults ==
  [workers |-> 20, server_port |-> 8080, cores_sync_timeout |-> 360, hc_chunked |-> "true",
   hc_max_chunk_size |-> 1024000, tc_max_alert_wait_time |-> 15,
   tc_max_partial_download_size |-> 22242880, tc_futures_timeout |-> 10,
   tc_partial_files_download |-> "true", tc_max_connections_per_torrent |-> 50,
   tc_max_uploads |-> -1, tc_upload_limit |-> 0, tc_download_limit |-> 0,
   tc_sequential_download |-> "true", tc_resolve_countries |-> "true",
   tc_resolve_checkout |-> 6, tc_auto_error_resolving |-> "true",
   tc_loadable_session |-> "true"]

Replacements == [tc_root |-> "doc_root"]

\* init_keys_storage
Keys == DOMAIN Defaults \cup DOMAIN Replacements
          \cup {"doc_root", "server_addr", "tc_port_start", "tc_port_end"}

\* set_key for each key: one that is not given is left empty, a required one too
\* (get throws ptree_bad_path, not the json_parser_error that is waited for).
Values(cfg) ==
  [k \in IF cfg = NoConfig THEN {} ELSE DOMAIN Given[cfg] \cap Keys |-> Given[cfg][k]]

\* get_value_unsafe: the value, or the replacement's, or the default.
Source(cfg, k) ==
  IF k \notin DOMAIN Values(cfg) /\ k \in DOMAIN Replacements THEN Replacements[k] ELSE k

\* If not, get_value throws.
HasValue(cfg, k) == Source(cfg, k) \in DOMAIN Values(cfg) \cup DOMAIN Defaults

GetValue(cfg, k) ==
  LET source == Source(cfg, k)
  IN  IF source \in DOMAIN Values(cfg) THEN Values(cfg)[source] ELSE Defaults[source]

-----------------------------------------------------------------------------
\* update_settings; set_session makes an exception of it a failure.
ControllerReady(cfg) ==
  \A k \in {"tc_max_partial_download_size", "tc_root", "tc_auto_error_resolving",
            "tc_resolve_checkout", "tc_resolve_countries", "tc_sequential_download",
            "tc_download_limit", "tc_upload_limit", "tc_max_uploads",
            "tc_max_connections_per_torrent", "tc_partial_files_download",
            "tc_futures_timeout"} : HasValue(cfg, k)

\* init_torrent_core_settings.  tc_root may be anything: it is only refused if it
\* does not exist and is a directory.
TorrentSettings(cfg) ==
  \A k \in {"tc_root", "tc_port_start", "tc_port_end", "tc_max_alert_wait_time",
            "tc_loadable_session"} : HasValue(cfg, k)

\* init_core_session, up to listen_on: without a loadable session it fails.
SessionReady(cfg) == TorrentSettings(cfg) /\ GetValue(cfg, "tc_loadable_session") = "true"

\* hcs_from_setting_manager
LocalConfigReady(cfg) ==
  /\ \A k \in {"doc_root", "hc_max_chunk_size", "cores_sync_timeout"} : HasValue(cfg, k)
  /\ GetValue(cfg, "doc_root") \in Directories
  /\ GetValue(cfg, "hc_max_chunk_size") >= 1000

\* from_setting_manager
TransportReady(cfg) ==
  /\ \A k \in {"doc_root", "server_addr", "server_port", "workers"} : HasValue(cfg, k)
  /\ GetValue(cfg, "workers") # 0

\* create_url
UrlReady(cfg) == HasValue(cfg, "server_addr") /\ HasValue(cfg, "server_port")
=============================================================================
