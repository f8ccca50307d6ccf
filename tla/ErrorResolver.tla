---------------------------- MODULE ErrorResolver ----------------------------
(***************************************************************************)
(* The automatic resolving of errors of one torrent: what on_update of the *)
(* controller does with a status of the torrent (TorrentAdd.tla has its    *)
(* other half, the handle it does not know), the lookup_error of the       *)
(* update, and the resolver hang_at_start_error that it leaves in the      *)
(* torrent's torrent_ex_info.                                              *)
(*                                                                         *)
(* The code reads the clock as the local time of day (get_current_time),   *)
(* so a time is a number of seconds below Day; within one update the clock *)
(* does not move.  Of the three resolvers of resolvers_factory only        *)
(* hang_at_start_error ever finds something to resolve.                    *)
(***************************************************************************)
EXTENDS Integers, Sequences, Histories

CONSTANTS
  AutoErrorResolving,  \* the setting tc_auto_error_resolving
  Day,                 \* seconds of a day
  Delay,               \* hang_at_start_error waits this long (5)
  ResolveCheckout      \* the setting tc_resolve_checkout (6)

ASSUME ResolverAssumption ==
  /\ AutoErrorResolving \in BOOLEAN
  /\ Day \in Nat /\ Delay \in Nat /\ ResolveCheckout \in Nat
  /\ 0 < Delay /\ Delay < Day

(* The types of resolvers that exist, in the order of their numbers.       *)
ResolverTypes == <<"hang_at_start_error", "connection_error", "unknown_error">>

NoResolver == [type |-> "none"]

(* Of torrent_ex_info; rechecks is the number of calls of force_recheck.   *)
ExInfo(now) == [resolver |-> NoResolver, lastCheckout |-> now, rechecks |-> 0]

(* is_need_resolve of hang_at_start_error                                  *)
HangsAtStart(status) ==
  /\ ~status.paused /\ status.state = "downloading"
  /\ status.peers = 0 /\ status.candidates # 0
  /\ status.progress = 0

(* The resolvers register_default_resolvers puts into the factory.         *)
Registered == {"hang_at_start_error", "connection_error", "unknown_error"}

(* is_need_resolve of a type: the other two never ask for a resolving.     *)
IsNeedResolve(type, status) == type = "hang_at_start_error" /\ HangsAtStart(status)

(* clone, which makes the resolver of a type for a status seen at now      *)
Clone(type, now) ==
  IF type = "hang_at_start_error" THEN [type |-> type, endOfDelay |-> now + Delay]
  ELSE [type |-> type]

(* get_resolver asks the registered resolvers in the order of their types. *)
GetResolver(status, now) ==
  LET needed == {i \in DOMAIN ResolverTypes :
                   ResolverTypes[i] \in Registered /\ IsNeedResolve(ResolverTypes[i], status)}
  IN  IF needed = {} THEN NoResolver
      ELSE Clone(ResolverTypes[CHOOSE i \in needed : \A j \in needed : i <= j], now)

(* resolve: what it answers.  The one of hang_at_start_error has then      *)
(* called force_recheck; the other two do nothing and answer true.         *)
Resolve(resolver, handleValid, now) ==
  resolver.type = "hang_at_start_error" => handleValid /\ now >= resolver.endOfDelay

Rechecks(resolver) == IF resolver.type = "hang_at_start_error" THEN 1 ELSE 0

(* A variant whose destructor does not reset the resolver that resolved.   *)
LookupErrorKept(info, status, handleValid, now) ==
  LET resolver == IF info.resolver # NoResolver THEN info.resolver ELSE GetResolver(status, now)
  IN  IF resolver # NoResolver /\ Resolve(resolver, handleValid, now)
        THEN [info EXCEPT !.resolver = resolver, !.rechecks = @ + Rechecks(resolver)]
        ELSE [info EXCEPT !.resolver = resolver]

(* lookup_error: the constructor looks for a resolver if there is none,    *)
(* the destructor lets the one there is resolve.  handleValid: the handle  *)
(* of the status the resolver was made from is valid (the torrent has not  *)
(* left the session).                                                      *)
LookupError(info, status, handleValid, now) ==
  LET resolver == IF info.resolver # NoResolver THEN info.resolver ELSE GetResolver(status, now)
  IN  IF resolver # NoResolver /\ Resolve(resolver, handleValid, now)
        THEN [info EXCEPT !.resolver = NoResolver, !.rechecks = @ + Rechecks(resolver)]
        ELSE [info EXCEPT !.resolver = resolver]

(* on_update, for a torrent the controller knows                           *)
OnUpdate(info, update) ==
  IF ~AutoErrorResolving \/ update.now < info.lastCheckout THEN info
  ELSE LET checked == IF info.resolver = NoResolver
                        THEN [info EXCEPT !.lastCheckout = update.now + ResolveCheckout]
                        ELSE info
       IN  LookupError(checked, update.status, update.handleValid, update.now)

(* The torrent's ex_info after the first n updates of a history: each is a *)
(* record of a status, handleValid and elapsed, the seconds from the       *)
(* midnight before the torrent was added, at that midnight.                *)
After(history) ==
  LET update(info, u) == OnUpdate(info, [now |-> u.elapsed % Day, status |-> u.status,
                                         handleValid |-> u.handleValid])
  IN  StatesAfter(update, ExInfo(0), history)

-----------------------------------------------------------------------------
(* A torrent is rechecked only if it was seen hanging at least Delay ago,  *)
(* once for each time it was seen so, and only while its handle is valid,  *)
(* midnight or not.  Whether it still hangs is not asked                   *)
(* (error_resolvers_types.cpp:21).                                         *)
RecheckEarned(history) ==
  LET after == After(history)
      rechecks == {j \in DOMAIN history : after[j].rechecks > after[j - 1].rechecks}
  IN  \A j \in rechecks :
        /\ history[j].handleValid
        /\ \E i \in 1..(j - 1) :
             /\ HangsAtStart(history[i].status)
             /\ history[j].elapsed - history[i].elapsed >= Delay
             /\ \A k \in rechecks : k < j => k < i

(* Before midnight, a torrent that keeps hanging for ResolveCheckout is    *)
(* noticed, and a noticed one is rechecked by the first update that comes  *)
(* both Delay and ResolveCheckout later.  After midnight lastCheckout may  *)
(* be a time of day that never comes (sequential_torrent_controller.cpp:   *)
(* 322), and neither holds.                                                *)
RecheckComes(history) ==
  LET after == After(history)
      noticed(i) == after[i].resolver # NoResolver
      later(i, j, seconds) == history[j].elapsed - history[i].elapsed >= seconds
  IN  AutoErrorResolving =>
        \A j \in DOMAIN history : \A i \in 1..(j - 1) :
          history[j].elapsed < Day =>
            /\ (/\ later(i, j, ResolveCheckout)
                /\ \A k \in i..j : HangsAtStart(history[k].status))
                 => noticed(j) \/ after[j].rechecks > after[i - 1].rechecks
            /\ (/\ noticed(i) /\ history[j].handleValid
                /\ later(i, j, Delay) /\ later(i, j, ResolveCheckout))
                 => after[j].rechecks > after[i].rechecks
=============================================================================
