------------------------------ MODULE MCAlerts ------------------------------
(* The alert monitor for TLC: one configured symbol with two events, and   *)
(* room for one more that a watch may bring.                               *)
EXTENDS AlertMonitor

CONSTANTS sweep, break, zone
MCReport ==
  (sweep :> [family |-> "liquidity", kind |-> "SWEEP", on |-> "PDH", strong |-> FALSE])
  @@ (break :> [family |-> "structure", kind |-> "CONFIRMED", on |-> "M15", strong |-> FALSE])
  @@ (zone :> [family |-> "pd", kind |-> "CREATED", on |-> "fvg", strong |-> FALSE])
MCCooldown == [INFORMATIONAL |-> 1, WATCH |-> 1, SETUP |-> 1, ENTRY |-> 1, RISK |-> 1, CRITICAL |-> 2]

Clear == [state |-> "CLEAR", active |-> Nothing, next |-> Nothing, within |-> 0, blocked |-> FALSE]
Plain == [eligible |-> TRUE, near |-> {}, offered |-> {}, setup |-> Nothing, warnings |-> {},
          risk |-> [ok |-> TRUE, locks |-> {}], news |-> Clear, macro |-> Nothing, sessions |-> {}]
Busy == [Plain EXCEPT !.risk = [ok |-> FALSE, locks |-> Locks], !.near = Pools, !.offered = Pools, !.warnings = Warnings, !.sessions = Sessions,
           !.setup = [id |-> "setup", zones |-> {}, done |-> TRUE, side |-> "BULLISH"],
           !.macro = "BULLISH"]
Locked == [Plain EXCEPT !.risk = [ok |-> FALSE, locks |-> Locks], !.macro = "BEARISH"]
Release == [Locked EXCEPT !.eligible = FALSE,
              !.news = [state |-> "BLACKOUT", active |-> "cpi", next |-> "cpi", within |-> 0, blocked |-> TRUE]]

(* Gates: what is told without an event of the market.  Novel: events over *)
(* five bars.  Withheld: over four, with series withheld or failing.       *)
(* Watching: a watch, without time.  Restarted: failures and a restart.    *)
Each(x) == [s \in Symbols |-> x]
Gates == [configured |-> <<"X">>, authority |-> "FULL", market |-> Each({}), finds |-> Each({Plain, Busy, Release}), fails |-> TRUE, often |-> FALSE,
          verdicts |-> Each({"WAIT", "UNAVAILABLE"}), outages |-> FALSE, ids |-> {}, restarts |-> 0, ticks |-> 2]
Novel == [configured |-> <<"X">>, authority |-> "FULL", market |-> [Each({}) EXCEPT !["X"] = Events], finds |-> Each({Plain}), fails |-> FALSE, often |-> FALSE,
          verdicts |-> Each({"WAIT"}), outages |-> FALSE, ids |-> {}, restarts |-> 0, ticks |-> 4]
Withheld == [Novel EXCEPT !.outages = TRUE, !.ticks = 3]
Watching(authority) == [configured |-> <<"X", "Y">>, authority |-> authority, market |-> Each({}), finds |-> Each({Plain}), fails |-> TRUE, often |-> TRUE,
             verdicts |-> [Each({"LONG", "UNAVAILABLE"}) EXCEPT !["X"] = {"LONG"}], outages |-> FALSE,
             ids |-> WatchIds, restarts |-> 0, ticks |-> 0]
Restarted == [configured |-> <<"X">>, authority |-> "FULL", market |-> [Each({}) EXCEPT !["X"] = Events], finds |-> Each({Plain}), fails |-> TRUE, often |-> TRUE,
              verdicts |-> Each({"WAIT"}), outages |-> TRUE, ids |-> {}, restarts |-> 1, ticks |-> 2]
MCScenes == {Gates, Novel, Withheld, Watching("FULL"), Watching("FAIL_SAFE_ONLY"), Restarted}
=============================================================================
