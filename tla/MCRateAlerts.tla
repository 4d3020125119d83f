---------------------------- MODULE MCRateAlerts ----------------------------
(* RateAlerts with subscriptions that any failure matches, that look at a  *)
(* short window and are silent for longer than that.                       *)
EXTENDS RateAlerts
MCMatches == [s \in Subs |-> Txs]
MCThreshold == [s \in Subs |-> 1]
MCWindow == [s \in Subs |-> 1]
MCDebounce == [s \in Subs |-> 2]
=============================================================================
