----------------------------- MODULE RateAlerts -----------------------------
(***************************************************************************)
(* The rate-threshold alerts: dispatch_rate_once and dispatch_rate_item in *)
(* crates/indexer/src/alerts.rs, on top of find_pending_rate_alert_matches *)
(* and record_rate_alert_dispatch in crates/db/src/queries.rs.  A          *)
(* subscription is due when enough failed transactions lie in its window   *)
(* and no dispatch of it is younger than its debounce time.  Nothing is    *)
(* claimed: the row that starts the debounce is inserted after the POST.   *)
(*                                                                         *)
(* Time is counted in units of the database clock.  An age that no window  *)
(* or debounce tells from older ones is not counted further, so one name   *)
(* of a transaction serves again once all windows have passed it.          *)
(***************************************************************************)
EXTENDS Integers, FiniteSets

CONSTANTS
    Workers,     \* dispatcher processes
    Subs,        \* ids of rate subscriptions the API may create
    Txs,         \* failed transactions that are recent at one time
    Matches,     \* Matches[s]: those that the filter of s matches
    Threshold,   \* Threshold[s]: threshold_count
    Window,      \* Window[s]: threshold_window_secs
    Debounce,    \* Debounce[s]: debounce_secs
    MaxWindow,   \* the longest window
    Batch,       \* LIMIT of a sweep (DISPATCH_BATCH)
    MaxPosts,    \* tasks of a sweep alive at once (MAX_CONCURRENT_POSTS)
    MaxCrashes   \* bound: processes that die

ASSUME SubsAssumption == Subs \subseteq Nat
ASSUME RateAssumption ==
    /\ MaxWindow \in Nat
    /\ Matches \in [Subs -> SUBSET Txs]
    /\ Threshold \in [Subs -> Nat \ {0}]
    /\ Window \in [Subs -> 1 .. MaxWindow]
    /\ Debounce \in [Subs -> Nat]
ASSUME SweepAssumption == Batch \in Nat \ {0} /\ MaxPosts \in Nat \ {0}
ASSUME BoundAssumption == MaxCrashes \in Nat

VARIABLES
    txAge,     \* txAge[t]: age of the block of t, or Forgotten
    sub,       \* sub[s]: "absent", "active" or "inactive"
    unsafe,    \* those whose stored URL or secret dispatch_rate_item refuses
    latest,    \* latest[s]: youngest row of s in alert_rate_dispatch
    pc,        \* pc[w]: "down", "find", "sweep" or "idle"
    task,      \* task[w][s]: what the sweep of w does with s
    lastPost,  \* lastPost[w][s]: the last POST w made for s (history)
    crashes

vars == <<txAge, sub, unsafe, latest, pc, task, lastPost, crashes>>

(* Not stored, rolled back, or older than every window. *)
Forgotten == MaxWindow + 1

TypeOK ==
    /\ txAge \in [Txs -> 0 .. Forgotten]
    /\ sub \in [Subs -> {"absent", "active", "inactive"}]
    /\ unsafe \subseteq Subs
    /\ latest \in [Subs -> [age : Nat, status : {"none", "delivered", "failed"}]]
    /\ \A s \in Subs : latest[s].age <= Debounce[s]
    /\ pc \in [Workers -> {"down", "find", "sweep", "idle"}]
    /\ task \in [Workers -> [Subs -> {"none", "queued", "delivered", "failed"}]]
    /\ lastPost \in [Workers -> [Subs -> [age : Nat, recorded : BOOLEAN]]]
    /\ \A w \in Workers, s \in Subs : lastPost[w][s].age <= Debounce[s]
    /\ crashes \in 0 .. MaxCrashes

Init ==
    /\ txAge = [t \in Txs |-> Forgotten]
    /\ sub = [s \in Subs |-> "absent"]
    /\ unsafe \in SUBSET Subs
    /\ latest = [s \in Subs |-> [age |-> Debounce[s], status |-> "none"]]
    /\ pc = [w \in Workers |-> "down"]
    /\ task = [w \in Workers |-> [s \in Subs |-> "none"]]
    /\ lastPost = [w \in Workers |-> [s \in Subs |->
                      [age |-> Debounce[s], recorded |-> FALSE]]]
    /\ crashes = 0

-----------------------------------------------------------------------------
(* The indexer, the API and the clock. *)

(* The age is that of the block: an indexer that lags stores failures that *)
(* a window has already passed in part.                                    *)
StoreFailedTx(t) ==
    /\ txAge[t] = Forgotten
    /\ \E a \in 0 .. MaxWindow : txAge' = [txAge EXCEPT ![t] = a]
    /\ UNCHANGED <<sub, unsafe, latest, pc, task, lastPost, crashes>>

RollBack(t) ==
    /\ txAge[t] # Forgotten
    /\ txAge' = [txAge EXCEPT ![t] = Forgotten]
    /\ UNCHANGED <<sub, unsafe, latest, pc, task, lastPost, crashes>>

CreateSubscription(s) ==
    /\ sub[s] = "absent"
    /\ sub' = [sub EXCEPT ![s] = "active"]
    /\ UNCHANGED <<txAge, unsafe, latest, pc, task, lastPost, crashes>>

DeactivateSubscription(s) ==
    /\ sub[s] = "active"
    /\ sub' = [sub EXCEPT ![s] = "inactive"]
    /\ UNCHANGED <<txAge, unsafe, latest, pc, task, lastPost, crashes>>

Older(age, limit) == IF age < limit THEN age + 1 ELSE limit

Tick ==
    /\ txAge' = [t \in Txs |-> Older(txAge[t], Forgotten)]
    /\ latest' = [s \in Subs |-> [latest[s] EXCEPT !.age = Older(@, Debounce[s])]]
    /\ lastPost' = [w \in Workers |-> [s \in Subs |->
                       [lastPost[w][s] EXCEPT !.age = Older(@, Debounce[s])]]]
    /\ UNCHANGED <<sub, unsafe, pc, task, crashes>>

-----------------------------------------------------------------------------
(* The loop of one dispatcher; its per-event sweeps are in AlertDispatch. *)

Start(w) ==
    /\ pc[w] = "down"
    /\ pc' = [pc EXCEPT ![w] = "find"]
    /\ UNCHANGED <<txAge, sub, unsafe, latest, task, lastPost, crashes>>

(* JOIN, window and HAVING: enough matching failures are recent. *)
Recent(s) == {t \in Matches[s] : txAge[t] <= Window[s]}
Burst(s) == Cardinality(Recent(s)) >= Threshold[s]

(* Mutant: a burst is one more than the threshold. *)
BurstAbove(s) == Cardinality(Recent(s)) > Threshold[s]

(* Mutant: only dispatches that were delivered start the debounce. *)
DebouncedByDelivery(s) == latest[s].status = "delivered" /\ latest[s].age < Debounce[s]

(* NOT EXISTS: a dispatch younger than the debounce, whatever its status. *)
Debounced(s) == latest[s].age < Debounce[s]

(* Mutant: due from one more than the threshold on. *)
DueAboveThreshold == {s \in Subs : sub[s] = "active" /\ BurstAbove(s) /\ ~Debounced(s)}

(* WHERE and HAVING: what the sweep may take. *)
Due == {s \in Subs : sub[s] = "active" /\ Burst(s) /\ ~Debounced(s)}

(* ORDER BY subscription_id LIMIT Batch. *)
Selected == {s \in Due : Cardinality({r \in Due : r < s}) < Batch}

FindPending(w) ==
    /\ pc[w] = "find"
    /\ task' = [task EXCEPT ![w] = [s \in Subs |->
                   IF s \in Selected THEN "queued" ELSE "none"]]
    /\ pc' = [pc EXCEPT ![w] = "sweep"]
    /\ UNCHANGED <<txAge, sub, unsafe, latest, lastPost, crashes>>

(* The sweep spawns tasks in the order of its batch, MaxPosts at a time. *)
Spawned(w, s) ==
    Cardinality({r \in Subs : \/ task[w][r] \in {"delivered", "failed"}
                              \/ task[w][r] = "queued" /\ r < s}) < MaxPosts

(* A POST and its answer; an answer that is lost or late is a failure. *)
Post(w, s) ==
    /\ task[w][s] = "queued" /\ s \notin unsafe
    /\ Spawned(w, s)
    /\ \E answer \in {"delivered", "failed"} : task' = [task EXCEPT ![w][s] = answer]
    /\ lastPost' = [lastPost EXCEPT ![w][s] = [age |-> 0, recorded |-> FALSE]]
    /\ UNCHANGED <<txAge, sub, unsafe, latest, pc, crashes>>

(* The URL is unsafe or the secret is no hex: no POST, a recorded failure. *)
RefuseUrl(w, s) ==
    /\ task[w][s] = "queued" /\ s \in unsafe
    /\ Spawned(w, s)
    /\ task' = [task EXCEPT ![w][s] = "failed"]
    /\ UNCHANGED <<txAge, sub, unsafe, latest, pc, lastPost, crashes>>

(* Mutant: one row per subscription, that keeps its first dispatch time. *)
RecordOnce(w, s) ==
    /\ task[w][s] \in {"delivered", "failed"}
    /\ latest' = [latest EXCEPT ![s] =
           IF @.status = "none" THEN [age |-> 0, status |-> task[w][s]]
           ELSE [@ EXCEPT !.status = task[w][s]]]
    /\ task' = [task EXCEPT ![w][s] = "none"]
    /\ lastPost' = [lastPost EXCEPT ![w][s].recorded = TRUE]
    /\ UNCHANGED <<txAge, sub, unsafe, pc, crashes>>

(* record_rate_alert_dispatch: one more row, dispatched now. *)
Record(w, s) ==
    /\ task[w][s] \in {"delivered", "failed"}
    /\ latest' = [latest EXCEPT ![s] = [age |-> 0, status |-> task[w][s]]]
    /\ task' = [task EXCEPT ![w][s] = "none"]
    /\ lastPost' = [lastPost EXCEPT ![w][s].recorded = TRUE]
    /\ UNCHANGED <<txAge, sub, unsafe, pc, crashes>>

(* The insert fails: the sweep counts the task's error and goes on. *)
RecordFails(w, s) ==
    /\ task[w][s] \in {"delivered", "failed"}
    /\ task' = [task EXCEPT ![w][s] = "none"]
    /\ UNCHANGED <<txAge, sub, unsafe, latest, pc, lastPost, crashes>>

SweepDone(w) ==
    /\ pc[w] = "sweep"
    /\ \A s \in Subs : task[w][s] = "none"
    /\ pc' = [pc EXCEPT ![w] = "idle"]
    /\ UNCHANGED <<txAge, sub, unsafe, latest, task, lastPost, crashes>>

Wake(w) ==
    /\ pc[w] = "idle"
    /\ pc' = [pc EXCEPT ![w] = "find"]
    /\ UNCHANGED <<txAge, sub, unsafe, latest, task, lastPost, crashes>>

Interrupt(w) ==
    /\ pc[w] = "idle"
    /\ pc' = [pc EXCEPT ![w] = "down"]
    /\ UNCHANGED <<txAge, sub, unsafe, latest, task, lastPost, crashes>>

Crash(w) ==
    /\ pc[w] # "down"
    /\ crashes < MaxCrashes
    /\ crashes' = crashes + 1
    /\ pc' = [pc EXCEPT ![w] = "down"]
    /\ task' = [task EXCEPT ![w] = [s \in Subs |-> "none"]]
    /\ UNCHANGED <<txAge, sub, unsafe, latest, lastPost>>

TaskStep(w, s) == Post(w, s) \/ RefuseUrl(w, s) \/ Record(w, s) \/ RecordFails(w, s)

Next ==
    \/ \E t \in Txs : StoreFailedTx(t) \/ RollBack(t)
    \/ \E s \in Subs : CreateSubscription(s) \/ DeactivateSubscription(s)
    \/ Tick
    \/ \E w \in Workers :
           \/ Start(w) \/ FindPending(w) \/ SweepDone(w) \/ Wake(w)
           \/ Interrupt(w) \/ Crash(w)
           \/ \E s \in Subs : TaskStep(w, s)

Spec == Init /\ [][Next]_vars

(* Time passes, a stopped process is started again, loops and tasks go on. *)
(* Nothing is owed by the chain, the API or the outcome of a POST.         *)
Fairness ==
    /\ WF_vars(Tick)
    /\ \A w \in Workers :
           /\ WF_vars(Start(w))
           /\ WF_vars(FindPending(w))
           /\ WF_vars(SweepDone(w))
           /\ WF_vars(Wake(w))
           /\ \A s \in Subs : WF_vars(TaskStep(w, s))

FairSpec == Spec /\ Fairness

-----------------------------------------------------------------------------
(* A dispatcher whose last POST for a subscription was recorded has waited *)
(* at least the debounce time before it is about to POST again, however    *)
(* slow the other dispatchers are with the sweeps they began before: of    *)
(* what happens in one debounce time each has one POST at most             *)
(* (find_pending_rate_alert_matches, docs/api-alerts.md:118).              *)
DebounceRespected ==
    \A w \in Workers, s \in Subs :
        task[w][s] = "queued" /\ lastPost[w][s].recorded
            => lastPost[w][s].age = Debounce[s]

(* The youngest dispatch is as young as any recorded POST. *)
LedgerIsYounger ==
    \A w \in Workers, s \in Subs :
        lastPost[w][s].recorded => latest[s].age <= lastPost[w][s].age

IndInv == TypeOK /\ LedgerIsYounger /\ DebounceRespected

(* Nothing is claimed, yet what a sweep selects has rested: a recorded     *)
(* POST, of whichever dispatcher, is as old as the debounce time.  Only    *)
(* POSTs that are under way or unrecorded can be doubled                   *)
(* (find_pending_rate_alert_matches, dispatch_rate_once).                  *)
SelectedHasRested ==
    [][\A w, v \in Workers, s \in Subs :
           /\ task[w][s] # "queued" /\ task'[w][s] = "queued"
           /\ lastPost[v][s].recorded
           => lastPost[v][s].age = Debounce[s]]_vars

(* A subscription whose threshold stays reached is dispatched again and    *)
(* again, also if POSTs of it fail or go unrecorded, a dispatcher dies in  *)
(* a sweep and failures come and go meanwhile (dispatch_rate_once).        *)
UnderWay(s) == \E w \in Workers : task[w][s] # "none"
SustainedRateAlerts ==
    \A s \in Subs : <>[](sub[s] = "active" /\ Burst(s)) => []<>UnderWay(s)

=============================================================================
