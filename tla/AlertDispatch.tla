--------------------------- MODULE AlertDispatch ---------------------------
(***************************************************************************)
(* The per-event alert dispatcher: crates/indexer/src/alerts.rs on top of  *)
(* the alert statements of crates/db/src/queries.rs.  Any number of        *)
(* dispatcher processes run dispatch_loop against one database.  A sweep   *)
(* (dispatch_once) selects a batch of pairs (subscription, failed          *)
(* transaction) that the ledger table alert_delivery does not exclude, and *)
(* handles each in a task of its own: claim the pair, POST the signed      *)
(* webhook outside any lock, record the outcome.  The indexer adds failed  *)
(* transactions and its rollback removes them; the API creates,            *)
(* deactivates and rotates subscriptions; both happen at any moment.       *)
(*                                                                         *)
(* Time is counted in units of which a claim outlives StaleAfter           *)
(* (CLAIM_STALE_AFTER_SECS).  A task holds its claim for at most Hold:     *)
(* the request times out after a sixth of the stale time.                  *)
(***************************************************************************)
EXTENDS Integers, FiniteSets

CONSTANTS
    Workers,      \* dispatcher processes
    Subs,         \* per-event subscriptions the API may create
    UnsafeSubs,   \* those whose stored URL or secret dispatch_item refuses
    Txs,          \* failed transactions, in the order of their hash
    Pairs,        \* <<s, t>> such that the filter of s matches t
    Batch,        \* LIMIT of a sweep (DISPATCH_BATCH)
    MaxPosts,     \* tasks of a sweep alive at once (MAX_CONCURRENT_POSTS)
    StaleAfter,   \* age up to which a claim excludes other workers
    Hold,         \* the longest a live task takes from its claim to its record
    MaxFaults,    \* bound: crashes, failed claims and records, refused or lost POSTs
    MaxRotations  \* bound: secret rotations of a subscription

ASSUME SubsAssumption == UnsafeSubs \subseteq Subs
ASSUME PairsAssumption == Txs \subseteq Nat /\ Pairs \subseteq Subs \X Txs
ASSUME SweepAssumption == Batch \in Nat \ {0} /\ MaxPosts \in Nat \ {0}
ASSUME ClockAssumption == StaleAfter \in Nat /\ Hold \in Nat /\ Hold <= StaleAfter
ASSUME BoundAssumption == MaxFaults \in Nat /\ MaxRotations \in Nat

VARIABLES
    failedTxs,    \* rows of failed_transaction
    sub,          \* sub[s]: "absent", "active" or "inactive"
    secret,       \* secret[s]: how often the signing secret was rotated
    ledger,       \* alert_delivery: status and age of the claim of each pair
    pc,           \* pc[w]: "down", "find", "sweep" or "idle"
    task,         \* task[w][p]: what the sweep of w does with the pair p
    received,     \* received[p]: POSTs for p the receiver has accepted
    unrecorded,   \* unrecorded[p]: accepted ones that will not be recorded
    faults

database == <<failedTxs, sub, secret>>
receiver == <<received, unrecorded>>
vars == <<failedTxs, sub, secret, ledger, pc, task, received, unrecorded, faults>>

NoRow == [status |-> "none", age |-> 0]
NoTask == [stage |-> "none", held |-> 0, secret |-> 0]

(* A task that has claimed its pair and not yet recorded the outcome. *)
LiveStages == {"claimed", "ok", "error"}
Live(w, p) == task[w][p].stage \in LiveStages

LedgerRows ==
    [status : {"none", "claimed", "failed", "delivered"}, age : 0 .. StaleAfter + 1]
TaskStates ==
    [stage : {"none", "queued"} \cup LiveStages, held : 0 .. Hold, secret : 0 .. MaxRotations]

TypeOK ==
    /\ failedTxs \subseteq Txs
    /\ sub \in [Subs -> {"absent", "active", "inactive"}]
    /\ secret \in [Subs -> 0 .. MaxRotations]
    /\ ledger \in [Pairs -> LedgerRows]
    /\ pc \in [Workers -> {"down", "find", "sweep", "idle"}]
    /\ task \in [Workers -> [Pairs -> TaskStates]]
    /\ received \in [Pairs -> Nat]
    /\ unrecorded \in [Pairs -> Nat]
    /\ faults \in 0 .. MaxFaults

Init ==
    /\ failedTxs = {}
    /\ sub = [s \in Subs |-> "absent"]
    /\ secret = [s \in Subs |-> 0]
    /\ ledger = [p \in Pairs |-> NoRow]
    /\ pc = [w \in Workers |-> "down"]
    /\ task = [w \in Workers |-> [p \in Pairs |-> NoTask]]
    /\ received = [p \in Pairs |-> 0]
    /\ unrecorded = [p \in Pairs |-> 0]
    /\ faults = 0

-----------------------------------------------------------------------------
(* The rest of the system: the indexer and the API write the tables the    *)
(* dispatcher reads.                                                       *)

StoreFailedTx(t) ==
    /\ t \notin failedTxs
    /\ failedTxs' = failedTxs \cup {t}
    /\ UNCHANGED <<sub, secret, ledger, pc, task, receiver, faults>>

(* rollback_from_block deletes the failed transactions of the orphaned     *)
(* blocks and leaves alert_delivery alone.                                 *)
RollBack(t) ==
    /\ t \in failedTxs
    /\ failedTxs' = failedTxs \ {t}
    /\ UNCHANGED <<sub, secret, ledger, pc, task, receiver, faults>>

CreateSubscription(s) ==
    /\ sub[s] = "absent"
    /\ sub' = [sub EXCEPT ![s] = "active"]
    /\ UNCHANGED <<failedTxs, secret, ledger, pc, task, receiver, faults>>

DeactivateSubscription(s) ==
    /\ sub[s] = "active"
    /\ sub' = [sub EXCEPT ![s] = "inactive"]
    /\ UNCHANGED <<failedTxs, secret, ledger, pc, task, receiver, faults>>

RotateSecret(s) ==
    /\ sub[s] = "active"
    /\ secret[s] < MaxRotations
    /\ secret' = [secret EXCEPT ![s] = @ + 1]
    /\ UNCHANGED <<failedTxs, sub, ledger, pc, task, receiver, faults>>

(* One unit of time.  Ages beyond StaleAfter are all alike.  A live task   *)
(* records before it has held its claim for longer than Hold.              *)
Tick ==
    /\ \A w \in Workers, p \in Pairs : Live(w, p) => task[w][p].held < Hold
    /\ ledger' = [p \in Pairs |->
           IF ledger[p].status = "claimed" /\ ledger[p].age <= StaleAfter
           THEN [ledger[p] EXCEPT !.age = @ + 1] ELSE ledger[p]]
    /\ task' = [w \in Workers |-> [p \in Pairs |->
           IF Live(w, p) THEN [task[w][p] EXCEPT !.held = @ + 1] ELSE task[w][p]]]
    /\ UNCHANGED <<database, pc, receiver, faults>>

-----------------------------------------------------------------------------
(* The loop of one dispatcher.                                             *)

Start(w) ==
    /\ pc[w] = "down"
    /\ pc' = [pc EXCEPT ![w] = "find"]
    /\ UNCHANGED <<database, ledger, task, receiver, faults>>

Wanted(p) == sub[p[1]] = "active" /\ p[2] \in failedTxs

(* A claim excludes its pair for good. *)
ExcludedForever(p) == ledger[p].status \in {"delivered", "claimed"}

(* The anti-join of find_pending_alert_matches. *)
Excluded(p) ==
    \/ ledger[p].status = "delivered"
    \/ ledger[p].status = "claimed" /\ ledger[p].age < StaleAfter

Pending == {p \in Pairs : Wanted(p) /\ ~Excluded(p)}

(* ORDER BY tx_hash LIMIT Batch; pairs of one transaction in any order. *)
Selections ==
    {S \in SUBSET Pending :
        /\ Cardinality(S) <= Batch
        /\ S = Pending \/ Cardinality(S) = Batch
        /\ \A p \in S, q \in Pending \ S : p[2] <= q[2]}

(* The sweep keeps what it read: a later change of the subscription or of  *)
(* the failed transactions does not reach its tasks.                       *)
FindPending(w) ==
    /\ pc[w] = "find"
    /\ \E S \in Selections :
           task' = [task EXCEPT ![w] = [p \in Pairs |->
               IF p \in S THEN [stage |-> "queued", held |-> 0, secret |-> secret[p[1]]]
               ELSE NoTask]]
    /\ pc' = [pc EXCEPT ![w] = "sweep"]
    /\ UNCHANGED <<database, ledger, receiver, faults>>

(* The tasks a sweep has spawned are the first ones of its batch.  A pair  *)
(* is handled once no more than MaxPosts tasks are alive with it.          *)
Spawned(w, p) ==
    Cardinality({q \in Pairs :
        Live(w, q) \/ (task[w][q].stage = "queued" /\ q[2] < p[2])}) < MaxPosts

(* A claim that may be taken over before it is stale. *)
ClaimableAnyAge(p) == ledger[p].status \in {"none", "failed", "claimed"}

(* The same condition on the age as in the anti-join. *)
ClaimableAtStale(p) ==
    \/ ledger[p].status \in {"none", "failed"}
    \/ ledger[p].status = "claimed" /\ ledger[p].age >= StaleAfter

(* A claim that also takes pairs already delivered. *)
ClaimableDelivered(p) ==
    \/ ledger[p].status \in {"none", "failed", "delivered"}
    \/ ledger[p].status = "claimed" /\ ledger[p].age > StaleAfter

(* WHERE clause of try_claim_alert_match (no row at all: the INSERT). *)
Claimable(p) ==
    \/ ledger[p].status \in {"none", "failed"}
    \/ ledger[p].status = "claimed" /\ ledger[p].age > StaleAfter

SetTask(w, p, t) == task' = [task EXCEPT ![w][p] = t]

(* Goes on to the POST whether or not the statement has given the claim. *)
TryClaimIgnored(w, p) ==
    /\ task[w][p].stage = "queued"
    /\ Spawned(w, p)
    /\ SetTask(w, p, [stage |-> "claimed", held |-> 0, secret |-> task[w][p].secret])
    /\ IF Claimable(p)
       THEN ledger' = [ledger EXCEPT ![p] = [status |-> "claimed", age |-> 0]]
       ELSE UNCHANGED ledger
    /\ UNCHANGED <<database, pc, receiver, faults>>

(* One statement: of two workers only one gets the pair; the other one's   *)
(* task ends (ClaimSkipped).                                               *)
TryClaim(w, p) ==
    /\ task[w][p].stage = "queued"
    /\ Spawned(w, p)
    /\ \/ /\ Claimable(p)
          /\ ledger' = [ledger EXCEPT ![p] = [status |-> "claimed", age |-> 0]]
          /\ SetTask(w, p, [stage |-> "claimed", held |-> 0, secret |-> task[w][p].secret])
       \/ /\ ~Claimable(p)
          /\ SetTask(w, p, NoTask)
          /\ UNCHANGED ledger
    /\ UNCHANGED <<database, pc, receiver, faults>>

(* The database fails at the claim: the task ends with an error, and       *)
(* nothing is posted (alerts.rs:249).                                      *)
ClaimFails(w, p) ==
    /\ task[w][p].stage = "queued"
    /\ Spawned(w, p)
    /\ faults < MaxFaults
    /\ faults' = faults + 1
    /\ SetTask(w, p, NoTask)
    /\ UNCHANGED <<database, ledger, pc, receiver>>

(* post_signed to a URL that passed the guard, answered with success. *)
PostAccepted(w, p) ==
    /\ task[w][p].stage = "claimed" /\ p[1] \notin UnsafeSubs
    /\ received' = [received EXCEPT ![p] = @ + 1]
    /\ SetTask(w, p, [task[w][p] EXCEPT !.stage = "ok"])
    /\ UNCHANGED <<database, ledger, pc, unrecorded, faults>>

(* The receiver refuses or cannot be reached. *)
PostRefused(w, p) ==
    /\ task[w][p].stage = "claimed" /\ p[1] \notin UnsafeSubs
    /\ faults < MaxFaults
    /\ faults' = faults + 1
    /\ SetTask(w, p, [task[w][p] EXCEPT !.stage = "error"])
    /\ UNCHANGED <<database, ledger, pc, receiver>>

(* The receiver accepts and the answer is lost or late (request timeout):  *)
(* the dispatcher sees an error.                                           *)
PostAnswerLost(w, p) ==
    /\ task[w][p].stage = "claimed" /\ p[1] \notin UnsafeSubs
    /\ faults < MaxFaults
    /\ faults' = faults + 1
    /\ received' = [received EXCEPT ![p] = @ + 1]
    /\ unrecorded' = [unrecorded EXCEPT ![p] = @ + 1]
    /\ SetTask(w, p, [task[w][p] EXCEPT !.stage = "error"])
    /\ UNCHANGED <<database, ledger, pc>>

(* The URL is unsafe or the secret is no hex: no POST, a recorded failure.  *)
RefuseUrl(w, p) ==
    /\ task[w][p].stage = "claimed" /\ p[1] \in UnsafeSubs
    /\ SetTask(w, p, [task[w][p] EXCEPT !.stage = "error"])
    /\ UNCHANGED <<database, ledger, pc, receiver, faults>>

(* Records every outcome as a failure. *)
OutcomeNeverDelivered(stage) == "failed"

Outcome(stage) == IF stage = "ok" THEN "delivered" ELSE "failed"

(* record_alert_delivery: an upsert that does not ask whose claim it is. *)
Record(w, p) ==
    /\ task[w][p].stage \in {"ok", "error"}
    /\ ledger' = [ledger EXCEPT ![p] = [status |-> Outcome(task[w][p].stage), age |-> 0]]
    /\ SetTask(w, p, NoTask)
    /\ UNCHANGED <<database, pc, receiver, faults>>

(* The database fails at the record: the task ends with an error that      *)
(* dispatch_once only counts, and the row stays claimed.                   *)
RecordFails(w, p) ==
    /\ task[w][p].stage \in {"ok", "error"}
    /\ faults < MaxFaults
    /\ faults' = faults + 1
    /\ unrecorded' = [unrecorded EXCEPT ![p] = IF task[w][p].stage = "ok" THEN @ + 1 ELSE @]
    /\ SetTask(w, p, NoTask)
    /\ UNCHANGED <<database, ledger, pc, received>>

(* The sweep ends when all its tasks have ended; the loop then waits.      *)
SweepDone(w) ==
    /\ pc[w] = "sweep"
    /\ \A p \in Pairs : task[w][p].stage = "none"
    /\ pc' = [pc EXCEPT ![w] = "idle"]
    /\ UNCHANGED <<database, ledger, task, receiver, faults>>

Wake(w) ==
    /\ pc[w] = "idle"
    /\ pc' = [pc EXCEPT ![w] = "find"]
    /\ UNCHANGED <<database, ledger, task, receiver, faults>>

(* Ctrl-C is heard while the loop waits and lost during a sweep. *)
Interrupt(w) ==
    /\ pc[w] = "idle"
    /\ pc' = [pc EXCEPT ![w] = "down"]
    /\ UNCHANGED <<database, ledger, task, receiver, faults>>

(* The process dies, or the sweep's query fails and ends the loop.  What   *)
(* the receiver accepted and the task had not recorded stays unrecorded.   *)
Crash(w) ==
    /\ pc[w] # "down"
    /\ faults < MaxFaults
    /\ faults' = faults + 1
    /\ pc' = [pc EXCEPT ![w] = "down"]
    /\ task' = [task EXCEPT ![w] = [p \in Pairs |-> NoTask]]
    /\ unrecorded' = [p \in Pairs |->
           IF task[w][p].stage = "ok" THEN unrecorded[p] + 1 ELSE unrecorded[p]]
    /\ UNCHANGED <<database, ledger, received>>

TaskStep(w, p) ==
    \/ TryClaim(w, p) \/ PostAccepted(w, p) \/ RefuseUrl(w, p) \/ Record(w, p)

TaskFault(w, p) ==
    \/ ClaimFails(w, p) \/ PostRefused(w, p) \/ PostAnswerLost(w, p) \/ RecordFails(w, p)

Next ==
    \/ \E t \in Txs : StoreFailedTx(t) \/ RollBack(t)
    \/ \E s \in Subs : CreateSubscription(s) \/ DeactivateSubscription(s) \/ RotateSecret(s)
    \/ Tick
    \/ \E w \in Workers :
           \/ Start(w) \/ FindPending(w) \/ SweepDone(w) \/ Wake(w)
           \/ Interrupt(w) \/ Crash(w)
           \/ \E p \in Pairs : TaskStep(w, p) \/ TaskFault(w, p)

Spec == Init /\ [][Next]_vars

(* A process that was stopped is started again, its loop and its tasks go  *)
(* on, and time passes.  Faults, the API and the indexer owe nothing.      *)
Fairness ==
    /\ WF_vars(Tick)
    /\ \A w \in Workers :
           /\ WF_vars(Start(w))
           /\ WF_vars(FindPending(w))
           /\ WF_vars(SweepDone(w))
           /\ WF_vars(Wake(w))
           /\ \A p \in Pairs : WF_vars(TaskStep(w, p) \/ TaskFault(w, p))

FairSpec == Spec /\ Fairness

-----------------------------------------------------------------------------
(* No two workers hold a live claim of one pair: no pair is POSTed by two  *)
(* dispatchers at once (try_claim_alert_match, docs/api-alerts.md:251).    *)
SinglePoster ==
    \A p \in Pairs, v, w \in Workers : Live(v, p) /\ Live(w, p) => v = w

(* A pair recorded as delivered stays so, whatever slower workers, reorgs  *)
(* and restarts do afterwards, although record_alert_delivery overwrites   *)
(* any row: that is what the anti-join relies on.                          *)
DeliveredIsFinal ==
    [][\A p \in Pairs : ledger[p].status = "delivered" => ledger'[p].status = "delivered"]_vars

(* A receiver sees a pair again only for an accepted POST whose success    *)
(* was lost: by a crash, a late answer or a failed record.  Concurrent     *)
(* workers, retries, reorgs and rotations alone never duplicate one.  This *)
(* is less than the documents promise: see ExactlyOnce.                    *)
DuplicatesOnlyByLoss == \A p \in Pairs : received[p] <= 1 + unrecorded[p]

(* What the documents promise: no receiver sees a pair twice.              *)
(* docs/api-alerts.md:3-5: the dispatcher "delivers an HMAC-signed webhook *)
(* exactly once per matching failed transaction"; the same in the header   *)
(* of alerts.rs (3-4) and, of the idempotent record and the anti-join, in  *)
(* queries.rs:1039-1040.                                                   *)
ExactlyOnce == \A p \in Pairs : received[p] <= 1

(* The claims that live tasks hold, as the ledger shows them: the row is   *)
(* claimed, exactly as old as the task's claim, and only one task has it.  *)
ClaimsHeld ==
    \A w \in Workers, p \in Pairs :
        Live(w, p) => ledger[p] = [status |-> "claimed", age |-> task[w][p].held]

(* Every accepted POST is accounted for: lost, recorded as delivered or    *)
(* about to be recorded by the task that made it.                          *)
Known(p) == ledger[p].status = "delivered" \/ \E w \in Workers : task[w][p].stage = "ok"
Accounted == \A p \in Pairs : received[p] = unrecorded[p] + (IF Known(p) THEN 1 ELSE 0)

(* Only a sweep has tasks, and one that has ended leaves nothing behind. *)
TasksInSweep ==
    \A w \in Workers, p \in Pairs :
        pc[w] # "sweep" \/ task[w][p].stage = "none" => task[w][p] = NoTask

(* A sweep that has tasks left has one that can take a step: a live task,  *)
(* or one that a place among the MaxPosts is free for.  No mix of claims   *)
(* refused, POSTs under way and pairs that wait for a place jams it, so    *)
(* join_next always has an answer to come (alerts.rs:361-392).             *)
CanGoOn(w, p) == Live(w, p) \/ (task[w][p].stage = "queued" /\ Spawned(w, p))
SweepGoesOn ==
    \A w \in Workers :
        (\E p \in Pairs : task[w][p].stage # "none") => \E p \in Pairs : CanGoOn(w, p)

IndInv == TypeOK /\ SinglePoster /\ ClaimsHeld /\ TasksInSweep /\ Accounted /\ SweepGoesOn

(* Steps a task has left at most: the claim, the POST, the record. *)
StepsLeft(w, p) ==
    CASE task[w][p].stage = "queued" -> 3
      [] task[w][p].stage = "claimed" -> 2
      [] task[w][p].stage \in {"ok", "error"} -> 1
      [] task[w][p].stage = "none" -> 0

(* A sweep ends: whatever the clock, the indexer, the API and the other    *)
(* dispatchers do meanwhile, no task of it gets more to do, none is added, *)
(* and each step of a task leaves it less (alerts.rs:237-395).             *)
SweepCountsDown ==
    [][\A w \in Workers, p \in Pairs :
           /\ pc[w] = "sweep" => StepsLeft(w, p)' <= StepsLeft(w, p)
           /\ TaskStep(w, p) \/ TaskFault(w, p) => StepsLeft(w, p)' < StepsLeft(w, p)]_vars

(* Where a pair is, in the terms of AlertLedger.  A claim that a dead       *)
(* worker has left counts as open: the pair waits for it to get stale.      *)
At(stage, p) == \E w \in Workers : task[w][p].stage = stage
Delivery ==
    [p \in Pairs |->
        IF ledger[p].status = "delivered" THEN "delivered"
        ELSE IF At("ok", p) THEN "sent"
        ELSE IF At("error", p) THEN "failed"
        ELSE IF At("claimed", p) THEN "taken"
        ELSE "open"]

Promise == INSTANCE AlertLedger WITH
    delivery <- Delivery, accepted <- received, lost <- unrecorded

(* Any number of dispatchers, with claims that get stale, crashes and lost *)
(* answers, do to a pair what one hand at a time would do                  *)
(* (dispatch_item, alerts.rs:236-338; the claim and the record,            *)
(* queries.rs:1036-1070 and 1428-1467): a POST only from the claim, a      *)
(* record only of the own POST, nothing after the delivery.                *)
ImplementsPromise == Promise!Spec

(* A pair that stays wanted is recorded as delivered in the end, if its    *)
(* URL is safe: neither a dead worker's claim nor pairs that fail forever  *)
(* keep it out of every sweep (stale claims are claimable again; a batch   *)
(* has room for more pairs than those that fail).                          *)
EventuallyDelivered ==
    \A p \in Pairs :
        p[1] \notin UnsafeSubs /\ <>[]Wanted(p) => <>(ledger[p].status = "delivered")

=============================================================================
