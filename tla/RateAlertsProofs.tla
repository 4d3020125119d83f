-------------------------- MODULE RateAlertsProofs --------------------------
(***************************************************************************)
(* Proofs about RateAlerts, for any number of dispatchers, subscriptions   *)
(* and transactions: a recorded POST silences its dispatcher for the whole *)
(* debounce time.                                                          *)
(***************************************************************************)
EXTENDS RateAlerts, TLAPS

(* An age that counts up to a limit stays within it. *)
LEMMA OlderWithin ==
  ASSUME NEW age \in Nat, NEW limit \in Nat, age <= limit
  PROVE  Older(age, limit) \in Nat /\ Older(age, limit) <= limit
  BY DEF Older

(* Of two ages with one limit the older one stays the older one. *)
LEMMA OlderMonotone ==
  ASSUME NEW a \in Nat, NEW b \in Nat, NEW limit \in Nat, a <= b, b <= limit
  PROVE  Older(a, limit) <= Older(b, limit)
  BY DEF Older

(* Before the first POST nothing is recorded. *)
LEMMA InitIndInv == Init => IndInv
<1> SUFFICES ASSUME Init PROVE IndInv
  OBVIOUS
<1>1. TypeOK
  BY RateAssumption, BoundAssumption DEF Init, TypeOK, Forgotten
<1>2. LedgerIsYounger /\ DebounceRespected
  BY DEF Init, LedgerIsYounger, DebounceRespected
<1>3. QED
  BY <1>1, <1>2 DEF IndInv

(* Steps that touch neither the ledger nor a POST, and queue nothing. *)
LEMMA QuietStep ==
  ASSUME IndInv, TypeOK', UNCHANGED <<latest, lastPost>>,
         \A w \in Workers, s \in Subs : task'[w][s] = "queued" => task[w][s] = "queued"
  PROVE  IndInv'
<1>1. LedgerIsYounger'
  BY DEF IndInv, LedgerIsYounger
<1>2. DebounceRespected'
  BY DEF IndInv, DebounceRespected
<1>3. QED
  BY <1>1, <1>2 DEF IndInv

(* The indexer and the API. *)
LEMMA DatabaseStep ==
  ASSUME IndInv,
         \/ \E t \in Txs : StoreFailedTx(t) \/ RollBack(t)
         \/ \E s \in Subs : CreateSubscription(s) \/ DeactivateSubscription(s)
  PROVE  IndInv'
<1>1. UNCHANGED <<unsafe, latest, pc, task, lastPost, crashes>>
  BY DEF StoreFailedTx, RollBack, CreateSubscription, DeactivateSubscription
<1>2. txAge' \in [Txs -> 0 .. Forgotten]
  BY RateAssumption DEF IndInv, TypeOK, Forgotten, StoreFailedTx, RollBack,
     CreateSubscription, DeactivateSubscription
<1>3. sub' \in [Subs -> {"absent", "active", "inactive"}]
  BY DEF IndInv, TypeOK, StoreFailedTx, RollBack, CreateSubscription, DeactivateSubscription
<1>4. TypeOK'
  BY <1>1, <1>2, <1>3 DEF IndInv, TypeOK
<1>5. QED
  BY <1>1, <1>4, QuietStep

(* The loop around the sweeps, and a process that dies. *)
LEMMA LoopStep ==
  ASSUME IndInv, NEW w \in Workers,
         Start(w) \/ SweepDone(w) \/ Wake(w) \/ Interrupt(w) \/ Crash(w)
  PROVE  IndInv'
<1>1. UNCHANGED <<txAge, sub, unsafe, latest, lastPost>>
  BY DEF Start, SweepDone, Wake, Interrupt, Crash
<1>2. pc' \in [Workers -> {"down", "find", "sweep", "idle"}]
  BY DEF IndInv, TypeOK, Start, SweepDone, Wake, Interrupt, Crash
<1>3. /\ task' \in [Workers -> [Subs -> {"none", "queued", "delivered", "failed"}]]
      /\ \A v \in Workers, s \in Subs : task'[v][s] = "queued" => task[v][s] = "queued"
  <2>1. CASE UNCHANGED task
    BY <2>1 DEF IndInv, TypeOK
  <2>2. CASE task' = [task EXCEPT ![w] = [s \in Subs |-> "none"]]
    BY <2>2 DEF IndInv, TypeOK
  <2>3. QED
    BY <2>1, <2>2 DEF Start, SweepDone, Wake, Interrupt, Crash
<1>4. crashes' \in 0 .. MaxCrashes
  BY BoundAssumption DEF IndInv, TypeOK, Start, SweepDone, Wake, Interrupt, Crash
<1>5. TypeOK'
  BY <1>1, <1>2, <1>3, <1>4 DEF IndInv, TypeOK
<1>6. QED
  BY <1>1, <1>3, <1>5, QuietStep

(* All ages grow alike, up to the debounce time of their subscription. *)
LEMMA TickStep ==
  ASSUME IndInv, Tick
  PROVE  IndInv'
<1>1. UNCHANGED <<sub, unsafe, pc, task, crashes>>
  BY DEF Tick
<1>2. txAge' \in [Txs -> 0 .. Forgotten]
  <2>1. \A t \in Txs : Older(txAge[t], Forgotten) \in 0 .. Forgotten
    BY RateAssumption, OlderWithin DEF IndInv, TypeOK, Forgotten
  <2>2. QED
    BY <2>1 DEF Tick
<1>3. ASSUME NEW s \in Subs
      PROVE  /\ latest'[s] = [latest[s] EXCEPT !.age = Older(latest[s].age, Debounce[s])]
             /\ latest'[s].age = Older(latest[s].age, Debounce[s])
             /\ latest'[s].age \in Nat /\ latest'[s].age <= Debounce[s]
  <2>1. latest'[s] = [latest[s] EXCEPT !.age = Older(latest[s].age, Debounce[s])]
    BY DEF Tick
  <2>2. /\ latest[s] \in [age : Nat, status : {"none", "delivered", "failed"}]
        /\ latest[s].age <= Debounce[s] /\ Debounce[s] \in Nat
    BY RateAssumption DEF IndInv, TypeOK
  <2>3. latest'[s].age = Older(latest[s].age, Debounce[s])
    BY <2>1, <2>2
  <2>4. QED
    BY <2>1, <2>2, <2>3, OlderWithin
<1>4. ASSUME NEW w \in Workers, NEW s \in Subs
      PROVE  /\ lastPost'[w][s] = [lastPost[w][s] EXCEPT !.age = Older(lastPost[w][s].age, Debounce[s])]
             /\ lastPost'[w][s].age = Older(lastPost[w][s].age, Debounce[s])
             /\ lastPost'[w][s].recorded = lastPost[w][s].recorded
             /\ lastPost'[w][s].age \in Nat /\ lastPost'[w][s].age <= Debounce[s]
  <2>1. lastPost'[w][s] = [lastPost[w][s] EXCEPT !.age = Older(lastPost[w][s].age, Debounce[s])]
    BY DEF Tick
  <2>2. /\ lastPost[w][s] \in [age : Nat, recorded : BOOLEAN]
        /\ lastPost[w][s].age <= Debounce[s] /\ Debounce[s] \in Nat
    BY RateAssumption DEF IndInv, TypeOK
  <2>3. /\ lastPost'[w][s].age = Older(lastPost[w][s].age, Debounce[s])
        /\ lastPost'[w][s].recorded = lastPost[w][s].recorded
    BY <2>1, <2>2
  <2>4. QED
    BY <2>1, <2>2, <2>3, OlderWithin
<1>5. TypeOK'
  <2>1. latest' \in [Subs -> [age : Nat, status : {"none", "delivered", "failed"}]]
    BY <1>3 DEF Tick, IndInv, TypeOK
  <2>2. lastPost' \in [Workers -> [Subs -> [age : Nat, recorded : BOOLEAN]]]
    BY <1>4 DEF Tick, IndInv, TypeOK
  <2>3. QED
    BY <1>1, <1>2, <1>3, <1>4, <2>1, <2>2 DEF IndInv, TypeOK
<1>6. LedgerIsYounger'
  <2> SUFFICES ASSUME NEW w \in Workers, NEW s \in Subs, lastPost'[w][s].recorded
               PROVE  latest'[s].age <= lastPost'[w][s].age
    BY DEF LedgerIsYounger
  <2>1. latest[s].age <= lastPost[w][s].age
    BY <1>4 DEF IndInv, LedgerIsYounger
  <2>2. /\ latest[s].age \in Nat /\ lastPost[w][s].age \in Nat
        /\ lastPost[w][s].age <= Debounce[s] /\ Debounce[s] \in Nat
    BY RateAssumption DEF IndInv, TypeOK
  <2>3. Older(latest[s].age, Debounce[s]) <= Older(lastPost[w][s].age, Debounce[s])
    BY <2>1, <2>2, OlderMonotone
  <2>4. /\ latest'[s].age = Older(latest[s].age, Debounce[s])
        /\ lastPost'[w][s].age = Older(lastPost[w][s].age, Debounce[s])
    BY <1>3, <1>4
  <2>5. QED
    BY <2>3, <2>4
<1>7. DebounceRespected'
  <2> SUFFICES ASSUME NEW w \in Workers, NEW s \in Subs,
                      task'[w][s] = "queued", lastPost'[w][s].recorded
               PROVE  lastPost'[w][s].age = Debounce[s]
    BY DEF DebounceRespected
  <2>1. lastPost[w][s].age = Debounce[s]
    BY <1>1, <1>4 DEF IndInv, DebounceRespected
  <2>2. lastPost'[w][s].age = Older(Debounce[s], Debounce[s])
    BY <1>4, <2>1
  <2>3. QED
    BY <2>2, RateAssumption DEF Older
<1>8. QED
  BY <1>5, <1>6, <1>7 DEF IndInv

(* Only subscriptions whose youngest dispatch has outlived the debounce    *)
(* are queued, and a recorded POST is no younger than that dispatch.       *)
LEMMA FindStep ==
  ASSUME IndInv, NEW w \in Workers, FindPending(w)
  PROVE  IndInv'
<1>1. UNCHANGED <<txAge, sub, unsafe, latest, lastPost, crashes>>
  BY DEF FindPending
<1>2. TypeOK'
  BY <1>1 DEF IndInv, TypeOK, FindPending
<1>3. LedgerIsYounger'
  BY <1>1 DEF IndInv, LedgerIsYounger
<1>4. DebounceRespected'
  <2> SUFFICES ASSUME NEW v \in Workers, NEW s \in Subs,
                      task'[v][s] = "queued", lastPost[v][s].recorded
               PROVE  lastPost[v][s].age = Debounce[s]
    BY <1>1 DEF DebounceRespected
  <2>1. CASE v # w
    BY <2>1 DEF FindPending, IndInv, TypeOK, DebounceRespected
  <2>2. CASE v = w
    <3>1. s \in Selected
      BY <2>2 DEF FindPending, IndInv, TypeOK
    <3>2. ~(latest[s].age < Debounce[s])
      BY <3>1 DEF Selected, Due, Debounced
    <3>3. latest[s].age <= lastPost[v][s].age
      BY DEF IndInv, LedgerIsYounger
    <3>4. /\ latest[s].age \in Nat /\ lastPost[v][s].age \in Nat
          /\ lastPost[v][s].age <= Debounce[s] /\ Debounce[s] \in Nat
      BY RateAssumption DEF IndInv, TypeOK
    <3>5. QED
      BY <3>2, <3>3, <3>4
  <2>3. QED
    BY <2>1, <2>2
<1>5. QED
  BY <1>2, <1>3, <1>4 DEF IndInv

(* What a task does to itself, to the row and to its history. *)
LEMMA TaskKeeps ==
  ASSUME IndInv, NEW w \in Workers, NEW s \in Subs, TaskStep(w, s)
  PROVE  IndInv'
<1>1. CASE RefuseUrl(w, s) \/ RecordFails(w, s)
  <2>1. UNCHANGED <<txAge, sub, unsafe, latest, pc, lastPost, crashes>>
    BY <1>1 DEF RefuseUrl, RecordFails
  <2>2. /\ task' \in [Workers -> [Subs -> {"none", "queued", "delivered", "failed"}]]
        /\ \A v \in Workers, r \in Subs : task'[v][r] = "queued" => task[v][r] = "queued"
    <3>1. PICK t \in {"none", "failed"} : task' = [task EXCEPT ![w][s] = t]
      BY <1>1 DEF RefuseUrl, RecordFails
    <3>2. QED
      BY <3>1 DEF IndInv, TypeOK
  <2>3. TypeOK'
    BY <2>1, <2>2 DEF IndInv, TypeOK
  <2>4. QED
    BY <2>1, <2>2, <2>3, QuietStep
<1>2. CASE Post(w, s)
  <2>1. UNCHANGED <<txAge, sub, unsafe, latest, pc, crashes>>
    BY <1>2 DEF Post
  <2>2. PICK answer \in {"delivered", "failed"} : task' = [task EXCEPT ![w][s] = answer]
    BY <1>2 DEF Post
  <2>3. lastPost' = [lastPost EXCEPT ![w][s] = [age |-> 0, recorded |-> FALSE]]
    BY <1>2 DEF Post
  <2>4. ASSUME NEW v \in Workers, NEW r \in Subs
        PROVE  \/ /\ v = w /\ r = s
                  /\ lastPost'[v][r] = [age |-> 0, recorded |-> FALSE]
                  /\ task'[v][r] # "queued"
               \/ lastPost'[v][r] = lastPost[v][r] /\ task'[v][r] = task[v][r]
    BY <2>2, <2>3 DEF IndInv, TypeOK
  <2>5. TypeOK'
    <3>1. lastPost' \in [Workers -> [Subs -> [age : Nat, recorded : BOOLEAN]]]
      BY <2>3 DEF IndInv, TypeOK
    <3>2. task' \in [Workers -> [Subs -> {"none", "queued", "delivered", "failed"}]]
      BY <2>2 DEF IndInv, TypeOK
    <3>3. ASSUME NEW v \in Workers, NEW r \in Subs
          PROVE  lastPost'[v][r].age <= Debounce[r]
      <4>1. Debounce[r] \in Nat /\ lastPost[v][r].age <= Debounce[r]
        BY RateAssumption DEF IndInv, TypeOK
      <4>2. QED
        BY <2>4, <4>1
    <3>4. QED
      BY <2>1, <3>1, <3>2, <3>3 DEF IndInv, TypeOK
  <2>6. LedgerIsYounger'
    BY <2>1, <2>4 DEF IndInv, LedgerIsYounger
  <2>7. DebounceRespected'
    BY <2>4 DEF IndInv, DebounceRespected
  <2>8. QED
    BY <2>5, <2>6, <2>7 DEF IndInv
<1>3. CASE Record(w, s)
  <2>1. UNCHANGED <<txAge, sub, unsafe, pc, crashes>>
    BY <1>3 DEF Record
  <2>2. /\ latest' = [latest EXCEPT ![s] = [age |-> 0, status |-> task[w][s]]]
        /\ task' = [task EXCEPT ![w][s] = "none"]
        /\ lastPost' = [lastPost EXCEPT ![w][s].recorded = TRUE]
        /\ task[w][s] \in {"delivered", "failed"}
    BY <1>3 DEF Record
  <2>3. ASSUME NEW v \in Workers, NEW r \in Subs
        PROVE  /\ lastPost'[v][r] \in [age : Nat, recorded : BOOLEAN]
               /\ lastPost'[v][r].age = lastPost[v][r].age
               /\ task'[v][r] = "queued" => task[v][r] = "queued" /\ ~(v = w /\ r = s)
               /\ ~(v = w /\ r = s) => lastPost'[v][r] = lastPost[v][r]
    <3>1. lastPost[v][r] \in [age : Nat, recorded : BOOLEAN]
      BY DEF IndInv, TypeOK
    <3>2. CASE v = w /\ r = s
      <4>1. lastPost'[v][r] = [lastPost[v][r] EXCEPT !.recorded = TRUE]
        BY <2>2, <3>2 DEF IndInv, TypeOK
      <4>2. task'[v][r] = "none"
        BY <2>2, <3>2 DEF IndInv, TypeOK
      <4>3. QED
        BY <3>1, <3>2, <4>1, <4>2
    <3>3. CASE ~(v = w /\ r = s)
      <4>1. lastPost'[v][r] = lastPost[v][r] /\ task'[v][r] = task[v][r]
        BY <2>2, <3>3 DEF IndInv, TypeOK
      <4>2. QED
        BY <3>1, <3>3, <4>1
    <3>4. QED
      BY <3>2, <3>3
  <2>4. ASSUME NEW r \in Subs
        PROVE  \/ r = s /\ latest'[r].age = 0
               \/ r # s /\ latest'[r] = latest[r]
    BY <2>2 DEF IndInv, TypeOK
  <2>5. TypeOK'
    <3>1. latest' \in [Subs -> [age : Nat, status : {"none", "delivered", "failed"}]]
      BY <2>2 DEF IndInv, TypeOK
    <3>2. lastPost' \in [Workers -> [Subs -> [age : Nat, recorded : BOOLEAN]]]
      <4> DEFINE known == [lastPost[w][s] EXCEPT !.recorded = TRUE]
      <4>1. known \in [age : Nat, recorded : BOOLEAN]
        <5>1. lastPost'[w][s] = known
          BY <2>2 DEF IndInv, TypeOK
        <5>2. QED
          BY <2>3, <5>1
      <4>2. lastPost' = [lastPost EXCEPT ![w][s] = known]
        BY <2>2
      <4> HIDE DEF known
      <4>3. QED
        BY <4>1, <4>2 DEF IndInv, TypeOK
    <3>3. task' \in [Workers -> [Subs -> {"none", "queued", "delivered", "failed"}]]
      BY <2>2 DEF IndInv, TypeOK
    <3>4. ASSUME NEW r \in Subs
          PROVE  latest'[r].age <= Debounce[r]
      <4>1. Debounce[r] \in Nat /\ latest[r].age <= Debounce[r]
        BY RateAssumption DEF IndInv, TypeOK
      <4>2. QED
        BY <2>4, <4>1
    <3>5. \A v \in Workers, r \in Subs : lastPost'[v][r].age <= Debounce[r]
      BY <2>3 DEF IndInv, TypeOK
    <3>6. QED
      BY <2>1, <3>1, <3>2, <3>3, <3>4, <3>5 DEF IndInv, TypeOK
  <2>6. LedgerIsYounger'
    <3> SUFFICES ASSUME NEW v \in Workers, NEW r \in Subs, lastPost'[v][r].recorded
                 PROVE  latest'[r].age <= lastPost'[v][r].age
      BY DEF LedgerIsYounger
    <3>1. CASE r = s
      BY <2>3, <2>4, <3>1
    <3>2. CASE r # s
      BY <2>3, <2>4, <3>2 DEF IndInv, LedgerIsYounger
    <3>3. QED
      BY <3>1, <3>2
  <2>7. DebounceRespected'
    <3> SUFFICES ASSUME NEW v \in Workers, NEW r \in Subs,
                        task'[v][r] = "queued", lastPost'[v][r].recorded
                 PROVE  lastPost'[v][r].age = Debounce[r]
      BY DEF DebounceRespected
    <3>1. QED
      BY <2>3 DEF IndInv, DebounceRespected
  <2>8. QED
    BY <2>5, <2>6, <2>7 DEF IndInv
<1>4. QED
  BY <1>1, <1>2, <1>3 DEF TaskStep

(* Every step keeps the invariant. *)
LEMMA StepKeepsIndInv == IndInv /\ [Next]_vars => IndInv'
<1> SUFFICES ASSUME IndInv, [Next]_vars PROVE IndInv'
  OBVIOUS
<1>1. CASE UNCHANGED vars
  <2>1. TypeOK' /\ UNCHANGED <<latest, lastPost, task>>
    BY <1>1 DEF vars, IndInv, TypeOK
  <2>2. QED
    BY <2>1, QuietStep
<1>2. CASE Next
  BY <1>2, DatabaseStep, LoopStep, TickStep, FindStep, TaskKeeps DEF Next
<1>3. QED
  BY <1>1, <1>2

(* What IndInv says holds in every state of the rate dispatchers. *)
THEOREM Invariance == Spec => []IndInv
  BY InitIndInv, StepKeepsIndInv, PTL DEF Spec

(* A recorded POST of find_pending_rate_alert_matches' subscription keeps  *)
(* its dispatcher silent for debounce_secs.                                *)
THEOREM SilentWhileDebounced == Spec => []DebounceRespected
<1>1. IndInv => DebounceRespected
  BY DEF IndInv
<1>2. QED
  BY <1>1, Invariance, PTL

(* A sweep selects no subscription of which any dispatcher has recorded a  *)
(* POST within debounce_secs.                                              *)
LEMMA SelectionHasRested ==
  ASSUME IndInv, [Next]_vars, NEW w \in Workers, NEW v \in Workers, NEW s \in Subs,
         task[w][s] # "queued", task'[w][s] = "queued", lastPost[v][s].recorded
  PROVE  lastPost[v][s].age = Debounce[s]
<1>1. \E u \in Workers : FindPending(u)
  <2>1. task' # task
    OBVIOUS
  <2>2. \/ \E u \in Workers : FindPending(u) \/ Crash(u)
        \/ \E u \in Workers, r \in Subs : TaskStep(u, r)
    BY <2>1 DEF Next, vars, StoreFailedTx, RollBack, CreateSubscription,
       DeactivateSubscription, Tick, Start, SweepDone, Wake, Interrupt
  <2>3. ASSUME NEW u \in Workers, Crash(u) PROVE FALSE
    BY <2>3 DEF IndInv, TypeOK, Crash
  <2>4. ASSUME NEW u \in Workers, NEW r \in Subs, TaskStep(u, r) PROVE FALSE
    <3>1. PICK t \in {"none", "delivered", "failed"} : task' = [task EXCEPT ![u][r] = t]
      BY <2>4 DEF TaskStep, Post, RefuseUrl, Record, RecordFails
    <3>2. QED
      BY <3>1 DEF IndInv, TypeOK
  <2>5. QED
    BY <2>2, <2>3, <2>4
<1>2. s \in Selected
  BY <1>1 DEF FindPending, IndInv, TypeOK
<1>3. ~(latest[s].age < Debounce[s])
  BY <1>2 DEF Selected, Due, Debounced
<1>4. latest[s].age <= lastPost[v][s].age
  BY DEF IndInv, LedgerIsYounger
<1>5. /\ latest[s].age \in Nat /\ lastPost[v][s].age \in Nat
      /\ lastPost[v][s].age <= Debounce[s] /\ Debounce[s] \in Nat
  BY RateAssumption DEF IndInv, TypeOK
<1>6. QED
  BY <1>3, <1>4, <1>5

(* What a sweep of dispatch_rate_once selects has rested, whichever        *)
(* dispatcher posted it last: the ledger is shared, though nothing claims. *)
THEOREM SelectionRests == Spec => SelectedHasRested
<1>1. IndInv /\ [Next]_vars =>
        [\A w, v \in Workers, s \in Subs :
           /\ task[w][s] # "queued" /\ task'[w][s] = "queued"
           /\ lastPost[v][s].recorded
           => lastPost[v][s].age = Debounce[s]]_vars
  BY SelectionHasRested
<1>2. QED
  BY <1>1, Invariance, PTL DEF Spec, SelectedHasRested

=============================================================================
