------------------------ MODULE AlertDispatchProofs ------------------------
(***************************************************************************)
(* Proofs about AlertDispatch, for any number of dispatchers, pairs,       *)
(* faults and rotations: only one worker holds a pair, what is delivered   *)
(* stays delivered, and duplicates come from lost successes alone.         *)
(***************************************************************************)
EXTENDS AlertDispatch, FiniteSetTheorems, WellFoundedInduction, TLAPS

(* What the invariant says of one pair whose ledger row is not claimed. *)
LEMMA ClaimableIsFree ==
  ASSUME TypeOK, ClaimsHeld, NEW p \in Pairs, Claimable(p)
  PROVE  \A v \in Workers : ~Live(v, p)
<1> SUFFICES ASSUME NEW v \in Workers, Live(v, p)
             PROVE  FALSE
  OBVIOUS
<1>1. ledger[p] = [status |-> "claimed", age |-> task[v][p].held]
  BY DEF ClaimsHeld
<1>2. task[v][p].held \in 0 .. Hold
  BY DEF TypeOK, TaskStates
<1>3. QED
  BY <1>1, <1>2, ClockAssumption DEF Claimable

(* Of some transactions one comes first. *)
LEMMA FirstTx ==
  ASSUME NEW S \in SUBSET Nat, S # {}
  PROVE  \E x \in S : \A y \in S : x <= y
<1> DEFINE Below == OpToRel(<, Nat)
<1>1. \A x, y \in Nat : y < x => <<y, x>> \in Below
  BY DEF OpToRel
<1>2. IsWellFoundedOn(Below, Nat)
  BY NatLessThanWellFounded
<1> HIDE DEF Below
<1>3. PICK x \in S : \A y \in S : <<y, x>> \notin Below
  BY <1>2, WFMin
<1>4. ASSUME NEW y \in S PROVE x <= y
  <2>1. x \in Nat /\ y \in Nat /\ ~(y < x)
    BY <1>1, <1>3, Zenon
  <2>2. QED
    BY <2>1
<1>5. QED
  BY <1>4, Zenon

(* While no task of a sweep is live, the first queued one has its place.   *)
LEMMA PlaceForFirst ==
  ASSUME TypeOK, NEW w \in Workers, \A p \in Pairs : ~Live(w, p),
         NEW q \in Pairs, task[w][q].stage = "queued"
  PROVE  \E p \in Pairs : task[w][p].stage = "queued" /\ Spawned(w, p)
<1> DEFINE Queued == {p \in Pairs : task[w][p].stage = "queued"}
           Waiting == {p[2] : p \in Queued}
<1>1. \A p \in Pairs : p[2] \in Nat
  BY PairsAssumption
<1>2. Waiting \in SUBSET Nat /\ Waiting # {}
  BY <1>1
<1>3. PICK t \in Waiting : \A u \in Waiting : t <= u
  BY <1>2, FirstTx
<1>4. PICK p \in Queued : t = p[2]
  BY <1>3
<1>5. ~ \E r \in Pairs : Live(w, r) \/ (task[w][r].stage = "queued" /\ r[2] < p[2])
  BY <1>1, <1>3, <1>4
<1>6. {r \in Pairs : Live(w, r) \/ (task[w][r].stage = "queued" /\ r[2] < p[2])} = {}
  BY <1>5
<1>7. Spawned(w, p)
  <2>1. Cardinality({r \in Pairs :
            Live(w, r) \/ (task[w][r].stage = "queued" /\ r[2] < p[2])}) = 0
    BY <1>6, FS_EmptySet, Zenon
  <2>2. QED
    BY <2>1, SweepAssumption DEF Spawned
<1>8. QED
  BY <1>4, <1>7

(* So a sweep always goes on. *)
LEMMA TasksGoOn == TypeOK => SweepGoesOn
<1> SUFFICES ASSUME TypeOK, NEW w \in Workers, NEW q \in Pairs, task[w][q].stage # "none"
             PROVE  \E p \in Pairs : CanGoOn(w, p)
  BY DEF SweepGoesOn
<1>1. task[w][q].stage = "queued" \/ Live(w, q)
  BY DEF TypeOK, TaskStates, Live, LiveStages
<1>2. QED
  BY <1>1, PlaceForFirst DEF CanGoOn

LEMMA TasksGoOnNext == TypeOK' => SweepGoesOn'
  BY TasksGoOn, PTL

(* At the start there is nothing to claim. *)
LEMMA InitIndInv == Init => IndInv
<1> SUFFICES ASSUME Init PROVE IndInv
  OBVIOUS
<1>1. NoRow \in LedgerRows /\ NoTask \in TaskStates
  BY ClockAssumption, BoundAssumption DEF NoRow, NoTask, LedgerRows, TaskStates
<1>2. TypeOK
  BY <1>1, BoundAssumption DEF Init, TypeOK
<1>3. \A w \in Workers, p \in Pairs : task[w][p] = NoTask /\ task[w][p].stage = "none"
  BY DEF Init, NoTask
<1>4. SinglePoster /\ ClaimsHeld /\ TasksInSweep
  BY <1>3 DEF SinglePoster, ClaimsHeld, TasksInSweep, Live, LiveStages
<1>5. Accounted
  <2>1. \A p \in Pairs : ~Known(p)
    BY <1>3 DEF Known, Init, NoRow
  <2>2. QED
    BY <2>1 DEF Accounted, Init
<1>6. QED
  BY <1>2, <1>4, <1>5, TasksGoOn DEF IndInv

-----------------------------------------------------------------------------
(* Every kind of step keeps the invariant. *)

(* The indexer, the API and the clock of the sweeps touch no task, claim   *)
(* or count.                                                               *)
LEMMA QuietStep ==
  ASSUME IndInv,
         UNCHANGED <<ledger, task, received, unrecorded>>,
         failedTxs' \subseteq Txs,
         sub' \in [Subs -> {"absent", "active", "inactive"}],
         secret' \in [Subs -> 0 .. MaxRotations],
         faults' \in 0 .. MaxFaults,
         pc' \in [Workers -> {"down", "find", "sweep", "idle"}],
         \A w \in Workers : pc'[w] = "sweep" \/ pc'[w] = pc[w]
                            \/ \A p \in Pairs : task[w][p] = NoTask
  PROVE  IndInv'
<1>1. TypeOK'
  BY DEF IndInv, TypeOK
<1>2. (SinglePoster /\ ClaimsHeld)'
  BY DEF IndInv, SinglePoster, ClaimsHeld, Live
<1>3. TasksInSweep'
  BY DEF IndInv, TasksInSweep
<1>4. Accounted'
  BY DEF IndInv, Accounted, Known
<1>5. QED
  BY <1>1, <1>2, <1>3, <1>4, TasksGoOnNext DEF IndInv

(* The indexer and the API. *)
LEMMA DatabaseStep ==
  ASSUME IndInv,
         \/ \E t \in Txs : StoreFailedTx(t) \/ RollBack(t)
         \/ \E s \in Subs : CreateSubscription(s) \/ DeactivateSubscription(s) \/ RotateSecret(s)
  PROVE  IndInv'
<1>1. UNCHANGED <<ledger, pc, task, received, unrecorded, faults>>
  BY DEF StoreFailedTx, RollBack, CreateSubscription, DeactivateSubscription,
         RotateSecret, receiver
<1>2. failedTxs' \subseteq Txs /\ sub' \in [Subs -> {"absent", "active", "inactive"}]
  BY DEF IndInv, TypeOK, StoreFailedTx, RollBack, CreateSubscription,
         DeactivateSubscription, RotateSecret
<1>3. secret' \in [Subs -> 0 .. MaxRotations]
  <2>1. CASE \E s \in Subs : RotateSecret(s)
    <3>1. PICK s \in Subs : RotateSecret(s)
      BY <2>1
    <3>2. secret[s] + 1 \in 0 .. MaxRotations
      BY <3>1, BoundAssumption DEF IndInv, TypeOK, RotateSecret
    <3>3. QED
      BY <3>1, <3>2 DEF IndInv, TypeOK, RotateSecret
  <2>2. CASE UNCHANGED secret
    BY <2>2 DEF IndInv, TypeOK
  <2>3. QED
    BY <2>1, <2>2 DEF StoreFailedTx, RollBack, CreateSubscription, DeactivateSubscription
<1>4. QED
  BY <1>1, <1>2, <1>3, QuietStep DEF IndInv, TypeOK

(* A dispatcher starts, wakes up, ends a sweep or stops while it waits. *)
LEMMA LoopStep ==
  ASSUME IndInv, NEW w \in Workers,
         Start(w) \/ SweepDone(w) \/ Wake(w) \/ Interrupt(w)
  PROVE  IndInv'
<1>1. UNCHANGED <<failedTxs, sub, secret, ledger, task, received, unrecorded, faults>>
  BY DEF Start, SweepDone, Wake, Interrupt, database, receiver
<1>2. pc' \in [Workers -> {"down", "find", "sweep", "idle"}]
  BY DEF IndInv, TypeOK, Start, SweepDone, Wake, Interrupt
<1>3. ASSUME NEW v \in Workers
      PROVE  pc'[v] = "sweep" \/ pc'[v] = pc[v] \/ \A p \in Pairs : task[v][p] = NoTask
  <2>1. CASE v # w
    BY <2>1 DEF IndInv, TypeOK, Start, SweepDone, Wake, Interrupt
  <2>2. CASE v = w /\ pc[w] # "sweep"
    BY <2>2 DEF IndInv, TasksInSweep
  <2>3. CASE v = w /\ pc[w] = "sweep"
    BY <2>3 DEF IndInv, TasksInSweep, Start, SweepDone, Wake, Interrupt
  <2>4. QED
    BY <2>1, <2>2, <2>3
<1>4. /\ failedTxs' \subseteq Txs /\ sub' \in [Subs -> {"absent", "active", "inactive"}]
      /\ secret' \in [Subs -> 0 .. MaxRotations] /\ faults' \in 0 .. MaxFaults
  BY <1>1 DEF IndInv, TypeOK
<1>5. QED
  BY <1>1, <1>2, <1>3, <1>4, QuietStep, Zenon

(* The sweep's query gives a worker without tasks queued ones. *)
LEMMA FindStep ==
  ASSUME IndInv, NEW w \in Workers, FindPending(w)
  PROVE  IndInv'
<1>1. PICK S \in Selections :
        task' = [task EXCEPT ![w] = [p \in Pairs |->
          IF p \in S THEN [stage |-> "queued", held |-> 0, secret |-> secret[p[1]]]
          ELSE NoTask]]
  BY DEF FindPending
<1>2. UNCHANGED <<failedTxs, sub, secret, ledger, received, unrecorded, faults>>
  BY DEF FindPending, database, receiver
<1>3. \A p \in Pairs : [stage |-> "queued", held |-> 0, secret |-> secret[p[1]]] \in TaskStates
  <2> SUFFICES ASSUME NEW p \in Pairs
               PROVE  [stage |-> "queued", held |-> 0, secret |-> secret[p[1]]] \in TaskStates
    OBVIOUS
  <2>1. p[1] \in Subs
    BY PairsAssumption
  <2>2. QED
    BY <2>1, ClockAssumption DEF IndInv, TypeOK, TaskStates
<1>4. NoTask \in TaskStates
  BY ClockAssumption, BoundAssumption DEF NoTask, TaskStates
<1>5. task' \in [Workers -> [Pairs -> TaskStates]]
  BY <1>1, <1>3, <1>4 DEF IndInv, TypeOK
<1>6. \A v \in Workers, p \in Pairs :
        \/ v # w /\ task'[v][p] = task[v][p]
        \/ v = w /\ task[v][p] = NoTask /\ task'[v][p].stage \in {"none", "queued"}
  <2>1. \A p \in Pairs : task[w][p] = NoTask
    BY DEF FindPending, IndInv, TasksInSweep
  <2>2. \A p \in Pairs : task'[w][p].stage \in {"none", "queued"}
    BY <1>1 DEF IndInv, TypeOK, NoTask
  <2>3. \A v \in Workers, p \in Pairs : v # w => task'[v][p] = task[v][p]
    BY <1>1 DEF IndInv, TypeOK
  <2>4. QED
    BY <2>1, <2>2, <2>3
<1>7. TypeOK'
  BY <1>2, <1>5 DEF IndInv, TypeOK, FindPending
<1>8. \A v \in Workers, p \in Pairs :
        /\ Live(v, p)' => Live(v, p) /\ task'[v][p] = task[v][p]
        /\ (task[v][p].stage = "ok")' <=> task[v][p].stage = "ok"
  BY <1>6 DEF Live, LiveStages, NoTask
<1>9. (SinglePoster /\ ClaimsHeld)'
  BY <1>2, <1>8 DEF IndInv, SinglePoster, ClaimsHeld
<1>10. TasksInSweep'
  <2>1. \A v \in Workers : v # w => pc'[v] = pc[v]
    BY DEF IndInv, TypeOK, FindPending
  <2>2. pc'[w] = "sweep"
    BY DEF IndInv, TypeOK, FindPending
  <2>3. \A p \in Pairs : task'[w][p].stage = "none" => task'[w][p] = NoTask
    BY <1>1 DEF IndInv, TypeOK, NoTask
  <2>4. QED
    BY <1>6, <2>1, <2>2, <2>3 DEF IndInv, TasksInSweep
<1>11. Accounted'
  <2>1. \A p \in Pairs : Known(p)' <=> Known(p)
    BY <1>2, <1>8 DEF Known
  <2>2. QED
    BY <1>2, <2>1 DEF IndInv, Accounted
<1>12. QED
  BY <1>7, <1>9, <1>10, <1>11, TasksGoOnNext DEF IndInv

(* The clock ages a live claim and the task that holds it alike. *)
LEMMA TickStep ==
  ASSUME IndInv, Tick
  PROVE  IndInv'
<1>1. UNCHANGED <<failedTxs, sub, secret, pc, received, unrecorded, faults>>
  BY DEF Tick, database, receiver
<1>2. ASSUME NEW v \in Workers, NEW p \in Pairs
      PROVE  /\ task'[v][p] \in TaskStates
             /\ task'[v][p].stage = task[v][p].stage
             /\ Live(v, p) => task'[v][p].held = task[v][p].held + 1
             /\ ~Live(v, p) => task'[v][p] = task[v][p]
  <2>1. task'[v][p] = IF Live(v, p) THEN [task[v][p] EXCEPT !.held = @ + 1] ELSE task[v][p]
    BY DEF Tick
  <2>2. task[v][p] \in TaskStates
    BY DEF IndInv, TypeOK
  <2>3. Live(v, p) => task[v][p].held < Hold
    BY DEF Tick
  <2>4. QED
    BY <2>1, <2>2, <2>3, ClockAssumption DEF TaskStates
<1>3. ASSUME NEW p \in Pairs
      PROVE  /\ ledger'[p] \in LedgerRows
             /\ ledger'[p].status = ledger[p].status
             /\ ledger[p].status = "claimed" /\ ledger[p].age <= StaleAfter
                  => ledger'[p].age = ledger[p].age + 1
  <2>1. ledger'[p] = IF ledger[p].status = "claimed" /\ ledger[p].age <= StaleAfter
                     THEN [ledger[p] EXCEPT !.age = @ + 1] ELSE ledger[p]
    BY DEF Tick
  <2>2. ledger[p] \in LedgerRows
    BY DEF IndInv, TypeOK
  <2>3. QED
    BY <2>1, <2>2, ClockAssumption DEF LedgerRows
<1>4. TypeOK'
  <2>1. task' \in [Workers -> [Pairs -> TaskStates]]
    BY <1>2 DEF Tick
  <2>2. ledger' \in [Pairs -> LedgerRows]
    BY <1>3 DEF Tick
  <2>3. QED
    BY <1>1, <2>1, <2>2 DEF IndInv, TypeOK
<1>5. SinglePoster'
  BY <1>2 DEF IndInv, SinglePoster, Live
<1>6. ClaimsHeld'
  <2> SUFFICES ASSUME NEW v \in Workers, NEW p \in Pairs, Live(v, p)'
               PROVE  ledger'[p] = [status |-> "claimed", age |-> task'[v][p].held]
    BY DEF ClaimsHeld
  <2>1. Live(v, p)
    BY <1>2 DEF Live
  <2>2. ledger[p] = [status |-> "claimed", age |-> task[v][p].held]
    BY <2>1 DEF IndInv, ClaimsHeld
  <2>3. task[v][p].held \in Nat /\ task[v][p].held < Hold
    BY <2>1, ClockAssumption DEF IndInv, TypeOK, TaskStates, Tick
  <2>4. ledger[p].status = "claimed" /\ ledger[p].age <= StaleAfter
    BY <2>2, <2>3, ClockAssumption
  <2>5. /\ ledger'[p].status = "claimed"
        /\ ledger'[p].age = task'[v][p].held
    BY <1>2, <1>3, <2>1, <2>2, <2>4
  <2>6. QED
    BY <1>3, <2>5 DEF LedgerRows
<1>7. TasksInSweep'
  <2> SUFFICES ASSUME NEW v \in Workers, NEW p \in Pairs,
                      pc'[v] # "sweep" \/ task'[v][p].stage = "none"
               PROVE  task'[v][p] = NoTask
    BY DEF TasksInSweep
  <2>1. task[v][p] = NoTask
    BY <1>1, <1>2 DEF IndInv, TasksInSweep
  <2>2. QED
    BY <1>2, <2>1 DEF Live, LiveStages, NoTask
<1>8. Accounted'
  <2>1. \A p \in Pairs : Known(p)' <=> Known(p)
    BY <1>2, <1>3 DEF Known
  <2>2. QED
    BY <1>1, <2>1 DEF IndInv, Accounted
<1>9. QED
  BY <1>4, <1>5, <1>6, <1>7, <1>8, TasksGoOnNext DEF IndInv

(* SetTask changes one task. *)
LEMMA OneTask ==
  ASSUME TypeOK, NEW w \in Workers, NEW p \in Pairs, NEW t \in TaskStates,
         SetTask(w, p, t)
  PROVE  /\ task' \in [Workers -> [Pairs -> TaskStates]]
         /\ task'[w][p] = t
         /\ \A v \in Workers, q \in Pairs : v # w \/ q # p => task'[v][q] = task[v][q]
BY DEF TypeOK, SetTask

(* A queued task ends without the pair: somebody else has it, or the       *)
(* statement of the claim has failed.                                      *)
LEMMA TaskLeft ==
  ASSUME IndInv, NEW w \in Workers, NEW p \in Pairs, task[w][p].stage = "queued",
         SetTask(w, p, NoTask), faults' \in 0 .. MaxFaults,
         UNCHANGED <<failedTxs, sub, secret, ledger, pc, received, unrecorded>>
  PROVE  IndInv'
<1>1. NoTask \in TaskStates
  BY ClockAssumption, BoundAssumption DEF NoTask, TaskStates
<1>2. /\ task' \in [Workers -> [Pairs -> TaskStates]]
      /\ task'[w][p] = NoTask
      /\ \A v \in Workers, q \in Pairs : v # w \/ q # p => task'[v][q] = task[v][q]
  BY <1>1, OneTask DEF IndInv
<1>3. TypeOK'
  BY <1>2 DEF IndInv, TypeOK
<1>4. \A v \in Workers, q \in Pairs :
        /\ Live(v, q)' => Live(v, q) /\ task'[v][q] = task[v][q]
        /\ (task[v][q].stage = "ok")' <=> task[v][q].stage = "ok"
  BY <1>2 DEF Live, LiveStages, NoTask
<1>5. (SinglePoster /\ ClaimsHeld)'
  BY <1>4 DEF IndInv, SinglePoster, ClaimsHeld
<1>6. TasksInSweep'
  BY <1>2 DEF IndInv, TasksInSweep
<1>7. \A q \in Pairs : Known(q)' <=> Known(q)
  BY <1>4 DEF Known
<1>8. Accounted'
  BY <1>7 DEF IndInv, Accounted
<1>9. QED
  BY <1>3, <1>5, <1>6, <1>8, TasksGoOnNext DEF IndInv

(* The statement of the claim fails. *)
LEMMA ClaimFailsStep ==
  ASSUME IndInv, NEW w \in Workers, NEW p \in Pairs, ClaimFails(w, p)
  PROVE  IndInv'
<1>1. faults' \in 0 .. MaxFaults
  BY BoundAssumption DEF IndInv, TypeOK, ClaimFails
<1>2. QED
  BY <1>1, TaskLeft DEF ClaimFails, database, receiver

(* A queued task gets the pair, if nobody holds it, or ends. *)
LEMMA TryClaimStep ==
  ASSUME IndInv, NEW w \in Workers, NEW p \in Pairs, TryClaim(w, p)
  PROVE  IndInv'
<1>1. UNCHANGED <<failedTxs, sub, secret, pc, received, unrecorded, faults>>
  BY DEF TryClaim, database, receiver
<1>2. TypeOK /\ ClaimsHeld /\ task[w][p] \in TaskStates /\ task[w][p].stage = "queued"
  BY DEF IndInv, TypeOK, TryClaim
<1>3. NoTask \in TaskStates
  BY ClockAssumption, BoundAssumption DEF NoTask, TaskStates
<1>4. pc[w] = "sweep"
  BY <1>2 DEF IndInv, TasksInSweep, NoTask
<1>5. CASE ~Claimable(p)
  BY <1>1, <1>2, <1>5, TaskLeft DEF TryClaim, IndInv, TypeOK
<1>6. CASE Claimable(p)
  <2> DEFINE t == [stage |-> "claimed", held |-> 0, secret |-> task[w][p].secret]
             r == [status |-> "claimed", age |-> 0]
  <2>1. SetTask(w, p, t) /\ ledger' = [ledger EXCEPT ![p] = r]
    BY <1>6 DEF TryClaim
  <2>2. t \in TaskStates /\ t.stage = "claimed" /\ t.held = 0
    BY <1>2, ClockAssumption DEF TaskStates, LiveStages
  <2> HIDE DEF t
  <2>3. /\ task' \in [Workers -> [Pairs -> TaskStates]]
        /\ task'[w][p] = t
        /\ \A v \in Workers, q \in Pairs : v # w \/ q # p => task'[v][q] = task[v][q]
    BY <1>2, <2>1, <2>2, OneTask
  <2>4. r \in LedgerRows
    BY ClockAssumption DEF LedgerRows
  <2>5. ledger' \in [Pairs -> LedgerRows] /\ ledger'[p] = r
        /\ \A q \in Pairs : q # p => ledger'[q] = ledger[q]
    BY <1>2, <2>1, <2>4 DEF TypeOK
  <2>6. TypeOK'
    BY <1>1, <2>3, <2>5 DEF IndInv, TypeOK
  <2>7. \A v \in Workers : ~Live(v, p)
    BY <1>2, <1>6, ClaimableIsFree
  <2>8. SinglePoster'
    BY <2>3, <2>7 DEF IndInv, SinglePoster, Live
  <2>10. ClaimsHeld'
    <3> SUFFICES ASSUME NEW v \in Workers, NEW q \in Pairs, Live(v, q)'
                 PROVE  ledger'[q] = [status |-> "claimed", age |-> task'[v][q].held]
      BY DEF ClaimsHeld
    <3>1. CASE q = p
      <4>1. v = w
        BY <2>3, <2>7, <3>1 DEF Live
      <4>2. QED
        BY <2>2, <2>3, <2>5, <3>1, <4>1
    <3>2. CASE q # p
      <4>1. Live(v, q) /\ task'[v][q] = task[v][q]
        BY <2>3, <3>2 DEF Live
      <4>2. QED
        BY <2>5, <3>2, <4>1 DEF IndInv, ClaimsHeld
    <3>3. QED
      BY <3>1, <3>2
  <2>11. TasksInSweep'
    BY <1>1, <1>4, <2>2, <2>3 DEF IndInv, TasksInSweep
  <2>12. \A q \in Pairs : Known(q)' <=> Known(q)
    <3>1. ledger[p].status # "delivered" /\ ledger'[p].status # "delivered"
      BY <1>6, <2>5 DEF Claimable
    <3>2. \A v \in Workers, q \in Pairs :
            (task[v][q].stage = "ok")' <=> task[v][q].stage = "ok"
      BY <1>2, <2>2, <2>3
    <3>3. QED
      BY <2>5, <3>1, <3>2 DEF Known
  <2>13. Accounted'
    BY <1>1, <2>12 DEF IndInv, Accounted
  <2>14. QED
    BY <2>6, <2>8, <2>10, <2>11, <2>13, TasksGoOnNext DEF IndInv
<1>7. QED
  BY <1>5, <1>6

(* A POST or the refusal of the URL: the task goes on with its claim.  An  *)
(* accepted POST is lost or known to the task.                             *)
LEMMA OutcomeStep ==
  ASSUME IndInv, NEW w \in Workers, NEW p \in Pairs, NEW s \in {"ok", "error"},
         task[w][p].stage = "claimed",
         SetTask(w, p, [task[w][p] EXCEPT !.stage = s]),
         UNCHANGED <<failedTxs, sub, secret, pc, ledger>>,
         faults' \in 0 .. MaxFaults,
         received' \in [Pairs -> Nat], unrecorded' \in [Pairs -> Nat],
         \A q \in Pairs : q # p => received'[q] = received[q] /\ unrecorded'[q] = unrecorded[q],
         received'[p] - unrecorded'[p] =
           received[p] - unrecorded[p] + (IF s = "ok" THEN 1 ELSE 0)
  PROVE  IndInv'
<1> DEFINE t == [task[w][p] EXCEPT !.stage = s]
<1>1. UNCHANGED <<failedTxs, sub, secret, pc, ledger>>
  OBVIOUS
<1>2. TypeOK /\ task[w][p] \in TaskStates /\ task[w][p].stage = "claimed"
  BY DEF IndInv, TypeOK
<1>3. SetTask(w, p, t)
  OBVIOUS
<1>4. t \in TaskStates /\ t.stage = s /\ t.held = task[w][p].held
  BY <1>2 DEF TaskStates, LiveStages
<1> HIDE DEF t
<1>5. /\ task' \in [Workers -> [Pairs -> TaskStates]]
      /\ task'[w][p] = t
      /\ \A v \in Workers, q \in Pairs : v # w \/ q # p => task'[v][q] = task[v][q]
  BY <1>2, <1>3, <1>4, OneTask
<1>6. TypeOK'
  BY <1>1, <1>5 DEF IndInv, TypeOK
<1>7. \A v \in Workers, q \in Pairs :
        Live(v, q)' <=> Live(v, q)
  BY <1>2, <1>4, <1>5 DEF Live, LiveStages
<1>8. \A v \in Workers, q \in Pairs : task'[v][q].held = task[v][q].held
  BY <1>4, <1>5
<1>9. (SinglePoster /\ ClaimsHeld)'
  BY <1>1, <1>7, <1>8 DEF IndInv, SinglePoster, ClaimsHeld
<1>10. TasksInSweep'
  <2>1. pc[w] = "sweep" /\ s # "none"
    BY <1>2 DEF IndInv, TasksInSweep, NoTask
  <2>2. QED
    BY <1>1, <1>4, <1>5, <2>1 DEF IndInv, TasksInSweep
<1>11. Accounted'
  <2> SUFFICES ASSUME NEW q \in Pairs
               PROVE  received'[q] = unrecorded'[q] + (IF Known(q)' THEN 1 ELSE 0)
    BY DEF Accounted
  <2>1. received[q] = unrecorded[q] + (IF Known(q) THEN 1 ELSE 0)
    BY DEF IndInv, Accounted
  <2>2. received[q] \in Nat /\ unrecorded[q] \in Nat /\ received'[q] \in Nat /\ unrecorded'[q] \in Nat
    BY <1>2 DEF TypeOK
  <2>3. CASE q # p
    <3>1. Known(q)' <=> Known(q)
      BY <1>1, <1>5, <2>3 DEF Known
    <3>2. QED
      BY <2>1, <2>3, <3>1
  <2>4. CASE q = p
    <3>1. ~Known(p)
      <4>1. Live(w, p)
        BY <1>2 DEF Live, LiveStages
      <4>2. ledger[p] = [status |-> "claimed", age |-> task[w][p].held]
        BY <4>1 DEF IndInv, ClaimsHeld
      <4>3. \A v \in Workers : task[v][p].stage # "ok"
        BY <1>2, <4>1 DEF IndInv, SinglePoster, Live, LiveStages
      <4>4. QED
        BY <4>2, <4>3 DEF Known
    <3>2. Known(p)' <=> s = "ok"
      BY <1>1, <1>4, <1>5, <3>1 DEF Known
    <3>3. QED
      BY <2>1, <2>2, <2>4, <3>1, <3>2
  <2>5. QED
    BY <2>3, <2>4
<1>12. QED
  BY <1>6, <1>9, <1>10, <1>11, TasksGoOnNext DEF IndInv

LEMMA PostStep ==
  ASSUME IndInv, NEW w \in Workers, NEW p \in Pairs,
         PostAccepted(w, p) \/ PostRefused(w, p) \/ PostAnswerLost(w, p) \/ RefuseUrl(w, p)
  PROVE  IndInv'
<1>1. received \in [Pairs -> Nat] /\ unrecorded \in [Pairs -> Nat] /\ faults \in 0 .. MaxFaults
  BY DEF IndInv, TypeOK
<1>2. CASE PostAccepted(w, p)
  <2>1. UNCHANGED <<failedTxs, sub, secret, pc, ledger, unrecorded, faults>>
    BY <1>2 DEF PostAccepted, database
  <2>2. received' = [received EXCEPT ![p] = @ + 1]
    BY <1>2 DEF PostAccepted
  <2>3. task[w][p].stage = "claimed" /\ SetTask(w, p, [task[w][p] EXCEPT !.stage = "ok"])
    BY <1>2 DEF PostAccepted
  <2>4. /\ received' \in [Pairs -> Nat] /\ unrecorded' \in [Pairs -> Nat]
        /\ \A q \in Pairs : q # p => received'[q] = received[q] /\ unrecorded'[q] = unrecorded[q]
        /\ received'[p] - unrecorded'[p] = received[p] - unrecorded[p] + 1
    BY <1>1, <2>1, <2>2
  <2>5. QED
    BY <1>1, <2>1, <2>3, <2>4, OutcomeStep
<1>3. CASE PostRefused(w, p) \/ PostAnswerLost(w, p) \/ RefuseUrl(w, p)
  <2>1. UNCHANGED <<failedTxs, sub, secret, pc, ledger>> /\ faults' \in 0 .. MaxFaults
    BY <1>1, <1>3, BoundAssumption DEF PostRefused, PostAnswerLost, RefuseUrl, database
  <2>2. task[w][p].stage = "claimed" /\ SetTask(w, p, [task[w][p] EXCEPT !.stage = "error"])
    BY <1>3 DEF PostRefused, PostAnswerLost, RefuseUrl
  <2>3. \/ UNCHANGED <<received, unrecorded>>
        \/ /\ received' = [received EXCEPT ![p] = @ + 1]
           /\ unrecorded' = [unrecorded EXCEPT ![p] = @ + 1]
    BY <1>3 DEF PostRefused, PostAnswerLost, RefuseUrl, receiver
  <2>4. /\ received' \in [Pairs -> Nat] /\ unrecorded' \in [Pairs -> Nat]
        /\ \A q \in Pairs : q # p => received'[q] = received[q] /\ unrecorded'[q] = unrecorded[q]
        /\ received'[p] - unrecorded'[p] = received[p] - unrecorded[p] + 0
    BY <1>1, <2>3
  <2>5. QED
    BY <2>1, <2>2, <2>4, OutcomeStep
<1>4. QED
  BY <1>2, <1>3

(* The task ends.  Its outcome is recorded, or, if the record fails, lost. *)
LEMMA RecordStep ==
  ASSUME IndInv, NEW w \in Workers, NEW p \in Pairs,
         Record(w, p) \/ RecordFails(w, p)
  PROVE  IndInv'
<1> DEFINE ok == task[w][p].stage = "ok"
<1>1. UNCHANGED <<failedTxs, sub, secret, pc, received>> /\ faults' \in 0 .. MaxFaults
  BY BoundAssumption DEF IndInv, TypeOK, Record, RecordFails, database, receiver
<1>2. TypeOK /\ task[w][p].stage \in {"ok", "error"} /\ SetTask(w, p, NoTask)
  BY DEF IndInv, Record, RecordFails
<1>3. NoTask \in TaskStates
  BY ClockAssumption, BoundAssumption DEF NoTask, TaskStates
<1>4. /\ task' \in [Workers -> [Pairs -> TaskStates]]
      /\ task'[w][p] = NoTask
      /\ \A v \in Workers, q \in Pairs : v # w \/ q # p => task'[v][q] = task[v][q]
  BY <1>2, <1>3, OneTask
<1>5. \A v \in Workers : v # w => ~Live(v, p)
  BY <1>2 DEF IndInv, SinglePoster, Live, LiveStages
<1>6. \A v \in Workers, q \in Pairs :
        Live(v, q)' => Live(v, q) /\ q # p /\ task'[v][q] = task[v][q]
  BY <1>4, <1>5 DEF Live, LiveStages, NoTask
<1>7. /\ ledger' \in [Pairs -> LedgerRows]
      /\ \A q \in Pairs : q # p => ledger'[q] = ledger[q]
  <2>1. CASE Record(w, p)
    <3>1. [status |-> Outcome(task[w][p].stage), age |-> 0] \in LedgerRows
      BY ClockAssumption DEF LedgerRows, Outcome
    <3>2. QED
      BY <1>2, <2>1, <3>1 DEF TypeOK, Record
  <2>2. CASE RecordFails(w, p)
    BY <1>2, <2>2 DEF TypeOK, RecordFails
  <2>3. QED
    BY <2>1, <2>2
<1>8. ledger[p].status = "claimed"
  <2>1. Live(w, p)
    BY <1>2 DEF Live, LiveStages
  <2>2. ledger[p] = [status |-> "claimed", age |-> task[w][p].held]
    BY <2>1 DEF IndInv, ClaimsHeld
  <2>3. QED
    BY <2>2
<1>9. /\ unrecorded' \in [Pairs -> Nat]
      /\ \A q \in Pairs : q # p => unrecorded'[q] = unrecorded[q]
      /\ ledger'[p].status = "delivered" =>
             ok /\ unrecorded'[p] = unrecorded[p]
      /\ ledger'[p].status # "delivered" =>
             unrecorded'[p] = unrecorded[p] + (IF ok THEN 1 ELSE 0)
  <2>1. CASE Record(w, p)
    <3>1. unrecorded' = unrecorded
      BY <2>1 DEF Record, receiver
    <3>2. ledger'[p] = [status |-> Outcome(task[w][p].stage), age |-> 0]
      BY <1>2, <2>1 DEF TypeOK, Record
    <3>3. ledger'[p].status = Outcome(task[w][p].stage)
      BY <3>2
    <3>4. ledger'[p].status = "delivered" <=> ok
      BY <3>3 DEF Outcome
    <3>5. QED
      BY <1>2, <3>1, <3>4 DEF TypeOK
  <2>2. CASE RecordFails(w, p)
    <3>1. ledger' = ledger
      BY <2>2 DEF RecordFails
    <3>2. unrecorded' = [unrecorded EXCEPT ![p] = IF ok THEN @ + 1 ELSE @]
      BY <2>2 DEF RecordFails
    <3>3. QED
      BY <1>2, <1>8, <3>1, <3>2 DEF TypeOK
  <2>3. QED
    BY <2>1, <2>2
<1>10. TypeOK'
  BY <1>1, <1>4, <1>7, <1>9 DEF IndInv, TypeOK
<1>11. (SinglePoster /\ ClaimsHeld)'
  <2>1. SinglePoster'
    BY <1>6 DEF IndInv, SinglePoster
  <2>2. ASSUME NEW v \in Workers, NEW q \in Pairs, Live(v, q)'
        PROVE  ledger'[q] = [status |-> "claimed", age |-> task'[v][q].held]
    <3>1. Live(v, q) /\ q # p /\ task'[v][q] = task[v][q]
      BY <1>6, <2>2
    <3>2. QED
      BY <1>7, <3>1 DEF IndInv, ClaimsHeld
  <2>3. QED
    BY <2>1, <2>2 DEF ClaimsHeld
<1>12. TasksInSweep'
  BY <1>1, <1>4 DEF IndInv, TasksInSweep
<1>13. Accounted'
  <2> SUFFICES ASSUME NEW q \in Pairs
               PROVE  received'[q] = unrecorded'[q] + (IF Known(q)' THEN 1 ELSE 0)
    BY DEF Accounted
  <2>1. received[q] = unrecorded[q] + (IF Known(q) THEN 1 ELSE 0)
    BY DEF IndInv, Accounted
  <2>2. CASE q # p
    <3>1. Known(q)' <=> Known(q)
      BY <1>4, <1>7, <2>2 DEF Known
    <3>2. QED
      BY <1>1, <1>9, <2>1, <2>2, <3>1
  <2>3. CASE q = p
    <3>1. Known(p) <=> ok
      BY <1>5, <1>8 DEF Known, Live, LiveStages
    <3>2. Known(p)' <=> ledger'[p].status = "delivered"
      BY <1>4, <1>5 DEF Known, Live, LiveStages, NoTask
    <3>3. received'[p] = received[p] /\ unrecorded[p] \in Nat
      BY <1>1, <1>2 DEF TypeOK
    <3>4. QED
      BY <1>9, <2>1, <2>3, <3>1, <3>2, <3>3
  <2>4. QED
    BY <2>2, <2>3
<1>14. QED
  BY <1>10, <1>11, <1>12, <1>13, TasksGoOnNext DEF IndInv

(* A dispatcher dies; what its tasks knew is lost. *)
LEMMA CrashStep ==
  ASSUME IndInv, NEW w \in Workers, Crash(w)
  PROVE  IndInv'
<1>1. UNCHANGED <<failedTxs, sub, secret, ledger, received>> /\ faults' \in 0 .. MaxFaults
  BY BoundAssumption DEF IndInv, TypeOK, Crash, database
<1>2. NoTask \in TaskStates
  BY ClockAssumption, BoundAssumption DEF NoTask, TaskStates
<1>3. /\ task' \in [Workers -> [Pairs -> TaskStates]]
      /\ \A p \in Pairs : task'[w][p] = NoTask
      /\ \A v \in Workers, p \in Pairs : v # w => task'[v][p] = task[v][p]
  BY <1>2 DEF IndInv, TypeOK, Crash
<1>4. /\ pc' \in [Workers -> {"down", "find", "sweep", "idle"}]
      /\ \A v \in Workers : v # w => pc'[v] = pc[v]
  BY DEF IndInv, TypeOK, Crash
<1>5. /\ unrecorded' \in [Pairs -> Nat]
      /\ \A p \in Pairs : unrecorded'[p] =
             unrecorded[p] + (IF task[w][p].stage = "ok" THEN 1 ELSE 0)
  BY DEF IndInv, TypeOK, Crash
<1>6. TypeOK'
  BY <1>1, <1>3, <1>4, <1>5 DEF IndInv, TypeOK
<1>7. \A v \in Workers, p \in Pairs :
        Live(v, p)' => Live(v, p) /\ task'[v][p] = task[v][p]
  BY <1>3 DEF Live, LiveStages, NoTask
<1>8. (SinglePoster /\ ClaimsHeld)'
  BY <1>1, <1>7 DEF IndInv, SinglePoster, ClaimsHeld
<1>9. TasksInSweep'
  BY <1>3, <1>4 DEF IndInv, TasksInSweep
<1>10. Accounted'
  <2> SUFFICES ASSUME NEW p \in Pairs
               PROVE  received'[p] = unrecorded'[p] + (IF Known(p)' THEN 1 ELSE 0)
    BY DEF Accounted
  <2>1. received[p] = unrecorded[p] + (IF Known(p) THEN 1 ELSE 0) /\ unrecorded[p] \in Nat
    BY DEF IndInv, TypeOK, Accounted
  <2>2. CASE task[w][p].stage = "ok"
    <3>1. Live(w, p)
      BY <2>2 DEF Live, LiveStages
    <3>2. ledger[p] = [status |-> "claimed", age |-> task[w][p].held]
      BY <3>1 DEF IndInv, ClaimsHeld
    <3>3. \A v \in Workers : v # w => task[v][p].stage # "ok"
      BY <3>1 DEF IndInv, SinglePoster, Live, LiveStages
    <3>4. Known(p) /\ ~Known(p)'
      BY <1>1, <1>3, <2>2, <3>2, <3>3 DEF Known, NoTask
    <3>5. QED
      BY <1>1, <1>5, <2>1, <2>2, <3>4
  <2>3. CASE task[w][p].stage # "ok"
    <3>1. Known(p)' <=> Known(p)
      BY <1>1, <1>3, <2>3 DEF Known, NoTask
    <3>2. QED
      BY <1>1, <1>5, <2>1, <2>3, <3>1
  <2>4. QED
    BY <2>2, <2>3
<1>11. QED
  BY <1>6, <1>8, <1>9, <1>10, TasksGoOnNext DEF IndInv

(* Every step keeps the invariant. *)
LEMMA NextIndInv ==
  ASSUME IndInv, [Next]_vars
  PROVE  IndInv'
<1>1. CASE \/ \E t \in Txs : StoreFailedTx(t) \/ RollBack(t)
           \/ \E s \in Subs : CreateSubscription(s) \/ DeactivateSubscription(s)
                            \/ RotateSecret(s)
  BY <1>1, DatabaseStep
<1>2. CASE Tick
  BY <1>2, TickStep
<1>3. ASSUME NEW w \in Workers,
             Start(w) \/ SweepDone(w) \/ Wake(w) \/ Interrupt(w)
      PROVE  IndInv'
  BY <1>3, LoopStep
<1>4. ASSUME NEW w \in Workers, FindPending(w) PROVE IndInv'
  BY <1>4, FindStep
<1>5. ASSUME NEW w \in Workers, Crash(w) PROVE IndInv'
  BY <1>5, CrashStep
<1>6. ASSUME NEW w \in Workers, NEW p \in Pairs, TaskStep(w, p) \/ TaskFault(w, p)
      PROVE  IndInv'
  BY <1>6, TryClaimStep, ClaimFailsStep, PostStep, RecordStep DEF TaskStep, TaskFault
<1>7. CASE UNCHANGED vars
  BY <1>7, QuietStep DEF IndInv, TypeOK, vars, database, receiver
<1>8. QED
  BY <1>1, <1>2, <1>3, <1>4, <1>5, <1>6, <1>7 DEF Next

-----------------------------------------------------------------------------
(* The end of a sweep *)

(* The stages of a task, in numbers.                                       *)
LEMMA StepsOfStage ==
  ASSUME NEW w \in Workers, NEW p \in Pairs
  PROVE  /\ task[w][p].stage = "queued" => StepsLeft(w, p) = 3
         /\ task[w][p].stage = "claimed" => StepsLeft(w, p) = 2
         /\ task[w][p].stage \in {"ok", "error"} => StepsLeft(w, p) = 1
         /\ task[w][p].stage = "none" => StepsLeft(w, p) = 0
BY DEF StepsLeft

LEMMA StepsOfStageNext ==
  ASSUME NEW w \in Workers, NEW p \in Pairs
  PROVE  /\ task'[w][p].stage = "claimed" => StepsLeft(w, p)' = 2
         /\ task'[w][p].stage \in {"ok", "error"} => StepsLeft(w, p)' = 1
         /\ task'[w][p].stage = "none" => StepsLeft(w, p)' = 0
         /\ task'[w][p].stage = task[w][p].stage => StepsLeft(w, p)' = StepsLeft(w, p)
BY DEF StepsLeft

(* A step of a task changes only that task, and leaves it less to do.      *)
LEMMA TaskLeavesLess ==
  ASSUME TypeOK, NEW w \in Workers, NEW p \in Pairs,
         TaskStep(w, p) \/ TaskFault(w, p)
  PROVE  /\ StepsLeft(w, p)' \in 0 .. 2
         /\ StepsLeft(w, p)' < StepsLeft(w, p)
         /\ \A v \in Workers, q \in Pairs :
               v # w \/ q # p => task'[v][q] = task[v][q]
<1> DEFINE claim == [stage |-> "claimed", held |-> 0, secret |-> task[w][p].secret]
           ok == [task[w][p] EXCEPT !.stage = "ok"]
           error == [task[w][p] EXCEPT !.stage = "error"]
<1>1. task[w][p] \in TaskStates
  BY DEF TypeOK
<1>2. {claim, ok, error, NoTask} \subseteq TaskStates
  BY <1>1, ClockAssumption, BoundAssumption DEF TaskStates, LiveStages, NoTask
<1>3. CASE TryClaim(w, p) \/ ClaimFails(w, p)
  <2>1. PICK t \in {claim, NoTask} : SetTask(w, p, t)
    BY <1>3 DEF TryClaim, ClaimFails
  <2>2. task[w][p].stage = "queued" /\ t.stage \in {"claimed", "none"}
    BY <1>3, <2>1 DEF TryClaim, ClaimFails, NoTask
  <2>3. QED
    BY <1>2, <2>1, <2>2, OneTask, StepsOfStage, StepsOfStageNext
<1>4. CASE PostAccepted(w, p) \/ RefuseUrl(w, p) \/ PostRefused(w, p) \/ PostAnswerLost(w, p)
  <2>1. PICK t \in {ok, error} : SetTask(w, p, t)
    BY <1>4 DEF PostAccepted, RefuseUrl, PostRefused, PostAnswerLost
  <2>2. task[w][p].stage = "claimed" /\ t.stage \in {"ok", "error"}
    BY <1>1, <1>4, <2>1 DEF PostAccepted, RefuseUrl, PostRefused, PostAnswerLost, TaskStates
  <2>3. QED
    BY <1>2, <2>1, <2>2, OneTask, StepsOfStage, StepsOfStageNext
<1>5. CASE Record(w, p) \/ RecordFails(w, p)
  <2>1. SetTask(w, p, NoTask) /\ task[w][p].stage \in {"ok", "error"}
    BY <1>5 DEF Record, RecordFails
  <2>2. NoTask.stage = "none"
    BY DEF NoTask
  <2>3. QED
    BY <1>2, <2>1, <2>2, OneTask, StepsOfStage, StepsOfStageNext
<1>6. QED
  BY <1>3, <1>4, <1>5 DEF TaskStep, TaskFault

(* No other step gives a task of a sweep more to do.                       *)
LEMMA SweepGetsNoMore ==
  ASSUME TypeOK, [Next]_vars, NEW w \in Workers, NEW p \in Pairs, pc[w] = "sweep"
  PROVE  StepsLeft(w, p)' <= StepsLeft(w, p)
<1>1. task[w][p].stage \in {"none", "queued", "claimed", "ok", "error"}
  BY DEF TypeOK, TaskStates, LiveStages
<1>2. StepsLeft(w, p) \in 0 .. 3
  BY <1>1, StepsOfStage
<1>3. task'[w][p].stage = task[w][p].stage => StepsLeft(w, p)' <= StepsLeft(w, p)
  BY <1>2, StepsOfStageNext
<1>4. CASE UNCHANGED task
  BY <1>3, <1>4
<1>5. CASE Tick
  <2>1. task'[w][p].stage = task[w][p].stage
    BY <1>5 DEF Tick, TypeOK, TaskStates
  <2>2. QED
    BY <1>3, <2>1
<1>6. ASSUME NEW v \in Workers, FindPending(v)
      PROVE  StepsLeft(w, p)' <= StepsLeft(w, p)
  <2>1. v # w
    BY <1>6 DEF FindPending
  <2>2. task'[w][p] = task[w][p]
    BY <1>6, <2>1 DEF FindPending, TypeOK
  <2>3. QED
    BY <1>3, <2>2
<1>7. ASSUME NEW v \in Workers, Crash(v)
      PROVE  StepsLeft(w, p)' <= StepsLeft(w, p)
  <2>1. task'[w][p] = task[w][p] \/ task'[w][p].stage = "none"
    BY <1>7 DEF Crash, TypeOK, NoTask
  <2>2. QED
    BY <1>2, <1>3, <2>1, StepsOfStageNext
<1>8. ASSUME NEW v \in Workers, NEW q \in Pairs, TaskStep(v, q) \/ TaskFault(v, q)
      PROVE  StepsLeft(w, p)' <= StepsLeft(w, p)
  <2>1. CASE v = w /\ q = p
    <3>1. StepsLeft(w, p)' \in 0 .. 2 /\ StepsLeft(w, p)' < StepsLeft(w, p)
      BY <1>8, <2>1, TaskLeavesLess
    <3>2. QED
      BY <1>2, <3>1
  <2>2. CASE v # w \/ q # p
    BY <1>3, <1>8, <2>2, TaskLeavesLess
  <2>3. QED
    BY <2>1, <2>2
<1>9. QED
  BY <1>4, <1>5, <1>6, <1>7, <1>8
  DEF Next, vars, StoreFailedTx, RollBack, CreateSubscription, DeactivateSubscription,
      RotateSecret, Start, SweepDone, Wake, Interrupt

-----------------------------------------------------------------------------
(* The theorems *)

(* IndInv holds in every reachable state, for any constants that satisfy   *)
(* the assumptions (alerts.rs:237-395, queries.rs:998-1070 and 1428-1467). *)
THEOREM Invariance == Spec => []IndInv
<1>1. IndInv /\ [Next]_vars => IndInv'
  BY NextIndInv
<1>2. QED
  BY <1>1, InitIndInv, PTL DEF Spec

(* No two dispatchers ever hold one pair, whatever their number, as long   *)
(* as a task records before its claim is stale (queries.rs:1428-1467).     *)
THEOREM OnePoster == Spec => []SinglePoster
<1>1. IndInv => SinglePoster
  BY DEF IndInv
<1>2. QED
  BY <1>1, Invariance, PTL

(* A receiver sees at most one POST more than those whose success was lost *)
(* (alerts.rs:237-337).                                                    *)
THEOREM DuplicatesBounded == Spec => []DuplicatesOnlyByLoss
<1>1. IndInv => DuplicatesOnlyByLoss
  BY DEF IndInv, TypeOK, Accounted, DuplicatesOnlyByLoss
<1>2. QED
  BY <1>1, Invariance, PTL

(* What is recorded as delivered is never claimed or overwritten again     *)
(* (queries.rs:1036-1070 overwrites any row; the claims keep it away).     *)
THEOREM DeliveredFinal == Spec => DeliveredIsFinal
<1>1. IndInv /\ [Next]_vars =>
        \A p \in Pairs : ledger[p].status = "delivered" => ledger'[p].status = "delivered"
  <2> SUFFICES ASSUME IndInv, [Next]_vars, NEW p \in Pairs, ledger[p].status = "delivered"
               PROVE  ledger'[p].status = "delivered"
    OBVIOUS
  <2>1. ledger \in [Pairs -> LedgerRows]
    BY DEF IndInv, TypeOK
  <2>2. \A w \in Workers : ~Live(w, p)
    <3> SUFFICES ASSUME NEW w \in Workers, Live(w, p) PROVE FALSE
      OBVIOUS
    <3>1. ledger[p] = [status |-> "claimed", age |-> task[w][p].held]
      BY DEF IndInv, ClaimsHeld
    <3>2. QED
      BY <3>1
  <2>3. CASE UNCHANGED ledger
    BY <2>3
  <2>4. CASE Tick
    BY <2>1, <2>4 DEF Tick
  <2>5. ASSUME NEW w \in Workers, NEW q \in Pairs, TryClaim(w, q), ~(UNCHANGED ledger)
        PROVE  ledger'[p].status = "delivered"
    <3>1. Claimable(q) /\ ledger' = [ledger EXCEPT ![q] = [status |-> "claimed", age |-> 0]]
      BY <2>5 DEF TryClaim
    <3>2. q # p
      BY <3>1 DEF Claimable
    <3>3. QED
      BY <2>1, <3>1, <3>2
  <2>6. ASSUME NEW w \in Workers, NEW q \in Pairs, Record(w, q)
        PROVE  ledger'[p].status = "delivered"
    <3>1. q # p
      BY <2>2, <2>6 DEF Record, Live, LiveStages
    <3>2. QED
      BY <2>1, <2>6, <3>1 DEF Record
  <2>7. \/ UNCHANGED ledger
        \/ Tick
        \/ \E w \in Workers, q \in Pairs : TryClaim(w, q) \/ Record(w, q)
    BY DEF Next, vars, StoreFailedTx, RollBack, CreateSubscription,
       DeactivateSubscription, RotateSecret, Start, FindPending, SweepDone, Wake,
       Interrupt, Crash, TaskStep, TaskFault, PostAccepted, PostRefused,
       PostAnswerLost, RefuseUrl, RecordFails, ClaimFails
  <2>8. QED
    BY <2>3, <2>4, <2>5, <2>6, <2>7
<1>2. QED
  BY <1>1, Invariance, PTL DEF Spec, DeliveredIsFinal

-----------------------------------------------------------------------------
(* The refinement of AlertLedger *)

(* The place of a pair by the stage of the task that holds it. *)
PlaceOf(stage) ==
  IF stage = "ok" THEN "sent" ELSE IF stage = "error" THEN "failed" ELSE "taken"

(* A held pair is where its one task has brought it; any other is either   *)
(* delivered or open.                                                      *)
PlacesHold ==
  \A p \in Pairs :
    /\ \A w \in Workers : Live(w, p) =>
         ledger[p].status = "claimed" /\ Delivery[p] = PlaceOf(task[w][p].stage)
    /\ (\A w \in Workers : ~Live(w, p)) =>
         Delivery[p] = IF ledger[p].status = "delivered" THEN "delivered" ELSE "open"

LEMMA Places == IndInv => PlacesHold
<1> SUFFICES ASSUME IndInv, NEW p \in Pairs
             PROVE  /\ \A w \in Workers : Live(w, p) =>
                         /\ ledger[p].status = "claimed"
                         /\ Delivery[p] = PlaceOf(task[w][p].stage)
                    /\ (\A w \in Workers : ~Live(w, p)) =>
                         Delivery[p] = IF ledger[p].status = "delivered"
                                       THEN "delivered" ELSE "open"
  BY DEF PlacesHold
<1>1. ASSUME NEW w \in Workers, Live(w, p)
      PROVE  ledger[p].status = "claimed" /\ Delivery[p] = PlaceOf(task[w][p].stage)
  <2>1. ledger[p].status = "claimed"
    <3>1. ledger[p] = [status |-> "claimed", age |-> task[w][p].held]
      BY <1>1 DEF IndInv, ClaimsHeld
    <3>2. QED
      BY <3>1
  <2>2. \A v \in Workers : Live(v, p) => v = w
    BY <1>1 DEF IndInv, SinglePoster
  <2>3. \A s \in LiveStages : At(s, p) <=> task[w][p].stage = s
    BY <2>2 DEF At, Live
  <2>4. task[w][p].stage \in LiveStages
    BY <1>1 DEF Live
  <2>5. QED
    BY <2>1, <2>3, <2>4 DEF Delivery, PlaceOf, LiveStages
<1>2. ASSUME \A w \in Workers : ~Live(w, p)
      PROVE  Delivery[p] = IF ledger[p].status = "delivered" THEN "delivered" ELSE "open"
  BY <1>2 DEF Delivery, At, Live, LiveStages
<1>3. QED
  BY <1>1, <1>2

LEMMA DeliveryType == Delivery \in [Pairs -> Promise!Deliveries]
BY DEF Delivery, Promise!Deliveries

(* A pair whose live tasks and whose delivery a step leaves alone.         *)
LEMMA KeptPlace ==
  ASSUME NEW p \in Pairs,
         \A w \in Workers, s \in LiveStages : task'[w][p].stage = s <=> task[w][p].stage = s,
         ledger'[p].status = "delivered" <=> ledger[p].status = "delivered"
  PROVE  Delivery'[p] = Delivery[p]
<1>1. \A s \in LiveStages : At(s, p)' <=> At(s, p)
  BY DEF At
<1>2. QED
  BY <1>1 DEF Delivery, LiveStages

(* A pair that no POST, record or loss of the step is about rests.         *)
LEMMA KeptPair ==
  ASSUME TypeOK, NEW p \in Pairs, Delivery'[p] = Delivery[p],
         received'[p] = received[p], unrecorded'[p] = unrecorded[p]
  PROVE  Promise!Step(p)
BY DEF TypeOK, Promise!Step, Promise!Rest, Promise!Move

(* Steps that change no live task, no count and no delivery.               *)
LEMMA QuietPairs ==
  ASSUME IndInv, [Next]_vars,
         \A w \in Workers, p \in Pairs, s \in LiveStages :
             task'[w][p].stage = s <=> task[w][p].stage = s,
         \A p \in Pairs : ledger'[p].status = ledger[p].status,
         UNCHANGED <<received, unrecorded>>
  PROVE  \A p \in Pairs : Promise!Step(p)
BY KeptPlace, KeptPair DEF IndInv

(* What a dispatcher that dies does to one pair. *)
LEMMA CrashPair ==
  ASSUME IndInv, IndInv', NEW w \in Workers, Crash(w), NEW p \in Pairs
  PROVE  Promise!Step(p)
<1>1. UNCHANGED <<ledger, received>> /\ unrecorded \in [Pairs -> Nat]
      /\ received \in [Pairs -> Nat]
  BY DEF IndInv, TypeOK, Crash
<1>2. /\ \A q \in Pairs : task'[w][q] = NoTask
      /\ \A v \in Workers, q \in Pairs : v # w => task'[v][q] = task[v][q]
  BY DEF IndInv, TypeOK, Crash
<1>3. unrecorded'[p] = unrecorded[p] + (IF task[w][p].stage = "ok" THEN 1 ELSE 0)
  BY DEF IndInv, TypeOK, Crash
<1>4. CASE Live(w, p)
  <2>1. ledger[p].status = "claimed" /\ Delivery[p] = PlaceOf(task[w][p].stage)
    BY <1>4, Places DEF PlacesHold
  <2>2. \A v \in Workers : ~Live(v, p)'
    BY <1>2, <1>4 DEF IndInv, SinglePoster, Live, LiveStages, NoTask
  <2>3. Delivery'[p] = "open"
    <3>1. (IndInv => PlacesHold)'
      BY Places, PTL
    <3>2. QED
      BY <1>1, <2>1, <2>2, <3>1 DEF PlacesHold
  <2>4. task[w][p].stage \in LiveStages
    BY <1>4 DEF Live
  <2>5. QED
    BY <1>1, <1>3, <2>1, <2>3, <2>4
       DEF PlaceOf, LiveStages, Promise!Step, Promise!Lose, Promise!LetGo, Promise!Move
<1>5. CASE ~Live(w, p)
  <2>1. \A v \in Workers, s \in LiveStages : task'[v][p].stage = s <=> task[v][p].stage = s
    BY <1>2, <1>5 DEF Live, LiveStages, NoTask
  <2>2. unrecorded'[p] = unrecorded[p]
    BY <1>1, <1>3, <1>5 DEF Live, LiveStages
  <2>3. QED
    BY <1>1, <2>1, <2>2, KeptPlace, KeptPair DEF IndInv
<1>6. QED
  BY <1>4, <1>5

(* What a step of one task does to its own pair and to the others.         *)
LEMMA TaskPair ==
  ASSUME IndInv, IndInv', NEW w \in Workers, NEW q \in Pairs,
         TaskStep(w, q) \/ TaskFault(w, q), NEW p \in Pairs
  PROVE  Promise!Step(p)
<1>1. /\ \A v \in Workers, r \in Pairs : v # w \/ r # q => task'[v][r] = task[v][r]
      /\ \A r \in Pairs : r # q => /\ ledger'[r] = ledger[r]
                                   /\ received'[r] = received[r]
                                   /\ unrecorded'[r] = unrecorded[r]
  BY DEF IndInv, TypeOK, TaskStep, TaskFault, TryClaim, PostAccepted, PostRefused,
         PostAnswerLost, RefuseUrl, Record, RecordFails, ClaimFails, SetTask, receiver
<1>2. CASE p # q
  BY <1>1, <1>2, KeptPlace, KeptPair DEF IndInv
<1>3. CASE p = q
  <2>1. /\ task \in [Workers -> [Pairs -> TaskStates]] /\ ledger \in [Pairs -> LedgerRows]
        /\ received \in [Pairs -> Nat] /\ unrecorded \in [Pairs -> Nat]
    BY DEF IndInv, TypeOK
  <2>2. /\ \A v \in Workers : Live(v, p) =>
             ledger[p].status = "claimed" /\ Delivery[p] = PlaceOf(task[v][p].stage)
        /\ (\A v \in Workers : ~Live(v, p)) =>
             Delivery[p] = IF ledger[p].status = "delivered" THEN "delivered" ELSE "open"
    BY Places DEF PlacesHold
  <2>3. /\ \A v \in Workers : Live(v, p)' =>
             Delivery'[p] = PlaceOf(task'[v][p].stage)
        /\ (\A v \in Workers : ~Live(v, p)') =>
             Delivery'[p] = IF ledger'[p].status = "delivered" THEN "delivered" ELSE "open"
    <3>1. (IndInv => PlacesHold)'
      BY Places, PTL
    <3>2. QED
      BY <3>1 DEF PlacesHold
  <2>4. CASE TryClaim(w, q)
    <3>1. UNCHANGED <<received, unrecorded>>
      BY <2>4 DEF TryClaim, receiver
    <3>2. CASE Claimable(p)
      <4>1. \A v \in Workers : ~Live(v, p)
        BY <3>2, ClaimableIsFree DEF IndInv
      <4>2. Delivery[p] = "open"
        BY <2>2, <3>2, <4>1 DEF Claimable
      <4>3. task'[w][p].stage = "claimed"
        BY <1>3, <2>1, <2>4, <3>2 DEF TryClaim, SetTask
      <4>4. Delivery'[p] = "taken"
        BY <2>3, <4>3 DEF Live, LiveStages, PlaceOf
      <4>5. QED
        BY <2>1, <3>1, <4>2, <4>4 DEF Promise!Step, Promise!Take, Promise!Move
    <3>3. CASE ~Claimable(p)
      <4>1. UNCHANGED ledger /\ task[w][p].stage = "queued" /\ task'[w][p].stage = "none"
        BY <1>3, <2>1, <2>4, <3>3 DEF TryClaim, SetTask, NoTask
      <4>2. QED
        BY <1>1, <1>3, <3>1, <4>1, KeptPlace, KeptPair DEF IndInv, LiveStages
    <3>4. QED
      BY <3>2, <3>3
  <2>5. CASE PostAccepted(w, q) \/ PostRefused(w, q) \/ PostAnswerLost(w, q) \/ RefuseUrl(w, q)
    <3>1. task[w][p].stage = "claimed"
      BY <1>3, <2>5 DEF PostAccepted, PostRefused, PostAnswerLost, RefuseUrl
    <3>2. Delivery[p] = "taken"
      BY <2>2, <3>1 DEF Live, LiveStages, PlaceOf
    <3>3. CASE PostAccepted(w, q)
      <4>1. task'[w][p].stage = "ok" /\ received'[p] = received[p] + 1
            /\ unrecorded'[p] = unrecorded[p]
        BY <1>3, <2>1, <3>3 DEF PostAccepted, SetTask, TaskStates
      <4>2. Delivery'[p] = "sent"
        BY <2>3, <4>1 DEF Live, LiveStages, PlaceOf
      <4>3. QED
        BY <2>1, <3>2, <4>1, <4>2 DEF Promise!Step, Promise!Accept, Promise!Move
    <3>4. CASE ~PostAccepted(w, q)
      <4>1. task'[w][p].stage = "error"
        BY <1>3, <2>1, <2>5, <3>4 DEF PostRefused, PostAnswerLost, RefuseUrl, SetTask, TaskStates
      <4>2. Delivery'[p] = "failed"
        BY <2>3, <4>1 DEF Live, LiveStages, PlaceOf
      <4>3. \/ received'[p] = received[p] /\ unrecorded'[p] = unrecorded[p]
            \/ received'[p] = received[p] + 1 /\ unrecorded'[p] = unrecorded[p] + 1
        BY <1>3, <2>1, <2>5, <3>4 DEF PostRefused, PostAnswerLost, RefuseUrl, receiver
      <4>4. QED
        BY <2>1, <3>2, <4>2, <4>3
           DEF Promise!Step, Promise!Refuse, Promise!AcceptUnheard, Promise!Move
    <3>5. QED
      BY <3>3, <3>4
  <2>6. CASE Record(w, q) \/ RecordFails(w, q)
    <3>1. task[w][p].stage \in {"ok", "error"} /\ task'[w][p].stage = "none"
          /\ received'[p] = received[p]
      BY <1>3, <2>1, <2>6 DEF Record, RecordFails, SetTask, NoTask, receiver
    <3>2. Live(w, p)
      BY <3>1 DEF Live, LiveStages
    <3>3. ledger[p].status = "claimed" /\ Delivery[p] = PlaceOf(task[w][p].stage)
      BY <2>2, <3>2
    <3>4. \A v \in Workers : ~Live(v, p)'
      BY <1>1, <3>1, <3>2 DEF IndInv, SinglePoster, Live, LiveStages
    <3>5. CASE Record(w, q)
      <4>1. ledger'[p].status = Outcome(task[w][p].stage) /\ unrecorded'[p] = unrecorded[p]
        BY <1>3, <2>1, <3>5 DEF Record, receiver
      <4>2. Delivery'[p] = IF task[w][p].stage = "ok" THEN "delivered" ELSE "open"
        BY <2>3, <3>4, <4>1 DEF Outcome
      <4>3. QED
        BY <2>1, <3>1, <3>3, <4>1, <4>2
           DEF PlaceOf, Promise!Step, Promise!Deliver, Promise!LetGo, Promise!Move
    <3>6. CASE RecordFails(w, q)
      <4>1. /\ ledger' = ledger
            /\ unrecorded'[p] = IF task[w][p].stage = "ok" THEN unrecorded[p] + 1
                                ELSE unrecorded[p]
        BY <1>3, <2>1, <3>6 DEF RecordFails
      <4>2. Delivery'[p] = "open"
        BY <2>3, <3>3, <3>4, <4>1
      <4>3. QED
        BY <2>1, <3>1, <3>3, <4>1, <4>2
           DEF PlaceOf, Promise!Step, Promise!Lose, Promise!LetGo, Promise!Move
    <3>7. QED
      BY <2>6, <3>5, <3>6
  <2>7. CASE ClaimFails(w, q)
    <3>1. /\ task[w][p].stage = "queued" /\ task'[w][p].stage = "none"
          /\ UNCHANGED <<ledger, received, unrecorded>>
      BY <1>3, <2>1, <2>7 DEF ClaimFails, SetTask, NoTask, receiver
    <3>2. QED
      BY <1>1, <1>3, <3>1, KeptPlace, KeptPair DEF IndInv, LiveStages
  <2>8. QED
    BY <2>4, <2>5, <2>6, <2>7 DEF TaskStep, TaskFault
<1>4. QED
  BY <1>2, <1>3

(* Whatever the dispatchers do, to every pair it is a step of the ledger.  *)
LEMMA NextRefines ==
  ASSUME IndInv, IndInv', [Next]_vars, NEW p \in Pairs
  PROVE  Promise!Step(p)
<1>1. ASSUME UNCHANGED <<ledger, task, received, unrecorded>> PROVE Promise!Step(p)
  BY <1>1, QuietPairs
<1>2. CASE Tick
  <2>1. \A w \in Workers, q \in Pairs : task'[w][q].stage = task[w][q].stage
    BY <1>2 DEF Tick, IndInv, TypeOK, TaskStates
  <2>2. \A q \in Pairs : ledger'[q].status = ledger[q].status
    BY <1>2 DEF Tick, IndInv, TypeOK, LedgerRows
  <2>3. QED
    BY <1>2, <2>1, <2>2, QuietPairs DEF Tick, receiver
<1>3. ASSUME NEW w \in Workers, FindPending(w) PROVE Promise!Step(p)
  <2>1. \A q \in Pairs : task[w][q] = NoTask
    BY <1>3 DEF FindPending, IndInv, TasksInSweep
  <2>2. /\ \A q \in Pairs : task'[w][q].stage \in {"queued", "none"}
        /\ \A v \in Workers, q \in Pairs : v # w => task'[v][q] = task[v][q]
    BY <1>3 DEF FindPending, IndInv, TypeOK, NoTask
  <2>3. \A v \in Workers, q \in Pairs, s \in LiveStages :
          task'[v][q].stage = s <=> task[v][q].stage = s
    BY <2>1, <2>2 DEF NoTask, LiveStages
  <2>4. QED
    BY <1>3, <2>3, QuietPairs DEF FindPending, receiver
<1>4. ASSUME NEW w \in Workers, Crash(w) PROVE Promise!Step(p)
  BY <1>4, CrashPair
<1>5. ASSUME NEW w \in Workers, NEW q \in Pairs, TaskStep(w, q) \/ TaskFault(w, q)
      PROVE  Promise!Step(p)
  BY <1>5, TaskPair
<1>6. \/ UNCHANGED <<ledger, task, received, unrecorded>>
      \/ Tick
      \/ \E w \in Workers :
           \/ FindPending(w) \/ Crash(w)
           \/ \E q \in Pairs : TaskStep(w, q) \/ TaskFault(w, q)
  BY DEF Next, vars, StoreFailedTx, RollBack, CreateSubscription, DeactivateSubscription,
         RotateSecret, Start, SweepDone, Wake, Interrupt, receiver
<1>7. QED
  BY <1>1, <1>2, <1>3, <1>4, <1>5, <1>6

(* Dispatchers that share a ledger, with claims that get stale, crashes,   *)
(* lost answers and failed records, implement AlertLedger: a pair is in    *)
(* one hand at a time (alerts.rs:236-338, queries.rs:1036-1070 and         *)
(* 1428-1467).                                                             *)
THEOREM PromiseRefinement == Spec => ImplementsPromise
<1>1. Init => Promise!Init
  <2> SUFFICES ASSUME Init PROVE Promise!Init
    OBVIOUS
  <2>1. \A w \in Workers, p \in Pairs : task[w][p].stage = "none" /\ ledger[p].status = "none"
    BY DEF Init, NoTask, NoRow
  <2>2. Delivery = [p \in Pairs |-> "open"]
    <3>1. \A p \in Pairs : ~At("ok", p) /\ ~At("error", p) /\ ~At("claimed", p)
      BY <2>1 DEF At
    <3>2. \A p \in Pairs : ledger[p].status # "delivered"
      BY <2>1 DEF Init, NoRow
    <3>3. QED
      BY <3>1, <3>2 DEF Delivery
  <2>3. QED
    BY <2>2 DEF Init, Promise!Init
<1>2. IndInv /\ IndInv' /\ [Next]_vars => [Promise!Next]_(Promise!ledgerVars)
  <2> SUFFICES ASSUME IndInv, IndInv', [Next]_vars PROVE Promise!Next
    OBVIOUS
  <2>1. \A p \in Pairs : Promise!Step(p)
    BY NextRefines
  <2>2. (Delivery \in [Pairs -> Promise!Deliveries])'
    BY DeliveryType, PTL
  <2>3. received' \in [Pairs -> Nat] /\ unrecorded' \in [Pairs -> Nat]
    BY DEF IndInv, TypeOK
  <2>4. QED
    BY <2>1, <2>2, <2>3 DEF Promise!Next, Promise!Deliveries
<1>3. QED
  BY <1>1, <1>2, Invariance, PTL DEF Spec, ImplementsPromise, Promise!Spec

-----------------------------------------------------------------------------
(* A sweep ends: its tasks are never all stuck, whatever MaxPosts, ...     *)
(* (dispatch_once, alerts.rs:348-395).                                     *)
THEOREM SweepNeverStuck == Spec => []SweepGoesOn
<1>1. IndInv => SweepGoesOn
  BY DEF IndInv
<1>2. QED
  BY <1>1, Invariance, PTL

(* ... none is added to it or gets more to do, and each step of a task     *)
(* leaves it less (dispatch_item, alerts.rs:237-337).                      *)
THEOREM SweepsEnd == Spec => SweepCountsDown
<1> DEFINE Down(w, p) ==
             /\ pc[w] = "sweep" => StepsLeft(w, p)' <= StepsLeft(w, p)
             /\ TaskStep(w, p) \/ TaskFault(w, p) => StepsLeft(w, p)' < StepsLeft(w, p)
<1>1. IndInv /\ [Next]_vars => \A w \in Workers, p \in Pairs : Down(w, p)
  BY TaskLeavesLess, SweepGetsNoMore DEF IndInv
<1>2. QED
  BY <1>1, Invariance, PTL DEF Spec, SweepCountsDown

=============================================================================
