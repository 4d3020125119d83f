---------------------------- MODULE TuiAppProofs ----------------------------
(***************************************************************************)
(* Proofs about TuiApp, for any filters, page size and answers in any      *)
(* order: the mark in the list is on a row of the list, what is loading is *)
(* being fetched, the spinner counts the requests under way, and every     *)
(* variable has its type.                                                  *)
(***************************************************************************)
EXTENDS TuiApp, FiniteSetTheorems, FunctionTheorems, TLAPS

(* The mark depends on the list, of which only one that is loaded has rows. *)
SelInv == RowsAreLoaded /\ SelectionOnRow

(* A finite set is empty exactly when it has no member to count. *)
LEMMA RowCount ==
  ASSUME NEW rows, IsFiniteSet(rows)
  PROVE  /\ Cardinality(rows) \in Nat
         /\ rows = {} <=> Cardinality(rows) = 0
  BY FS_CardinalityType, FS_EmptySet

(* clamp_selection puts the mark on a row, if there is one. *)
LEMMA ClampOnRow ==
  ASSUME NEW len \in Nat, selected \in Int, selected >= NoRow
  PROVE  IF len = 0 THEN ClampSelection(len) = NoRow
         ELSE ClampSelection(len) \in 0 .. len - 1
  BY DEF ClampSelection, NoRow

(* At the start there is no list. *)
LEMMA InitSelInv == Init => SelInv
<1> SUFFICES ASSUME Init PROVE SelInv
  OBVIOUS
<1>1. failed.rows = {} /\ selected = NoRow
  BY DEF Init, NoList
<1>2. QED
  BY <1>1, FS_EmptySet DEF SelInv, RowsAreLoaded, SelectionOnRow

(* A mark is a number from NoRow on. *)
LEMMA MarkIsNumber ==
  ASSUME SelInv
  PROVE  selected \in Int /\ selected >= NoRow
<1>1. CASE failed.rows = {}
  BY <1>1 DEF SelInv, SelectionOnRow, NoRow
<1>2. CASE failed.rows # {}
  <2>1. Cardinality(failed.rows) \in Nat
    BY RowCount DEF SelInv, RowsAreLoaded
  <2>2. QED
    BY <1>2, <2>1 DEF SelInv, SelectionOnRow, NoRow
<1>3. QED
  BY <1>1, <1>2

(* A fetch keeps a list that is loaded and clears only one without rows. *)
LEMMA FetchKeepsSelInv ==
  ASSUME SelInv, NEW s, NEW f, NEW h, SpawnFetch(s, f, h), UNCHANGED selected
  PROVE  SelInv'
<1>1. CASE failed' = failed
  BY <1>1 DEF SelInv, RowsAreLoaded, SelectionOnRow
<1>2. CASE failed.state # "Loaded" /\ failed' = NoList("Loading")
  <2>1. failed.rows = {} /\ selected = NoRow
    BY <1>2 DEF SelInv, RowsAreLoaded, SelectionOnRow
  <2>2. failed'.rows = {}
    BY <1>2 DEF NoList
  <2>3. QED
    BY <2>1, <2>2, FS_EmptySet DEF SelInv, RowsAreLoaded, SelectionOnRow
<1>3. QED
  BY <1>1, <1>2 DEF SpawnFetch

(* Moving the mark keeps it between the first row and the last. *)
LEMMA MoveKeepsSelInv ==
  ASSUME SelInv, NEW dir \in {-1, 1}, MoveSelection(dir)
  PROVE  SelInv'
<1>1. failed' = failed /\ failed.rows # {}
  BY DEF MoveSelection, loadables
<1>2. Cardinality(failed.rows) \in Nat \ {0}
  BY <1>1, RowCount DEF SelInv, RowsAreLoaded
<1>3. selected \in 0 .. Cardinality(failed.rows) - 1
  BY <1>1 DEF SelInv, SelectionOnRow
<1>4. selected' \in 0 .. Cardinality(failed.rows) - 1
  BY <1>2, <1>3 DEF MoveSelection, NoRow
<1>5. QED
  BY <1>1, <1>4 DEF SelInv, RowsAreLoaded, SelectionOnRow

(* An answer brings its rows, or none, and clamps the mark to them. *)
LEMMA ListKeepsSelInv ==
  ASSUME SelInv, NEW f, IngestList(f)
  PROVE  SelInv'
<1>1. RowsAreLoaded'
  <2>1. CASE failed' = NoList("Failed")
    BY <2>1, FS_EmptySet DEF RowsAreLoaded, NoList
  <2>2. CASE \E rows \in Pages, total \in Totals :
               failed' = [state |-> "Loaded", rows |-> rows, total |-> total, for |-> f]
    BY <2>2 DEF RowsAreLoaded, Pages
  <2>3. QED
    BY <2>1, <2>2 DEF IngestList
<1>2. /\ Cardinality(failed'.rows) \in Nat
      /\ failed'.rows = {} <=> Cardinality(failed'.rows) = 0
  BY <1>1, RowCount DEF RowsAreLoaded
<1>3. selected' = ClampSelection(Cardinality(failed'.rows))
  BY DEF IngestList
<1>4. SelectionOnRow'
  BY <1>2, <1>3, MarkIsNumber, ClampOnRow DEF SelectionOnRow
<1>5. QED
  BY <1>1, <1>4 DEF SelInv

(* Every step keeps the mark on a row. *)
LEMMA StepKeepsSelInv == SelInv /\ [Next]_vars => SelInv'
<1> SUFFICES ASSUME SelInv, [Next]_vars PROVE SelInv'
  OBVIOUS
<1>1. CASE UNCHANGED <<failed, selected>>
  BY <1>1 DEF SelInv, RowsAreLoaded, SelectionOnRow
<1>2. CASE Keys
  <2>1. CASE Quit \/ ToggleHelp \/ ToggleAutoPoll
    BY <2>1, <1>1 DEF Quit, ToggleHelp, ToggleAutoPoll, loadables
  <2>2. CASE RefreshNow \/ (\E s \in Screens : GotoScreen(s)) \/ Enter
    BY <2>2, FetchKeepsSelInv DEF RefreshNow, GotoScreen, Enter
  <2>3. CASE MoveSelection(1) \/ MoveSelection(-1)
    BY <2>3, MoveKeepsSelInv
  <2>4. CASE CycleCategory \/ CycleWindow \/ NextPage \/ PrevPage
    <3>1. \E f : Refilter(f)
      BY <2>4 DEF CycleCategory, CycleWindow, NextPage, PrevPage
    <3>2. QED
      BY <3>1, FetchKeepsSelInv DEF Refilter
  <2>5. QED
    BY <1>2, <2>1, <2>2, <2>3, <2>4 DEF Keys
<1>3. CASE Poll
  BY <1>3, FetchKeepsSelInv DEF Poll
<1>4. CASE Ingest
  <2>1. PICK r : IngestOverview(r) \/ IngestList(r.filter) \/ IngestDetail(r.hash)
    BY <1>4 DEF Ingest
  <2>2. CASE IngestOverview(r) \/ IngestDetail(r.hash)
    BY <2>2, <1>1 DEF IngestOverview, IngestDetail
  <2>3. QED
    BY <2>1, <2>2, ListKeepsSelInv
<1>5. QED
  <2>1. CASE UNCHANGED vars
    BY <2>1, <1>1 DEF vars, loadables
  <2>2. QED
    BY <1>2, <1>3, <1>4, <2>1 DEF Next

(* Enter opens the row the user sees: clamp_selection and move_selection   *)
(* keep the mark on the list, whatever answer replaces it.                 *)
THEOREM MarkOnRow == Spec => []SelectionOnRow
<1>1. SelInv => SelectionOnRow
  BY DEF SelInv
<1>2. QED
  BY InitSelInv, StepKeepsSelInv, <1>1, PTL DEF Spec

-----------------------------------------------------------------------------
(* What is loading is being fetched; requests are counted in a bag. *)
LoadInv ==
    /\ screen \in Screens
    /\ IsABag(pending)
    /\ LoadingIsFetched

(* New requests join those under way. *)
LEMMA RequestsJoin ==
  ASSUME IsABag(pending), NEW new, pending' = pending (+) SetToBag(new)
  PROVE  IsABag(pending') /\ BagToSet(pending') = BagToSet(pending) \cup new
<1> DEFINE B == SetToBag(new)
           count(e) == (IF e \in DOMAIN pending THEN pending[e] ELSE 0)
                       + (IF e \in DOMAIN B THEN B[e] ELSE 0)
<1>1. DOMAIN B = new /\ \A e \in new : B[e] = 1
  BY DEF SetToBag
<1>2. pending' = [e \in DOMAIN pending \cup DOMAIN B |-> count(e)]
  BY DEF (+)
<1>3. \A e \in DOMAIN pending : pending[e] \in Nat /\ pending[e] > 0
  BY DEF IsABag
<1>4. \A e \in DOMAIN pending \cup new : count(e) \in {n \in Nat : n > 0}
  BY <1>1, <1>3
<1> HIDE DEF B, count
<1>5. DOMAIN pending' = DOMAIN pending \cup new
  BY <1>1, <1>2
<1>6. pending' \in [DOMAIN pending' -> {n \in Nat : n > 0}]
  BY <1>1, <1>2, <1>4
<1>7. QED
  BY <1>5, <1>6 DEF IsABag, BagToSet

(* An answer takes one request; the others stay under way. *)
LEMMA AnswerTakesOne ==
  ASSUME IsABag(pending), NEW r, Receive(r)
  PROVE  /\ IsABag(pending')
         /\ BagToSet(pending) \ {r} \subseteq BagToSet(pending')
         /\ BagToSet(pending') \subseteq BagToSet(pending)
<1> DEFINE B == SetToBag({r})
           rest == [e \in DOMAIN pending |->
                      IF e \in DOMAIN B THEN pending[e] - B[e] ELSE pending[e]]
<1>1. DOMAIN B = {r} /\ B[r] = 1
  BY DEF SetToBag
<1>2. pending' = [e \in {d \in DOMAIN rest : rest[d] > 0} |-> rest[e]]
  BY DEF Receive, (-)
<1>3. \A e \in DOMAIN pending : pending[e] \in Nat /\ pending[e] > 0
  BY DEF IsABag
<1>4. /\ DOMAIN rest = DOMAIN pending
      /\ \A e \in DOMAIN pending : rest[e] \in Int
      /\ \A e \in DOMAIN pending \ {r} : rest[e] > 0
  BY <1>1, <1>3
<1> HIDE DEF B, rest
<1>5. DOMAIN pending' = {d \in DOMAIN pending : rest[d] > 0}
  BY <1>2, <1>4
<1>6. pending' \in [DOMAIN pending' -> {n \in Nat : n > 0}]
  BY <1>2, <1>4, <1>5
<1>7. QED
  BY <1>4, <1>5, <1>6 DEF IsABag, BagToSet

(* The two requests of the start. *)
LEMMA InitLoadInv == Init => LoadInv
<1> SUFFICES ASSUME Init PROVE LoadInv
  OBVIOUS
<1>1. pending = [r \in {LatestBlock, Analysis} |-> 1]
  BY DEF Init, SetToBag
<1>2. IsABag(pending)
  BY <1>1 DEF IsABag
<1>3. LatestBlock \in Waiting("LatestBlock") /\ Analysis \in Waiting("Analysis")
  BY <1>1 DEF Waiting, BagToSet, LatestBlock, Analysis
<1>4. failed.state = "Idle" /\ detail.state = "Idle" /\ screen \in Screens
  BY DEF Init, NoList, NoDetail, Screens
<1>5. QED
  BY <1>2, <1>3, <1>4 DEF LoadInv, LoadingIsFetched

(* What begins to load is asked for; what was asked for stays so. *)
LEMMA FetchKeepsLoadInv ==
  ASSUME LoadInv, NEW s \in Screens, NEW f, NEW h, SpawnFetch(s, f, h),
         screen' \in Screens
  PROVE  LoadInv'
<1>1. /\ IsABag(pending')
      /\ BagToSet(pending') = BagToSet(pending) \cup Requests(s, f, h)
  <2>1. pending' = pending (+) SetToBag(Requests(s, f, h))
    BY DEF SpawnFetch
  <2>2. QED
    BY <2>1, RequestsJoin DEF LoadInv
<1>2. \A kind : Waiting(kind) # {} => Waiting(kind)' # {}
  BY <1>1 DEF Waiting
<1>3. CASE s = "Overview"
  <2>1. LatestBlock \in Waiting("LatestBlock")' /\ Analysis \in Waiting("Analysis")'
    BY <1>1, <1>3 DEF Requests, Waiting, LatestBlock, Analysis
  <2>2. failed' = failed /\ detail' = detail
    BY <1>3 DEF SpawnFetch
  <2>3. QED
    BY <1>1, <1>2, <2>1, <2>2 DEF LoadInv, LoadingIsFetched
<1>4. CASE s = "FailedTx"
  <2>1. FailedList(f) \in Waiting("FailedList")'
    BY <1>1, <1>4 DEF Requests, Waiting, FailedList
  <2>2. UNCHANGED <<latest_block, analysis, detail>>
    BY <1>4 DEF SpawnFetch
  <2>3. QED
    BY <1>1, <1>2, <2>1, <2>2 DEF LoadInv, LoadingIsFetched
<1>5. CASE s = "Detail"
  <2>1. UNCHANGED <<latest_block, analysis, failed>>
    BY <1>5 DEF SpawnFetch
  <2>2. CASE h = NoHash
    <3>1. detail' = detail
      BY <1>5, <2>2 DEF SpawnFetch
    <3>2. QED
      BY <1>1, <1>2, <2>1, <3>1 DEF LoadInv, LoadingIsFetched
  <2>3. CASE h # NoHash
    <3>1. Detail(h) \in Waiting("Detail")'
      BY <1>1, <1>5, <2>3 DEF Requests, Waiting, Detail
    <3>2. QED
      BY <1>1, <1>2, <2>1, <3>1 DEF LoadInv, LoadingIsFetched
  <2>4. QED
    BY <2>2, <2>3
<1>6. QED
  BY <1>3, <1>4, <1>5 DEF Screens

(* An answer ends the loading of its own screen only. *)
LEMMA IngestKeepsLoadInv ==
  ASSUME LoadInv, Ingest
  PROVE  LoadInv'
<1>0. screen' \in Screens
  BY DEF LoadInv, Ingest, IngestOverview, IngestList, IngestDetail
<1>1. ASSUME NEW r, Receive(r)
      PROVE  /\ IsABag(pending')
             /\ \A kind : Waiting(kind) # {} /\ r.kind # kind => Waiting(kind)' # {}
  <2>1. IsABag(pending') /\ BagToSet(pending) \ {r} \subseteq BagToSet(pending')
    BY <1>1, AnswerTakesOne DEF LoadInv
  <2>2. QED
    BY <2>1 DEF Waiting
<1>2. ASSUME NEW r, IngestOverview(r) PROVE LoadInv'
  <2>1. CASE r = LatestBlock
    <3>1. r.kind = "LatestBlock" /\ latest_block' # "Loading"
          /\ UNCHANGED <<analysis, failed, detail>>
      BY <1>2, <2>1 DEF IngestOverview, LatestBlock
    <3>2. QED
      BY <1>0, <1>1, <1>2, <3>1 DEF IngestOverview, LoadInv, LoadingIsFetched
  <2>2. CASE r = Analysis
    <3>1. r.kind = "Analysis" /\ analysis' # "Loading"
          /\ UNCHANGED <<latest_block, failed, detail>>
      BY <1>2, <2>2 DEF IngestOverview, LatestBlock, Analysis
    <3>2. QED
      BY <1>0, <1>1, <1>2, <3>1 DEF IngestOverview, LoadInv, LoadingIsFetched
  <2>3. QED
    BY <1>2, <2>1, <2>2 DEF IngestOverview
<1>3. ASSUME NEW f, IngestList(f) PROVE LoadInv'
  <2>1. failed'.state # "Loading" /\ UNCHANGED <<latest_block, analysis, detail>>
    BY <1>3 DEF IngestList, NoList
  <2>2. Receive(FailedList(f)) /\ FailedList(f).kind = "FailedList"
    BY <1>3 DEF IngestList, FailedList
  <2>3. QED
    BY <1>0, <1>1, <2>1, <2>2 DEF LoadInv, LoadingIsFetched
<1>4. ASSUME NEW h, IngestDetail(h) PROVE LoadInv'
  <2>1. detail'.state # "Loading" /\ UNCHANGED <<latest_block, analysis, failed>>
    BY <1>4 DEF IngestDetail, NoDetail
  <2>2. Receive(Detail(h)) /\ Detail(h).kind = "Detail"
    BY <1>4 DEF IngestDetail, Detail
  <2>3. QED
    BY <1>0, <1>1, <2>1, <2>2 DEF LoadInv, LoadingIsFetched
<1>5. QED
  BY <1>2, <1>3, <1>4 DEF Ingest

(* Every step leaves requests for what is loading. *)
LEMMA StepKeepsLoadInv == LoadInv /\ [Next]_vars => LoadInv'
<1> SUFFICES ASSUME LoadInv, [Next]_vars PROVE LoadInv'
  OBVIOUS
<1>1. CASE UNCHANGED <<screen, loadables, pending>>
  <2>1. \A kind : Waiting(kind)' = Waiting(kind)
    BY <1>1 DEF Waiting
  <2>2. QED
    BY <1>1, <2>1 DEF loadables, LoadInv, LoadingIsFetched
<1>2. CASE Keys
  <2>1. CASE Quit \/ ToggleHelp \/ ToggleAutoPoll \/ MoveSelection(1) \/ MoveSelection(-1)
    BY <2>1, <1>1 DEF Quit, ToggleHelp, ToggleAutoPoll, MoveSelection
  <2>2. CASE \E s \in Screens : GotoScreen(s)
    BY <2>2, FetchKeepsLoadInv DEF GotoScreen
  <2>3. CASE Enter
    BY <2>3, FetchKeepsLoadInv DEF Enter, Screens
  <2>4. CASE CycleCategory \/ CycleWindow \/ NextPage \/ PrevPage
    <3>1. \E f : Refilter(f)
      BY <2>4 DEF CycleCategory, CycleWindow, NextPage, PrevPage
    <3>2. QED
      BY <3>1, FetchKeepsLoadInv DEF Refilter, Screens
  <2>5. CASE RefreshNow
    BY <2>5, FetchKeepsLoadInv DEF RefreshNow, LoadInv
  <2>6. QED
    BY <1>2, <2>1, <2>2, <2>3, <2>4, <2>5 DEF Keys
<1>3. CASE Poll
  BY <1>3, FetchKeepsLoadInv DEF Poll, LoadInv
<1>4. CASE Ingest
  BY <1>4, IngestKeepsLoadInv
<1>5. QED
  <2>1. CASE UNCHANGED vars
    BY <2>1, <1>1 DEF vars
  <2>2. QED
    BY <1>2, <1>3, <1>4, <2>1 DEF Next

(* No screen says it is loading without a request that will answer it,     *)
(* however many requests are under way and in whatever order they end.     *)
THEOREM LoadingEnds == Spec => []LoadingIsFetched
<1>1. LoadInv => LoadingIsFetched
  BY DEF LoadInv
<1>2. QED
  BY InitLoadInv, StepKeepsLoadInv, <1>1, PTL DEF Spec

-----------------------------------------------------------------------------
(* The counter of the spinner and the requests under way. *)

(* How often a request is under way. *)
Copies(r) == IF r \in DOMAIN pending THEN pending[r] ELSE 0

BusyInv ==
    /\ IsABag(pending)
    /\ IsFiniteSet(UnderWay)
    /\ BusyWhilePending

(* The bag that holds each of some requests once more. *)
LEMMA JoinedBag ==
  ASSUME IsABag(pending), NEW new, pending' = pending (+) SetToBag(new)
  PROVE  /\ DOMAIN pending' = DOMAIN pending \cup new
         /\ \A r : Copies(r) \in Nat
         /\ \A r \in new : pending'[r] = Copies(r) + 1
         /\ \A r \in DOMAIN pending \ new : pending'[r] = pending[r]
<1> DEFINE B == SetToBag(new)
           count(r) == Copies(r) + (IF r \in DOMAIN B THEN B[r] ELSE 0)
<1>1. DOMAIN B = new /\ \A r \in new : B[r] = 1
  BY DEF SetToBag
<1>2. pending' = [r \in DOMAIN pending \cup DOMAIN B |-> count(r)]
  BY DEF (+), Copies
<1>3. \A r : Copies(r) \in Nat
  BY DEF IsABag, Copies
<1> HIDE DEF B
<1>4. \A r \in DOMAIN pending \ new : count(r) = pending[r]
  BY <1>1, <1>3 DEF Copies
<1>5. \A r \in new : count(r) = Copies(r) + 1
  BY <1>1
<1> HIDE DEF count
<1>6. QED
  BY <1>1, <1>2, <1>3, <1>4, <1>5

(* Each request that is sent is one more under way. *)
LEMMA SentOneByOne ==
  ASSUME BusyInv, NEW new, IsFiniteSet(new), pending' = pending (+) SetToBag(new)
  PROVE  /\ IsFiniteSet(UnderWay')
         /\ Cardinality(UnderWay') = Cardinality(UnderWay) + Cardinality(new)
<1> DEFINE sent == {<<r, Copies(r) + 1>> : r \in new}
<1>1. /\ DOMAIN pending' = DOMAIN pending \cup new
      /\ \A r : Copies(r) \in Nat
      /\ \A r \in new : pending'[r] = Copies(r) + 1
      /\ \A r \in DOMAIN pending \ new : pending'[r] = pending[r]
  BY JoinedBag DEF BusyInv
<1>2. \A r, n : <<r, n>> \in UnderWay <=> n \in 1 .. Copies(r)
  BY DEF UnderWay, BagToSet, Copies
<1>3. \A r, n : <<r, n>> \in UnderWay' <=>
                  r \in DOMAIN pending \cup new /\ n \in 1 .. pending'[r]
  BY <1>1 DEF UnderWay, BagToSet
<1>4. UnderWay' = UnderWay \cup sent
  <2>1. ASSUME NEW r, NEW n
        PROVE  <<r, n>> \in UnderWay' <=> <<r, n>> \in UnderWay \cup sent
    <3>1. CASE r \in new
      <4>1. <<r, n>> \in UnderWay' <=> n \in 1 .. Copies(r) + 1
        BY <1>1, <1>3, <3>1
      <4>2. n \in 1 .. Copies(r) + 1 <=> n \in 1 .. Copies(r) \/ n = Copies(r) + 1
        BY <1>1
      <4>3. <<r, n>> \in sent <=> n = Copies(r) + 1
        BY <3>1
      <4>4. QED
        BY <1>2, <4>1, <4>2, <4>3
    <3>2. CASE r \in DOMAIN pending \ new
      BY <1>1, <1>2, <1>3, <3>2 DEF Copies
    <3>3. CASE r \notin DOMAIN pending \cup new
      <4>1. n \notin 1 .. Copies(r)
        BY <3>3 DEF Copies
      <4>2. QED
        BY <1>2, <1>3, <3>3, <4>1
    <3>4. QED
      BY <3>1, <3>2, <3>3
  <2>2. ASSUME NEW u, u \in UnderWay' \/ u \in UnderWay \cup sent
        PROVE  \E r, n : u = <<r, n>>
    BY <2>2 DEF UnderWay
  <2>3. QED
    BY <2>1, <2>2
<1>5. UnderWay \cap sent = {}
  BY <1>1, <1>2
<1>6. IsFiniteSet(sent) /\ Cardinality(sent) = Cardinality(new)
  <2> DEFINE number == [r \in new |-> <<r, Copies(r) + 1>>]
  <2>1. number \in Bijection(new, sent)
    <3>1. number \in [new -> sent]
      OBVIOUS
    <3>2. \A s, t \in new : number[s] = number[t] => s = t
      OBVIOUS
    <3>3. \A e \in sent : \E s \in new : number[s] = e
      OBVIOUS
    <3> HIDE DEF number, sent
    <3>4. number \in Injection(new, sent)
      BY <3>1, <3>2 DEF Injection, IsInjective
    <3>5. number \in Surjection(new, sent)
      BY <3>1, <3>3 DEF Surjection
    <3>6. QED
      BY <3>4, <3>5 DEF Bijection
  <2>2. ExistsBijection(new, sent)
    BY <2>1 DEF ExistsBijection
  <2>3. QED
    BY <2>2, FS_Bijection
<1>7. /\ Cardinality(UnderWay) \in Nat /\ Cardinality(new) \in Nat
      /\ IsFiniteSet(UnderWay)
  BY FS_CardinalityType DEF BusyInv
<1> HIDE DEF sent
<1>8. QED
  BY <1>4, <1>5, <1>6, <1>7, FS_Union, FS_EmptySet

(* An answer is one request less under way. *)
LEMMA AnsweredOne ==
  ASSUME BusyInv, NEW r, Receive(r)
  PROVE  BusyInv'
<1> DEFINE B == SetToBag({r})
           rest == [e \in DOMAIN pending |->
                      IF e \in DOMAIN B THEN pending[e] - B[e] ELSE pending[e]]
<1>1. r \in DOMAIN pending
  BY DEF Receive, BagIn, BagToSet
<1>2. DOMAIN B = {r} /\ B[r] = 1
  BY DEF SetToBag
<1>3. pending' = [e \in {d \in DOMAIN rest : rest[d] > 0} |-> rest[e]]
  BY DEF Receive, (-)
<1>4. \A e \in DOMAIN pending : pending[e] \in Nat /\ pending[e] > 0
  BY DEF BusyInv, IsABag
<1>5. /\ DOMAIN rest = DOMAIN pending
      /\ rest[r] = pending[r] - 1
      /\ \A e \in DOMAIN pending \ {r} : rest[e] = pending[e]
  BY <1>1, <1>2
<1> HIDE DEF B, rest
<1>6. /\ DOMAIN pending' = {d \in DOMAIN pending : rest[d] > 0}
      /\ \A e \in DOMAIN pending' : pending'[e] = rest[e]
  BY <1>3, <1>5
<1>7. UnderWay' = UnderWay \ {<<r, pending[r]>>}
  <2>1. ASSUME NEW e, NEW n
        PROVE  <<e, n>> \in UnderWay' <=>
                 e \in DOMAIN pending /\ rest[e] > 0 /\ n \in 1 .. rest[e]
    BY <1>6 DEF UnderWay, BagToSet
  <2>2. ASSUME NEW e, NEW n
        PROVE  <<e, n>> \in UnderWay <=> e \in DOMAIN pending /\ n \in 1 .. pending[e]
    BY DEF UnderWay, BagToSet
  <2>3. ASSUME NEW e, NEW n
        PROVE  <<e, n>> \in UnderWay' <=> <<e, n>> \in UnderWay \ {<<r, pending[r]>>}
    <3>1. CASE e = r
      <4>1. n \in 1 .. pending[r] - 1 <=> n \in 1 .. pending[r] /\ n # pending[r]
        BY <1>1, <1>4
      <4>2. pending[r] - 1 > 0 \/ 1 .. pending[r] - 1 = {}
        BY <1>1, <1>4
      <4>3. QED
        BY <1>1, <1>5, <2>1, <2>2, <3>1, <4>1, <4>2
    <3>2. CASE e # r
      BY <1>4, <1>5, <2>1, <2>2, <3>2
    <3>3. QED
      BY <3>1, <3>2
  <2>4. ASSUME NEW u, u \in UnderWay' \/ u \in UnderWay PROVE \E e, n : u = <<e, n>>
    BY <2>4 DEF UnderWay
  <2>5. QED
    BY <2>3, <2>4
<1>8. <<r, pending[r]>> \in UnderWay
  BY <1>1, <1>4 DEF UnderWay, BagToSet
<1>9. /\ IsFiniteSet(UnderWay')
      /\ Cardinality(UnderWay') = Cardinality(UnderWay) - 1
      /\ Cardinality(UnderWay) \in Nat /\ Cardinality(UnderWay') \in Nat
  BY <1>7, <1>8, FS_RemoveElement, FS_CardinalityType DEF BusyInv
<1>10. inflight' = inflight - 1
  BY <1>9 DEF Receive, BusyInv, BusyWhilePending
<1>11. BusyWhilePending'
  BY <1>9, <1>10 DEF BusyInv, BusyWhilePending
<1>12. IsABag(pending')
  BY AnswerTakesOne DEF BusyInv
<1>13. QED
  BY <1>9, <1>11, <1>12 DEF BusyInv

(* A fetch asks for one thing or two, or for nothing. *)
LEMMA FewRequests ==
  ASSUME NEW s \in Screens, NEW f, NEW h
  PROVE  IsFiniteSet(Requests(s, f, h))
<1> DEFINE new == Requests(s, f, h)
<1>1. CASE s = "Overview"
  <2>1. new = {LatestBlock} \cup {Analysis}
    BY <1>1 DEF Requests
  <2>2. IsFiniteSet({LatestBlock}) /\ IsFiniteSet({Analysis})
    BY FS_Singleton
  <2>3. QED
    BY <2>1, <2>2, FS_Union
<1>2. CASE s = "FailedTx"
  BY <1>2, FS_Singleton DEF Requests
<1>3. CASE s = "Detail"
  <2>1. new = {} \/ new = {Detail(h)}
    BY <1>3 DEF Requests
  <2>2. QED
    BY <2>1, FS_EmptySet, FS_Singleton
<1>4. QED
  BY <1>1, <1>2, <1>3 DEF Screens

(* A fetch counts what it asks for. *)
LEMMA FetchKeepsBusyInv ==
  ASSUME BusyInv, NEW s \in Screens, NEW f, NEW h, SpawnFetch(s, f, h)
  PROVE  BusyInv'
<1> DEFINE new == Requests(s, f, h)
<1>1. IsFiniteSet(new)
  BY FewRequests
<1>2. pending' = pending (+) SetToBag(new) /\ inflight' = inflight + Cardinality(new)
  BY DEF SpawnFetch
<1> HIDE DEF new
<1>3. IsABag(pending')
  BY <1>2, RequestsJoin DEF BusyInv
<1>4. /\ IsFiniteSet(UnderWay')
      /\ Cardinality(UnderWay') = Cardinality(UnderWay) + Cardinality(new)
  BY <1>1, <1>2, SentOneByOne
<1>5. QED
  BY <1>2, <1>3, <1>4 DEF BusyInv, BusyWhilePending

(* The start counts the two requests of the Overview. *)
LEMMA InitBusyInv == Init => BusyInv
<1> SUFFICES ASSUME Init PROVE BusyInv
  OBVIOUS
<1>1. pending = [r \in {LatestBlock, Analysis} |-> 1] /\ inflight = 2
  BY DEF Init, SetToBag
<1>2. IsABag(pending)
  BY <1>1 DEF IsABag
<1>3. UnderWay = {<<LatestBlock, 1>>, <<Analysis, 1>>}
  BY <1>1 DEF UnderWay, BagToSet
<1>4. <<LatestBlock, 1>> # <<Analysis, 1>>
  BY DEF LatestBlock, Analysis
<1>5. IsFiniteSet(UnderWay) /\ Cardinality(UnderWay) = 2
  <2>1. /\ IsFiniteSet({<<LatestBlock, 1>>})
        /\ Cardinality({<<LatestBlock, 1>>}) = 1
    BY FS_Singleton
  <2>2. UnderWay = {<<LatestBlock, 1>>} \cup {<<Analysis, 1>>}
    BY <1>3
  <2>3. <<Analysis, 1>> \notin {<<LatestBlock, 1>>}
    BY <1>4
  <2>4. ASSUME NEW S, IsFiniteSet(S), NEW e, e \notin S, Cardinality(S) = 1
        PROVE  IsFiniteSet(S \cup {e}) /\ Cardinality(S \cup {e}) = 2
    BY <2>4, FS_AddElement
  <2>5. QED
    BY <2>1, <2>2, <2>3, <2>4
<1>6. QED
  BY <1>1, <1>2, <1>5 DEF BusyInv, BusyWhilePending

(* Every step counts what it sends and what it takes. *)
LEMMA StepKeepsBusyInv ==
  screen \in Screens /\ BusyInv /\ [Next]_vars => BusyInv'
<1> SUFFICES ASSUME screen \in Screens, BusyInv, [Next]_vars PROVE BusyInv'
  OBVIOUS
<1>1. CASE UNCHANGED <<inflight, pending>>
  <2>1. UnderWay' = UnderWay
    BY <1>1 DEF UnderWay
  <2>2. QED
    BY <1>1, <2>1 DEF BusyInv, BusyWhilePending
<1>2. CASE Keys
  <2>1. CASE Quit \/ ToggleHelp \/ ToggleAutoPoll \/ MoveSelection(1) \/ MoveSelection(-1)
    BY <2>1, <1>1 DEF Quit, ToggleHelp, ToggleAutoPoll, MoveSelection
  <2>2. CASE \E s \in Screens : GotoScreen(s)
    BY <2>2, FetchKeepsBusyInv DEF GotoScreen
  <2>3. CASE Enter
    BY <2>3, FetchKeepsBusyInv DEF Enter, Screens
  <2>4. CASE CycleCategory \/ CycleWindow \/ NextPage \/ PrevPage
    <3>1. \E f : Refilter(f)
      BY <2>4 DEF CycleCategory, CycleWindow, NextPage, PrevPage
    <3>2. QED
      BY <3>1, FetchKeepsBusyInv DEF Refilter, Screens
  <2>5. CASE RefreshNow
    BY <2>5, FetchKeepsBusyInv DEF RefreshNow
  <2>6. QED
    BY <1>2, <2>1, <2>2, <2>3, <2>4, <2>5 DEF Keys
<1>3. CASE Poll
  BY <1>3, FetchKeepsBusyInv DEF Poll
<1>4. CASE Ingest
  <2>1. \E r : Receive(r)
    BY <1>4 DEF Ingest, IngestOverview, IngestList, IngestDetail
  <2>2. QED
    BY <2>1, AnsweredOne
<1>5. QED
  <2>1. CASE UNCHANGED vars
    BY <2>1, <1>1 DEF vars
  <2>2. QED
    BY <1>2, <1>3, <1>4, <2>1 DEF Next

(* The spinner stops when the last answer is in and not before (is_busy):  *)
(* spawn_fetch_active and ingest count the same requests, however many     *)
(* equal ones are under way.                                               *)
THEOREM SpinnerCounts == Spec => []BusyWhilePending
<1>1. Init => LoadInv /\ BusyInv
  BY InitLoadInv, InitBusyInv
<1>2. LoadInv /\ BusyInv /\ [Next]_vars => (LoadInv /\ BusyInv)'
  BY StepKeepsLoadInv, StepKeepsBusyInv DEF LoadInv
<1>3. LoadInv /\ BusyInv => BusyWhilePending
  BY DEF BusyInv
<1>4. QED
  BY <1>1, <1>2, <1>3, PTL DEF Spec

-----------------------------------------------------------------------------
(* The types.  A page that is turned to begins before the end of a list    *)
(* whose total was an answer, and Enter finds a hash in the row it is on.  *)

(* What the tasks and the answers write. *)
FetchTypes ==
    /\ latest_block \in LoadStates /\ analysis \in LoadStates
    /\ failed \in [state : LoadStates, rows : Pages, total : Nat, for : Filters]
    /\ failed.total \in Totals \cup {0}
    /\ detail \in [state : LoadStates, hash : Hashes \cup {NoHash}]
    /\ inflight \in Nat
    /\ BagToSet(pending) \subseteq
           {LatestBlock, Analysis} \cup {FailedList(f) : f \in Filters}
               \cup {Detail(h) : h \in Hashes}

(* What the keys write; the type of the mark is a part of SelInv. *)
ViewTypes ==
    /\ screen \in Screens
    /\ show_help \in BOOLEAN /\ auto_poll \in BOOLEAN /\ should_quit \in BOOLEAN
    /\ filter \in Filters
    /\ selected_hash \in Hashes \cup {NoHash}

TypeInv == FetchTypes /\ ViewTypes

(* A mark on a row of a page is on one of the first Limit rows. *)
LEMMA TypesOfParts == TypeInv /\ SelInv => TypeOK
<1> SUFFICES ASSUME TypeInv, SelInv PROVE TypeOK
  OBVIOUS
<1>1. Limit \in Nat \ {0}
  BY SizeAssumption
<1>2. IsFiniteSet(failed.rows) /\ Cardinality(failed.rows) <= Limit
  BY DEF TypeInv, FetchTypes, Pages
<1>3. Cardinality(failed.rows) \in Nat
  BY <1>2, RowCount
<1>4. selected \in NoRow .. Limit - 1
  BY <1>1, <1>2, <1>3 DEF SelInv, SelectionOnRow, NoRow
<1>5. QED
  BY <1>4 DEF TypeInv, FetchTypes, ViewTypes, TypeOK

(* Every row up to the last has a hash: with a row in each place below its *)
(* own, the newest first, the places of the rows are all there are.        *)
LEMMA RowInEachPlace ==
  ASSUME NEW rows, rows \subseteq Nat, IsFiniteSet(rows),
         NEW i \in 0 .. Cardinality(rows) - 1
  PROVE  RowAt(rows, i) \in rows
<1> DEFINE newer(h) == {n \in rows : n > h}
           places == 0 .. Cardinality(rows) - 1
           place == [h \in rows |-> Cardinality(newer(h))]
<1>1. Cardinality(rows) \in Nat
  BY FS_CardinalityType
<1>2. ASSUME NEW h \in rows
      PROVE  /\ IsFiniteSet(newer(h)) /\ Cardinality(newer(h)) \in Nat
             /\ Cardinality(newer(h)) < Cardinality(rows)
  <2>1. newer(h) \in SUBSET rows /\ newer(h) # rows
    OBVIOUS
  <2> HIDE DEF newer
  <2>2. /\ IsFiniteSet(newer(h))
        /\ Cardinality(newer(h)) <= Cardinality(rows)
        /\ Cardinality(rows) = Cardinality(newer(h)) => rows = newer(h)
    BY <2>1, FS_Subset
  <2>3. Cardinality(newer(h)) \in Nat
    BY <2>2, FS_CardinalityType
  <2>4. QED
    BY <1>1, <2>1, <2>2, <2>3
<1>3. ASSUME NEW g \in rows, NEW h \in rows, g < h
      PROVE  Cardinality(newer(h)) # Cardinality(newer(g))
  <2>1. newer(h) \in SUBSET newer(g)
    <3>1. ASSUME NEW n \in rows, n > h PROVE n > g
      <4>1. g \in Nat /\ h \in Nat /\ n \in Nat
        OBVIOUS
      <4>2. QED
        BY <1>3, <3>1, <4>1
    <3>2. QED
      BY <3>1
  <2>2. newer(h) # newer(g)
    <3>1. h \in newer(g) /\ h \notin newer(h)
      BY <1>3
    <3>2. QED
      BY <3>1
  <2>3. IsFiniteSet(newer(g))
    BY <1>2
  <2> HIDE DEF newer
  <2>4. QED
    BY <2>1, <2>2, <2>3, FS_Subset
<1> HIDE DEF newer
<1>4. place \in Injection(rows, places)
  <2>1. place \in [rows -> places]
    BY <1>1, <1>2
  <2>2. \A g, h \in rows : place[g] = place[h] => g = h
    <3>1. ASSUME NEW g \in rows, NEW h \in rows, g # h
          PROVE  place[g] # place[h]
      <4>1. g < h \/ h < g
        BY <3>1
      <4>2. QED
        BY <1>3, <4>1
    <3>2. QED
      BY <3>1
  <2> HIDE DEF place, places
  <2>3. QED
    BY <2>1, <2>2 DEF Injection, IsInjective
<1>5. IsFiniteSet(places) /\ Cardinality(places) = Cardinality(rows)
  <2>1. 0 \in Int /\ Cardinality(rows) - 1 \in Int
    BY <1>1
  <2>2. /\ IsFiniteSet(places)
        /\ Cardinality(places) = IF 0 > Cardinality(rows) - 1 THEN 0
                                 ELSE Cardinality(rows) - 1 - 0 + 1
    BY <2>1, FS_Interval
  <2>3. QED
    BY <1>1, <2>2
<1>6. i \in places
  OBVIOUS
<1>7. \E h \in rows : place[h] = i
  <2> HIDE DEF place, places
  <2>1. place \in Surjection(rows, places)
    BY <1>4, <1>5, FS_Injection
  <2>2. QED
    BY <1>6, <2>1 DEF Surjection
<1>8. \E h \in rows : Cardinality({n \in rows : n > h}) = i
  BY <1>7 DEF newer
<1>9. QED
  BY <1>8 DEF RowAt

(* The pages turned to begin at a number. *)
LEMMA OffsetIsNumber == ASSUME NEW f \in Filters PROVE f.offset \in Nat
<1>1. Offsets \subseteq Nat
  BY ApiAssumption DEF Offsets
<1>2. QED
  BY <1>1 DEF Filters

(* The four ways to another filter stay in the filters. *)
LEMMA RefilterInFilters ==
  ASSUME TypeInv, CycleCategory \/ CycleWindow \/ NextPage \/ PrevPage
  PROVE  \E f \in Filters : Refilter(f)
<1> USE DEF Filters
<1>1. filter \in Filters /\ filter.offset \in Nat
  BY OffsetIsNumber DEF TypeInv, ViewTypes
<1>2. 0 \in Offsets
  BY DEF Offsets
<1>3. CASE CycleCategory
  <2>1. Categories + 1 \in Nat \ {0} /\ filter.category + 1 \in Nat
    BY <1>1, FilterAssumption DEF AllCategories
  <2>2. (filter.category + 1) % (Categories + 1) \in AllCategories .. Categories
    BY <2>1, FilterAssumption DEF AllCategories
  <2>3. [filter EXCEPT !.category = (@ + 1) % (Categories + 1), !.offset = 0] \in Filters
    BY <1>1, <1>2, <2>2
  <2>4. QED
    BY <1>3, <2>3 DEF CycleCategory
<1>4. CASE CycleWindow
  <2>1. filter.window \in 1 .. Windows
    BY <1>1
  <2>2. (filter.window % Windows) + 1 \in 1 .. Windows
    BY <2>1, FilterAssumption
  <2>3. [filter EXCEPT !.window = (@ % Windows) + 1, !.offset = 0] \in Filters
    BY <1>1, <1>2, <2>2
  <2>4. QED
    BY <1>4, <2>3 DEF CycleWindow
<1>5. CASE NextPage
  <2>1. filter.offset + Limit \in Nat /\ filter.offset + Limit < failed.total
    BY <1>1, <1>5, SizeAssumption DEF NextPage
  <2>2. failed.total \in Totals /\ failed.total \in Nat
    BY <2>1, ApiAssumption DEF TypeInv, FetchTypes
  <2>3. filter.offset + Limit \in 0 .. failed.total - 1
    BY <2>1, <2>2
  <2>4. filter.offset + Limit \in Offsets
    BY <2>2, <2>3 DEF Offsets
  <2>5. [filter EXCEPT !.offset = @ + Limit] \in Filters
    BY <1>1, <2>4
  <2>6. QED
    BY <1>5, <2>5 DEF NextPage
<1>6. CASE PrevPage
  <2> DEFINE back == IF filter.offset > Limit THEN filter.offset - Limit ELSE 0
  <2>1. back \in Offsets
    <3>1. CASE filter.offset > Limit
      <4>1. filter.offset # 0
        BY <3>1, SizeAssumption
      <4>2. PICK total \in Totals : filter.offset \in 0 .. total - 1
        BY <1>1, <4>1 DEF Offsets
      <4>3. filter.offset - Limit \in 0 .. total - 1
        BY <1>1, <3>1, <4>2, SizeAssumption, ApiAssumption
      <4>4. QED
        BY <3>1, <4>3 DEF Offsets
    <3>2. CASE ~(filter.offset > Limit)
      BY <1>2, <3>2
    <3>3. QED
      BY <3>1, <3>2
  <2>2. [filter EXCEPT !.offset = back] \in Filters
    BY <1>1, <2>1
  <2>3. QED
    BY <1>6, <2>2 DEF PrevPage
<1>7. QED
  BY <1>3, <1>4, <1>5, <1>6

(* A list that is not loaded is a list with no rows. *)
LEMMA NoListIsList ==
  ASSUME NEW state \in LoadStates
  PROVE  /\ NoList(state) \in [state : LoadStates, rows : Pages, total : Nat, for : Filters]
         /\ NoList(state).total = 0
<1>1. {} \in Pages
  BY FS_EmptySet, SizeAssumption DEF Pages
<1>2. FirstFilter \in Filters
  BY FilterAssumption DEF FirstFilter, Filters, AllCategories, Offsets
<1>3. QED
  BY <1>1, <1>2 DEF NoList

(* A fetch asks for a filter of the list and for the hash of a row. *)
LEMMA FetchKeepsTypes ==
  ASSUME FetchTypes, IsABag(pending), NEW s \in Screens, NEW f \in Filters,
         NEW h \in Hashes \cup {NoHash}, SpawnFetch(s, f, h)
  PROVE  FetchTypes'
<1>1. latest_block' \in LoadStates /\ analysis' \in LoadStates
  BY DEF FetchTypes, SpawnFetch, Begin, LoadStates
<1>2. failed' = failed \/ failed' = NoList("Loading")
  BY DEF SpawnFetch
<1>3. /\ failed' \in [state : LoadStates, rows : Pages, total : Nat, for : Filters]
      /\ failed'.total \in Totals \cup {0}
  BY <1>2, NoListIsList DEF FetchTypes, LoadStates
<1>4. detail' \in [state : LoadStates, hash : Hashes \cup {NoHash}]
  BY DEF FetchTypes, SpawnFetch, NoDetail, LoadStates
<1>5. BagToSet(pending') = BagToSet(pending) \cup Requests(s, f, h)
  BY RequestsJoin DEF SpawnFetch
<1>6. Requests(s, f, h) \subseteq
           {LatestBlock, Analysis} \cup {FailedList(g) : g \in Filters}
               \cup {Detail(d) : d \in Hashes}
  BY DEF Requests, Screens
<1>7. Cardinality(Requests(s, f, h)) \in Nat
  BY FewRequests, FS_CardinalityType
<1>8. inflight' \in Nat
  BY <1>7 DEF SpawnFetch, FetchTypes
<1>9. QED
  BY <1>1, <1>3, <1>4, <1>5, <1>6, <1>8 DEF FetchTypes

(* An answer is one to a request: its filter or its hash is a proper one.  *)
LEMMA IngestKeepsTypes ==
  ASSUME FetchTypes, IsABag(pending), Ingest
  PROVE  FetchTypes'
<1> DEFINE Asked == {LatestBlock, Analysis} \cup {FailedList(f) : f \in Filters}
                        \cup {Detail(h) : h \in Hashes}
<1>1. ASSUME NEW r, Receive(r)
      PROVE  inflight' \in Nat /\ BagToSet(pending') \subseteq Asked
  <2>1. BagToSet(pending') \subseteq BagToSet(pending)
    BY <1>1, AnswerTakesOne
  <2>2. inflight' \in Nat
    BY <1>1 DEF Receive, FetchTypes
  <2>3. QED
    BY <2>1, <2>2 DEF FetchTypes
<1>2. PICK r \in BagToSet(pending) :
          \/ IngestOverview(r)
          \/ r.kind = "FailedList" /\ IngestList(r.filter)
          \/ r.kind = "Detail" /\ IngestDetail(r.hash)
  BY DEF Ingest
<1>3. r \in Asked
  BY DEF FetchTypes
<1>4. CASE IngestOverview(r)
  <2>1. /\ latest_block' \in LoadStates /\ analysis' \in LoadStates
        /\ UNCHANGED <<failed, detail>>
    BY <1>4 DEF IngestOverview, FetchTypes, LoadStates
  <2>2. QED
    BY <1>1, <1>4, <2>1 DEF IngestOverview, FetchTypes
<1>5. CASE r.kind = "FailedList" /\ IngestList(r.filter)
  <2>1. r.filter \in Filters
    BY <1>3, <1>5 DEF LatestBlock, Analysis, FailedList, Detail
  <2>2. /\ failed' \in [state : LoadStates, rows : Pages, total : Nat, for : Filters]
        /\ failed'.total \in Totals \cup {0}
    <3>1. CASE failed' = NoList("Failed")
      BY <3>1, NoListIsList DEF LoadStates
    <3>2. CASE \E rows \in Pages, total \in Totals : failed' =
                 [state |-> "Loaded", rows |-> rows, total |-> total, for |-> r.filter]
      BY <2>1, <3>2, ApiAssumption DEF LoadStates
    <3>3. QED
      BY <1>5, <3>1, <3>2 DEF IngestList
  <2>3. UNCHANGED <<latest_block, analysis, detail>>
    BY <1>5 DEF IngestList
  <2>4. QED
    BY <1>1, <1>5, <2>2, <2>3 DEF IngestList, FetchTypes
<1>6. CASE r.kind = "Detail" /\ IngestDetail(r.hash)
  <2>1. r.hash \in Hashes
    BY <1>3, <1>6 DEF LatestBlock, Analysis, FailedList, Detail
  <2>2. detail' \in [state : LoadStates, hash : Hashes \cup {NoHash}]
    BY <1>6, <2>1 DEF IngestDetail, NoDetail, LoadStates
  <2>3. UNCHANGED <<latest_block, analysis, failed>>
    BY <1>6 DEF IngestDetail
  <2>4. QED
    BY <1>1, <1>6, <2>2, <2>3 DEF IngestDetail, FetchTypes
<1>7. QED
  BY <1>2, <1>4, <1>5, <1>6

(* The types at the start. *)
LEMMA InitTypeInv == Init => TypeInv
<1> SUFFICES ASSUME Init PROVE TypeInv
  OBVIOUS
<1>1. BagToSet(pending) = {LatestBlock, Analysis}
  BY DEF Init, SetToBag, BagToSet
<1>2. NoList("Idle") \in [state : LoadStates, rows : Pages, total : Nat, for : Filters]
      /\ NoList("Idle").total = 0
  BY NoListIsList DEF LoadStates
<1>3. FirstFilter \in Filters
  BY FilterAssumption DEF FirstFilter, Filters, AllCategories, Offsets
<1>4. FetchTypes
  BY <1>1, <1>2 DEF Init, FetchTypes, NoDetail, LoadStates
<1>5. ViewTypes
  BY <1>3 DEF Init, ViewTypes, Screens
<1>6. QED
  BY <1>4, <1>5 DEF TypeInv

(* Enter takes the hash of the row the mark is on. *)
LEMMA EnteredHash ==
  ASSUME TypeInv, Enter
  PROVE  selected_hash' \in Hashes
<1>1. /\ failed.rows \subseteq Hashes /\ IsFiniteSet(failed.rows)
      /\ selected \in 0 .. Cardinality(failed.rows) - 1
  BY DEF TypeInv, FetchTypes, Pages, Enter
<1>2. failed.rows \subseteq Nat
  BY <1>1, ApiAssumption
<1>3. RowAt(failed.rows, selected) \in failed.rows
  BY <1>1, <1>2, RowInEachPlace
<1>4. QED
  BY <1>1, <1>3 DEF Enter

(* Every step keeps the types. *)
LEMMA StepKeepsTypeInv ==
  TypeInv /\ IsABag(pending) /\ [Next]_vars => TypeInv'
<1> SUFFICES ASSUME TypeInv, IsABag(pending), [Next]_vars PROVE TypeInv'
  OBVIOUS
<1> USE DEF TypeInv
<1>1. CASE UNCHANGED <<loadables, inflight, pending>> /\ ViewTypes'
  BY <1>1 DEF loadables, FetchTypes
<1>2. CASE Keys
  <2>1. CASE Quit \/ ToggleHelp \/ ToggleAutoPoll
    <3>1. UNCHANGED <<loadables, inflight, pending>>
      BY <2>1 DEF Quit, ToggleHelp, ToggleAutoPoll
    <3>2. ViewTypes'
      BY <2>1 DEF Quit, ToggleHelp, ToggleAutoPoll, ViewTypes
    <3>3. QED
      BY <1>1, <3>1, <3>2
  <2>2. CASE MoveSelection(1) \/ MoveSelection(-1)
    BY <1>1, <2>2 DEF MoveSelection, ViewTypes
  <2>3. CASE RefreshNow
    BY <2>3, FetchKeepsTypes DEF RefreshNow, ViewTypes
  <2>4. CASE \E s \in Screens : GotoScreen(s)
    BY <2>4, FetchKeepsTypes DEF GotoScreen, ViewTypes
  <2>5. CASE Enter
    <3>1. selected_hash' \in Hashes
      BY <2>5, EnteredHash
    <3>2. FetchTypes'
      BY <2>5, <3>1, FetchKeepsTypes DEF Enter, ViewTypes, Screens
    <3>3. ViewTypes'
      BY <2>5, <3>1 DEF Enter, ViewTypes, Screens
    <3>4. QED
      BY <3>2, <3>3
  <2>6. CASE CycleCategory \/ CycleWindow \/ NextPage \/ PrevPage
    <3>1. PICK f \in Filters : Refilter(f)
      BY <2>6, RefilterInFilters
    <3>2. QED
      BY <3>1, FetchKeepsTypes DEF Refilter, ViewTypes, Screens
  <2>7. QED
    BY <1>2, <2>1, <2>2, <2>3, <2>4, <2>5, <2>6 DEF Keys
<1>3. CASE Poll
  BY <1>3, FetchKeepsTypes DEF Poll, ViewTypes
<1>4. CASE Ingest
  <2>1. FetchTypes'
    BY <1>4, IngestKeepsTypes
  <2>2. ViewTypes'
    BY <1>4 DEF Ingest, IngestOverview, IngestList, IngestDetail, ViewTypes
  <2>3. QED
    BY <2>1, <2>2
<1>5. QED
  <2>1. CASE UNCHANGED vars
    BY <1>1, <2>1 DEF vars, ViewTypes
  <2>2. QED
    BY <1>2, <1>3, <1>4, <2>1 DEF Next

(* Every variable has its type: no key turns to a page past the end of the *)
(* lists answered (next_page, prev_page), and Enter opens a transaction    *)
(* whatever answer the mark was clamped to.                                *)
THEOREM TypeCorrect == Spec => []TypeOK
<1> DEFINE Inv == TypeInv /\ SelInv /\ LoadInv
<1>1. Init => Inv
  BY InitTypeInv, InitSelInv, InitLoadInv
<1>2. Inv /\ [Next]_vars => Inv'
  BY StepKeepsTypeInv, StepKeepsSelInv, StepKeepsLoadInv DEF LoadInv
<1>3. Inv => TypeOK
  BY TypesOfParts
<1>4. QED
  BY <1>1, <1>2, <1>3, PTL DEF Spec

=============================================================================
