------------------------------- MODULE TuiApp -------------------------------
(***************************************************************************)
(* The terminal dashboard: crates/tui/src/app.rs and event.rs.  One loop   *)
(* takes keys, ticks and answers.  Requests run in tasks of their own and  *)
(* are answered in any order, or fail.  No answer says which request it is *)
(* for: ingest puts it on its screen whatever was asked for since.         *)
(*                                                                         *)
(* The API is external.  It reads rows and total in separate statements    *)
(* while the indexer stores and rolls back, so any page may come with any  *)
(* total.  The way of an answer through the channel is part of the time    *)
(* its request takes.  Scrolling and the clocks on the screen are left out.*)
(***************************************************************************)
EXTENDS Integers, FiniteSets, Bags

CONSTANTS
    Hashes,       \* of the failed transactions, the newest is the highest
    Categories,   \* length of format::CATEGORIES
    Windows,      \* number of time windows
    Limit,        \* page size of the list
    Totals,       \* totals the API may answer
    MaxRequests   \* bound: requests under way at once

ASSUME FilterAssumption == Categories \in Nat \ {0} /\ Windows \in Nat \ {0}
ASSUME ApiAssumption == Hashes \subseteq Nat \ {0} /\ Totals \subseteq Nat
ASSUME SizeAssumption == Limit \in Nat \ {0} /\ MaxRequests \in Nat \ {0}

VARIABLES
    screen, show_help, auto_poll, should_quit,
    latest_block,    \* the state of the Loadable, as for analysis
    analysis,
    failed,          \* the list: state, rows, total, filter they answer
    selected,        \* table_state, or NoRow
    filter,
    detail,          \* the diagnosis: state and the hash it is of
    selected_hash,
    inflight,
    pending          \* bag of the requests under way

loadables == <<latest_block, analysis, failed, detail>>
vars == <<screen, show_help, auto_poll, should_quit, loadables, selected,
          filter, selected_hash, inflight, pending>>

Screens == {"Overview", "FailedTx", "Detail"}
LoadStates == {"Idle", "Loading", "Loaded", "Failed"}

NoRow == -1
NoHash == 0
AllCategories == 0   \* else the place of the category in CATEGORIES

(* Of pages that begin before the end of a list. *)
Offsets == {0} \cup UNION {0 .. total - 1 : total \in Totals}

Filters == [category : AllCategories .. Categories, window : 1 .. Windows, offset : Offsets]
FirstFilter == [category |-> AllCategories, window |-> 1, offset |-> 0]

NoList(state) == [state |-> state, rows |-> {}, total |-> 0, for |-> FirstFilter]
NoDetail(state) == [state |-> state, hash |-> NoHash]

(* A page, newest first; row i is the one with i newer ones before it. *)
Pages == {rows \in SUBSET Hashes : IsFiniteSet(rows) /\ Cardinality(rows) <= Limit}
RowAt(rows, i) == CHOOSE h \in rows : Cardinality({n \in rows : n > h}) = i

LatestBlock == [kind |-> "LatestBlock"]
Analysis == [kind |-> "Analysis"]
FailedList(f) == [kind |-> "FailedList", filter |-> f]
Detail(h) == [kind |-> "Detail", hash |-> h]
Waiting(kind) == {r \in BagToSet(pending) : r.kind = kind}

(* The requests one by one: equal ones by number. *)
UnderWay == UNION {{r} \X (1 .. pending[r]) : r \in BagToSet(pending)}

TypeOK ==
    /\ screen \in Screens
    /\ show_help \in BOOLEAN /\ auto_poll \in BOOLEAN /\ should_quit \in BOOLEAN
    /\ latest_block \in LoadStates /\ analysis \in LoadStates
    /\ failed \in [state : LoadStates, rows : Pages, total : Nat, for : Filters]
    /\ selected \in NoRow .. Limit - 1
    /\ filter \in Filters
    /\ detail \in [state : LoadStates, hash : Hashes \cup {NoHash}]
    /\ selected_hash \in Hashes \cup {NoHash}
    /\ inflight \in Nat
    /\ BagToSet(pending) \subseteq
           {LatestBlock, Analysis} \cup {FailedList(f) : f \in Filters}
               \cup {Detail(h) : h \in Hashes}

-----------------------------------------------------------------------------
(* Requests and answers. *)

(* Mutant: Overview asks for one of the two things it begins to load. *)
RequestsFirst(s, f, h) ==
    CASE s = "Overview" -> {LatestBlock}
      [] s = "FailedTx" -> {FailedList(f)}
      [] s = "Detail"   -> {Detail(d) : d \in {h} \ {NoHash}}

(* What spawn_fetch_active asks for on a screen. *)
Requests(s, f, h) ==
    CASE s = "Overview" -> {LatestBlock, Analysis}
      [] s = "FailedTx" -> {FailedList(f)}
      [] s = "Detail"   -> {Detail(d) : d \in {h} \ {NoHash}}

(* What is loaded stays on the screen until the answer. *)
Begin(state) == IF state = "Loaded" THEN state ELSE "Loading"

SpawnFetch(s, f, h) ==
    LET new == Requests(s, f, h) IN
    /\ pending' = pending (+) SetToBag(new)
    /\ Cardinality(UnderWay') <= MaxRequests
    /\ inflight' = inflight + Cardinality(new)
    /\ IF s = "Overview"
       THEN latest_block' = Begin(latest_block) /\ analysis' = Begin(analysis)
       ELSE UNCHANGED <<latest_block, analysis>>
    /\ failed' = IF s = "FailedTx" /\ failed.state # "Loaded"
                 THEN NoList("Loading") ELSE failed
    /\ detail' = IF s = "Detail" /\ h # NoHash /\ detail.state # "Loaded"
                 THEN NoDetail("Loading") ELSE detail

Init ==
    /\ screen = "Overview" /\ show_help = FALSE
    /\ auto_poll = TRUE /\ should_quit = FALSE
    /\ latest_block = "Loading" /\ analysis = "Loading"
    /\ failed = NoList("Idle") /\ selected = NoRow
    /\ filter = FirstFilter
    /\ detail = NoDetail("Idle") /\ selected_hash = NoHash
    /\ inflight = 2
    /\ pending = SetToBag({LatestBlock, Analysis})

-----------------------------------------------------------------------------
(* Keys. *)

(* The loop draws and reads on; under the help overlay keys only close it. *)
Key == ~should_quit /\ ~show_help

Quit ==
    /\ ~should_quit
    /\ should_quit' = TRUE
    /\ UNCHANGED <<screen, show_help, auto_poll, loadables, selected, filter,
                   selected_hash, inflight, pending>>

ToggleHelp ==
    /\ ~should_quit
    /\ show_help' = ~show_help
    /\ UNCHANGED <<screen, auto_poll, should_quit, loadables, selected, filter,
                   selected_hash, inflight, pending>>

ToggleAutoPoll ==
    /\ Key
    /\ auto_poll' = ~auto_poll
    /\ UNCHANGED <<screen, show_help, should_quit, loadables, selected, filter,
                   selected_hash, inflight, pending>>

RefreshNow ==
    /\ Key
    /\ SpawnFetch(screen, filter, selected_hash)
    /\ UNCHANGED <<screen, show_help, auto_poll, should_quit, selected, filter, selected_hash>>

(* Tab, Shift+Tab, 1 to 3, and Esc on Detail: another of three screens. *)
GotoScreen(s) ==
    /\ Key
    /\ screen # s
    /\ screen' = s
    /\ SpawnFetch(s, filter, selected_hash)
    /\ UNCHANGED <<show_help, auto_poll, should_quit, selected, filter, selected_hash>>

Enter ==
    /\ Key
    /\ screen = "FailedTx" /\ failed.state = "Loaded"
    /\ selected \in 0 .. Cardinality(failed.rows) - 1
    /\ selected_hash' = RowAt(failed.rows, selected)
    /\ screen' = "Detail"
    /\ SpawnFetch("Detail", filter, selected_hash')
    /\ UNCHANGED <<show_help, auto_poll, should_quit, selected, filter>>

MoveSelection(dir) ==
    /\ Key
    /\ screen = "FailedTx" /\ failed.state = "Loaded" /\ failed.rows # {}
    /\ LET cur == IF selected = NoRow THEN 0 ELSE selected
           last == Cardinality(failed.rows) - 1
       IN  selected' = IF cur + dir < 0 THEN 0
                       ELSE IF cur + dir > last THEN last ELSE cur + dir
    /\ UNCHANGED <<screen, show_help, auto_poll, should_quit, loadables, filter,
                   selected_hash, inflight, pending>>

(* The keys of the list that change its filter and fetch at once. *)
Refilter(f) ==
    /\ Key
    /\ screen = "FailedTx"
    /\ filter' = f
    /\ SpawnFetch("FailedTx", f, selected_hash)
    /\ UNCHANGED <<screen, show_help, auto_poll, should_quit, selected, selected_hash>>

CycleCategory ==
    Refilter([filter EXCEPT !.category = (@ + 1) % (Categories + 1), !.offset = 0])

CycleWindow ==
    Refilter([filter EXCEPT !.window = (@ % Windows) + 1, !.offset = 0])

(* Mutant: there is always another page. *)
NextPageUnchecked ==
    /\ failed.state = "Loaded"
    /\ filter.offset < failed.total
    /\ Refilter([filter EXCEPT !.offset = @ + Limit])

(* The total is that of the last answer, whatever filter it was for. *)
NextPage ==
    /\ failed.state = "Loaded"
    /\ filter.offset + Limit < failed.total
    /\ Refilter([filter EXCEPT !.offset = @ + Limit])

PrevPage ==
    /\ filter.offset > 0
    /\ Refilter([filter EXCEPT !.offset = IF @ > Limit THEN @ - Limit ELSE 0])

-----------------------------------------------------------------------------
(* The ticker and the answers. *)

(* Mutant: a tick fetches only what is not on the screen yet. *)
PollUnlessLoaded ==
    /\ ~should_quit
    /\ auto_poll
    /\ screen = "FailedTx" => failed.state # "Loaded"
    /\ screen = "Detail" => detail.state # "Loaded"
    /\ SpawnFetch(screen, filter, selected_hash)
    /\ UNCHANGED <<screen, show_help, auto_poll, should_quit, selected, filter, selected_hash>>

Poll ==
    /\ ~should_quit
    /\ auto_poll
    /\ SpawnFetch(screen, filter, selected_hash)
    /\ UNCHANGED <<screen, show_help, auto_poll, should_quit, selected, filter, selected_hash>>

(* Mutant: the last row is one row further down. *)
ClampPastEnd(len) ==
    IF len = 0 THEN NoRow
    ELSE IF selected = NoRow THEN 0
    ELSE IF selected > len THEN len - 1 ELSE selected

ClampSelection(len) ==
    IF len = 0 THEN NoRow
    ELSE IF selected = NoRow THEN 0
    ELSE IF selected >= len THEN len - 1 ELSE selected

(* Mutant: an answer is taken and not counted. *)
ReceiveUncounted(r) ==
    /\ ~should_quit
    /\ BagIn(r, pending)
    /\ pending' = pending (-) SetToBag({r})
    /\ UNCHANGED inflight

(* One answer leaves the channel. *)
Receive(r) ==
    /\ ~should_quit
    /\ BagIn(r, pending)
    /\ pending' = pending (-) SetToBag({r})
    /\ inflight' = IF inflight > 0 THEN inflight - 1 ELSE 0

IngestOverview(r) ==
    /\ r \in {LatestBlock, Analysis}
    /\ Receive(r)
    /\ \E state \in {"Loaded", "Failed"} :
           IF r = LatestBlock THEN latest_block' = state /\ UNCHANGED analysis
                              ELSE analysis' = state /\ UNCHANGED latest_block
    /\ UNCHANGED <<screen, show_help, auto_poll, should_quit, failed, detail,
                   selected, filter, selected_hash>>

IngestList(f) ==
    /\ Receive(FailedList(f))
    /\ \/ failed' = NoList("Failed")
       \/ \E rows \in Pages, total \in Totals :
              failed' = [state |-> "Loaded", rows |-> rows, total |-> total, for |-> f]
    /\ selected' = ClampSelection(Cardinality(failed'.rows))
    /\ UNCHANGED <<screen, show_help, auto_poll, should_quit, latest_block, analysis,
                   detail, filter, selected_hash>>

IngestDetail(h) ==
    /\ Receive(Detail(h))
    /\ \/ detail' = NoDetail("Failed")
       \/ detail' = [state |-> "Loaded", hash |-> h]
    /\ UNCHANGED <<screen, show_help, auto_poll, should_quit, latest_block, analysis,
                   failed, selected, filter, selected_hash>>

Ingest ==
    \E r \in BagToSet(pending) :
        \/ IngestOverview(r)
        \/ r.kind = "FailedList" /\ IngestList(r.filter)
        \/ r.kind = "Detail" /\ IngestDetail(r.hash)

Keys ==
    \/ Quit \/ ToggleHelp \/ ToggleAutoPoll \/ RefreshNow
    \/ \E s \in Screens : GotoScreen(s)
    \/ Enter \/ MoveSelection(1) \/ MoveSelection(-1)
    \/ CycleCategory \/ CycleWindow \/ NextPage \/ PrevPage

Next == Keys \/ Poll \/ Ingest

Spec == Init /\ [][Next]_vars

(* The ticker ticks and every request is answered or times out: the loop's *)
(* select is fair to both.  Nothing is assumed of the user.                *)
Fairness ==
    /\ WF_vars(Poll)
    /\ \A r \in {LatestBlock, Analysis} : WF_vars(IngestOverview(r))
    /\ \A c \in AllCategories .. Categories, w \in 1 .. Windows, o \in Offsets :
           WF_vars(IngestList([category |-> c, window |-> w, offset |-> o]))
    /\ \A h \in Hashes : WF_vars(IngestDetail(h))

FairSpec == Spec /\ Fairness

-----------------------------------------------------------------------------
(* The spinner turns exactly while a request is under way (is_busy): every *)
(* fetch counts as many answers as it will get, and none is lost.          *)
BusyWhilePending == inflight = Cardinality(UnderWay)

(* A screen that says it is loading has a request under way that will end  *)
(* that (begin, ingest): no screen waits for an answer nobody gives.       *)
LoadingIsFetched ==
    /\ latest_block = "Loading" => Waiting("LatestBlock") # {}
    /\ analysis = "Loading" => Waiting("Analysis") # {}
    /\ failed.state = "Loading" => Waiting("FailedList") # {}
    /\ detail.state = "Loading" => Waiting("Detail") # {}

(* What is marked is a row of the list shown, and there is a mark as soon  *)
(* as there are rows: Enter opens what the user sees (clamp_selection).    *)
SelectionOnRow ==
    IF failed.rows = {} THEN selected = NoRow
    ELSE selected \in 0 .. Cardinality(failed.rows) - 1

(* Only a list that is loaded has rows. *)
RowsAreLoaded ==
    /\ IsFiniteSet(failed.rows)
    /\ failed.state # "Loaded" => failed.rows = {}

(* Once the user has settled on a view that is polled, an answer to an     *)
(* earlier filter or hash does not stay on it, however late it comes: the  *)
(* tick fetches also what is loaded (run, ingest).                         *)
Settled(s) ==
    /\ <>[][FALSE]_<<filter, selected_hash>>
    /\ <>[](screen = s /\ auto_poll /\ ~should_quit)

AnswersSettle ==
    /\ Settled("FailedTx") => <>[](failed.state = "Loaded" => failed.for = filter)
    /\ Settled("Detail") => <>[](detail.state = "Loaded" => detail.hash = selected_hash)

=============================================================================
