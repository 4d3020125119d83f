----------------------------- MODULE IndexLedger -----------------------------
(***************************************************************************)
(* What the indexer promises about its progress, whatever process works on *)
(* it and however it ends: a height that has been indexed stays so, and    *)
(* the checkpoint only rises, over indexed heights and known gaps, until a *)
(* rollback takes every height from the fork on at once and sets the       *)
(* checkpoint just below it.  Scans, tasks, retries and restarts are not   *)
(* seen.                                                                   *)
(***************************************************************************)
EXTENDS Integers

CONSTANTS
  Heights,    \* the heights of the chain
  None        \* the checkpoint before there is one, below every height

VARIABLES
  done,    \* heights that have been indexed
  gap,     \* heights that were left out
  mark     \* the checkpoint

ledgerVars == <<done, gap, mark>>

\* Nothing is indexed, or the heights from 1 to the checkpoint.
Init ==
  /\ mark \in Heights \cup {None}
  /\ done = 1 .. mark
  /\ gap = {}

Between(low, high) == {h \in Heights : low < h /\ h < high}

IndexHeight ==
  /\ \E h \in Heights : done' = done \cup {h}
  /\ UNCHANGED <<gap, mark>>

\* An operator has the indexer go on above the checkpoint.
LeaveOut ==
  /\ mark # None
  /\ \E first \in Heights : gap' = gap \cup Between(mark, first)
  /\ UNCHANGED <<done, mark>>

\* The heights from first on have been indexed, those below it were left out.
Advance ==
  /\ mark < mark'
  /\ \E first \in Heights :
       /\ first <= mark'
       /\ {h \in Heights : first <= h /\ h <= mark'} \subseteq done
       /\ mark # None => Between(mark, first) \subseteq gap
  /\ UNCHANGED <<done, gap>>

\* A fork above the checkpoint makes a gap: nothing below it is indexed again.
Rollback ==
  \E fork \in Heights \ {0} :
    LET Kept(heights) == {h \in heights : h < fork} IN
    /\ done' = Kept(done)
    /\ IF mark = None
       THEN gap' = Kept(gap) /\ UNCHANGED mark
       ELSE gap' = Kept(gap) \cup Between(mark, fork) /\ mark' = fork - 1

Next == IndexHeight \/ LeaveOut \/ Advance \/ Rollback

Spec == Init /\ [][Next]_ledgerVars
=============================================================================
