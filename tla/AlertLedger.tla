---------------------------- MODULE AlertLedger ----------------------------
(***************************************************************************)
(* What the dispatchers do to a pair, whoever works on it: a pair is in    *)
(* one hand at a time, a POST is made only by the hand that holds the      *)
(* pair, a pair recorded as delivered rests, and an accepted POST is       *)
(* either recorded or counted as lost.  After a loss the pair is posted    *)
(* again: this is at-least-once, not the exactly-once of the documents.    *)
(* Which pairs are wanted, batches, claims, their ages and the sweeps are  *)
(* not seen.                                                               *)
(***************************************************************************)
EXTENDS Naturals

CONSTANTS Pairs

VARIABLES
  delivery,   \* delivery[p]: where the pair is
  accepted,   \* accepted[p]: POSTs for the pair that the receiver has accepted
  lost        \* lost[p]: those of them that nothing will record

ledgerVars == <<delivery, accepted, lost>>

Deliveries == {"open", "taken", "sent", "failed", "delivered"}

Init ==
  /\ delivery = [p \in Pairs |-> "open"]
  /\ accepted = [p \in Pairs |-> 0]
  /\ lost = [p \in Pairs |-> 0]

\* The pair goes from one place to another, with so many POSTs accepted and lost.
Move(p, from, to, posts, losses) ==
  /\ delivery[p] = from
  /\ delivery'[p] = to
  /\ accepted'[p] = accepted[p] + posts
  /\ lost'[p] = lost[p] + losses

Take(p) == Move(p, "open", "taken", 0, 0)
Accept(p) == Move(p, "taken", "sent", 1, 0)
AcceptUnheard(p) == Move(p, "taken", "failed", 1, 1)
Refuse(p) == Move(p, "taken", "failed", 0, 0)
Deliver(p) == Move(p, "sent", "delivered", 0, 0)
Lose(p) == Move(p, "sent", "open", 0, 1)
LetGo(p) == Move(p, "taken", "open", 0, 0) \/ Move(p, "failed", "open", 0, 0)
Rest(p) == Move(p, delivery[p], delivery[p], 0, 0)

Step(p) ==
  \/ Take(p) \/ Accept(p) \/ AcceptUnheard(p) \/ Refuse(p)
  \/ Deliver(p) \/ Lose(p) \/ LetGo(p) \/ Rest(p)

\* A dispatcher that dies lets go of several pairs at once.
Next ==
  /\ delivery' \in [Pairs -> Deliveries]
  /\ accepted' \in [Pairs -> Nat]
  /\ lost' \in [Pairs -> Nat]
  /\ \A p \in Pairs : Step(p)

Spec == Init /\ [][Next]_ledgerVars
=============================================================================
