-------------------------- MODULE MCGuestDelivery ---------------------------
(* Instances of GuestDelivery for model checking. *)
EXTENDS GuestDelivery, TLC

CONSTANTS s1, s2, e1, e2

Solo      == s1 :> e1
OneEvent  == (s1 :> e1) @@ (s2 :> e1)
TwoEvents == (s1 :> e1) @@ (s2 :> e2)

SessionSymmetry == Permutations({s1, s2})
-----------------------------------------------------------------------------
(* GuestDelivery leaves the order of a sweep open.  The targets of a request *)
(* have one time stamp and are recorded in one order, its own after those of *)
(* the sessions (storage.py:403); here they are tried in that order.         *)
OwnTargets == {OwnTarget(k, e) : k \in {"clear", "delete"}, e \in Events}
InOrder == \A w \in Sweepers :
  (stodo[w] \ stodo'[w]) \cap OwnTargets # {} => stodo'[w] \subseteq OwnTargets

OrderedSpec == Init /\ [][Next /\ InOrder]_vars
=============================================================================
