----------------------------- MODULE MCCrossCall -----------------------------
(***************************************************************************)
(* CrossCall with the exceptions that Trio functions raise as trees.       *)
(***************************************************************************)
EXTENDS CrossCall, ExceptionGroups

Caught == {"Cancelled"}

(* AsyncHandle computes with sets of kinds; the code splits the tree of the *)
(* exceptions.  Whatever the tree, each leaf goes where AsyncHandle says.   *)
ASSUME SplitAgrees ==
  \A exc \in Exceptions, k \in Kinds :
    /\ PartKinds(Split(exc, {k}).match) = KindsOf(exc) \cap {k}
    /\ PartKinds(Split(exc, {k}).rest) = KindsOf(exc) \ {k}

\* The exceptions whose only error would reach a future inside a group,
\* although Trio may collapse all of their groups.
Wrapped ==
  {exc \in {e \in Exceptions : NeverStrict[e]} :
     LET errors == SelectSeq(LeafSeq[exc], LAMBDA kind : kind \notin Caught)
     IN  Len(errors) = 1 /\ Split(exc, Caught).rest # <<Leaf(errors[1])>>}

(* An error that is alone but for cancellations comes out bare: the asyncio *)
(* caller of a Trio function sees the error that the function raised, not a *)
(* group of one that is left when the cancellations have been split off.    *)
LoneErrorIsBare ==
  \A h \in WithFuture : fut[h] = "exception" =>
    \A exc \in Wrapped : KindsOf(exc) # raised[h] \cup (leaves[h] \ Caught)

=============================================================================
