--------------------------- MODULE ExceptionGroups ---------------------------
(***************************************************************************)
(* How AsyncHandle._run (_handles.py) takes an exception group apart:      *)
(* collapse_exception_group() and collapse_aware_exception_split() as      *)
(* functions on trees of exceptions.                                       *)
(*                                                                         *)
(* A group is collapsible if Trio marked it so, because its nursery is not *)
(* strict about groups.  Groups and their split() are Python's.            *)
(***************************************************************************)
EXTENDS Naturals, Sequences

LOCAL INSTANCE SequencesExt

CONSTANTS
  LeafKind,  \* the kinds of exceptions
  MaxWidth   \* bound: the exceptions in one group

ASSUME WidthAssumption == MaxWidth \in Nat \ {0}

GroupKind == {"strict", "collapsible"}

Leaf(k) == [kind |-> k, excs |-> <<>>]

BareExceptions == {Leaf(k) : k \in LeafKind}

GroupsOf(S) ==
  [kind : GroupKind, excs : UNION {[1..n -> S] : n \in 1..MaxWidth}]

\* Exceptions, and groups of groups of them.
Exceptions == BareExceptions \cup GroupsOf(BareExceptions \cup GroupsOf(BareExceptions))

IsGroup(exc) == exc.kind \in GroupKind

\* derive() makes a group that does not carry the mark of the old one.
Derive(excs) == [kind |-> "strict", excs |-> excs]

\* Leaves the groups inside as they are.
CollapseOuter[exc \in Exceptions] ==
  IF exc.kind = "collapsible" /\ Len(exc.excs) = 1 THEN exc.excs[1] ELSE exc

\* Mutant of CollapseExceptionGroup.
CollapseOutermost(exc) == CollapseOuter[exc]

Collapsed[exc \in Exceptions] ==
  LET exceptions == [i \in DOMAIN exc.excs |-> Collapsed[exc.excs[i]]]
  IN  IF Len(exceptions) = 1 /\ exc.kind = "collapsible" THEN exceptions[1]
      ELSE IF exceptions # exc.excs THEN Derive(exceptions)
      ELSE exc

CollapseExceptionGroup(exc) == Collapsed[exc]

\* BaseExceptionGroup.subgroup(): the leaves of these kinds in the groups they
\* were in, as a sequence that is empty if there are none.
Subgroup(kinds) ==
  LET part[exc \in Exceptions] ==
        LET parts == FlattenSeq([i \in DOMAIN exc.excs |-> part[exc.excs[i]]])
        IN  IF ~IsGroup(exc) THEN IF exc.kind \in kinds THEN <<exc>> ELSE <<>>
            ELSE IF parts = <<>> THEN <<>>
            ELSE <<[exc EXCEPT !.excs = parts]>>
  IN  part

\* One side of the split: None, an exception, or a group collapsed.
ExceptionPart(exc, kinds) ==
  LET part == Subgroup(kinds)[exc]
  IN  [i \in DOMAIN part |-> CollapseExceptionGroup(part[i])]

Split(exc, etype) ==
  [match |-> ExceptionPart(exc, etype), rest |-> ExceptionPart(exc, LeafKind \ etype)]

-----------------------------------------------------------------------------
(* What the functions are measured by.                                      *)

LeafSeq[exc \in Exceptions] ==
  IF IsGroup(exc) THEN FlattenSeq([i \in DOMAIN exc.excs |-> LeafSeq[exc.excs[i]]])
  ELSE <<exc.kind>>

KindsOf(exc) == ToSet(LeafSeq[exc])

\* The kinds in a part, which is a sequence of at most one exception.
PartKinds(part) == UNION {KindsOf(part[i]) : i \in DOMAIN part}

\* Trio may collapse every group in it.
NeverStrict[exc \in Exceptions] ==
  IsGroup(exc) =>
    exc.kind = "collapsible" /\ \A i \in DOMAIN exc.excs : NeverStrict[exc.excs[i]]

=============================================================================
