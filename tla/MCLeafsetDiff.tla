---------------------------- MODULE MCLeafsetDiff ----------------------------
(***************************************************************************)
(* Checks the differ of getMwebUtxos over every persisted leafset of       *)
(* OldCount leaves (two bytes, so the common-prefix skip both fires and    *)
(* stops inside the slice) and every new leafset that differs from it in   *)
(* at most MaxToggles leaves, for new leaf counts NewCounts and per-query  *)
(* caps Caps.                                                              *)
(***************************************************************************)
EXTENDS LeafsetDiff, FiniteSets, SequencesExt

CONSTANTS
    OldCount,    \* leaf count of the persisted leafset
    NewCounts,   \* leaf counts of the new leafset
    MaxToggles,  \* leaves whose bit differs between old and new, at most
    Caps         \* values of wire.MaxMwebUtxosPerQuery

VARIABLES
    input,   \* [oldSet, newCount, newSet, cap]
    diff     \* the differ's result for input, or <<>> before it runs

vars == <<input, diff>>

\* The sets of at most MaxToggles leaves below nc.
RECURSIVE Toggles(_, _)
Toggles(nc, k) ==
    IF k = 0 THEN {{}}
    ELSE Toggles(nc, k - 1) \cup {t \cup {x} : t \in Toggles(nc, k - 1), x \in 0..nc - 1}

TogglesOf == [nc \in NewCounts |-> Toggles(nc, MaxToggles)]

Inputs ==
    UNION {{[oldSet |-> o, newCount |-> nc, newSet |-> (o \cup t) \ (o \cap t), cap |-> c] :
               t \in TogglesOf[nc]} :
           o \in SUBSET (0..OldCount - 1), nc \in NewCounts, c \in Caps}

Bytes(S, n) == LeafsetBytes(S, (n + 7) \div 8)

Init ==
    /\ input \in Inputs
    /\ diff = <<>>

\* getMwebUtxos reads the persisted leafset and diffs it against the new one.
Diff ==
    /\ diff = <<>>
    /\ diff' = DiffLeafsets(Bytes(input.oldSet, OldCount), OldCount,
                            Bytes(input.newSet, input.newCount), input.newCount,
                            input.cap)
    /\ UNCHANGED input

Spec == Init /\ [][Diff]_vars

\* The leaves verifyMwebUtxos walks for a span: count unspent leaves of the
\* new leafset from start, each the nextUnspent of the one before.
RECURSIVE SpanWalk(_, _, _)
SpanWalk(l, x, count) ==
    IF count = 0 THEN {} ELSE {x} \cup SpanWalk(l, nextUnspent(l, x), count - 1)

SpanLeaves(l, sp) == SpanWalk(l, sp.start, sp.count)

(***************************************************************************)
(* Differ completeness (spec.md §8.7): the persisted leafset less the      *)
(* removed leaves, plus the leaves the span queries will return, is the    *)
(* new leafset, with no persisted leaf fetched again and nothing removed   *)
(* that was not persisted.                                                 *)
(***************************************************************************)
DiffReconstructsNew ==
    diff # <<>> =>
        LET l     == Bytes(input.newSet, input.newCount)
            added == UNION {SpanLeaves(l, diff.addedLeaves[k]) : k \in DOMAIN diff.addedLeaves}
            rem   == ToSet(diff.removedLeaves)
        IN  /\ (input.oldSet \ rem) \cup added = input.newSet
            /\ added \cap input.oldSet = {}
            /\ rem \subseteq input.oldSet

(***************************************************************************)
(* Every span is a query the coordinator can reassemble: 1 to cap leaves,  *)
(* all set in the new leafset only, and the spans' leaf ranges are         *)
(* disjoint and ascending, so ordering responses by StartIndex orders the  *)
(* leaves.                                                                 *)
(***************************************************************************)
SpansAreOrderedQueries ==
    diff # <<>> =>
        LET l  == Bytes(input.newSet, input.newCount)
            sp == diff.addedLeaves
        IN  /\ \A k \in DOMAIN sp : sp[k].count \in 1..input.cap
            /\ \A j, k \in DOMAIN sp :
                  j < k => \A x \in SpanLeaves(l, sp[j]), y \in SpanLeaves(l, sp[k]) : x < y
=============================================================================
