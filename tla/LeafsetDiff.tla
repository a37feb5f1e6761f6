----------------------------- MODULE LeafsetDiff -----------------------------
(***************************************************************************)
(* The leafset differ of getMwebUtxos (src/mweb.go): the persisted leafset *)
(* is compared with the new one, after skipping their common byte prefix;  *)
(* leaves set only in the new one are grouped into spans of at most        *)
(* MaxPerQuery leaves (wire.MaxMwebUtxosPerQuery), leaves set only in the  *)
(* old one are listed as removed.  Also the added-leaf scan of             *)
(* notifyAddedMwebUtxos.  Leafsets are byte slices as in module MMR.       *)
(***************************************************************************)
EXTENDS MMR

\* The number of leading bytes on which the two slices agree.
RECURSIVE CommonPrefix(_, _, _)
CommonPrefix(old, new, index) ==
    IF index < Len(old) /\ index < Len(new) /\ old[index + 1] = new[index + 1]
    THEN CommonPrefix(old, new, index + 1)
    ELSE index

NoSpan == [start |-> 0, count |-> 0]

\* The closure addLeafSpan: flush a non-empty span.
AddLeafSpan(st) ==
    IF st.addLeaf.count > 0
    THEN [st EXCEPT !.addedLeaves = Append(@, st.addLeaf), !.addLeaf = NoSpan]
    ELSE st

\* Mutant: a leaf set in the old leafset does not close the open span.
DiffStepNoFlush(old, new, maxPerQuery, st, index) ==
    IF contains(old, index)
    THEN IF ~contains(new, index)
         THEN [st EXCEPT !.removedLeaves = Append(@, index)]
         ELSE st
    ELSE IF contains(new, index)
    THEN LET s1 == [st EXCEPT !.addLeaf.start = IF st.addLeaf.count = 0 THEN index ELSE @,
                              !.addLeaf.count = @ + 1]
         IN  IF s1.addLeaf.count = maxPerQuery THEN AddLeafSpan(s1) ELSE s1
    ELSE st

\* Mutant: the span is flushed once its count passes the cap, not at it.
DiffStepCapOffByOne(old, new, maxPerQuery, st, index) ==
    IF contains(old, index)
    THEN LET s1 == AddLeafSpan(st)
         IN  IF ~contains(new, index)
             THEN [s1 EXCEPT !.removedLeaves = Append(@, index)]
             ELSE s1
    ELSE IF contains(new, index)
    THEN LET s1 == [st EXCEPT !.addLeaf.start = IF st.addLeaf.count = 0 THEN index ELSE @,
                              !.addLeaf.count = @ + 1]
         IN  IF s1.addLeaf.count > maxPerQuery THEN AddLeafSpan(s1) ELSE s1
    ELSE st

\* One iteration of the differ's loop at leaf `index`.
DiffStep(old, new, maxPerQuery, st, index) ==
    IF contains(old, index)
    THEN LET s1 == AddLeafSpan(st)
         IN  IF ~contains(new, index)
             THEN [s1 EXCEPT !.removedLeaves = Append(@, index)]
             ELSE s1
    ELSE IF contains(new, index)
    THEN LET s1 == [st EXCEPT !.addLeaf.start = IF st.addLeaf.count = 0 THEN index ELSE @,
                              !.addLeaf.count = @ + 1]
         IN  IF s1.addLeaf.count = maxPerQuery THEN AddLeafSpan(s1) ELSE s1
    ELSE st

RECURSIVE DiffLoop(_, _, _, _, _, _, _)
DiffLoop(old, oldNumLeaves, new, newNumLeaves, maxPerQuery, st, index) ==
    IF index < oldNumLeaves \/ index < newNumLeaves
    THEN DiffLoop(old, oldNumLeaves, new, newNumLeaves, maxPerQuery,
                  DiffStep(old, new, maxPerQuery, st, index), index + 1)
    ELSE AddLeafSpan(st)

\* The diff of getMwebUtxos: [addedLeaves: Seq([start, count]), removedLeaves: Seq].
DiffLeafsets(old, oldNumLeaves, new, newNumLeaves, maxPerQuery) ==
    LET r == DiffLoop(old, oldNumLeaves, new, newNumLeaves, maxPerQuery,
                      [addLeaf |-> NoSpan, addedLeaves |-> <<>>, removedLeaves |-> <<>>],
                      8 * CommonPrefix(old, new, 0))
    IN  [addedLeaves |-> r.addedLeaves, removedLeaves |-> r.removedLeaves]

\* The added-leaf scan of notifyAddedMwebUtxos: leaves below newNumLeaves
\* set in newLeafset and not in oldLeafset, after the common byte prefix.
RECURSIVE AddedLoop(_, _, _, _, _)
AddedLoop(old, new, newNumLeaves, added, index) ==
    IF index < newNumLeaves
    THEN AddedLoop(old, new, newNumLeaves,
                   IF ~contains(old, index) /\ contains(new, index)
                   THEN Append(added, index) ELSE added,
                   index + 1)
    ELSE added

AddedLeaves(old, new, newNumLeaves) ==
    AddedLoop(old, new, newNumLeaves, <<>>, 8 * CommonPrefix(old, new, 0))
=============================================================================
