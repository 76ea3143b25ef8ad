--------------------------- MODULE MCNodeMapLoop ----------------------------
(* Views of three nodes and two observers.  The own polls are all of time  *)
(* 1, so that a report may be older or of the same time; lsn tells whose   *)
(* entry is whose.                                                         *)
EXTENDS NodeMapLoop

Kinds(times, whose) ==
  {[conn |-> c, role |-> r, fetched |-> t, contact |-> None, lsn |-> whose] :
     c \in BOOLEAN, r \in {"standby", "primary"}, t \in times} \cup
  {[conn |-> FALSE, role |-> "unknown", fetched |-> t, contact |-> None, lsn |-> whose] : t \in times}

MCClusters == [{2, 3} -> Kinds({1}, 0)] \cup
              {[n \in {1, 2} |-> IF n = 1 THEN f[1] ELSE f[2]] : f \in [{1, 2} -> Kinds({1}, 0)]}
Partial(S, T) == UNION {[D -> T] : D \in SUBSET S}
MCFirst == Partial({2, 3}, Kinds({0, 1}, 1))
MCSecond == Partial({1, 2}, Kinds({1}, 2))
MCReports == MCFirst \X MCSecond
MCOrder == <<3, 1, 2>>
=============================================================================
