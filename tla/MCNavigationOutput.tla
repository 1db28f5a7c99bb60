------------------------- MODULE MCNavigationOutput --------------------------
(* One satellite; WT1 and WT2 carry the issue of data, WT5 changes with it *)
(* or in the ionosphere alone.  A subframe has four pages, the last one of *)
(* WT6 or WT10.  The WT6 at 12 breaks the pair of timing words, so that at *)
(* 17 the candidate of 12 has expired before the older, complete one.      *)
EXTENDS NavigationOutput

MCIod == [x \in Contents |-> IF x = "B" THEN 2 ELSE 1]
MCEphPart == [x \in Contents |-> IF x = "I" THEN "A" ELSE x]
MCIonoPart == [x \in Contents |-> IF x = "B" THEN "A" ELSE x]

PagesAt(t) ==
    CASE t = 9 -> {1} \X {"A"}
      [] t \in {1, 5} -> {1} \X {"A", "B"}
      [] t = 2 -> {2} \X {"A"}
      [] t = 6 -> {2} \X {"A", "B"}
      [] t = 3 -> {5} \X {"A"}
      [] t = 7 -> {5} \X {"A", "I"}
      [] t \in {4, 17} -> {6} \X {"A"}
      [] t = 8 -> {10} \X {"A", NoGgto}
      [] t = 12 -> {6} \X {"B"}
MCPageTimes == 1 .. 9 \cup {12, 17}
MCPages == UNION {{<<x[1], x[2], t>> : x \in PagesAt(t)} : t \in MCPageTimes}
=============================================================================
