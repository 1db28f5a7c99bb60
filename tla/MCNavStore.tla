----------------------------- MODULE MCNavStore ------------------------------
(* One satellite (candidates of different satellites are independent) with *)
(* CED in one word, and the two timing words; the contents of the CED and  *)
(* of WT6 change.  Four subframes, one page time each; a page of the       *)
(* second may come after one of the third.  The last is so late that       *)
(* candidates of the first subframe have expired at any rate and of those  *)
(* of the next two the partial ones have, the complete ones not.           *)
EXTENDS NavCandidateStore

MCPayloads == {<<1, "A">>, <<1, "B">>, <<6, "A">>, <<6, "B">>, <<10, "A">>, <<0, "A">>}
MCPageTimes == {t + ModeShift : t \in {0, 3, 4, 9}}
=============================================================================
