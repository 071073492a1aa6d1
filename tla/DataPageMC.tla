----------------------------- MODULE DataPageMC -----------------------------
(* The sizes of the code for one particular column: every other value of a *)
(* page is null.                                                           *)
EXTENDS DataPage

AlternatingNext ==
    \/ Len(input) < MaxPuts /\ PutItem(Len(input) % 2)
    \/ Len(input) = MaxPuts /\ FlushPage

AlternatingSpec == PageInit /\ [][AlternatingNext]_pageVars
=============================================================================
