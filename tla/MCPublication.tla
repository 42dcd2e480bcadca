---------------------------- MODULE MCPublication ----------------------------
(***************************************************************************)
(* Two subscriptions, one legacy file and two interchangeable contents.    *)
(***************************************************************************)
EXTENDS Publication, TLC

CONSTANTS v1, v2

TwoSubs == <<"generic", "gemini">>

TwoValues == {v1, v2}

Symmetric == Permutations(TwoValues)

=============================================================================
