---------------------------- MODULE MCDashboard ----------------------------
(* Two links of which one is recorded at first, a page of one row and      *)
(* snapshots of two: a page is left, a link is evicted and another comes.  *)
EXTENDS Dashboard

MCTiers   == {1, 3}
MCFilters == <<{1, 3}, {1}>>
MCLoaded  == {<<3, 0>>}
=============================================================================
