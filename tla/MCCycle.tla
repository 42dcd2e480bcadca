------------------------------- MODULE MCCycle -------------------------------
(* Two probes at a time, two of at most four candidates a cycle; two raw    *)
(* links share a canonical form, one link does not parse, and a source      *)
(* lists one of its links twice.  The second source comes and goes.         *)
EXTENDS Cycle, TLC

CONSTANTS w1, w2

MCSlots == {w1, w2}
MCSources == <<"s1", "s2">>
MCOffers == [s1 |-> {<<"a1", "b", "a1">>},
             s2 |-> {<<"a2", "c", "x">>, <<>>}]
MCCanonical == [r \in {"a1", "a2", "b", "c", "x"} |->
                  CASE r \in {"a1", "a2"} -> 1 [] r = "b" -> 2
                    [] r = "c" -> 3 [] r = "x" -> 4]
MCParsable == {"a1", "a2", "b", "c"}
Symmetry == Permutations(MCSlots)
=============================================================================
