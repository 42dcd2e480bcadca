---------------------------- MODULE MCControlPlane ----------------------------
(* Two updates after the first configuration, two values for each setting,  *)
(* and channels that one event fills.                                       *)
EXTENDS ControlPlane

MCDefault ==
  [v |-> 0, format |-> "base64", listen |-> "l1", sources |-> {}]

MCConfigured == [MCDefault EXCEPT !.sources = {[id |-> 1, enabled |-> TRUE]}]
=============================================================================
