------------------------ MODULE MCInteractiveReceiver ------------------------
(* Instances of InteractiveReceiver for TLC: two contracts, of which one
   may set its ABI, no filters. *)
EXTENDS InteractiveReceiver

CONSTANT v2

MCAbis == {v2}
MCChanges == {<<>>, [a \in {2} |-> v2]}
MCContents ==
  {[rows |-> {}, actions |-> {1}], [rows |-> {1, 2}, actions |-> {}],
   [rows |-> {2}, actions |-> {1, 2}]}
MCConfigs == {[rcvr |-> {}, auth |-> {}, blacklist |-> {}, tables |-> {}, notables |-> {}]}
=============================================================================
