---------------------------- MODULE MCBlockContent ----------------------------
(* Instances of BlockContent for TLC: two contracts, two ABIs. *)
EXTENDS BlockContent

CONSTANTS v1, v2

MCAbis == {v1, v2}
MCChanges ==
  {<<>>}
    \cup {[a \in {1} |-> b] : b \in {v1, v2, BadAbi, NoAbi}}
    \cup {[a \in {2} |-> v1]}
    \cup {[a \in {1, 2} |-> IF a = 1 THEN NoAbi ELSE v2]}

Transfer == [account |-> 1, name |-> "transfer", receiver |-> 1, actors |-> {1}]
Notify   == [account |-> 1, name |-> "transfer", receiver |-> 2, actors |-> {1}]
Vote     == [account |-> 2, name |-> "vote", receiver |-> 2, actors |-> {1, 2}]
Onblock  == [account |-> 1, name |-> "onblock", receiver |-> 1, actors |-> {}]

MCTraces ==
  LET Acts == {Transfer, Notify, Vote, Onblock}
  IN {<<a>> : a \in Acts} \cup {<<a, b>> : a, b \in Acts}
MCTracesOf == {{}, {<<Transfer>>, <<Onblock, Vote>>}}

NoFilter == [rcvr |-> {}, auth |-> {}, blacklist |-> {}, tables |-> {}, notables |-> {}]
MCConfigs ==
  {[NoFilter EXCEPT !.blacklist = {<<1, "onblock">>}, !.notables = {1}],
   [NoFilter EXCEPT !.rcvr = {2}, !.auth = {2}, !.blacklist = {<<1, "onblock">>},
                    !.tables = {1}]}
=============================================================================
