---------------------------- MODULE ChainFollower ----------------------------
(***************************************************************************)
(* What the database of a scanning receiver promises, without nodes, undo  *)
(* sessions or acknowledgements: it follows a block chain through forks.   *)
(*   tip    : the id of the last block whose changes are applied,          *)
(*   stable : the id of the last block that can no longer be undone.       *)
(* A block id is the sequence of tags of the blocks up to it, <<>> = none. *)
(***************************************************************************)
EXTENDS Sequences, SequencesExt

CONSTANT Ids

VARIABLES tip, stable

Init == tip = <<>> /\ stable = <<>>

\* Apply a block whose parent is on the current branch, after dropping whatever
\* lies above that parent; nothing stable is ever dropped.
Advance ==
  /\ tip' \in Ids \ {<<>>}
  /\ tip = <<>> \/ IsPrefix(Front(tip'), tip)
  /\ IsPrefix(stable, Front(tip'))
  /\ stable' \in Ids
  /\ IsPrefix(stable, stable') /\ IsPrefix(stable', tip')

\* Blocks of the current branch become stable.
Settle ==
  /\ stable' \in Ids
  /\ IsPrefix(stable, stable') /\ IsPrefix(stable', tip)
  /\ UNCHANGED tip

\* Blocks that are not stable are dropped: all of them when a new process starts.
Retreat ==
  /\ tip' \in Ids
  /\ IsPrefix(stable, tip') /\ IsPrefix(tip', tip)
  /\ UNCHANGED stable

Next == Advance \/ Settle \/ Retreat

Spec == Init /\ [][Next]_<<tip, stable>>
=============================================================================
