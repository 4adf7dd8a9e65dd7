---------------------------- MODULE RequestServer ----------------------------
(***************************************************************************)
(* What an interactive receiver promises its consumer: a request for the   *)
(* blocks start .. end-1 is accepted, and the blocks of all requests are   *)
(* delivered one by one, in order, none left out and none twice.  It may   *)
(* stop at any block, which then may be incomplete.                        *)
(***************************************************************************)
EXTENDS Integers, Sequences

CONSTANT Ranges  \* the requests the server accepts, [start, end]

VARIABLES
  left,       \* what is left of the accepted requests, in their order
  delivered   \* the numbers of the blocks delivered

Init == left = <<>> /\ delivered = <<>>

Accept(r) == left' = Append(left, r) /\ UNCHANGED delivered

Deliver ==
  /\ left # <<>>
  /\ LET r == Head(left)
         more == [r EXCEPT !.start = r.start + 1]
     IN /\ delivered' = Append(delivered, r.start)
        /\ left' = (IF more.start < r.end THEN <<more>> ELSE <<>>) \o Tail(left)

Next == Deliver \/ \E r \in Ranges : Accept(r)
Spec == Init /\ [][Next]_<<left, delivered>>
==============================================================================
