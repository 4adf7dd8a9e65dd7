---------------------------- MODULE BlockFilters ----------------------------
(***************************************************************************)
(* Which traces and table rows of a block are exported: the loop over the  *)
(* actions of a trace in receive_traces and the two tests on the contract  *)
(* of a row in receive_deltas.                                             *)
(*                                                                         *)
(* A configuration holds the option values as sets.  Every filter that is  *)
(* switched on needs at least one name, so the empty set means switched    *)
(* off:                                                                    *)
(*   rcvr, auth       : include-receiver, include-auth                     *)
(*   blacklist        : blacklist-action, pairs <<contract, action>>       *)
(*   tables, notables : include-tables-contract, blacklist-tables-contract *)
(* An action is a record of account, name, receiver and the set of actors. *)
(***************************************************************************)
EXTENDS Integers, Sequences

InBlacklist(c, act) == <<act.account, act.name>> \in c.blacklist
MatchesReceiver(c, act) == act.receiver \in c.rcvr
MatchesAuth(c, act) == act.actors \cap c.auth # {}
Matches(c, act) == MatchesReceiver(c, act) \/ MatchesAuth(c, act)

do_trace_filter(c) == c.rcvr # {} \/ c.auth # {}

\* The loop ends at the first action that is blacklisted or matches a filter.
LoopEnds(c, trace) ==
  {i \in DOMAIN trace :
     /\ InBlacklist(c, trace[i]) \/ Matches(c, trace[i])
     /\ \A j \in 1 .. i - 1 : ~InBlacklist(c, trace[j]) /\ ~Matches(c, trace[j])}

\* Mutant: a trace without hits is dropped under a blacklist, too.
TakesTraceDropped(c, trace) ==
  IF LoopEnds(c, trace) = {} THEN ~do_trace_filter(c) /\ c.blacklist = {}
  ELSE \A i \in LoopEnds(c, trace) : ~InBlacklist(c, trace[i])
TakesTrace(c, trace) ==
  IF LoopEnds(c, trace) = {} THEN ~do_trace_filter(c)
  ELSE \A i \in LoopEnds(c, trace) : ~InBlacklist(c, trace[i])

TakesRow(c, code) ==
  /\ c.tables # {} => code \in c.tables
  /\ code \notin c.notables
=============================================================================
