------------------------------ MODULE Chainbase ------------------------------
(***************************************************************************)
(* The part of the chainbase database that chronicle-receiver relies on:   *)
(* a shared-memory store with a stack of undo sessions.  chainbase is a    *)
(* submodule outside this repository, so these operators are written from  *)
(* how src/chronicle-receiver/receiver_plugin.cpp uses it.                 *)
(*                                                                         *)
(* A database is a record                                                  *)
(*    base : the revision below which nothing can be undone any more,      *)
(*    rev  : the current revision, db->revision(),                         *)
(*    at   : for every revision base..rev, the content it restores.        *)
(* The undo stack holds one session for every revision in base+1..rev.     *)
(***************************************************************************)
EXTENDS Integers

IsDatabase(d) ==
  /\ d.base \in Nat /\ d.rev \in Nat /\ d.base <= d.rev
  /\ DOMAIN d.at = d.base .. d.rev

\* A database opened at revision r with content c and no undo session.
Opened(r, c) == [base |-> r, rev |-> r, at |-> [i \in r..r |-> c]]

Current(d) == d.at[d.rev]

HasUndoSession(d) == d.base < d.rev

\* start_undo_session(true), changes that leave content c, session.push().
PushSession(d, c) ==
  [base |-> d.base,
   rev  |-> d.rev + 1,
   at   |-> [i \in d.base .. d.rev + 1 |-> IF i <= d.rev THEN d.at[i] ELSE c]]

\* undo() repeated until the revision is at most r or the stack is empty.
UndoTo(d, r) ==
  LET target == IF r >= d.rev THEN d.rev ELSE IF r <= d.base THEN d.base ELSE r
  IN [base |-> d.base, rev |-> target, at |-> [i \in d.base .. target |-> d.at[i]]]

UndoAll(d) == UndoTo(d, d.base)

\* commit(r) gives up the history below r; it never moves past rev or back.
Commit(d, r) ==
  LET floor == IF r >= d.rev THEN d.rev ELSE IF r <= d.base THEN d.base ELSE r
  IN [base |-> floor, rev |-> d.rev, at |-> [i \in floor .. d.rev |-> d.at[i]]]

\* set_revision(r) throws when a session is open or r is below the revision.
MaySetRevision(d, r) == ~HasUndoSession(d) /\ d.rev <= r
SetRevision(d, r) == Opened(r, Current(d))
=============================================================================
