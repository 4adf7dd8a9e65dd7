--------------------------- MODULE ChainbaseProofs ---------------------------
(* What each chainbase operation does to a database, as facts to cite. *)
EXTENDS Chainbase, TLAPS

\* A new session keeps every older revision and adds one with the new content.
LEMMA PushSessionFacts ==
  ASSUME NEW d, NEW c, IsDatabase(d)
  PROVE  LET e == PushSession(d, c)
         IN /\ IsDatabase(e)
            /\ e.base = d.base /\ e.rev = d.rev + 1
            /\ \A r \in d.base .. d.rev : e.at[r] = d.at[r]
            /\ e.at[d.rev + 1] = c
BY DEF PushSession, IsDatabase

\* Undoing down to r stops at r, at the base, or does nothing.
LEMMA UndoToFacts ==
  ASSUME NEW d, NEW r \in Int, IsDatabase(d)
  PROVE  LET e == UndoTo(d, r)
         IN /\ IsDatabase(e)
            /\ e.base = d.base
            /\ e.rev = IF r >= d.rev THEN d.rev ELSE IF r <= d.base THEN d.base ELSE r
            /\ \A i \in e.base .. e.rev : i \in d.base .. d.rev /\ e.at[i] = d.at[i]
BY DEF UndoTo, IsDatabase

\* Undoing everything leaves the content of the base revision.
LEMMA UndoAllFacts ==
  ASSUME NEW d, IsDatabase(d)
  PROVE  LET e == UndoAll(d)
         IN /\ IsDatabase(e)
            /\ e.base = d.base /\ e.rev = d.base
            /\ e.at[d.base] = d.at[d.base]
BY DEF UndoAll, UndoTo, IsDatabase

\* A commit only moves the base up, never past the revision.
LEMMA CommitFacts ==
  ASSUME NEW d, NEW r \in Int, IsDatabase(d)
  PROVE  LET e == Commit(d, r)
         IN /\ IsDatabase(e)
            /\ e.rev = d.rev /\ d.base <= e.base
            /\ e.base <= r \/ e.base = d.base
            /\ \A i \in e.base .. e.rev : i \in d.base .. d.rev /\ e.at[i] = d.at[i]
BY DEF Commit, IsDatabase

\* A database opened at r has one revision, r, with the given content.
LEMMA OpenedFacts ==
  ASSUME NEW r \in Nat, NEW c
  PROVE  LET e == Opened(r, c)
         IN IsDatabase(e) /\ e.base = r /\ e.rev = r /\ e.at[r] = c
BY DEF Opened, IsDatabase
=============================================================================
