------------------------- MODULE ScanRefinementProofs -------------------------
(***************************************************************************)
(* The scanning receiver implements ChainFollower, and its received_block  *)
(* rows name every reversible block: proved for every value of the         *)
(* constants, in the environment of ScanSafetyProofs.                      *)
(***************************************************************************)
EXTENDS ScanSafetyProofs

(* ------------------------------- prefixes ------------------------------- *)

LEMMA PrefixIff ==
  ASSUME NEW s \in Ids, NEW t \in Ids
  PROVE  IsPrefix(s, t) <=> Len(s) <= Len(t) /\ s = SubSeq(t, 1, Len(s))
BY WholeId DEF IsPrefix

LEMMA SubSeqIsPrefix ==
  ASSUME NEW t \in Ids, NEW n \in 0 .. Len(t)
  PROVE  SubSeq(t, 1, n) \in Ids /\ IsPrefix(SubSeq(t, 1, n), t)
<1> DEFINE s == SubSeq(t, 1, n)
<1>1. s \in Ids /\ Len(s) = n /\ s = SubSeq(t, 1, Len(s))
  BY IdPrefix
<1>2. Len(t) \in Nat /\ n <= Len(t)
  BY LenProperties DEF Ids
<1> HIDE DEF s
<1>3. IsPrefix(s, t)
  BY <1>1, <1>2, PrefixIff
<1> QED BY <1>1, <1>3 DEF s

LEMMA PrefixTransitive ==
  ASSUME NEW s \in Ids, NEW t \in Ids, NEW u \in Ids, IsPrefix(s, t), IsPrefix(t, u)
  PROVE  IsPrefix(s, u)
<1>1. Len(s) \in Nat /\ Len(t) \in Nat /\ Len(u) \in Nat
  BY LenProperties DEF Ids
<1>2. /\ Len(s) <= Len(t) /\ s = SubSeq(t, 1, Len(s))
      /\ Len(t) <= Len(u) /\ t = SubSeq(u, 1, Len(t))
  BY PrefixIff
<1>3. Len(t) \in 0 .. Len(u) /\ Len(s) \in 0 .. Len(t)
  BY <1>1, <1>2
<1>4. SubSeq(SubSeq(u, 1, Len(t)), 1, Len(s)) = SubSeq(u, 1, Len(s))
  BY <1>3, PrefixOfPrefix
<1>5. s = SubSeq(u, 1, Len(s)) /\ Len(s) <= Len(u)
  BY <1>1, <1>2, <1>4
<1> QED BY <1>5, PrefixIff

LEMMA EmptyIsPrefix == ASSUME NEW t \in Ids PROVE IsPrefix(<<>>, t)
<1>1. Len(t) \in Nat /\ 0 \in 0 .. Len(t)
  BY LenProperties DEF Ids
<1>2. SubSeq(t, 1, 0) = <<>>
  BY SubSeqEmpty
<1> QED BY <1>1, <1>2, SubSeqIsPrefix

(* -------------------- the two ends of an undo stack --------------------- *)

Tip(d) == Current(d).head_id
Stable(d) == d.at[d.base].head_id

\* The states of the stack extend one another.
Nested(d) ==
  /\ IsDatabase(d)
  /\ \A r \in d.base .. d.rev : d.at[r].head_id \in Ids
  /\ \A q, r \in d.base .. d.rev : q <= r => IsPrefix(d.at[q].head_id, d.at[r].head_id)

LEMMA AlignedNested ==
  ASSUME NEW d, NEW fin \in Nat, Aligned(d, fin)
  PROVE  Nested(d)
<1>1. IsDatabase(d) /\ d.base \in Nat /\ d.rev \in Nat /\ d.rev \in d.base .. d.rev
  BY DEF Aligned, IsDatabase
<1>2. \A r \in d.base .. d.rev : d.at[r].head_id \in Ids /\ r \in Nat
  BY <1>1 DEF Aligned, Revision, TablesOK
<1>3. ASSUME NEW q \in d.base .. d.rev, NEW r \in d.base .. d.rev, q <= r
      PROVE  IsPrefix(d.at[q].head_id, d.at[r].head_id)
  <2>1. Revision(d, q, fin) /\ Revision(d, r, fin)
    BY DEF Aligned
  <2>2. CASE HasState(d.at[q])
    <3>1. HasState(d.at[r])
      BY <1>1, <1>2, <1>3, <2>1, <2>2 DEF Revision
    <3>2. /\ d.at[q].head_id = SubSeq(Tip(d), 1, q) /\ Len(d.at[q].head_id) = q
          /\ d.at[r].head_id = SubSeq(Tip(d), 1, r) /\ Len(d.at[r].head_id) = r
          /\ Len(Tip(d)) = d.rev /\ Tip(d) \in Ids
      BY <1>1, <1>2, <2>1, <2>2, <3>1, OnlyBaseIsEmpty
         DEF Revision, StateOfRevision, Tip, Current
    <3>3. SubSeq(SubSeq(Tip(d), 1, r), 1, q) = SubSeq(Tip(d), 1, q)
      <4>1. r \in 0 .. Len(Tip(d)) /\ q \in 0 .. r
        BY <1>1, <1>2, <1>3, <3>2
      <4> QED BY <3>2, <4>1, PrefixOfPrefix
    <3> QED BY <1>2, <1>3, <3>2, <3>3, PrefixIff
  <2>3. CASE ~HasState(d.at[q])
    <3>1. d.at[q].head_id = <<>>
      BY <2>1, <2>3 DEF Revision, EmptyTables
    <3> QED BY <1>2, <3>1, EmptyIsPrefix
  <2> QED BY <2>2, <2>3
<1> QED BY <1>1, <1>2, <1>3 DEF Nested

LEMMA StoreNested == ASSUME SafeInv PROVE Nested(db)
<1>1. finalized \in Nat
  BY NumbersAssumption DEF SafeInv, TypeOK, NodeOK, BlockNums
<1>2. CASE Store = db
  BY <1>1, <1>2, AlignedNested DEF SafeInv
<1>3. CASE Store # db
  <2>1. IsDatabase(db) /\ db.base = 0 /\ db.rev = 0 /\ TablesOK(db.at[0])
    BY <1>3, StoreFacts DEF SafeInv, TypeOK, DbOK
  <2>2. db.at[0].head_id \in Ids
    BY <2>1 DEF TablesOK
  <2>3. IsPrefix(db.at[0].head_id, db.at[0].head_id)
    BY <2>2, WholeId, LenProperties, PrefixIff DEF Ids
  <2> QED BY <2>1, <2>2, <2>3 DEF Nested
<1> QED BY <1>2, <1>3

LEMMA EndsFacts ==
  ASSUME NEW d, Nested(d)
  PROVE  Tip(d) \in Ids /\ Stable(d) \in Ids /\ IsPrefix(Stable(d), Tip(d))
<1>1. d.base \in d.base .. d.rev /\ d.rev \in d.base .. d.rev /\ d.base <= d.rev
  BY DEF Nested, IsDatabase
<1> QED BY <1>1 DEF Nested, Tip, Stable, Current

\* A commit keeps the tip and moves the stable end towards it.
LEMMA CommitEnds ==
  ASSUME NEW d, Nested(d), NEW n \in Int
  PROVE  LET e == Commit(d, n)
         IN /\ Nested(e) /\ Tip(e) = Tip(d)
            /\ IsPrefix(Stable(d), Stable(e)) /\ IsPrefix(Stable(e), Tip(d))
<1> DEFINE e == Commit(d, n)
<1>1. /\ IsDatabase(e) /\ e.rev = d.rev /\ d.base <= e.base
      /\ \A i \in e.base .. e.rev : i \in d.base .. d.rev /\ e.at[i] = d.at[i]
  BY CommitFacts DEF Nested
<1> HIDE DEF e
<1>2. /\ e.base \in e.base .. e.rev /\ e.rev \in e.base .. e.rev /\ e.base <= e.rev
      /\ d.base \in d.base .. d.rev
  BY <1>1 DEF IsDatabase, Nested
<1>3. Nested(e)
  BY <1>1 DEF Nested
<1>4. Tip(e) = Tip(d) /\ Stable(e) = d.at[e.base].head_id
  BY <1>1, <1>2 DEF Tip, Stable, Current
<1>5. IsPrefix(Stable(d), Stable(e)) /\ IsPrefix(Stable(e), Tip(d))
  BY <1>1, <1>2, <1>4 DEF Nested, Stable, Tip, Current
<1> QED BY <1>3, <1>4, <1>5 DEF e

(* ---------------------- the strengthened invariant ---------------------- *)

\* The head extends the final chain up to the base of the stack, also when the
\* base is the empty database before the start block.
BaseBelow(d, c) ==
  HasState(Current(d)) => SubSeq(Tip(d), 1, d.base) = SubSeq(c, 1, d.base)

\* The rows of a state name all of its reversible blocks.
Covers(t) ==
  \A n \in t.irreversible + 1 .. t.head : n >= StartBlock => n \in DOMAIN t.blocks
Covered(d) == \A r \in d.base .. d.rev : Covers(d.at[r])

\* The states in the stack are not ahead of what the process knows as irreversible.
Settled(d, irr) == \A r \in d.base .. d.rev : d.at[r].irreversible <= irr

Following == phase \in {"connecting", "reading", "paused"}

BranchInv ==
  /\ SafeInv
  /\ BaseBelow(Store, chain) /\ Covered(Store)
  /\ Following => Settled(Store, irreversible)

\* Every revision of e is one of d.
Within(e, d) == \A i \in e.base .. e.rev : i \in d.base .. d.rev /\ e.at[i] = d.at[i]

LEMMA WithinCovered ==
  ASSUME NEW d, NEW e, Within(e, d), Covered(d)
  PROVE  Covered(e) /\ \A irr : Settled(d, irr) => Settled(e, irr)
BY DEF Within, Covered, Settled

\* A base that has a state is on the chain with it.
LEMMA BaseWithState ==
  ASSUME NEW d, NEW fin \in Nat, NEW u, NEW c, Aligned(d, fin), OnChain(d, u, c),
         HasState(d.at[d.base]) \/ d.rev = d.base
  PROVE  BaseBelow(d, c)
<1>1. /\ IsDatabase(d) /\ d.base \in d.base .. d.rev /\ Revision(d, d.base, fin)
  BY DEF Aligned, IsDatabase
<1>2. CASE HasState(d.at[d.base])
  BY <1>1, <1>2 DEF Revision, OnChain, BaseBelow, Tip, Current
<1>3. CASE ~HasState(d.at[d.base])
  BY <1>1, <1>3 DEF BaseBelow, Current
<1> QED BY <1>2, <1>3

LEMMA UndoBelow ==
  ASSUME NEW d, NEW fin \in Nat, NEW c, NEW n \in Nat, Aligned(d, fin), BaseBelow(d, c)
  PROVE  BaseBelow(UndoTo(d, n), c) /\ Within(UndoTo(d, n), d)
<1> DEFINE e == UndoTo(d, n)
<1>1. /\ IsDatabase(d) /\ IsDatabase(e) /\ e.base = d.base /\ e.rev \in d.base .. d.rev
      /\ \A i \in e.base .. e.rev : i \in d.base .. d.rev /\ e.at[i] = d.at[i]
  BY UndoToFacts DEF Aligned, IsDatabase
<1> HIDE DEF e
<1>2. SUFFICES ASSUME HasState(Current(e))
               PROVE  SubSeq(Tip(e), 1, e.base) = SubSeq(c, 1, e.base)
  BY <1>1 DEF BaseBelow, Within, e
<1>3. e.rev \in e.base .. e.rev /\ d.rev \in d.base .. d.rev
  BY <1>1 DEF IsDatabase
<1>4. HasState(d.at[e.rev]) /\ Revision(d, e.rev, fin)
  BY <1>1, <1>2, <1>3 DEF Current, Aligned
<1>5. /\ HasState(Current(d)) /\ Len(Tip(d)) = d.rev /\ Tip(d) \in Ids
      /\ Tip(e) = SubSeq(Tip(d), 1, e.rev)
  BY <1>1, <1>3, <1>4, OnlyBaseIsEmpty
     DEF Current, Tip, Revision, Aligned, TablesOK
<1>6. e.rev \in 0 .. Len(Tip(d)) /\ e.base \in 0 .. e.rev
  BY <1>1, <1>5 DEF IsDatabase
<1>7. SubSeq(Tip(e), 1, e.base) = SubSeq(Tip(d), 1, e.base)
  BY <1>5, <1>6, PrefixOfPrefix
<1> QED BY <1>1, <1>5, <1>7 DEF BaseBelow

LEMMA CommitBelow ==
  ASSUME NEW d, NEW fin \in Nat, NEW u, NEW c, NEW n \in Int,
         Aligned(d, fin), BaseBelow(d, c),
         Aligned(Commit(d, n), fin), OnChain(Commit(d, n), u, c)
  PROVE  BaseBelow(Commit(d, n), c) /\ Within(Commit(d, n), d)
<1> DEFINE e == Commit(d, n)
<1>1. /\ IsDatabase(d) /\ IsDatabase(e) /\ e.rev = d.rev /\ d.base <= e.base
      /\ \A i \in e.base .. e.rev : i \in d.base .. d.rev /\ e.at[i] = d.at[i]
  BY CommitFacts DEF Aligned
<1> HIDE DEF e
<1>2. /\ e.base \in e.base .. e.rev /\ e.rev \in e.base .. e.rev
      /\ Current(e) = Current(d)
  BY <1>1 DEF IsDatabase, Current
<1>3. CASE e.base = d.base
  BY <1>1, <1>2, <1>3 DEF BaseBelow, Within, Tip, e
<1>4. CASE e.base # d.base
  <2>1. HasState(e.at[e.base])
    BY <1>1, <1>2, <1>4 DEF Aligned, Revision
  <2> QED BY <1>1, <2>1, BaseWithState DEF Within, e
<1> QED BY <1>3, <1>4

\* The tables of block n, over those of block n-1, name its reversible blocks.
LEMMA SavedCovers ==
  ASSUME NEW n \in 1..MaxBlock, NEW old, TablesOK(old), Covers(old),
         old = Current(Rolled(n)), lib \in Nat, old.irreversible <= lib,
         \/ HasState(old) /\ old.head = n - 1
         \/ ~HasState(old) /\ n - 1 \in {0, InitialHead(StartBlock)}
  PROVE  Covers(SavedTables(n))
<1> DEFINE t == SavedTables(n)
<1>1. /\ n \in Nat /\ StartBlock \in Nat /\ old.irreversible \in Nat /\ old.head \in Nat
  BY NumbersAssumption DEF TablesOK, BlockNums
<1>2. /\ t.irreversible = lib /\ t.head = n /\ t.blocks = AddedRows(n)
  BY DEF SavedTables
<1>3. n > lib => /\ DOMAIN t.blocks = {i \in DOMAIN old.blocks \cup {n} : i >= lib}
  BY <1>2 DEF AddedRows
<1> HIDE DEF t
<1>4. ASSUME NEW m \in lib + 1 .. n, m >= StartBlock PROVE m \in DOMAIN t.blocks
  <2>1. m \in Nat /\ lib < m /\ m <= n /\ n > lib
    BY <1>1, <1>4
  <2>2. CASE m = n
    BY <1>3, <2>1, <2>2
  <2>3. CASE m # n
    <3>1. m <= n - 1
      BY <1>1, <2>1, <2>3
    <3>2. HasState(old) /\ old.head = n - 1
      BY <1>1, <1>4, <3>1 DEF InitialHead
    <3>3. m \in old.irreversible + 1 .. old.head
      BY <1>1, <2>1, <3>1, <3>2
    <3>4. m \in DOMAIN old.blocks
      BY <1>4, <3>3 DEF Covers
    <3> QED BY <1>3, <2>1, <3>4
  <2> QED BY <2>2, <2>3
<1>5. Covers(t)
  BY <1>2, <1>4 DEF Covers
<1> QED BY <1>5 DEF t

(* --------------------------- handlers that end -------------------------- *)

LEMMA CommitRebased ==
  ASSUME NEW d, NEW fin \in Nat, Aligned(d, fin), NEW n \in Int
  PROVE  Rebased(Commit(d, n)) = Commit(d, n)
<1> DEFINE e == Commit(d, n)
<1>1. /\ IsDatabase(d) /\ IsDatabase(e) /\ e.rev = d.rev /\ d.base <= e.base
      /\ \A i \in e.base .. e.rev : i \in d.base .. d.rev /\ e.at[i] = d.at[i]
  BY CommitFacts DEF Aligned
<1> HIDE DEF e
<1>2. d.rev \in d.base .. d.rev /\ Current(e) = d.at[d.rev] /\ d.rev \in Nat
  BY <1>1 DEF IsDatabase, Current
<1>3. Revision(d, d.rev, fin)
  BY <1>2 DEF Aligned
<1>4. ~(e.rev = 0 /\ HasState(Current(e)))
  BY <1>1, <1>2, <1>3 DEF Revision, StateOfRevision, HasState
<1> QED BY <1>4 DEF Rebased, e

\* What the rest of the invariant needs of the database a handler leaves.
Fits(d, irr) ==
  /\ IsDatabase(d) /\ \A r \in d.base .. d.rev : TablesOK(d.at[r])
  /\ Aligned(Rebased(d), finalized) /\ BaseBelow(Rebased(d), chain)
  /\ Covered(Rebased(d)) /\ Settled(Rebased(d), irr)

LEMMA ContinueBranch ==
  ASSUME SafeInv, SafeInv', NEW d, NEW h, NEW hid, NEW irr \in Nat, NEW acked \in Nat,
         NEW forked, Fits(d, irr), continue_read(d, h, hid, irr, acked, forked),
         UNCHANGED <<chain, finalized>>
  PROVE  BranchInv'
<1>1. finalized \in Nat /\ finalized' = finalized /\ chain' = chain
  BY NumbersAssumption DEF SafeInv, TypeOK, NodeOK, BlockNums
<1>2. CASE ReachedEnd(h, irr, acked)
  <2>1. /\ db' = Commit(d, CommitRev(irr, acked)) /\ phase' = "stopped"
        /\ CommitRev(irr, acked) \in Int
    BY <1>2 DEF continue_read, commit_db, CommitRev
  <2>2. CASE Rebased(d) = d
    <3>1. Store' = db' /\ Aligned(d, finalized)
      BY <1>1, <2>1, <2>2, CommitRebased DEF Store, Fits
    <3>2. Aligned(db', finalized) /\ OnChain(db', Sent', chain)
      BY <1>1, <3>1 DEF SafeInv
    <3>3. BaseBelow(db', chain) /\ Within(db', d)
      BY <1>1, <2>1, <2>2, <3>1, <3>2, CommitBelow DEF Fits
    <3> QED BY <1>1, <2>1, <2>2, <3>1, <3>3, WithinCovered DEF Fits, BranchInv, Following
  <2>3. CASE Rebased(d) # d
    <3>1. d.rev = 0 /\ d.base = 0
      BY <2>3, RebasedFacts DEF Fits
    <3>2. /\ IsDatabase(db') /\ db'.rev = 0 /\ d.base <= db'.base
          /\ \A i \in db'.base .. db'.rev : db'.at[i] = d.at[i]
      BY <2>1, <3>1, CommitFacts DEF Fits
    <3>3. db'.base = 0 /\ db'.at[0] = d.at[0]
      BY <3>1, <3>2 DEF IsDatabase
    <3>4. Store' = Rebased(d)
      BY <2>3, <3>1, <3>2, <3>3, RebasedAgain DEF Store
    <3> QED BY <1>1, <2>1, <3>4 DEF Fits, BranchInv, Following
  <2> QED BY <2>2, <2>3
<1>3. CASE ~ReachedEnd(h, irr, acked)
  <2>1. db' = d /\ irreversible' = irr
    BY <1>3 DEF continue_read
  <2>2. Store' = Rebased(d)
    BY <2>1 DEF Store
  <2> QED BY <1>1, <2>1, <2>2 DEF Fits, BranchInv, Following
<1> QED BY <1>2, <1>3

\* Seen from outside, such a handler leaves the branch it found, or settles blocks.
LEMMA ContinueEnds ==
  ASSUME NEW d, Nested(d), NEW h, NEW hid, NEW irr \in Nat, NEW acked \in Nat, NEW forked,
         continue_read(d, h, hid, irr, acked, forked)
  PROVE  /\ Nested(db') /\ Tip(db') = Tip(d)
         /\ IsPrefix(Stable(d), Stable(db')) /\ IsPrefix(Stable(db'), Tip(d))
<1>1. CASE ReachedEnd(h, irr, acked)
  <2>1. db' = Commit(d, CommitRev(irr, acked)) /\ CommitRev(irr, acked) \in Int
    BY <1>1 DEF continue_read, commit_db, CommitRev
  <2> QED BY <2>1, CommitEnds
<1>2. CASE ~ReachedEnd(h, irr, acked)
  <2>1. db' = d
    BY <1>2 DEF continue_read
  <2>2. /\ Tip(d) \in Ids /\ Stable(d) \in Ids /\ IsPrefix(Stable(d), Tip(d))
    BY EndsFacts
  <2>3. IsPrefix(Stable(d), Stable(d))
    BY <2>2, WholeId, LenProperties, PrefixIff DEF Ids
  <2> QED BY <2>1, <2>2, <2>3
<1> QED BY <1>1, <1>2

(* ---------------------------- receive_result ---------------------------- *)

\* Setting the revision and rolling back leave the stable end alone.
LEMMA PreparedEnds ==
  ASSUME Nested(db), NEW n \in Nat \ {0}
  PROVE  /\ Nested(Prepared(n)) /\ Stable(Prepared(n)) = Stable(db)
         /\ Tip(Prepared(n)) = Tip(db)
<1>1. CASE Prepared(n) = db
  BY <1>1
<1>2. CASE Prepared(n) # db
  <2>1. /\ Prepared(n) = Opened(n - 1, Current(db)) /\ db.base = db.rev /\ n - 1 \in Nat
    BY <1>2 DEF Prepared, SetRevision, MaySetRevision, HasUndoSession, Nested, IsDatabase
  <2>2. /\ IsDatabase(Prepared(n)) /\ Prepared(n).base = n - 1 /\ Prepared(n).rev = n - 1
        /\ Prepared(n).at[n - 1] = Current(db)
    BY <2>1, OpenedFacts
  <2>3. Tip(db) \in Ids /\ Stable(db) = Tip(db) /\ IsPrefix(Tip(db), Tip(db))
    BY <2>1, EndsFacts DEF Stable, Tip, Current
  <2>4. \A r \in Prepared(n).base .. Prepared(n).rev : r = n - 1
    BY <2>1, <2>2
  <2> QED BY <2>2, <2>3, <2>4 DEF Nested, Stable, Tip, Current
<1> QED BY <1>1, <1>2

LEMMA RolledEnds ==
  ASSUME Nested(db), NEW n \in Nat \ {0}
  PROVE  /\ Nested(Rolled(n)) /\ Stable(Rolled(n)) = Stable(db)
         /\ IsPrefix(Tip(Rolled(n)), Tip(db))
<1>1. /\ Nested(Prepared(n)) /\ Stable(Prepared(n)) = Stable(db)
      /\ Tip(Prepared(n)) = Tip(db)
  BY PreparedEnds
<1>2. CASE ~IsFork(n)
  <2>1. Prepared(n).rev \in Prepared(n).base .. Prepared(n).rev /\ Prepared(n).rev \in Nat
    BY <1>1 DEF Nested, IsDatabase
  <2>2. IsPrefix(Tip(Prepared(n)), Tip(Prepared(n)))
    BY <1>1, <2>1 DEF Nested, Tip, Current
  <2> QED BY <1>1, <1>2, <2>2 DEF Rolled
<1>3. CASE IsFork(n)
  <2> DEFINE e == UndoTo(Prepared(n), n - 1)
  <2>1. /\ IsDatabase(e) /\ e.base = Prepared(n).base
        /\ \A i \in e.base .. e.rev :
             i \in Prepared(n).base .. Prepared(n).rev /\ e.at[i] = Prepared(n).at[i]
    BY <1>1, UndoToFacts DEF Nested
  <2>2. Rolled(n) = e
    BY <1>3 DEF Rolled
  <2> HIDE DEF e
  <2>3. e.base \in e.base .. e.rev
    BY <2>1 DEF IsDatabase
  <2>4. Nested(e)
    BY <1>1, <2>1 DEF Nested
  <2>5. Stable(e) = Stable(Prepared(n))
    BY <2>1, <2>3 DEF Stable
  <2>6. IsPrefix(Tip(e), Tip(Prepared(n)))
    <3>1. /\ e.rev \in e.base .. e.rev /\ e.rev \in Prepared(n).base .. Prepared(n).rev
          /\ Prepared(n).rev \in Prepared(n).base .. Prepared(n).rev
          /\ e.rev <= Prepared(n).rev /\ e.at[e.rev] = Prepared(n).at[e.rev]
      BY <1>1, <2>1 DEF Nested, IsDatabase
    <3> QED BY <1>1, <3>1 DEF Nested, Tip, Current
  <2> QED BY <1>1, <2>2, <2>4, <2>5, <2>6
<1> QED BY <1>2, <1>3

\* Where a block goes: the parent's state, with rows for its reversible blocks,
\* on the branch that was followed until now.
LEMMA RolledBranch ==
  ASSUME Environment, BranchInv, NEW n \in 1..MaxBlock, Usable(n)
  PROVE  /\ BaseBelow(Rolled(n), chain) /\ Covered(Rolled(n)) /\ Settled(Rolled(n), lib)
         /\ ~HasState(Current(Rolled(n))) => n - 1 \in {0, InitialHead(StartBlock)}
         /\ HasState(Current(db)) => /\ n - 1 \in 0 .. Len(Tip(db))
                                     /\ SubSeq(Tip(db), 1, n - 1) = SubSeq(chain, 1, n - 1)
<1>1. Result(n) /\ ~Refused(n) /\ phase = "reading" /\ n = toSend /\ n \in Nat /\ n - 1 \in Nat
  BY NumbersAssumption DEF Usable, Result
<1>2. /\ finalized \in Nat /\ head \in Nat /\ lib \in Nat /\ irreversible \in Nat
      /\ irreversible <= lib /\ SafeInv
  BY <1>1, NumbersAssumption
     DEF BranchInv, SafeInv, TypeOK, NodeOK, MemoryOK, BlockNums, Refused, LowerLib
<1>3. /\ Aligned(Rolled(n), finalized) /\ OnChain(Rolled(n), n, chain) /\ Rolled(n).rev = n - 1
  BY <1>2, RolledAligned
<1>4. /\ Aligned(Store, finalized) /\ BaseBelow(Store, chain) /\ Covered(Store)
      /\ Settled(Store, irreversible) /\ Current(Store) = Current(db)
  BY <1>1, <1>2, StoreFacts DEF BranchInv, Following, SafeInv
<1>5. IsDatabase(Rolled(n)) /\ n - 1 \in Rolled(n).base .. Rolled(n).rev
  BY <1>3 DEF Aligned, IsDatabase
<1>6. CASE HasState(Current(db))
  <2>1. Prepared(n) = Store /\ head = Store.rev
    BY <1>1, <1>2, <1>4, <1>6, PreparedAligned DEF SafeInv, Running
  <2>2. BaseBelow(Rolled(n), chain) /\ Within(Rolled(n), Store)
    <3>1. CASE IsFork(n)
      BY <1>1, <1>2, <1>4, <2>1, <3>1, UndoBelow DEF Rolled
    <3>2. CASE ~IsFork(n)
      BY <1>4, <2>1, <3>2 DEF Rolled, Within
    <3> QED BY <3>1, <3>2
  <2>3. Covered(Rolled(n)) /\ Settled(Rolled(n), irreversible)
    BY <1>4, <2>2, WithinCovered
  <2>4. Settled(Rolled(n), lib)
    <3>1. \A r \in Rolled(n).base .. Rolled(n).rev : Rolled(n).at[r].irreversible \in Nat
      BY <1>3, NumbersAssumption DEF Aligned, Revision, TablesOK, BlockNums
    <3> QED BY <1>2, <2>3, <3>1 DEF Settled
  <2>5. /\ Rolled(n).at[n - 1] = Store.at[n - 1] /\ n - 1 \in Store.base .. Store.rev
        /\ Revision(Store, n - 1, finalized) /\ IsDatabase(Store)
    BY <1>4, <1>5, <2>2 DEF Within, Aligned
  <2>6. Tip(Store) = Tip(db) /\ Tip(Store) \in Ids /\ Len(Tip(Store)) = Store.rev
    <3>1. Store.rev \in Store.base .. Store.rev
      BY <2>5 DEF IsDatabase
    <3>2. Revision(Store, Store.rev, finalized)
      BY <1>4, <3>1 DEF Aligned
    <3> QED BY <1>4, <1>6, <3>2 DEF Tip, Current, Revision, StateOfRevision, TablesOK
  <2>7. n - 1 \in 0 .. Len(Tip(db))
    BY <1>1, <2>5, <2>6 DEF IsDatabase
  <2>8. CASE HasState(Store.at[n - 1])
    <3>1. Store.at[n - 1].head_id = SubSeq(Tip(Store), 1, n - 1)
      BY <2>5, <2>8 DEF Revision, Tip, Current
    <3>2. Rolled(n).at[n - 1].head_id = SubSeq(chain, 1, n - 1)
      BY <1>1, <1>3, <1>5, <2>5, <2>8 DEF OnChain
    <3> QED BY <1>3, <2>2, <2>3, <2>4, <2>5, <2>6, <2>7, <2>8, <3>1, <3>2 DEF Current
  <2>9. CASE ~HasState(Store.at[n - 1])
    <3>1. n - 1 = Store.base
      BY <2>5, <2>9 DEF Revision
    <3>2. SubSeq(Tip(Store), 1, n - 1) = SubSeq(chain, 1, n - 1)
      BY <1>4, <1>6, <3>1 DEF BaseBelow
    <3>3. n - 1 \in {0, InitialHead(StartBlock)}
      BY <1>4, <2>9, <3>1 DEF Aligned
    <3> QED BY <2>2, <2>3, <2>4, <2>6, <2>7, <3>2, <3>3
  <2> QED BY <2>8, <2>9
<1>7. CASE ~HasState(Current(db))
  <2>1. /\ n = head + 1 /\ head = InitialHead(StartBlock) /\ db.rev = db.base
        /\ Current(db) = EmptyTables
    BY <1>1, <1>2, <1>7, NextOfEmpty
  <2>2. Rolled(n) = Prepared(n)
    BY <1>2, <2>1 DEF Rolled, IsFork
  <2>3. ~HasState(EmptyTables) /\ EmptyTables.irreversible = 0 /\ Covers(EmptyTables)
    BY DEF HasState, EmptyTables, Covers
  <2>4. /\ \A r \in Rolled(n).base .. Rolled(n).rev : Rolled(n).at[r] = EmptyTables
    <3>1. CASE Prepared(n) = db
      <4>1. db.base \in Nat /\ \A r \in db.base .. db.rev : r = db.rev
        BY <1>2, <2>1 DEF SafeInv, TypeOK, DbOK, IsDatabase
      <4> QED BY <2>1, <2>2, <3>1, <4>1 DEF Current
    <3>2. CASE Prepared(n) # db
      <4>1. Prepared(n) = Opened(n - 1, EmptyTables)
        BY <2>1, <3>2 DEF Prepared, SetRevision
      <4> QED BY <1>1, <2>2, <4>1 DEF Opened
    <3> QED BY <3>1, <3>2
  <2>5. Current(Rolled(n)) = EmptyTables
    BY <1>3, <1>5, <2>4 DEF Current
  <2> QED BY <1>1, <1>2, <1>7, <2>1, <2>3, <2>4, <2>5 DEF BaseBelow, Covered, Settled
<1> QED BY <1>6, <1>7

\* The received_block row of a block is never there already.
LEMMA NoDuplicateRow ==
  ASSUME Environment, SafeInv, NEW n \in 1..MaxBlock, Usable(n)
  PROVE  ~DuplicateRow(n)
<1> DEFINE old == Current(Rolled(n))
<1>1. n \in Nat /\ Aligned(Rolled(n), finalized) /\ Rolled(n).rev = n - 1
  BY RolledAligned, NumbersAssumption
<1>2. Revision(Rolled(n), n - 1, finalized) /\ old = Rolled(n).at[n - 1]
  BY <1>1 DEF Aligned, IsDatabase, Current
<1>3. CASE HasState(old)
  <2>1. old.head = n - 1 /\ \A m \in DOMAIN old.blocks : m \in 1 .. old.head
    BY <1>2, <1>3 DEF Revision, StateOfRevision, RowsOnBranch
  <2> QED BY <1>1, <2>1 DEF DuplicateRow
<1>4. CASE ~HasState(old)
  <2>1. DOMAIN <<>> = {} OBVIOUS
  <2>2. old.blocks = <<>>
    BY <1>2, <1>4 DEF Revision, EmptyTables
  <2> QED BY <2>1, <2>2 DEF DuplicateRow
<1> QED BY <1>3, <1>4

\* What a stored block leaves, and the branch it is on.
LEMMA StoredBranch ==
  ASSUME Environment, BranchInv, NEW n \in 1..MaxBlock, Usable(n)
  PROVE  LET stored == commit_db(StoredBlock(n), lib, AckedAfter(n))
         IN /\ Fits(stored, lib) /\ Nested(stored) /\ Tip(stored) = BlockId(n)
            /\ IsPrefix(Stable(db), SubSeq(chain, 1, n - 1))
            /\ IsPrefix(Stable(db), Stable(stored))
<1> DEFINE pushed == StoredBlock(n)
           stored == commit_db(pushed, lib, AckedAfter(n))
           t      == SavedTables(n)
           old    == Current(Rolled(n))
<1>1. /\ SafeInv /\ Result(n) /\ n \in Nat \ {0} /\ n - 1 \in Nat
      /\ finalized \in Nat /\ chain \in Ids /\ lib \in Nat /\ Len(chain) \in Nat
  BY NumbersAssumption, LenProperties
     DEF Usable, BranchInv, SafeInv, TypeOK, NodeOK, BlockNums, Ids
<1>2. /\ n \in 1 .. Len(chain) /\ Rolled(n).rev = n - 1
      /\ Aligned(Rolled(n), finalized) /\ OnChain(Rolled(n), n, chain)
  BY <1>1, RolledAligned
<1>3. /\ Aligned(pushed, finalized) /\ OnChain(pushed, n + 1, chain)
      /\ Aligned(stored, finalized) /\ OnChain(stored, n + 1, chain)
      /\ CommitRev(lib, AckedAfter(n)) \in Int
      /\ stored.rev = n /\ Current(stored) = t
  BY <1>1, StoredAligned
<1>4. /\ BaseBelow(Rolled(n), chain) /\ Covered(Rolled(n)) /\ Settled(Rolled(n), lib)
      /\ ~HasState(old) => n - 1 \in {0, InitialHead(StartBlock)}
  BY RolledBranch
<1>5. /\ IsDatabase(Rolled(n)) /\ n - 1 \in Rolled(n).base .. Rolled(n).rev
      /\ Revision(Rolled(n), n - 1, finalized) /\ old = Rolled(n).at[n - 1]
  BY <1>1, <1>2 DEF Aligned, IsDatabase, Current
<1>6. t.head = n /\ t.head_id = BlockId(n) /\ t.irreversible = lib
  BY DEF SavedTables
<1>7. Covers(t)
  <2>1. Covers(old) /\ old.irreversible <= lib /\ TablesOK(old)
    BY <1>4, <1>5 DEF Covered, Settled, Revision
  <2>2. HasState(old) => old.head = n - 1
    BY <1>5 DEF Revision, StateOfRevision
  <2> QED BY <1>1, <1>4, <2>1, <2>2, SavedCovers
<1>8. /\ IsDatabase(pushed) /\ pushed.base = Rolled(n).base /\ pushed.rev = n
      /\ \A r \in Rolled(n).base .. n - 1 : pushed.at[r] = Rolled(n).at[r]
      /\ pushed.at[n] = t
  BY <1>1, <1>2, <1>5, PushSessionFacts DEF StoredBlock
<1> HIDE DEF t, pushed
<1>9. Covered(pushed) /\ Settled(pushed, lib)
  <2>1. \A r \in pushed.base .. pushed.rev : r = n \/ r \in Rolled(n).base .. n - 1
    BY <1>1, <1>5, <1>8 DEF IsDatabase
  <2> QED BY <1>1, <1>2, <1>4, <1>6, <1>7, <1>8, <2>1 DEF Covered, Settled
<1>10. BaseBelow(pushed, chain)
  <2>1. Tip(pushed) = SubSeq(chain, 1, n) /\ pushed.base \in 0 .. n /\ n \in 0 .. Len(chain)
    BY <1>1, <1>2, <1>5, <1>6, <1>8 DEF Tip, Current, BlockId, IsDatabase
  <2> QED BY <1>1, <2>1, PrefixOfPrefix DEF BaseBelow
<1>11. BaseBelow(stored, chain) /\ Within(stored, pushed)
  BY <1>1, <1>3, <1>10, CommitBelow DEF commit_db
<1>12. Covered(stored) /\ Settled(stored, lib)
  BY <1>9, <1>11, WithinCovered
<1>13. Nested(pushed) /\ Nested(stored) /\ IsPrefix(Stable(pushed), Stable(stored))
  BY <1>1, <1>3, AlignedNested, CommitEnds DEF commit_db
<1> HIDE DEF stored
<1>14. Fits(stored, lib)
  <2>1. Rebased(stored) = stored
    BY <1>3, RebasedAligned
  <2> QED BY <1>3, <1>11, <1>12, <2>1 DEF Fits, Aligned, Revision
<1>15. Tip(stored) = BlockId(n)
  BY <1>3, <1>6 DEF Tip
<1>16. Nested(db) /\ Nested(Rolled(n)) /\ Stable(Rolled(n)) = Stable(db)
  BY <1>1, StoreNested, RolledEnds
<1>17. Stable(pushed) = Stable(db)
  <2>1. Rolled(n).base \in Rolled(n).base .. n - 1
    BY <1>1, <1>2, <1>5 DEF IsDatabase
  <2> QED BY <1>8, <1>16, <2>1 DEF Stable
<1>18. IsPrefix(Stable(db), SubSeq(chain, 1, n - 1))
  <2>1. /\ Stable(db) \in Ids /\ Tip(Rolled(n)) \in Ids
        /\ IsPrefix(Stable(db), Tip(Rolled(n)))
    BY <1>16, EndsFacts
  <2>2. CASE HasState(old)
    <3>1. Tip(Rolled(n)) = SubSeq(chain, 1, n - 1)
      BY <1>1, <1>2, <1>5, <2>2 DEF OnChain, Tip
    <3> QED BY <2>1, <3>1
  <2>3. CASE ~HasState(old)
    <3>1. Tip(Rolled(n)) = <<>>
      BY <1>5, <2>3 DEF Revision, EmptyTables, Tip
    <3>2. n - 1 \in 0 .. Len(chain)
      BY <1>1, <1>2
    <3>3. SubSeq(chain, 1, n - 1) \in Ids
      BY <1>1, <3>2, IdPrefix
    <3>4. <<>> \in Ids /\ IsPrefix(<<>>, SubSeq(chain, 1, n - 1))
      BY <3>3, EmptyIsPrefix, EmptyId
    <3> QED BY <2>1, <3>1, <3>3, <3>4, PrefixTransitive
  <2> QED BY <2>2, <2>3
<1> QED BY <1>13, <1>14, <1>15, <1>17, <1>18 DEF stored, pushed

(* ------------------------- steps of the invariant ----------------------- *)

\* Prefixes mean the same in the abstract specification.
LEMMA FollowerPrefix ==
  ASSUME NEW s, NEW t
  PROVE  (Follower!IsPrefix(s, t) <=> IsPrefix(s, t)) /\ Follower!Front(s) = Front(s)
BY DEF Follower!IsPrefix, Follower!Front, IsPrefix, Front

\* The base of the database is the base it has once the revision is set.
LEMMA StoreBase ==
  ASSUME SafeInv
  PROVE  /\ Store.base \in Store.base .. Store.rev /\ Store.rev \in Store.base .. Store.rev
         /\ db.at[db.base] = Store.at[Store.base]
<1>1. IsDatabase(Store)
  BY DEF SafeInv, Aligned
<1>2. CASE Store = db
  BY <1>1, <1>2 DEF IsDatabase
<1>3. CASE Store # db
  <2>1. db.base = 0 /\ db.rev = 0 /\ Store.base = Store.rev /\ Current(Store) = Current(db)
    BY <1>3, StoreFacts DEF SafeInv
  <2> QED BY <1>1, <2>1 DEF IsDatabase, Current
<1> QED BY <1>2, <1>3

LEMMA InitBranch == Environment /\ Init => BranchInv
<1> SUFFICES ASSUME Environment, Init PROVE BranchInv OBVIOUS
<1>1. SafeInv
  BY InitSafe
<1>2. /\ IsDatabase(db) /\ db.base = 0 /\ db.rev = 0 /\ db.at[0] = EmptyTables
      /\ phase = "stopped"
  BY OpenedFacts DEF Init
<1>3. ~HasState(EmptyTables) /\ Covers(EmptyTables)
  BY DEF HasState, EmptyTables, Covers
<1>4. Store = db
  BY <1>2, <1>3 DEF Store, Rebased, Current
<1>5. BaseBelow(db, chain) /\ Covered(db)
  <2>1. \A r \in db.base .. db.rev : r = 0
    BY <1>2
  <2> QED BY <1>2, <1>3, <2>1 DEF BaseBelow, Covered, Current
<1> QED BY <1>1, <1>2, <1>4, <1>5 DEF BranchInv, Following

\* Steps that leave the database alone, and the final part of the chain.
LEMMA KeptBranch ==
  ASSUME BranchInv, SafeInv', UNCHANGED db,
         SubSeq(chain', 1, Store.base) = SubSeq(chain, 1, Store.base),
         Following' => Following /\ UNCHANGED irreversible
  PROVE  BranchInv'
<1>1. Store' = Store
  BY DEF Store
<1> QED BY <1>1 DEF BranchInv, BaseBelow

LEMMA NodeBranch ==
  ASSUME Environment, BranchInv, Node
  PROVE  BranchInv' /\ UNCHANGED db
<1>1. SafeInv /\ SafeInv'
  BY NodeSafe DEF BranchInv
<1>2. UNCHANGED <<db, phase, irreversible>>
  BY DEF Node, NodeProduce, NodeFork, NodeLib, NodeFailOver, memory, position
<1>3. /\ chain \in Ids /\ Len(chain) \in Nat /\ finalized \in Nat /\ Store.base \in Nat
      /\ Store.base <= finalized /\ Store.base \in 0 .. Len(chain)
  BY <1>1, LenProperties, NumbersAssumption
     DEF SafeInv, TypeOK, NodeOK, BlockNums, Ids, LibOrder, Aligned, IsDatabase
<1>4. SubSeq(chain', 1, Store.base) = SubSeq(chain, 1, Store.base)
  <2>1. CASE NodeProduce
    <3>1. chain' = Append(chain, epoch) /\ epoch \in 0..MaxForks
      BY <1>1, <2>1 DEF NodeProduce, SafeInv, TypeOK, NodeOK
    <3> QED BY <1>3, <3>1, PrefixOfAppend
  <2>2. ASSUME NEW k \in 1..MaxBlock, NodeFork(k)
        PROVE  SubSeq(chain', 1, Store.base) = SubSeq(chain, 1, Store.base)
    <3> DEFINE kept == SubSeq(chain, 1, k - 1)
    <3>1. /\ k - 1 \in 0 .. Len(chain) /\ finalized < k /\ epoch + 1 \in 0..MaxForks
          /\ chain' = Append(kept, epoch + 1)
      BY <1>1, <1>3, <2>2, NumbersAssumption DEF NodeFork, SafeInv, TypeOK, NodeOK
    <3>2. kept \in Ids /\ Len(kept) = k - 1 /\ Store.base \in 0 .. k - 1
      BY <1>3, <3>1, IdPrefix
    <3>3. SubSeq(kept, 1, Store.base) = SubSeq(chain, 1, Store.base)
      BY <1>3, <3>1, <3>2, PrefixOfPrefix
    <3> HIDE DEF kept
    <3> QED BY <3>1, <3>2, <3>3, PrefixOfAppend
  <2>3. CASE NodeLib \/ NodeFailOver
    BY <2>3 DEF NodeLib, NodeFailOver
  <2> QED BY <2>1, <2>2, <2>3 DEF Node
<1> QED BY <1>1, <1>2, <1>4, KeptBranch DEF Following

\* Steps that leave one state, one that was in the stack.
LEMMA SingleBranch ==
  ASSUME BranchInv, SafeInv', UNCHANGED chain, Store'.rev = Store'.base,
         NEW r \in Store.base .. Store.rev, Current(Store') = Store.at[r],
         Following' => Store.at[r].irreversible <= irreversible'
  PROVE  BranchInv'
<1>1. /\ Aligned(Store', finalized') /\ OnChain(Store', Sent', chain')
      /\ finalized' \in Nat /\ IsDatabase(Store')
  BY NumbersAssumption DEF SafeInv, TypeOK, NodeOK, BlockNums, Aligned
<1>2. BaseBelow(Store', chain')
  BY <1>1, BaseWithState
<1>3. /\ Store'.rev \in Nat
      /\ \A q \in Store'.base .. Store'.rev : q = Store'.rev
  BY <1>1 DEF IsDatabase
<1>4. \A q \in Store'.base .. Store'.rev : Store'.at[q] = Store.at[r]
  BY <1>3 DEF Current
<1>5. Covered(Store') /\ (Following' => Settled(Store', irreversible'))
  BY <1>4 DEF Covered, Settled, BranchInv
<1> QED BY <1>2, <1>5 DEF BranchInv

\* Reverting the revisions: the tip goes back to the stable end.
LEMMA RevertedBranch ==
  ASSUME Environment, BranchInv, load_state \/ SaveSnapshot
  PROVE  BranchInv' /\ Follower!Retreat
<1>1. SafeInv /\ SafeInv'
  BY LoadStateSafe, SnapshotSafe DEF BranchInv
<1>2. db' = UndoAll(db) /\ UNCHANGED chain /\ IsDatabase(db)
  BY <1>1 DEF load_state, SaveSnapshot, node, SafeInv, TypeOK, DbOK
<1>3. /\ db'.base = db.base /\ db'.rev = db.base /\ db'.at[db.base] = db.at[db.base]
      /\ Current(UndoAll(db)) = db.at[db.base]
  BY <1>2, UndoAllFacts DEF Current
<1>4. Store'.rev = Store'.base /\ Current(Store') = db.at[db.base]
  BY <1>1, <1>2, <1>3, UndoAllSafe
<1>5. Following' => db.at[db.base].irreversible <= irreversible'
  <2>1. Following' => irreversible' = db.at[db.base].irreversible
    BY <1>3 DEF Following, load_state, SaveSnapshot
  <2>2. db.at[db.base].irreversible \in Int
    BY <1>1, <1>2, NumbersAssumption
       DEF SafeInv, TypeOK, DbOK, TablesOK, BlockNums, IsDatabase
  <2> QED BY <2>1, <2>2
<1>6. BranchInv'
  BY <1>1, <1>2, <1>4, <1>5, StoreBase, SingleBranch
<1>7. /\ Stable(db) \in Ids /\ IsPrefix(Stable(db), Tip(db)) /\ IsPrefix(Stable(db), Stable(db))
      /\ Tip(db') = Stable(db) /\ Stable(db') = Stable(db)
  <2>1. Nested(db) /\ db.base \in db.base .. db.rev /\ db.base <= db.base
    BY <1>1, <1>2, StoreNested DEF IsDatabase
  <2> QED BY <1>2, <1>3, <2>1, EndsFacts DEF Nested, Stable, Tip, Current
<1> QED BY <1>6, <1>7, FollowerPrefix DEF Follower!Retreat, Stable, Tip

\* Restoring the snapshot puts the same state into a new database.
LEMMA RestoredBranch ==
  ASSUME Environment, BranchInv, RestoreSnapshot
  PROVE  /\ BranchInv'
         /\ UNCHANGED <<Current(db).head_id, db.at[db.base].head_id>>
<1>1. SafeInv /\ SafeInv'
  BY SnapshotSafe DEF BranchInv
<1>2. /\ db' = Opened(0, Current(db)) /\ HasState(Current(db)) /\ db.base = db.rev
      /\ UNCHANGED chain /\ phase' = "stopped"
  BY <1>1 DEF RestoreSnapshot, HasUndoSession, Restored, IsDatabase, SafeInv, TypeOK, DbOK, node
<1>3. /\ db'.base = 0 /\ db'.rev = 0 /\ db'.at[0] = Current(db) /\ Current(db') = Current(db)
  BY <1>2, OpenedFacts DEF Current
<1>4. Store' = Opened(Current(db).head, Current(db))
  BY <1>2, <1>3 DEF Store, Rebased
<1>5. Store'.rev = Store'.base /\ Current(Store') = Current(Store)
  <2>1. Current(db).head \in Nat /\ Current(Store) = Current(db)
    BY <1>1, StoreFacts, NumbersAssumption
       DEF SafeInv, TypeOK, DbOK, IsDatabase, TablesOK, BlockNums, Current
  <2> QED BY <1>4, <2>1, OpenedFacts DEF Current
<1>6. BranchInv'
  BY <1>1, <1>2, <1>5, StoreBase, SingleBranch DEF Current, Following
<1> QED BY <1>2, <1>3, <1>6 DEF Current

\* A handler that reads on, or stops at the end block, settles at most.
LEMMA ReadOnBranch ==
  ASSUME Environment, BranchInv, request_blocks \/ PauseTimer
  PROVE  BranchInv' /\ Follower!Settle
<1>1. /\ SafeInv /\ SafeInv' /\ UNCHANGED <<chain, finalized>>
      /\ continue_read(db, head, head_id, irreversible, exporter_acked_block, forked_at_block)
      /\ Following
  BY RequestSafe, PauseTimerSafe DEF BranchInv, request_blocks, PauseTimer, node, Following
<1>2. irreversible \in Nat /\ exporter_acked_block \in Nat
  BY <1>1 DEF SafeInv, TypeOK, MemoryOK, BlockNums
<1>3. Fits(db, irreversible)
  BY <1>1 DEF Fits, BranchInv, SafeInv, TypeOK, DbOK, Store
<1>4. BranchInv'
  BY <1>1, <1>2, <1>3, ContinueBranch
<1>5. /\ Nested(db') /\ Tip(db') = Tip(db)
      /\ IsPrefix(Stable(db), Stable(db')) /\ IsPrefix(Stable(db'), Tip(db))
  BY <1>1, <1>2, StoreNested, ContinueEnds
<1>6. Stable(db') \in Ids
  BY <1>5, EndsFacts
<1> QED BY <1>4, <1>5, <1>6, FollowerPrefix DEF Follower!Settle, Tip, Stable

\* A refused result leaves the content; only the revision may have been set.
LEMMA RefusedBranch ==
  ASSUME Environment, BranchInv, SafeInv', UNCHANGED chain, NEW n \in 1..MaxBlock, ResultRefused(n)
  PROVE  /\ BranchInv'
         /\ UNCHANGED <<Current(db).head_id, db.at[db.base].head_id>>
<1>1. /\ SafeInv /\ Result(n) /\ db' = Prepared(n) /\ phase' = "closed" /\ n \in Nat \ {0}
      /\ IsDatabase(db)
  BY NumbersAssumption DEF BranchInv, ResultRefused, SafeInv, TypeOK, DbOK
<1>2. Tip(db') = Tip(db) /\ Stable(db') = Stable(db)
  BY <1>1, StoreNested, PreparedEnds
<1>3. CASE db' = db
  BY <1>1, <1>3, KeptBranch DEF Following
<1>4. CASE db' # db
  <2>1. db' = Opened(n - 1, Current(db)) /\ n - 1 \in Nat
    BY <1>1, <1>4 DEF Prepared, SetRevision
  <2>2. /\ db'.base = n - 1 /\ db'.rev = n - 1 /\ Current(db') = Current(db)
    BY <2>1, OpenedFacts DEF Current
  <2>3. /\ Store'.rev = Store'.base /\ Current(Store') = Current(Store)
    <3>1. Current(Store) = Current(db) /\ IsDatabase(db')
      BY <1>1, <2>1, StoreFacts, OpenedFacts DEF SafeInv
    <3>2. \A r \in db'.base .. db'.rev : TablesOK(db'.at[r])
      BY DEF SafeInv, TypeOK, DbOK, TablesOK, Ids, BlockNums
    <3> QED BY <2>2, <3>1, <3>2, RebasedFacts DEF Store
  <2>4. Current(Store') = Store.at[Store.rev] /\ ~Following'
    BY <1>1, <2>3 DEF Current, Following
  <2>5. BranchInv'
    BY <1>1, <2>3, <2>4, StoreBase, SingleBranch
  <2> QED BY <1>2, <2>5 DEF Tip, Stable
<1> QED BY <1>2, <1>3, <1>4 DEF Tip, Stable

\* A rollback whose block is not stored takes the branch back, not behind its
\* stable end.
LEMMA DroppedBranch ==
  ASSUME Environment, BranchInv, SafeInv', UNCHANGED chain, NEW n \in 1..MaxBlock,
         Usable(n), db' = Rolled(n), phase' = "closed"
  PROVE  BranchInv' /\ Follower!Retreat
<1>1. SafeInv /\ n \in Nat \ {0}
  BY NumbersAssumption DEF BranchInv
<1>2. Aligned(Rolled(n), finalized) /\ Rebased(Rolled(n)) = Rolled(n)
  BY <1>1, RolledAligned, RebasedAligned
<1>3. BranchInv'
  <2>1. Store' = Rolled(n)
    BY <1>1, <1>2 DEF Store
  <2> QED BY <1>1, <2>1, RolledBranch DEF BranchInv, Following
<1>4. /\ Nested(Rolled(n)) /\ Stable(Rolled(n)) = Stable(db)
      /\ IsPrefix(Tip(Rolled(n)), Tip(db))
  BY <1>1, StoreNested, RolledEnds
<1>5. Tip(Rolled(n)) \in Ids /\ IsPrefix(Stable(db), Tip(Rolled(n)))
  BY <1>4, EndsFacts
<1> QED BY <1>3, <1>4, <1>5, FollowerPrefix DEF Follower!Retreat, Stable, Tip

\* A stored block advances the branch from its parent, completed or not.
LEMMA AdvancedBranch ==
  ASSUME Environment, BranchInv, SafeInv', UNCHANGED <<chain, finalized>>,
         NEW n \in 1..MaxBlock, BlockStored(n) \/ TracesRejected(n)
  PROVE  BranchInv' /\ Follower!Advance
<1> DEFINE stored == commit_db(StoredBlock(n), lib, AckedAfter(n))
<1>1. /\ SafeInv /\ Usable(n) /\ n \in Nat \ {0} /\ n - 1 \in Nat /\ Result(n)
      /\ \/ continue_read(stored, n, BlockId(n), lib, AckedAfter(n), ForkedAfter(n))
         \/ db' = stored /\ phase' = "closed"
  BY NumbersAssumption DEF BranchInv, BlockStored, TracesRejected, Begun, Stored, StoredBlock, Usable
<1>2. chain \in Ids /\ lib \in Nat /\ AckedAfter(n) \in Nat
  BY <1>1, NumbersAssumption
     DEF AckedAfter, SafeInv, TypeOK, NodeOK, MemoryOK, BlockNums, Min2
<1>3. /\ Fits(stored, lib) /\ Nested(stored) /\ Tip(stored) = BlockId(n)
      /\ IsPrefix(Stable(db), SubSeq(chain, 1, n - 1))
      /\ IsPrefix(Stable(db), Stable(stored))
  BY <1>1, StoredBranch
<1> HIDE DEF stored
<1>4. BranchInv'
  <2>1. CASE continue_read(stored, n, BlockId(n), lib, AckedAfter(n), ForkedAfter(n))
    BY <1>1, <1>2, <1>3, <2>1, ContinueBranch
  <2>2. CASE db' = stored /\ phase' = "closed"
    <3>1. Store' = Rebased(stored) /\ ~Following'
      BY <2>2 DEF Store, Following
    <3> QED BY <1>3, <3>1 DEF BranchInv, Fits
  <2> QED BY <1>1, <2>1, <2>2
<1>5. /\ Nested(db') /\ Tip(db') = BlockId(n)
      /\ IsPrefix(Stable(stored), Stable(db')) /\ IsPrefix(Stable(db'), BlockId(n))
  <2>1. CASE continue_read(stored, n, BlockId(n), lib, AckedAfter(n), ForkedAfter(n))
    BY <1>1, <1>2, <1>3, <2>1, ContinueEnds
  <2>2. CASE db' = stored /\ phase' = "closed"
    <3>1. stored.base \in stored.base .. stored.rev /\ stored.base <= stored.base
      BY <1>3 DEF Nested, IsDatabase
    <3>2. IsPrefix(Stable(stored), Stable(stored)) /\ IsPrefix(Stable(stored), Tip(stored))
      BY <1>3, <3>1, EndsFacts DEF Nested, Stable
    <3> QED BY <1>3, <2>2, <3>2
  <2> QED BY <1>1, <2>1, <2>2
<1>6. Stable(db) \in Ids /\ Stable(stored) \in Ids /\ Stable(db') \in Ids
  BY <1>1, <1>3, <1>5, StoreNested, EndsFacts
<1>7. IsPrefix(Stable(db), Stable(db'))
  BY <1>3, <1>5, <1>6, PrefixTransitive
<1>8. n \in 0 .. Len(chain) /\ n - 1 \in 0 .. n /\ Len(chain) \in Nat
  BY <1>1, <1>2, RolledAligned, LenProperties DEF Ids
<1>9. /\ BlockId(n) \in Ids /\ Len(BlockId(n)) = n /\ BlockId(n) # <<>>
      /\ Front(BlockId(n)) = SubSeq(chain, 1, n - 1)
  <2>1. BlockId(n) \in Ids /\ Len(BlockId(n)) = n
    BY <1>2, <1>8, IdPrefix DEF BlockId
  <2>2. SubSeq(BlockId(n), 1, n - 1) = SubSeq(chain, 1, n - 1)
    BY <1>2, <1>8, PrefixOfPrefix DEF BlockId
  <2>3. Len(<<>>) = 0
    BY EmptySeq
  <2> QED BY <1>1, <2>1, <2>2, <2>3 DEF Front
<1>10. Tip(db) = <<>> \/ IsPrefix(SubSeq(chain, 1, n - 1), Tip(db))
  <2>1. CASE HasState(Current(db))
    <3>1. n - 1 \in 0 .. Len(Tip(db)) /\ SubSeq(Tip(db), 1, n - 1) = SubSeq(chain, 1, n - 1)
      BY <1>1, <2>1, RolledBranch
    <3>2. Tip(db) \in Ids
      BY <1>1, StoreNested, EndsFacts
    <3>3. IsPrefix(SubSeq(Tip(db), 1, n - 1), Tip(db))
      BY <3>1, <3>2, SubSeqIsPrefix
    <3> QED BY <3>1, <3>3
  <2>2. CASE ~HasState(Current(db))
    BY <1>1, <2>2, NextOfEmpty DEF Result, Tip, EmptyTables
  <2> QED BY <2>1, <2>2
<1> QED BY <1>3, <1>4, <1>5, <1>6, <1>7, <1>9, <1>10, FollowerPrefix
        DEF Follower!Advance, Tip, Stable

LEMMA ReceiveBranch ==
  ASSUME Environment, BranchInv, receive_result
  PROVE  /\ BranchInv'
         /\ \/ Follower!Next
            \/ UNCHANGED <<Current(db).head_id, db.at[db.base].head_id>>
<1>1. SafeInv /\ SafeInv' /\ UNCHANGED <<chain, finalized>>
  BY ReceiveSafe DEF BranchInv, receive_result, node
<1> PICK n \in 1..MaxBlock :
      \/ ResultRefused(n)
      \/ RollbackForEver(n)
      \/ RollbackFails(n)
      \/ MessageRejected(n)
      \/ BlockDropped(n)
      \/ TracesRejected(n)
      \/ BlockStored(n)
  BY DEF receive_result
<1>2. CASE ResultRefused(n)
  BY <1>1, <1>2, RefusedBranch
<1>3. CASE RollbackForEver(n)
  BY <1>1, <1>3, RolledAligned DEF RollbackForEver
<1>4. CASE RollbackFails(n) \/ BlockDropped(n)
  BY <1>1, <1>4, DroppedBranch DEF RollbackFails, BlockDropped, Begun, Follower!Next
<1>5. CASE MessageRejected(n)
  BY <1>1, <1>5, KeptBranch DEF MessageRejected, Following
<1>6. CASE BlockStored(n) \/ TracesRejected(n)
  BY <1>1, <1>6, AdvancedBranch DEF Follower!Next
<1> QED BY <1>2, <1>3, <1>4, <1>5, <1>6

LEMMA NextBranch ==
  ASSUME Environment, BranchInv, [Next]_vars
  PROVE  /\ BranchInv'
         /\ [Follower!Next]_<<Current(db).head_id, db.at[db.base].head_id>>
<1>1. SafeInv'
  BY NextSafe DEF BranchInv
<1>2. CASE Node
  BY <1>2, NodeBranch
<1>3. CASE load_state \/ SaveSnapshot
  BY <1>3, RevertedBranch DEF Follower!Next
<1>4. CASE RestoreSnapshot
  BY <1>4, RestoredBranch
<1>5. CASE request_blocks \/ PauseTimer
  BY <1>5, ReadOnBranch DEF Follower!Next
<1>6. CASE receive_result
  BY <1>6, ReceiveBranch
<1>7. CASE Stop \/ StaleAbort
  BY <1>1, <1>7, KeptBranch DEF Stop, StaleAbort, Stopped, node, Following
<1>8. CASE ConsumerAck \/ DeliverBlock \/ DeliverFork
  <2>1. UNCHANGED <<db, chain>> /\ (phase' = "stopped" \/ UNCHANGED <<phase, irreversible>>)
    BY <1>8 DEF ConsumerAck, DeliverBlock, DeliverFork, ack_block, Stopped, node, position
  <2> QED BY <1>1, <2>1, KeptBranch DEF Following
<1>9. CASE UNCHANGED vars
  BY <1>1, <1>9, KeptBranch DEF vars, node, memory, position, Following
<1> QED BY <1>2, <1>3, <1>4, <1>5, <1>6, <1>7, <1>8, <1>9
        DEF Next, Receiver, Consumer, Operator

LEMMA BranchInvariant == ASSUME Environment PROVE Spec => []BranchInv
<1>1. Init => BranchInv
  BY InitBranch
<1>2. BranchInv /\ [Next]_vars => BranchInv'
  BY NextBranch
<1> QED BY <1>1, <1>2, PTL DEF Spec

(* ------------------------------- theorems ------------------------------- *)

\* The receiver's database implements ChainFollower: whatever forks, restarts,
\* commits, refused results and snapshots do, it steps from a branch to a block
\* whose parent is on that branch, and never gives up a stable block.
THEOREM ImplementsFollower == ASSUME Environment PROVE Spec => FollowsChain
<1>1. Init => Follower!Init
  <2> SUFFICES ASSUME Init PROVE Follower!Init OBVIOUS
  <2>1. db.base = 0 /\ db.rev = 0 /\ db.at[0] = EmptyTables
    BY OpenedFacts DEF Init
  <2>2. EmptyTables.head_id = <<>>
    BY DEF EmptyTables
  <2> QED BY <2>1, <2>2 DEF Follower!Init, Current
<1>2. BranchInv /\ [Next]_vars
        => [Follower!Next]_<<Current(db).head_id, db.at[db.base].head_id>>
  BY NextBranch
<1> QED BY <1>1, <1>2, BranchInvariant, PTL DEF Spec, FollowsChain, Follower!Spec

\* The received_block rows that receive_result keeps name every reversible block of
\* the head's branch with its id, in every state the database can go back to, so
\* the have_positions of request_blocks let the node find any fork.
THEOREM PositionsAlwaysCover == ASSUME Environment PROVE Spec => []PositionsCoverReversible
<1>1. BranchInv => PositionsCoverReversible
  <2> SUFFICES ASSUME BranchInv PROVE PositionsCoverReversible OBVIOUS
  <2>1. /\ SafeInv /\ Covered(Store) /\ Aligned(Store, finalized) /\ finalized \in Nat
        /\ StartBlock \in Nat
    BY NumbersAssumption DEF BranchInv, SafeInv, TypeOK, NodeOK, BlockNums
  <2>2. ASSUME NEW r \in Store.base .. Store.rev,
               NEW n \in Store.at[r].irreversible + 1 .. Store.at[r].head, n >= StartBlock
        PROVE  /\ n \in DOMAIN Store.at[r].blocks
               /\ Store.at[r].blocks[n] = SubSeq(Current(Store).head_id, 1, n)
    <3>1. n \in DOMAIN Store.at[r].blocks
      BY <2>1, <2>2 DEF Covered, Covers
    <3>2. Revision(Store, r, finalized) /\ r \in Nat /\ r <= Store.rev
      BY <2>1 DEF Aligned, IsDatabase
    <3>3. HasState(Store.at[r])
      <4>1. DOMAIN <<>> = {} OBVIOUS
      <4> QED BY <3>1, <3>2, <4>1 DEF Revision, EmptyTables
    <3>4. /\ n \in 1 .. r /\ Store.at[r].blocks[n] = SubSeq(Store.at[r].head_id, 1, n)
          /\ Store.at[r].head_id = SubSeq(Current(Store).head_id, 1, r)
      BY <3>1, <3>2, <3>3 DEF Revision, RowsOnBranch, StateOfRevision, Current
    <3>5. Len(Current(Store).head_id) = Store.rev /\ Current(Store).head_id \in Ids
      <4>1. Revision(Store, Store.rev, finalized)
        BY <2>1, StoreBase DEF Aligned
      <4> QED BY <2>1, <3>3, <4>1, OnlyBaseIsEmpty DEF Revision, TablesOK, Current
    <3>6. r \in 0 .. Len(Current(Store).head_id) /\ n \in 0 .. r
      BY <3>2, <3>4, <3>5
    <3> QED BY <3>1, <3>4, <3>5, <3>6, PrefixOfPrefix
  <2>3. CASE Store = db
    BY <2>2, <2>3 DEF PositionsCoverReversible
  <2>4. CASE Store # db
    <3>1. /\ db.base = 0 /\ db.rev = 0 /\ Current(Store) = Current(db)
      BY <2>1, <2>4, StoreFacts DEF SafeInv
    <3>2. \A r \in db.base .. db.rev : db.at[r] = Store.at[Store.rev]
      BY <3>1 DEF Current
    <3> QED BY <2>1, <2>2, <3>1, <3>2, StoreBase DEF PositionsCoverReversible
  <2> QED BY <2>3, <2>4
<1> QED BY <1>1, BranchInvariant, PTL
=============================================================================
