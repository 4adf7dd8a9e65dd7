--------------------------- MODULE ScanSafetyProofs ---------------------------
(***************************************************************************)
(* The database of a scanning receiver stays aligned with the chain: the   *)
(* rollback of a fork always lands on the parent of the fork block, and    *)
(* what is committed is final.  Proved for every value of the constants,   *)
(* under what the runs assume of the environment: the node sends a         *)
(* replaced block before it becomes final, and scanning starts on the      *)
(* irreversible part of the chain.                                         *)
(***************************************************************************)
EXTENDS ScanReceiverProofs

(* --------------------------- block id prefixes -------------------------- *)

LEMMA PrefixOfPrefix ==
  ASSUME NEW s \in Ids, NEW m \in 0 .. Len(s), NEW n \in 0 .. m
  PROVE  SubSeq(SubSeq(s, 1, m), 1, n) = SubSeq(s, 1, n)
<1>1. s \in Seq(0..MaxForks) /\ Len(s) \in Nat
  BY LenProperties DEF Ids
<1>2. n \in 0 .. Len(s)
  BY <1>1
<1>3. SubSeq(s, 1, m) \in Ids /\ Len(SubSeq(s, 1, m)) = m /\ SubSeq(s, 1, n) \in Ids
  BY <1>2, IdPrefix
<1>4. CASE n = 0
  BY <1>4, SubSeqEmpty
<1>5. CASE n > 0
  <2>1. /\ 1 \in 1 .. Len(s) /\ m \in 1 .. Len(s)
        /\ 1 \in 1 .. m - 1 + 1 /\ n \in 1 .. m - 1 + 1
    BY <1>1, <1>5
  <2>2. SubSeq(SubSeq(s, 1, m), 1, n) = SubSeq(s, 1 + 1 - 1, 1 + n - 1)
    BY <1>1, <2>1, SubSeqOfSubSeq
  <2> QED BY <2>2
<1> QED BY <1>4, <1>5

LEMMA WholeId ==
  ASSUME NEW s \in Ids
  PROVE  SubSeq(s, 1, Len(s)) = s
BY SubSeqFull DEF Ids

LEMMA PrefixOfAppend ==
  ASSUME NEW s \in Ids, NEW e \in 0..MaxForks, NEW n \in 0 .. Len(s)
  PROVE  SubSeq(Append(s, e), 1, n) = SubSeq(s, 1, n)
<1>1. s \in Seq(0..MaxForks) /\ Len(s) \in Nat
  BY LenProperties DEF Ids
<1> DEFINE t == Append(s, e)
<1>2. /\ t \in Seq(0..MaxForks) /\ Len(t) = Len(s) + 1
      /\ \A i \in 1 .. Len(s) : t[i] = s[i]
  BY <1>1, AppendProperties
<1>3. s \in [1 .. Len(s) -> 0..MaxForks]
  BY <1>1, LenProperties
<1>4. \A i \in 1..n : s[i] \in 0..MaxForks /\ t[i] = s[i]
  BY <1>1, <1>2, <1>3
<1> HIDE DEF t
<1>5. /\ SubSeq(s, 1, n) \in Seq(0..MaxForks) /\ Len(SubSeq(s, 1, n)) = n
      /\ \A i \in 1..n : SubSeq(s, 1, n)[i] = s[i]
  BY <1>1, <1>4, SubSeqProperties
<1>6. /\ SubSeq(t, 1, n) \in Seq(0..MaxForks) /\ Len(SubSeq(t, 1, n)) = n
      /\ \A i \in 1..n : SubSeq(t, 1, n)[i] = t[i]
  BY <1>1, <1>4, SubSeqProperties
<1>7. SubSeq(t, 1, n) = SubSeq(s, 1, n)
  BY <1>4, <1>5, <1>6, SeqEqual
<1> QED BY <1>7 DEF t

(* ----------------------- the inductive invariant ------------------------ *)

\* Revision r holds the state after block r, or nothing at all before the first.
StateOfRevision(t, r) == t.head = r /\ Len(t.head_id) = r

RowsOnBranch(t) ==
  \A n \in DOMAIN t.blocks : n \in 1 .. t.head /\ t.blocks[n] = SubSeq(t.head_id, 1, n)

Revision(d, r, fin) ==
  /\ TablesOK(d.at[r]) /\ d.at[r].irreversible <= fin
  /\ IF HasState(d.at[r])
     THEN /\ StateOfRevision(d.at[r], r)
          /\ RowsOnBranch(d.at[r])
          /\ d.at[r].head_id = SubSeq(d.at[d.rev].head_id, 1, r)
     ELSE r = d.base /\ d.at[r] = EmptyTables

\* The database is a stack of states of one branch, above a final base.
Aligned(d, fin) ==
  /\ IsDatabase(d) /\ d.base <= fin
  /\ \A r \in d.base .. d.rev : Revision(d, r, fin)
  /\ ~HasState(d.at[d.base]) => d.base \in {0, InitialHead(StartBlock)}

\* The base, and every revision below u, is the state of chain c at its block.
OnChain(d, u, c) ==
  \A r \in d.base .. d.rev :
    HasState(d.at[r]) /\ (r = d.base \/ r < u) =>
      r <= Len(c) /\ d.at[r].head_id = SubSeq(c, 1, r)

Sent == IF Connected THEN toSend ELSE 0

LibOrder == InitLib <= finalized /\ lib <= finalized /\ finalized <= Len(chain)

\* A database just restored from a snapshot stands at revision 0; this is how it
\* is once the revision has been set.
Rebased(d) ==
  IF d.rev = 0 /\ d.base = 0 /\ HasState(Current(d))
  THEN Opened(Current(d).head, Current(d)) ELSE d
Store == Rebased(db)

Running ==
  phase \in {"connecting", "reading", "paused"} =>
    /\ irreversible <= finalized
    /\ phase = "connecting" => Store.rev = Store.base
    /\ IF HasState(Current(Store))
       THEN head = Store.rev /\ head_id = Current(Store).head_id
       ELSE head = InitialHead(StartBlock) /\ start_block_num = StartBlock

\* The node is at the receiver's next block, or at a replaced one not final yet.
Sending == Connected => toSend <= head + 1 /\ (toSend <= head => toSend > finalized)

SafeInv ==
  /\ TypeOK
  /\ LibOrder /\ Aligned(Store, finalized) /\ OnChain(Store, Sent, chain)
  /\ Running /\ Sending
  /\ RollbackTerminates

Environment == NodeKeepsUp /\ StartBlock <= InitLib + 1

(* ------------------- what the database operations keep ------------------ *)

\* A revision without state is the only one.
LEMMA OnlyBaseIsEmpty ==
  ASSUME NEW d, NEW fin \in Nat, Aligned(d, fin),
         NEW r \in d.base .. d.rev, HasState(d.at[r])
  PROVE  HasState(d.at[d.rev]) /\ Len(d.at[d.rev].head_id) = d.rev
BY DEF Aligned, Revision, IsDatabase, StateOfRevision

\* Setting the revision leaves the content alone, and an aligned database is as
\* it would be after that.
LEMMA RebasedFacts ==
  ASSUME NEW d, IsDatabase(d), \A r \in d.base .. d.rev : TablesOK(d.at[r])
  PROVE  /\ IsDatabase(Rebased(d)) /\ Current(Rebased(d)) = Current(d)
         /\ \/ Rebased(d) = d
            \/ /\ d.rev = 0 /\ d.base = 0 /\ HasState(Current(d))
               /\ Rebased(d) = Opened(Current(d).head, Current(d))
               /\ Rebased(d).rev = Current(d).head /\ Rebased(d).base = Current(d).head
<1>1. CASE Rebased(d) = d
  BY <1>1
<1>2. CASE Rebased(d) # d
  <2>1. /\ d.rev = 0 /\ d.base = 0 /\ HasState(Current(d))
        /\ Rebased(d) = Opened(Current(d).head, Current(d))
    BY <1>2 DEF Rebased
  <2>2. Current(d).head \in Nat
    BY <2>1, NumbersAssumption DEF Current, TablesOK, BlockNums
  <2> QED BY <2>1, <2>2, OpenedFacts DEF Current
<1> QED BY <1>1, <1>2

LEMMA RebasedAligned ==
  ASSUME NEW d, NEW fin, Aligned(d, fin)
  PROVE  Rebased(d) = d
BY DEF Aligned, Revision, StateOfRevision, IsDatabase, Rebased, Current, HasState

\* Two databases restored from the same content are the same once the revision
\* is set.
LEMMA RebasedAgain ==
  ASSUME NEW d, NEW e, Rebased(d) # d, e.rev = 0, e.base = 0, e.at[0] = d.at[0]
  PROVE  Rebased(e) = Rebased(d)
BY DEF Rebased, Current

LEMMA UndoAligned ==
  ASSUME NEW d, NEW fin \in Nat, NEW u \in Nat, NEW c \in Ids, NEW n \in Nat,
         Aligned(d, fin), OnChain(d, u, c)
  PROVE  Aligned(UndoTo(d, n), fin) /\ OnChain(UndoTo(d, n), u, c)
<1> DEFINE e == UndoTo(d, n)
<1>1. /\ IsDatabase(e) /\ e.base = d.base /\ e.rev \in d.base .. d.rev
      /\ \A i \in e.base .. e.rev : i \in d.base .. d.rev /\ e.at[i] = d.at[i]
  BY UndoToFacts DEF Aligned, IsDatabase
<1> HIDE DEF e
<1>2. OnChain(e, u, c)
  BY <1>1 DEF OnChain
<1>3. ASSUME NEW r \in e.base .. e.rev PROVE Revision(e, r, fin)
  <2>1. Revision(d, r, fin) /\ e.at[r] = d.at[r]
    BY <1>1, <1>3 DEF Aligned
  <2>2. CASE ~HasState(d.at[r])
    BY <1>1, <2>1, <2>2 DEF Revision
  <2>3. CASE HasState(d.at[r])
    <3>1. HasState(d.at[d.rev]) /\ Len(d.at[d.rev].head_id) = d.rev
      BY <1>1, <1>3, <2>3, OnlyBaseIsEmpty
    <3>2. d.at[d.rev].head_id \in Ids
      BY <1>1 DEF Aligned, Revision, TablesOK, IsDatabase
    <3>3. Revision(d, e.rev, fin) /\ e.at[e.rev] = d.at[e.rev]
      BY <1>1 DEF Aligned, IsDatabase
    <3>4. r \in Nat /\ e.rev \in Nat /\ d.rev \in Nat /\ r <= e.rev /\ e.rev <= d.rev
      BY <1>1, <1>3 DEF IsDatabase, Aligned
    <3>5. HasState(d.at[e.rev])
      BY <1>1, <2>3, <3>3, <3>4 DEF Revision, IsDatabase
    <3>6. d.at[e.rev].head_id = SubSeq(d.at[d.rev].head_id, 1, e.rev)
      BY <3>3, <3>5 DEF Revision
    <3>7. d.at[r].head_id = SubSeq(d.at[d.rev].head_id, 1, r)
      BY <2>1, <2>3 DEF Revision
    <3>8. d.at[r].head_id = SubSeq(d.at[e.rev].head_id, 1, r)
      BY <3>1, <3>2, <3>4, <3>6, <3>7, PrefixOfPrefix
    <3> QED BY <2>1, <2>3, <3>3, <3>8 DEF Revision
  <2> QED BY <2>2, <2>3
<1>4. e.base \in e.base .. e.rev
  BY <1>1 DEF IsDatabase
<1>5. Aligned(e, fin)
  BY <1>1, <1>3, <1>4 DEF Aligned
<1> QED BY <1>2, <1>5 DEF e

LEMMA CommitAligned ==
  ASSUME NEW d, NEW fin \in Nat, NEW u \in Nat, NEW c \in Ids, NEW n \in Nat,
         Aligned(d, fin), OnChain(d, u, c), n <= fin,
         \A r \in d.base + 1 .. d.rev : r <= fin => r < u
  PROVE  Aligned(Commit(d, n), fin) /\ OnChain(Commit(d, n), u, c)
<1> DEFINE e == Commit(d, n)
<1>1. /\ IsDatabase(e) /\ e.rev = d.rev /\ d.base <= e.base
      /\ e.base <= n \/ e.base = d.base
      /\ \A i \in e.base .. e.rev : i \in d.base .. d.rev /\ e.at[i] = d.at[i]
  BY CommitFacts DEF Aligned
<1> HIDE DEF e
<1>2. e.base \in e.base .. e.rev /\ e.rev \in e.base .. e.rev /\ e.base \in Nat /\ d.base \in Nat
  BY <1>1 DEF IsDatabase, Aligned
<1>3. ASSUME NEW r \in e.base .. e.rev PROVE Revision(e, r, fin)
  <2>1. Revision(d, r, fin) /\ e.at[r] = d.at[r] /\ e.at[e.rev] = d.at[d.rev]
    BY <1>1, <1>2, <1>3 DEF Aligned
  <2>2. ~HasState(d.at[r]) => r = e.base
    BY <1>1, <1>2, <1>3, <2>1 DEF Revision
  <2> QED BY <1>1, <2>1, <2>2 DEF Revision
<1>4. ~HasState(e.at[e.base]) => e.base = d.base
  BY <1>1, <1>2 DEF Aligned, Revision
<1>5. Aligned(e, fin)
  BY <1>1, <1>2, <1>3, <1>4 DEF Aligned
<1>6. OnChain(e, u, c)
  <2>1. e.base = d.base \/ e.base < u
    BY <1>1, <1>2 DEF IsDatabase
  <2> QED BY <1>1, <1>2, <2>1 DEF OnChain
<1> QED BY <1>5, <1>6 DEF e

\* A block on top of a database that is on its chain keeps the database aligned.
LEMMA PushAligned ==
  ASSUME NEW d, NEW fin \in Nat, NEW c \in Ids, NEW n \in 1 .. Len(c), NEW t,
         Aligned(d, fin), OnChain(d, n, c), d.rev = n - 1,
         TablesOK(t), t.irreversible <= fin,
         t.head = n, t.head_id = SubSeq(c, 1, n),
         \A m \in DOMAIN t.blocks :
           \/ m = n /\ t.blocks[m] = SubSeq(c, 1, n)
           \/ m \in DOMAIN d.at[d.rev].blocks /\ t.blocks[m] = d.at[d.rev].blocks[m]
  PROVE  Aligned(PushSession(d, t), fin) /\ OnChain(PushSession(d, t), n + 1, c)
<1> DEFINE e == PushSession(d, t)
<1>1. /\ IsDatabase(d) /\ IsDatabase(e) /\ e.base = d.base /\ e.rev = n
      /\ \A r \in d.base .. d.rev : e.at[r] = d.at[r]
      /\ e.at[n] = t
  BY PushSessionFacts DEF Aligned
<1> HIDE DEF e
<1>2. Len(c) \in Nat /\ n \in 0 .. Len(c) /\ n \in Nat
  BY LenProperties DEF Ids
<1>3. SubSeq(c, 1, n) \in Ids /\ Len(SubSeq(c, 1, n)) = n
  BY <1>2, IdPrefix
<1>4. d.base \in Nat /\ d.base <= n - 1 /\ d.rev \in d.base .. d.rev
  BY <1>1 DEF IsDatabase
<1>5. \A r \in d.base .. d.rev : HasState(d.at[r]) => d.at[r].head_id = SubSeq(c, 1, r)
  BY <1>4 DEF OnChain
<1>6. ASSUME NEW r \in d.base .. d.rev PROVE Revision(e, r, fin)
  <2>1. Revision(d, r, fin) /\ e.at[r] = d.at[r]
    BY <1>1, <1>6 DEF Aligned
  <2>2. r \in 0 .. n
    BY <1>4, <1>6
  <2>3. HasState(d.at[r]) => d.at[r].head_id = SubSeq(e.at[e.rev].head_id, 1, r)
    BY <1>1, <1>2, <1>5, <2>2, PrefixOfPrefix
  <2> QED BY <1>1, <2>1, <2>3 DEF Revision
<1>7. Revision(e, n, fin)
  <2>1. HasState(t) /\ StateOfRevision(t, n)
    BY <1>2, <1>3 DEF HasState, StateOfRevision
  <2>2. t.head_id = SubSeq(e.at[e.rev].head_id, 1, n)
    BY <1>1, <1>3, WholeId
  <2>3. ASSUME NEW m \in DOMAIN t.blocks
        PROVE  m \in 1 .. n /\ t.blocks[m] = SubSeq(t.head_id, 1, m)
    <3>1. CASE m = n /\ t.blocks[m] = SubSeq(c, 1, n)
      BY <1>2, <1>3, <3>1, WholeId
    <3>2. CASE m \in DOMAIN d.at[d.rev].blocks /\ t.blocks[m] = d.at[d.rev].blocks[m]
      <4>1. Revision(d, d.rev, fin)
        BY <1>4 DEF Aligned
      <4>2. HasState(d.at[d.rev])
        BY <3>2, <4>1 DEF Revision, EmptyTables
      <4>3. /\ m \in 1 .. d.rev
            /\ d.at[d.rev].blocks[m] = SubSeq(d.at[d.rev].head_id, 1, m)
        BY <3>2, <4>1, <4>2 DEF Revision, RowsOnBranch, StateOfRevision
      <4>4. d.at[d.rev].head_id = SubSeq(c, 1, d.rev)
        BY <1>4, <1>5, <4>2
      <4>5. /\ d.rev \in 0 .. Len(c) /\ m \in 0 .. d.rev
            /\ m \in 0 .. n /\ n \in 0 .. Len(c)
        BY <1>2, <1>4, <4>3
      <4>6. d.at[d.rev].blocks[m] = SubSeq(c, 1, m)
        BY <4>3, <4>4, <4>5, PrefixOfPrefix
      <4>7. SubSeq(t.head_id, 1, m) = SubSeq(c, 1, m)
        BY <4>5, PrefixOfPrefix
      <4> QED BY <3>2, <4>3, <4>5, <4>6, <4>7
    <3> QED BY <2>3, <3>1, <3>2
  <2> QED BY <1>1, <2>1, <2>2, <2>3 DEF Revision, RowsOnBranch
<1>8. Aligned(e, fin)
  <2>1. \A r \in e.base .. e.rev : r \in d.base .. d.rev \/ r = n
    BY <1>1, <1>4
  <2>2. e.at[e.base] = d.at[d.base]
    BY <1>1, <1>4
  <2> QED BY <1>1, <1>6, <1>7, <2>1, <2>2 DEF Aligned
<1>9. OnChain(e, n + 1, c)
  BY <1>1, <1>2, <1>4, <1>5 DEF OnChain
<1> QED BY <1>8, <1>9 DEF e

\* The empty database moved to the revision before the first block.
LEMMA OpenedAligned ==
  ASSUME NEW fin \in Nat, NEW c \in Ids, NEW u \in Nat, NEW n \in Nat, n <= fin,
         n \in {0, InitialHead(StartBlock)}
  PROVE  Aligned(Opened(n, EmptyTables), fin) /\ OnChain(Opened(n, EmptyTables), u, c)
<1> DEFINE e == Opened(n, EmptyTables)
<1>1. IsDatabase(e) /\ e.base = n /\ e.rev = n /\ e.at[n] = EmptyTables
  BY OpenedFacts
<1> HIDE DEF e
<1>2. ~HasState(EmptyTables) /\ EmptyTables.irreversible = 0
  BY DEF HasState, EmptyTables
<1>3. \A r \in e.base .. e.rev : r = n
  BY <1>1
<1>4. Aligned(e, fin)
  BY <1>1, <1>2, <1>3, EmptyTablesOK DEF Aligned, Revision
<1>5. OnChain(e, u, c)
  BY <1>1, <1>2, <1>3 DEF OnChain
<1> QED BY <1>4, <1>5 DEF e

\* The chain as the database knows it does not depend on blocks above it.
LEMMA ChainGrows ==
  ASSUME NEW d, NEW fin \in Nat, NEW fin2 \in Nat, fin <= fin2, Aligned(d, fin)
  PROVE  Aligned(d, fin2)
BY DEF Aligned, Revision, IsDatabase, TablesOK, BlockNums

(* ------------------------------- the steps ------------------------------ *)

LEMMA InitSafe == Environment /\ Init => SafeInv
<1> SUFFICES ASSUME Environment, Init PROVE SafeInv OBVIOUS
<1>1. TypeOK BY InitType
<1>2. Len(chain) = InitLib /\ chain \in Ids
  <2>1. chain \in Seq({0}) /\ Len(chain) = InitLib
    BY NumbersAssumption, IsASeq DEF Init
  <2> QED BY <2>1, <1>1 DEF TypeOK, NodeOK
<1>3. LibOrder
  BY <1>2, NumbersAssumption DEF Init, LibOrder
<1>4. Aligned(Store, finalized) /\ OnChain(Store, Sent, chain)
  <2>1. Sent = 0
    BY DEF Init, Sent, Connected
  <2>2. Aligned(db, finalized) /\ OnChain(db, Sent, chain)
    BY <1>2, <2>1, OpenedAligned, NumbersAssumption DEF Init
  <2> QED BY <2>2, RebasedAligned DEF Store
<1>5. Running /\ Sending /\ RollbackTerminates
  BY DEF Init, Running, Sending, Connected, RollbackTerminates
<1> QED BY <1>1, <1>3, <1>4, <1>5 DEF SafeInv

\* The node only touches blocks above the final ones.
LEMMA NodeSafe ==
  ASSUME Environment, SafeInv, Node
  PROVE  SafeInv'
<1>1. TypeOK'
  BY NodeType DEF SafeInv
<1>2. /\ chain \in Ids /\ chain' \in Ids /\ Len(chain) \in Nat /\ toSend \in Nat
      /\ finalized \in Nat /\ lib \in Nat /\ head \in Nat /\ InitLib \in Nat
      /\ finalized' \in Nat /\ lib' \in Nat
  BY <1>1, LenProperties, NumbersAssumption
     DEF SafeInv, TypeOK, NodeOK, MemoryOK, BlockNums, Ids
<1>3. UNCHANGED <<phase, Store, head, head_id, irreversible, start_block_num>>
  BY DEF Node, NodeProduce, NodeFork, NodeLib, NodeFailOver, memory, position, Store
<1>4. LibOrder /\ Aligned(Store, finalized) /\ OnChain(Store, Sent, chain)
      /\ Running /\ Sending /\ RollbackTerminates
  BY DEF SafeInv
<1>5. RollbackTerminates'
  BY <1>3, <1>4 DEF RollbackTerminates
<1>6. CASE NodeProduce
  <2>1. /\ chain' = Append(chain, epoch) /\ epoch \in 0..MaxForks
        /\ Len(chain') = Len(chain) + 1 /\ UNCHANGED <<lib, finalized>>
        /\ toSend' = Min2(toSend, Len(chain) + 1)
    BY <1>2, <1>6, IdAppend DEF NodeProduce, SafeInv, TypeOK, NodeOK
  <2>2. LibOrder'
    BY <1>2, <1>4, <2>1 DEF LibOrder
  <2>3. OnChain(Store, Sent, chain)'
    <3>1. ASSUME NEW r \in Store.base .. Store.rev, r <= Len(chain)
          PROVE  r <= Len(chain') /\ SubSeq(chain', 1, r) = SubSeq(chain, 1, r)
      <4>1. r \in 0 .. Len(chain)
        BY <1>2, <3>1 DEF SafeInv, Aligned, IsDatabase
      <4> QED BY <1>2, <2>1, <4>1, PrefixOfAppend
    <3>2. Sent' <= Sent /\ Sent \in Nat /\ Sent' \in Nat
      BY <1>2, <1>3, <2>1 DEF Sent, Connected, Min2
    <3>3. \A r \in Store.base .. Store.rev : r \in Nat
      BY DEF SafeInv, Aligned, IsDatabase
    <3> QED BY <1>3, <1>4, <3>1, <3>2, <3>3 DEF OnChain
  <2>4. Aligned(Store, finalized)' /\ Running'
    BY <1>3, <1>4, <2>1 DEF Running
  <2>5. Sending'
    BY <1>2, <1>3, <1>4, <2>1 DEF Sending, Connected, Min2, LibOrder
  <2> QED BY <1>1, <1>5, <2>2, <2>3, <2>4, <2>5 DEF SafeInv
<1>7. ASSUME NEW k \in 1..MaxBlock, NodeFork(k) PROVE SafeInv'
  <2> DEFINE kept == SubSeq(chain, 1, k - 1)
  <2>1. /\ k - 1 \in 0 .. Len(chain) /\ finalized < k
        /\ epoch + 1 \in 0..MaxForks
        /\ chain' = Append(kept, epoch + 1) /\ toSend' = Min2(toSend, k)
        /\ UNCHANGED <<lib, finalized>>
    BY <1>2, <1>7, NumbersAssumption DEF NodeFork, SafeInv, TypeOK, NodeOK
  <2>2. kept \in Ids /\ Len(kept) = k - 1
    BY <1>2, <2>1, IdPrefix
  <2>3. Len(chain') = k
    <3>1. Len(kept) < MaxBlock
      BY <2>2, NumbersAssumption
    <3> HIDE DEF kept
    <3> QED BY <2>1, <2>2, <3>1, IdAppend
  <2>4. LibOrder'
    BY <1>2, <1>4, <2>1, <2>3 DEF LibOrder
  <2>5. OnChain(Store, Sent, chain)'
    <3>1. ASSUME NEW r \in 0 .. k - 1
          PROVE  r <= Len(chain') /\ SubSeq(chain', 1, r) = SubSeq(chain, 1, r)
      <4>1. SubSeq(kept, 1, r) = SubSeq(chain, 1, r)
        BY <1>2, <2>1, <3>1, PrefixOfPrefix
      <4> HIDE DEF kept
      <4>2. SubSeq(chain', 1, r) = SubSeq(kept, 1, r)
        BY <2>1, <2>2, <3>1, PrefixOfAppend
      <4> QED BY <2>3, <4>1, <4>2
    <3>2. Sent' <= Sent /\ Sent \in Nat /\ Sent' \in Nat /\ Sent' <= k
      BY <1>2, <1>3, <2>1 DEF Sent, Connected, Min2
    <3>3. Store.base \in Nat /\ Store.base <= k - 1 /\ \A r \in Store.base .. Store.rev : r \in Nat
      BY <1>2, <2>1 DEF SafeInv, Aligned, IsDatabase
    <3>4. \A r \in Store.base .. Store.rev : r = Store.base \/ r < Sent' => r \in 0 .. k - 1
      BY <3>2, <3>3
    <3>5. \A r \in Store.base .. Store.rev :
            HasState(Store.at[r]) /\ (r = Store.base \/ r < Sent') =>
              Store.at[r].head_id = SubSeq(chain, 1, r)
      BY <1>4, <3>2, <3>3 DEF OnChain
    <3> QED BY <1>3, <3>1, <3>4, <3>5 DEF OnChain
  <2>6. Aligned(Store, finalized)' /\ Running'
    BY <1>3, <1>4, <2>1 DEF Running
  <2>7. Sending'
    BY <1>2, <1>3, <1>4, <2>1 DEF Sending, Connected, Min2
  <2> QED BY <1>1, <1>5, <2>4, <2>5, <2>6, <2>7 DEF SafeInv
<1>8. CASE NodeLib
  <2>1. /\ lib' = lib + 1 /\ lib < Len(chain) /\ ~AwaitsResend(lib + 1)
        /\ finalized' = IF lib + 1 > finalized THEN lib + 1 ELSE finalized
        /\ UNCHANGED <<chain, toSend>>
    BY <1>8 DEF NodeLib, Environment
  <2>2. LibOrder'
    BY <1>2, <1>4, <2>1 DEF LibOrder
  <2>3. Aligned(Store, finalized)'
    <3>1. finalized <= finalized'
      BY <1>2, <2>1
    <3> QED BY <1>2, <1>3, <1>4, <3>1, ChainGrows
  <2>4. OnChain(Store, Sent, chain)'
    BY <1>3, <1>4, <2>1 DEF OnChain, Sent, Connected
  <2>5. Running'
    <3>1. irreversible \in Nat
      BY DEF SafeInv, TypeOK, MemoryOK, BlockNums
    <3> QED BY <1>2, <1>3, <1>4, <2>1, <3>1 DEF Running
  <2>6. Sending'
    BY <1>2, <1>3, <1>4, <2>1 DEF Sending, Connected, AwaitsResend
  <2> QED BY <1>1, <1>5, <2>2, <2>3, <2>4, <2>5, <2>6 DEF SafeInv
<1>9. CASE NodeFailOver
  <2>1. lib' = lib - 1 /\ UNCHANGED <<chain, finalized, toSend>>
    BY <1>9 DEF NodeFailOver
  <2> QED BY <1>1, <1>2, <1>3, <1>4, <1>5, <2>1
          DEF SafeInv, LibOrder, Running, Sending, Connected, Sent
<1> QED BY <1>6, <1>7, <1>8, <1>9 DEF Node

\* Asking for fewer revisions to be on the chain asks for less.
LEMMA OnChainBelow ==
  ASSUME NEW d, NEW u \in Nat, NEW v \in Nat, NEW c, v <= u, OnChain(d, u, c), IsDatabase(d)
  PROVE  OnChain(d, v, c)
BY DEF OnChain, IsDatabase

\* What holds of the receiver's position over database d once a handler is done.
Positioned(d, h, hid, irr, next) ==
  /\ irr \in Nat /\ irr <= finalized
  /\ IF HasState(Current(d))
     THEN h = d.rev /\ hid = Current(d).head_id
     ELSE h = InitialHead(StartBlock) /\ start_block_num = StartBlock
  /\ next \in Nat /\ h \in Nat
  /\ next <= h + 1 /\ (next <= h => next > finalized)

\* Going on from such a position is safe: stopping commits only final blocks.
LEMMA ContinueSafe ==
  ASSUME SafeInv, NEW d, NEW h, NEW hid, NEW irr, NEW acked \in Nat, NEW forked,
         IsDatabase(d), \A r \in d.base .. d.rev : TablesOK(d.at[r]),
         Aligned(Rebased(d), finalized), OnChain(Rebased(d), toSend', chain),
         Positioned(Rebased(d), h, hid, irr, toSend'),
         continue_read(d, h, hid, irr, acked, forked),
         UNCHANGED <<chain, lib, finalized>>
  PROVE  /\ LibOrder' /\ Aligned(Store, finalized)' /\ OnChain(Store, Sent, chain)'
         /\ Running' /\ Sending' /\ RollbackTerminates'
<1>1. finalized \in Nat /\ chain \in Ids /\ toSend' \in Nat
  BY DEF SafeInv, TypeOK, NodeOK, BlockNums, Positioned
<1>2. LibOrder'
  BY DEF SafeInv, LibOrder
<1>3. CASE ReachedEnd(h, irr, acked)
  <2>1. db' = Commit(d, CommitRev(irr, acked)) /\ phase' = "stopped"
    BY <1>3 DEF continue_read, commit_db
  <2>2. CommitRev(irr, acked) \in Nat /\ CommitRev(irr, acked) <= finalized
    BY <1>1 DEF CommitRev, Positioned
  <2>3. Aligned(Store', finalized) /\ OnChain(Store', toSend', chain)
    <3>1. CASE Rebased(d) = d
      <4>1. ASSUME NEW r \in d.base + 1 .. d.rev, r <= finalized PROVE r < toSend'
        <5>1. r \in d.base .. d.rev /\ r # d.base /\ d.rev \in Nat /\ r \in Nat
          BY <1>1, <4>1 DEF IsDatabase
        <5>2. HasState(d.at[r])
          BY <3>1, <5>1 DEF Aligned, Revision
        <5>3. HasState(Current(d))
          BY <1>1, <3>1, <5>1, <5>2, OnlyBaseIsEmpty DEF Current
        <5> QED BY <1>1, <3>1, <4>1, <5>1, <5>3 DEF Positioned
      <4>2. Aligned(db', finalized) /\ OnChain(db', toSend', chain)
        BY <1>1, <2>1, <2>2, <3>1, <4>1, CommitAligned
      <4> QED BY <4>2, RebasedAligned DEF Store
    <3>2. CASE Rebased(d) # d
      <4>1. d.rev = 0 /\ d.base = 0
        BY <3>2, RebasedFacts
      <4>2. /\ IsDatabase(db') /\ db'.rev = 0 /\ d.base <= db'.base
            /\ \A i \in db'.base .. db'.rev : db'.at[i] = d.at[i]
        BY <2>1, <2>2, <4>1, CommitFacts
      <4>3. db'.base = 0 /\ db'.at[0] = d.at[0]
        BY <4>1, <4>2 DEF IsDatabase
      <4>4. Rebased(db') = Rebased(d)
        BY <3>2, <4>2, <4>3, RebasedAgain
      <4> QED BY <4>4 DEF Store
    <3> QED BY <3>1, <3>2
  <2>4. OnChain(Store', 0, chain)
    BY <1>1, <2>3, OnChainBelow DEF Aligned
  <2> QED BY <1>2, <2>1, <2>3, <2>4
          DEF Sent, Connected, Running, Sending, RollbackTerminates
<1>4. CASE ~ReachedEnd(h, irr, acked)
  <2>1. /\ db' = d /\ head' = h /\ head_id' = hid /\ irreversible' = irr
        /\ phase' \in {"paused", "reading"} /\ start_block_num' = start_block_num
    BY <1>4 DEF continue_read
  <2>2. Store' = Rebased(d)
    BY <2>1 DEF Store
  <2>3. Running' /\ Sending' /\ RollbackTerminates'
    <3>1. phase' = "connecting" => FALSE
      BY <2>1
    <3> QED BY <2>1, <2>2, <3>1
            DEF Running, Sending, Connected, RollbackTerminates, Positioned
  <2> QED BY <1>2, <2>1, <2>2, <2>3 DEF Sent, Connected
<1> QED BY <1>3, <1>4

\* The database, and what it is once the revision is set.
LEMMA StoreFacts ==
  ASSUME TypeOK
  PROVE  /\ IsDatabase(db) /\ IsDatabase(Store) /\ Current(Store) = Current(db)
         /\ \/ Store = db
            \/ /\ db.rev = 0 /\ db.base = 0 /\ HasState(Current(db))
               /\ Store = Opened(Current(db).head, Current(db))
               /\ Store.rev = Current(db).head /\ Store.base = Current(db).head
BY RebasedFacts DEF TypeOK, DbOK, Store

\* A receiver without state has not sent for anything below its start block.
LEMMA NextOfEmpty ==
  ASSUME Environment, SafeInv, phase = "reading", ~HasState(Current(db))
  PROVE  /\ toSend = head + 1 /\ head = InitialHead(StartBlock) /\ head <= finalized
         /\ db.rev = db.base /\ db.rev <= head /\ Current(db) = EmptyTables
         /\ Store = db
<1>1. /\ head \in Nat /\ toSend \in Nat /\ toSend >= 1 /\ finalized \in Nat
      /\ StartBlock \in Nat /\ InitLib \in Nat
  BY NumbersAssumption DEF SafeInv, TypeOK, NodeOK, MemoryOK, BlockNums
<1>0. Store = db /\ Aligned(db, finalized)
  BY StoreFacts DEF SafeInv
<1>2. head = InitialHead(StartBlock) /\ InitLib <= finalized
  BY <1>0 DEF SafeInv, Running, LibOrder
<1>3. head <= finalized /\ (toSend <= head => toSend > finalized) /\ toSend <= head + 1
  BY <1>1, <1>2 DEF InitialHead, Environment, SafeInv, Sending, Connected
<1>4. Revision(db, db.rev, finalized) /\ db.base \in Nat /\ db.rev \in Nat
  BY <1>0 DEF Aligned, IsDatabase
<1>5. db.rev = db.base /\ Current(db) = EmptyTables
  BY <1>4 DEF Revision, Current
<1>6. db.base \in {0, InitialHead(StartBlock)}
  BY <1>0, <1>5 DEF Aligned, Current
<1> QED BY <1>0, <1>1, <1>2, <1>3, <1>5, <1>6

\* A restored database is about to receive the block after its head.
LEMMA NextOfRestored ==
  ASSUME SafeInv, phase = "reading", Store # db
  PROVE  /\ toSend = head + 1 /\ head > 0 /\ db.rev = 0 /\ HasState(Current(db))
         /\ Store = Opened(head, Current(db))
<1>1. /\ db.rev = 0 /\ HasState(Current(db)) /\ Current(Store) = Current(db)
      /\ Store = Opened(Current(db).head, Current(db))
      /\ Store.rev = Current(db).head /\ Store.base = Current(db).head
  BY StoreFacts DEF SafeInv
<1>2. head = Store.rev /\ Store.base <= finalized
  BY <1>1 DEF SafeInv, Running, Aligned
<1>3. toSend \in Nat /\ head \in Nat /\ finalized \in Nat
  BY NumbersAssumption DEF SafeInv, TypeOK, NodeOK, MemoryOK, BlockNums
<1>4. toSend <= head + 1 /\ (toSend <= head => toSend > finalized)
  BY DEF SafeInv, Sending, Connected
<1>5. toSend = head + 1
  BY <1>1, <1>2, <1>3, <1>4
<1>6. head > 0
  BY <1>1, <1>2 DEF HasState
<1> QED BY <1>1, <1>2, <1>5, <1>6

\* set_revision is only ever called on a database that is still empty, or was
\* restored from a snapshot: then it gives the content the number of its block.
LEMMA PreparedAligned ==
  ASSUME Environment, SafeInv, NEW n \in 1..MaxBlock, Result(n)
  PROVE  /\ Aligned(Rebased(Prepared(n)), finalized)
         /\ OnChain(Rebased(Prepared(n)), n, chain)
         /\ ~Refused(n) =>
              \/ Prepared(n) = Store
              \/ /\ ~HasState(Current(db)) /\ Prepared(n).rev = n - 1
                 /\ Aligned(Prepared(n), finalized) /\ OnChain(Prepared(n), n, chain)
<1>1. /\ phase = "reading" /\ n = toSend /\ Sent = n /\ n \in Nat /\ n - 1 \in Nat
      /\ finalized \in Nat /\ chain \in Ids /\ head \in Nat
      /\ Aligned(Store, finalized) /\ OnChain(Store, n, chain)
  BY NumbersAssumption
     DEF Result, Sent, Connected, SafeInv, TypeOK, NodeOK, MemoryOK, BlockNums
<1>2. CASE Store # db
  <2>1. /\ n - 1 = head /\ db.rev < n - 1 /\ Store = SetRevision(db, n - 1)
    BY <1>1, <1>2, NextOfRestored DEF SetRevision
  <2>2. Prepared(n) \in {db, Store} /\ (~Refused(n) => Prepared(n) = Store)
    BY <2>1 DEF Prepared, Refused, WantsRevision
  <2>3. Rebased(db) = Store /\ Rebased(Store) = Store
    BY <1>1, RebasedAligned DEF Store
  <2> QED BY <1>1, <2>2, <2>3
<1>3. CASE Store = db /\ Prepared(n) = db
  BY <1>1, <1>3, RebasedAligned
<1>4. CASE Store = db /\ Prepared(n) # db
  <2>1. db.rev < n - 1 /\ Prepared(n) = Opened(n - 1, Current(db))
    BY <1>4 DEF Prepared, WantsRevision, SetRevision
  <2>2. ~HasState(Current(db))
    <3> SUFFICES ASSUME HasState(Current(db)) PROVE FALSE OBVIOUS
    <3>1. head = db.rev /\ db.rev \in Nat /\ toSend <= head + 1
      BY <1>1, <1>4 DEF SafeInv, Running, Sending, Connected, Aligned, IsDatabase
    <3> QED BY <1>1, <2>1, <3>1
  <2>3. Current(db) = EmptyTables /\ n - 1 = InitialHead(StartBlock) /\ n - 1 <= finalized
    BY <1>1, <2>2, NextOfEmpty
  <2>4. Prepared(n).rev = n - 1
    BY <2>1 DEF Opened
  <2>5. Aligned(Prepared(n), finalized) /\ OnChain(Prepared(n), n, chain)
    BY <1>1, <2>1, <2>3, OpenedAligned
  <2> QED BY <2>2, <2>4, <2>5, RebasedAligned
<1> QED BY <1>2, <1>3, <1>4

\* The rollback always ends, on the parent of the block just received.
LEMMA RolledAligned ==
  ASSUME Environment, SafeInv, NEW n \in 1..MaxBlock, Usable(n)
  PROVE  /\ RollbackEnds(n) /\ n \in 1 .. Len(chain)
         /\ Aligned(Rolled(n), finalized) /\ OnChain(Rolled(n), n, chain)
         /\ Rolled(n).rev = n - 1
<1>1. Result(n) /\ ~Refused(n) /\ phase = "reading" /\ n = toSend /\ n \in Nat /\ n - 1 \in Nat
  BY NumbersAssumption DEF Usable, Result
<1>2. /\ finalized \in Nat /\ chain \in Ids /\ head \in Nat /\ lib \in Nat
      /\ Len(chain) \in Nat /\ MaxBlock \in Nat
  BY NumbersAssumption, LenProperties DEF SafeInv, TypeOK, NodeOK, MemoryOK, BlockNums, Ids
<1>3. lib <= finalized /\ n <= head + 1 /\ (n <= head => n > finalized)
  BY <1>1 DEF SafeInv, LibOrder, Sending, Connected
<1>4. n \in 1 .. Len(chain)
  BY <1>1, <1>2 DEF Result, NodeHasResult, Min2
<1>5. /\ IsDatabase(Store) /\ Store.base \in Nat /\ Store.rev \in Nat
      /\ Store.base <= Store.rev /\ Store.base <= finalized
      /\ Aligned(Store, finalized) /\ OnChain(Store, n, chain)
  BY <1>1 DEF SafeInv, Aligned, IsDatabase, Sent, Connected
<1>6. /\ Aligned(Prepared(n), finalized) /\ OnChain(Prepared(n), n, chain)
      /\ Prepared(n) = Store \/ (~HasState(Current(db)) /\ Prepared(n).rev = n - 1)
      /\ Current(Store) = Current(db)
  BY <1>1, <1>5, PreparedAligned, StoreFacts DEF SafeInv
<1>7. CASE HasState(Current(db))
  <2>1. head = Store.rev /\ Prepared(n) = Store
    BY <1>1, <1>6, <1>7 DEF SafeInv, Running
  <2>2. CASE IsFork(n)
    <3>1. n <= Store.rev /\ finalized < n
      BY <1>2, <1>3, <2>1, <2>2 DEF IsFork
    <3>2. RollbackEnds(n)
      BY <1>2, <1>5, <2>1, <3>1 DEF RollbackEnds
    <3>3. Rolled(n) = UndoTo(Store, n - 1)
      BY <2>1, <2>2 DEF Rolled
    <3>4. Rolled(n).rev = n - 1
      BY <1>1, <1>2, <1>5, <3>1, <3>3, UndoToFacts
    <3> QED BY <1>1, <1>2, <1>4, <1>6, <2>1, <3>2, <3>3, <3>4, UndoAligned
  <2>3. CASE ~IsFork(n)
    <3>1. n = head + 1
      BY <1>1, <1>2, <1>3, <2>3 DEF IsFork
    <3> QED BY <1>1, <1>4, <1>5, <1>6, <2>1, <2>3, <3>1 DEF Rolled, RollbackEnds
  <2> QED BY <2>2, <2>3
<1>8. CASE ~HasState(Current(db))
  <2>1. n = head + 1 /\ db.rev = db.base /\ db.rev <= head /\ Store = db
    BY <1>1, <1>8, NextOfEmpty
  <2>2. ~IsFork(n)
    BY <1>2, <2>1 DEF IsFork
  <2>3. Prepared(n).rev = n - 1
    <3>1. CASE WantsRevision(n)
      BY <1>1, <3>1 DEF Refused, Prepared, SetRevision, Opened
    <3>2. CASE ~WantsRevision(n)
      BY <1>2, <1>5, <2>1, <3>2 DEF WantsRevision, Prepared
    <3> QED BY <3>1, <3>2
  <2> QED BY <1>4, <1>6, <2>2, <2>3 DEF Rolled, RollbackEnds
<1> QED BY <1>7, <1>8

\* A process that is not connected asks nothing of the chain but a final base.
LEMMA DisconnectedSafe ==
  ASSUME SafeInv, TypeOK', NEW d, NEW u \in Nat, NEW c, c = chain,
         Aligned(Rebased(d), finalized), OnChain(Rebased(d), u, c), db' = d,
         phase' \in {"closed", "stopped"}, UNCHANGED <<chain, lib, finalized>>
  PROVE  SafeInv'
<1>1. OnChain(Rebased(d), 0, chain) /\ Store' = Rebased(d)
  BY OnChainBelow DEF Aligned, Store
<1>2. Sent' = 0
  BY DEF Sent, Connected
<1> QED
  BY <1>1, <1>2 DEF SafeInv, LibOrder, Running, Sending, Connected, RollbackTerminates

\* A block stored on top of the rolled back database, and committed as far as it
\* is final and acknowledged, leaves an aligned database at revision n.
StoredBlock(n) == PushSession(Rolled(n), SavedTables(n))

LEMMA StoredAligned ==
  ASSUME Environment, SafeInv, NEW n \in 1..MaxBlock, Usable(n)
  PROVE  LET stored == commit_db(StoredBlock(n), lib, AckedAfter(n))
         IN /\ Aligned(StoredBlock(n), finalized) /\ OnChain(StoredBlock(n), n + 1, chain)
            /\ Aligned(stored, finalized) /\ OnChain(stored, n + 1, chain)
            /\ CommitRev(lib, AckedAfter(n)) \in Nat
            /\ stored.rev = n /\ Current(stored) = SavedTables(n)
<1> DEFINE t == SavedTables(n)
           pushed == PushSession(Rolled(n), t)
           stored == commit_db(pushed, lib, AckedAfter(n))
<1>1. n \in Nat /\ Result(n)
  BY NumbersAssumption DEF Usable
<1>2. chain \in Ids /\ finalized \in Nat /\ lib \in Nat /\ lib <= finalized
  BY DEF SafeInv, LibOrder, TypeOK, NodeOK, BlockNums
<1>3. /\ n \in 1 .. Len(chain) /\ Rolled(n).rev = n - 1
      /\ Aligned(Rolled(n), finalized) /\ OnChain(Rolled(n), n, chain)
  BY <1>1, RolledAligned
<1>4. /\ TablesOK(t) /\ t.head = n /\ t.irreversible = lib
      /\ t.head_id = SubSeq(chain, 1, n)
  BY <1>1, SavedTablesType DEF SavedTables, BlockId, SafeInv
<1>5. \A m \in DOMAIN t.blocks :
         \/ m = n /\ t.blocks[m] = SubSeq(chain, 1, n)
         \/ /\ m \in DOMAIN Rolled(n).at[Rolled(n).rev].blocks
            /\ t.blocks[m] = Rolled(n).at[Rolled(n).rev].blocks[m]
  BY DEF SavedTables, AddedRows, BlockId, Current
<1>6. Aligned(pushed, finalized) /\ OnChain(pushed, n + 1, chain)
  <2> HIDE DEF t
  <2> QED BY <1>2, <1>3, <1>4, <1>5, PushAligned
<1>7. /\ pushed.rev = n /\ pushed.at[n] = t /\ IsDatabase(pushed)
      /\ pushed.base = Rolled(n).base
  BY <1>3, PushSessionFacts DEF Aligned
<1>8. AckedAfter(n) \in Nat
  BY <1>1, NumbersAssumption
     DEF AckedAfter, SafeInv, TypeOK, MemoryOK, BlockNums, Min2
<1>9. CommitRev(lib, AckedAfter(n)) \in Nat /\ CommitRev(lib, AckedAfter(n)) <= finalized
  BY <1>2, <1>8 DEF CommitRev
<1> HIDE DEF t, pushed
<1>10. \A r \in pushed.base + 1 .. pushed.rev : r <= finalized => r < n + 1
  BY <1>1, <1>7 DEF IsDatabase
<1>11. Aligned(stored, finalized) /\ OnChain(stored, n + 1, chain)
  BY <1>1, <1>2, <1>6, <1>9, <1>10, CommitAligned DEF commit_db
<1>12. stored.rev = n /\ Current(stored) = t
  <2>1. stored.rev = n /\ n \in stored.base .. stored.rev
    BY <1>1, <1>7, <1>9, CommitFacts DEF commit_db, IsDatabase
  <2>2. stored.at[n] = pushed.at[n]
    BY <1>1, <1>7, <1>9, <2>1, CommitFacts DEF commit_db
  <2> QED BY <1>7, <2>1, <2>2 DEF Current
<1> QED BY <1>3, <1>6, <1>9, <1>11, <1>12 DEF StoredBlock, pushed, t, stored

LEMMA ReceiveSafe ==
  ASSUME Environment, SafeInv, receive_result
  PROVE  SafeInv'
<1> PICK n \in 1..MaxBlock :
      /\ \/ ResultRefused(n)
         \/ RollbackForEver(n)
         \/ RollbackFails(n)
         \/ MessageRejected(n)
         \/ BlockDropped(n)
         \/ TracesRejected(n)
         \/ BlockStored(n)
      /\ toSend' = n + 1
      /\ UNCHANGED <<node, view>>
  BY DEF receive_result
<1>1. TypeOK' /\ UNCHANGED <<chain, lib, finalized>> /\ n \in Nat
  BY ReceiveType DEF SafeInv, node
<1>2. chain \in Ids /\ finalized \in Nat /\ lib \in Nat /\ lib <= finalized
  BY DEF SafeInv, LibOrder, TypeOK, NodeOK, BlockNums
<1>3. CASE ResultRefused(n)
  <2>1. Aligned(Rebased(Prepared(n)), finalized) /\ OnChain(Rebased(Prepared(n)), n, chain)
    BY <1>3, PreparedAligned DEF ResultRefused
  <2>2. db' = Prepared(n) /\ phase' = "closed"
    BY <1>3 DEF ResultRefused
  <2> QED BY <1>1, <2>1, <2>2, DisconnectedSafe
<1>4. CASE RollbackForEver(n)
  BY <1>4, RolledAligned DEF RollbackForEver
<1>5. CASE RollbackFails(n) \/ BlockDropped(n)
  <2>1. Aligned(Rolled(n), finalized) /\ OnChain(Rolled(n), n, chain)
        /\ Rebased(Rolled(n)) = Rolled(n)
    BY <1>5, RolledAligned, RebasedAligned DEF RollbackFails, BlockDropped, Begun
  <2>2. db' = Rolled(n) /\ phase' = "closed"
    BY <1>5 DEF RollbackFails, BlockDropped
  <2> QED BY <1>1, <2>1, <2>2, DisconnectedSafe
<1>6. CASE BlockStored(n)
  <2> DEFINE stored == commit_db(StoredBlock(n), lib, AckedAfter(n))
             t      == SavedTables(n)
  <2>1. Usable(n) /\ Result(n)
    BY <1>6 DEF BlockStored, Usable
  <2>2. /\ Aligned(stored, finalized) /\ OnChain(stored, n + 1, chain)
        /\ stored.rev = n /\ Current(stored) = t
    BY <2>1, StoredAligned
  <2>3. AckedAfter(n) \in Nat
    BY <1>1, NumbersAssumption
       DEF AckedAfter, SafeInv, TypeOK, MemoryOK, BlockNums, Min2
  <2>4. continue_read(stored, n, BlockId(n), lib, AckedAfter(n), ForkedAfter(n))
    BY <1>6 DEF BlockStored, Stored, StoredBlock
  <2> HIDE DEF stored
  <2>5. t.head = n /\ HasState(t) /\ t.head_id = BlockId(n)
    BY <1>1 DEF SavedTables, HasState
  <2>6. Positioned(stored, n, BlockId(n), lib, toSend')
    BY <1>1, <1>2, <2>2, <2>5 DEF Positioned
  <2>7. /\ Rebased(stored) = stored /\ IsDatabase(stored)
        /\ \A r \in stored.base .. stored.rev : TablesOK(stored.at[r])
    BY <2>2, RebasedAligned DEF Aligned, Revision
  <2> QED BY <1>1, <2>2, <2>3, <2>4, <2>6, <2>7, ContinueSafe DEF SafeInv
<1>7. CASE TracesRejected(n)
  <2>1. Usable(n) /\ db' = Stored(n) /\ phase' = "closed"
    BY <1>7 DEF TracesRejected, Begun
  <2>2. Aligned(Stored(n), finalized) /\ OnChain(Stored(n), n + 1, chain) /\ n + 1 \in Nat
    BY <1>1, <2>1, StoredAligned DEF Stored, StoredBlock
  <2>3. Rebased(Stored(n)) = Stored(n)
    BY <2>2, RebasedAligned
  <2> QED BY <1>1, <2>1, <2>2, <2>3, DisconnectedSafe
<1>8. CASE MessageRejected(n)
  <2>1. db' = db /\ phase' = "closed" /\ Sent \in Nat
    BY <1>8 DEF MessageRejected, Sent, SafeInv, TypeOK, NodeOK
  <2> QED BY <1>1, <2>1, DisconnectedSafe DEF SafeInv, Store
<1> QED BY <1>3, <1>4, <1>5, <1>6, <1>7, <1>8

\* Undoing all sessions leaves the base, of a restored database all there is.
LEMMA UndoAllSafe ==
  ASSUME SafeInv, db' = UndoAll(db)
  PROVE  /\ Aligned(Store', finalized) /\ OnChain(Store', 0, chain)
         /\ Store'.rev = Store'.base /\ Current(Store') = Current(UndoAll(db))
<1> DEFINE d == UndoAll(db)
<1>1. /\ finalized \in Nat /\ chain \in Ids /\ Sent \in Nat /\ IsDatabase(db)
      /\ Aligned(Store, finalized) /\ OnChain(Store, Sent, chain)
  BY NumbersAssumption DEF SafeInv, TypeOK, NodeOK, DbOK, Sent, BlockNums
<1>2. IsDatabase(d) /\ d.base = db.base /\ d.rev = db.base /\ d.at[db.base] = db.at[db.base]
  BY <1>1, UndoAllFacts
<1>3. CASE Store = db
  <2>1. Aligned(d, finalized) /\ OnChain(d, Sent, chain)
    BY <1>1, <1>3, UndoAligned DEF UndoAll, IsDatabase
  <2>2. OnChain(d, 0, chain)
    BY <1>1, <2>1, OnChainBelow DEF Aligned
  <2>3. Store' = d
    BY <2>1, RebasedAligned DEF Store
  <2> QED BY <1>2, <2>1, <2>2, <2>3
<1>4. CASE Store # db
  <2>1. db.rev = 0 /\ db.base = 0 /\ Store.rev = Store.base /\ Current(Store) = Current(db)
    BY <1>4, StoreFacts DEF SafeInv
  <2>2. Rebased(d) = Rebased(db) /\ Current(d) = Current(db)
    BY <1>2, <1>4, <2>1, RebasedAgain DEF Store, Current
  <2>3. Store' = Store
    BY <2>2 DEF Store
  <2>4. OnChain(Store, 0, chain)
    BY <1>1, OnChainBelow DEF Aligned
  <2> QED BY <1>1, <2>1, <2>2, <2>3, <2>4
<1> QED BY <1>3, <1>4

LEMMA LoadStateSafe ==
  ASSUME Environment, SafeInv, load_state
  PROVE  SafeInv'
<1> DEFINE d == UndoAll(db)
<1>1. TypeOK' /\ UNCHANGED <<chain, lib, finalized, toSend>> /\ db' = d
  BY LoadStateType DEF SafeInv, load_state, node
<1>2. /\ Aligned(Store', finalized) /\ OnChain(Store', 0, chain)
      /\ Store'.rev = Store'.base /\ Current(Store') = Current(d)
  BY <1>1, UndoAllSafe
<1>3. CASE phase' = phase
  <2>1. phase' = "stopped"
    BY <1>3 DEF load_state
  <2> QED BY <1>1, <1>2, <2>1
          DEF SafeInv, LibOrder, Sent, Running, Sending, Connected, RollbackTerminates
<1>4. CASE phase' # phase
  <2> PICK option \in {0, StartBlock} :
        /\ HasState(Current(d)) \/ option = StartBlock
        /\ phase' = "connecting"
        /\ head' = IF HasState(Current(d)) THEN Current(d).head ELSE InitialHead(option)
        /\ head_id' = Current(d).head_id
        /\ irreversible' = Current(d).irreversible
        /\ start_block_num' = option
    BY <1>4 DEF load_state
  <2> HIDE DEF d
  <2>1. Revision(Store', Store'.rev, finalized)
    BY <1>2 DEF Aligned, IsDatabase
  <2>2. Running'
    BY <1>1, <1>2, <2>1 DEF Running, Revision, StateOfRevision, Current
  <2>3. Sent' = 0 /\ Sending' /\ RollbackTerminates'
    BY DEF Sent, Sending, Connected, RollbackTerminates
  <2> QED BY <1>1, <1>2, <2>2, <2>3 DEF SafeInv, LibOrder
<1> QED BY <1>3, <1>4

\* Saving a snapshot only reverts; a restored database is the same store.
LEMMA SnapshotSafe ==
  ASSUME SafeInv, SaveSnapshot \/ RestoreSnapshot
  PROVE  SafeInv'
<1>1. TypeOK' /\ UNCHANGED <<chain, lib, finalized>> /\ phase' = "stopped"
  BY SnapshotType DEF SafeInv, SaveSnapshot, RestoreSnapshot, node
<1>2. CASE SaveSnapshot
  <2>1. Aligned(Store', finalized) /\ OnChain(Store', 0, chain)
    BY <1>2, UndoAllSafe DEF SaveSnapshot
  <2> QED BY <1>1, <2>1
          DEF SafeInv, LibOrder, Sent, Running, Sending, Connected, RollbackTerminates
<1>3. CASE RestoreSnapshot
  <2>1. /\ HasState(Current(db)) /\ db.base = db.rev /\ db' = Opened(0, Current(db))
        /\ IsDatabase(db) /\ Sent = 0
    BY <1>3 DEF RestoreSnapshot, HasUndoSession, Restored, IsDatabase, SafeInv, TypeOK, DbOK,
                Sent, Connected
  <2>2. /\ db'.rev = 0 /\ db'.base = 0 /\ Current(db') = Current(db)
    BY <2>1, OpenedFacts DEF Current
  <2>3. Store' = Opened(Current(db).head, Current(db))
    BY <2>1, <2>2 DEF Store, Rebased
  <2>4. Aligned(Store', finalized) /\ OnChain(Store', 0, chain)
    <3>1. CASE Store # db
      BY <2>1, <2>3, <3>1, StoreFacts DEF SafeInv
    <3>2. CASE Store = db
      <4>1. Aligned(db, finalized) /\ OnChain(db, 0, chain) /\ db.base \in Nat
        BY <2>1, <3>2 DEF SafeInv, IsDatabase
      <4>2. Revision(db, db.rev, finalized) /\ db.rev = Current(db).head
        BY <2>1, <4>1 DEF Aligned, Revision, StateOfRevision, Current
      <4>3. /\ IsDatabase(Store') /\ Store'.base = db.base /\ Store'.rev = db.base
            /\ Store'.at[db.base] = db.at[db.base]
        BY <2>1, <2>3, <4>1, <4>2, OpenedFacts DEF Current
      <4>4. \A r \in db.base .. db.base : r = db.base
        BY <4>1
      <4>5. Aligned(Store', finalized)
        BY <2>1, <4>1, <4>2, <4>3, <4>4 DEF Aligned, Revision
      <4>6. OnChain(Store', 0, chain)
        BY <2>1, <4>1, <4>3, <4>4 DEF OnChain
      <4> QED BY <4>5, <4>6
    <3> QED BY <3>1, <3>2
  <2> QED BY <1>1, <2>4
          DEF SafeInv, LibOrder, Sent, Running, Sending, Connected, RollbackTerminates
<1> QED BY <1>2, <1>3

\* After a restart every position the receiver sends is still on the chain.
LEMMA RequestSafe ==
  ASSUME Environment, SafeInv, request_blocks
  PROVE  SafeInv'
<1> PICK n \in 1 .. MaxBlock + 1 : IsFirstToSend(n) /\ toSend' = n
  BY DEF request_blocks
<1>1. /\ TypeOK' /\ UNCHANGED <<chain, lib, finalized>>
      /\ continue_read(db, head, head_id, irreversible, exporter_acked_block, forked_at_block)
  BY ReceiverType DEF SafeInv, request_blocks, node
<1>2. /\ finalized \in Nat /\ chain \in Ids /\ head \in Nat /\ irreversible \in Nat
      /\ exporter_acked_block \in Nat /\ Len(chain) \in Nat /\ n \in Nat
  BY LenProperties, NumbersAssumption
     DEF SafeInv, TypeOK, NodeOK, MemoryOK, BlockNums, Ids
<1>3. /\ Store.rev = Store.base /\ Store.rev \in Nat /\ Aligned(Store, finalized)
      /\ IsDatabase(Store)
  BY DEF SafeInv, Running, request_blocks, Aligned, IsDatabase
<1>4. Revision(Store, Store.rev, finalized)
  BY <1>3 DEF Aligned
<1>5. Mismatches(Current(Store)) = {}
  <2> SUFFICES ASSUME NEW m \in Mismatches(Current(Store)) PROVE FALSE OBVIOUS
  <2>1. /\ m \in DOMAIN Current(Store).blocks
        /\ m > Len(chain) \/ BlockId(m) # Current(Store).blocks[m]
    BY DEF Mismatches
  <2>2. HasState(Current(Store))
    BY <1>4, <2>1 DEF Revision, Current, EmptyTables
  <2>3. /\ m \in 1 .. Store.rev
        /\ Current(Store).blocks[m] = SubSeq(Current(Store).head_id, 1, m)
    BY <1>4, <2>1, <2>2 DEF Revision, RowsOnBranch, StateOfRevision, Current
  <2>4. Store.rev <= Len(chain) /\ Current(Store).head_id = SubSeq(chain, 1, Store.rev)
    BY <1>3, <2>2 DEF SafeInv, OnChain, Current
  <2>5. Store.rev \in 0 .. Len(chain) /\ m \in 0 .. Store.rev
    BY <1>2, <1>3, <2>3, <2>4
  <2>6. Current(Store).blocks[m] = BlockId(m)
    BY <1>2, <2>3, <2>4, <2>5, PrefixOfPrefix DEF BlockId
  <2> QED BY <1>2, <2>1, <2>5, <2>6
<1>6. n = head + 1
  BY <1>5, StoreFacts DEF IsFirstToSend, SafeInv
<1>7. OnChain(Store, toSend', chain)
  <2>1. /\ Store.base \in Nat /\ Store.rev \in Nat
        /\ \A r \in Store.base .. Store.rev : r = Store.base
    BY <1>2, <1>3 DEF IsDatabase
  <2> QED BY <1>2, <1>3, <2>1 DEF SafeInv, OnChain
<1>8. Positioned(Store, head, head_id, irreversible, toSend')
  BY <1>2, <1>6 DEF Positioned, SafeInv, Running, request_blocks
<1> QED BY <1>1, <1>2, <1>3, <1>7, <1>8, ContinueSafe DEF SafeInv, TypeOK, DbOK, Store

\* What is left does not touch the position or the database, or ends the process.
LEMMA OtherSafe ==
  ASSUME Environment, SafeInv, TypeOK', UNCHANGED <<node, toSend, db>>,
         \/ UNCHANGED <<phase, position, start_block_num>>
         \/ phase' = "stopped"
  PROVE  SafeInv'
<1>1. UNCHANGED <<chain, lib, finalized>>
  BY DEF node
<1>2. CASE UNCHANGED <<phase, position, start_block_num>>
  BY <1>1, <1>2 DEF SafeInv, LibOrder, Running, Sending, Sent, Connected,
                    RollbackTerminates, position, Store
<1>3. CASE phase' = "stopped"
  <2>1. Sent \in Nat
    BY DEF Sent, SafeInv, TypeOK, NodeOK
  <2> QED BY <1>1, <1>3, <2>1, DisconnectedSafe DEF SafeInv, Store
<1> QED BY <1>2, <1>3

LEMMA PauseTimerSafe ==
  ASSUME Environment, SafeInv, PauseTimer
  PROVE  SafeInv'
<1>1. /\ TypeOK' /\ UNCHANGED <<chain, lib, finalized, toSend>> /\ phase = "paused"
      /\ continue_read(db, head, head_id, irreversible, exporter_acked_block, forked_at_block)
  BY ReceiverType DEF SafeInv, PauseTimer, node
<1>2. /\ toSend \in Nat /\ head \in Nat /\ irreversible \in Nat /\ exporter_acked_block \in Nat
      /\ Sent = toSend
  BY <1>1 DEF SafeInv, TypeOK, NodeOK, MemoryOK, BlockNums, Sent, Connected
<1>3. Positioned(Store, head, head_id, irreversible, toSend')
  BY <1>1, <1>2 DEF Positioned, SafeInv, Running, Sending, Connected
<1> QED BY <1>1, <1>2, <1>3, ContinueSafe DEF SafeInv, TypeOK, DbOK, Store

LEMMA NextSafe == Environment /\ SafeInv /\ [Next]_vars => SafeInv'
<1> SUFFICES ASSUME Environment, SafeInv, [Next]_vars PROVE SafeInv' OBVIOUS
<1>1. TypeOK'
  BY NextType DEF SafeInv
<1>2. CASE Node
  BY <1>2, NodeSafe
<1>3. CASE load_state
  BY <1>3, LoadStateSafe
<1>4. CASE request_blocks
  BY <1>4, RequestSafe
<1>5. CASE receive_result
  BY <1>5, ReceiveSafe
<1>6. CASE PauseTimer
  BY <1>6, PauseTimerSafe
<1>7. CASE Stop \/ StaleAbort
  BY <1>1, <1>7, OtherSafe DEF Stop, StaleAbort, Stopped
<1>8. CASE ConsumerAck \/ DeliverFork
  BY <1>1, <1>8, OtherSafe DEF ConsumerAck, DeliverFork, ack_block, Stopped
<1>9. CASE DeliverBlock
  BY <1>1, <1>9, OtherSafe DEF DeliverBlock
<1>10. CASE SaveSnapshot \/ RestoreSnapshot
  BY <1>10, SnapshotSafe
<1>11. CASE UNCHANGED vars
  BY <1>1, <1>11, OtherSafe DEF vars, memory
<1> QED BY <1>2, <1>3, <1>4, <1>5, <1>6, <1>7, <1>8, <1>9, <1>10, <1>11
        DEF Next, Receiver, Consumer, Operator

LEMMA SafeInvariant == ASSUME Environment PROVE Spec => []SafeInv
<1>1. Init => SafeInv
  BY InitSafe
<1>2. SafeInv /\ [Next]_vars => SafeInv'
  BY NextSafe
<1> QED BY <1>1, <1>2, PTL DEF Spec

(* ------------------------------- theorems ------------------------------- *)

\* The revision number is always the number of the block whose state it is, so
\* undoing "down to block n-1" (receive_result) lands on block n-1.
THEOREM RevisionAligned == ASSUME Environment PROVE Spec => []RevisionTracksHead
<1>1. SafeInv => RevisionTracksHead
  <2> SUFFICES ASSUME SafeInv PROVE RevisionTracksHead OBVIOUS
  <2>1. \A r \in Store.base .. Store.rev : Revision(Store, r, finalized)
    BY DEF SafeInv, Aligned
  <2>2. Store.rev \in Store.base .. Store.rev
    BY DEF SafeInv, Aligned, IsDatabase
  <2>3. Len(Current(db).head_id) = Current(db).head
    <3>1. Len(Current(Store).head_id) = Current(Store).head
      BY <2>1, <2>2 DEF Revision, StateOfRevision, Current, EmptyTables
    <3> QED BY <3>1, StoreFacts DEF SafeInv
  <2>4. Store = db \/ db.rev = 0
    BY StoreFacts DEF SafeInv
  <2> QED BY <2>1, <2>3, <2>4 DEF RevisionTracksHead, Revision, StateOfRevision
<1> QED BY <1>1, SafeInvariant, PTL

\* What commit_db makes permanent is part of the final chain, so a fork never
\* reaches below the undo stack.
THEOREM CommitFinal == ASSUME Environment PROVE Spec => []CommittedIsFinal
<1>1. SafeInv => CommittedIsFinal
  <2> SUFFICES ASSUME SafeInv PROVE CommittedIsFinal OBVIOUS
  <2> DEFINE kept == Store.at[Store.base]
             final == Len(kept.head_id) <= finalized /\ kept.head_id = BlockId(Len(kept.head_id))
  <2>1. Store.base \in Store.base .. Store.rev /\ Store.base \in Nat /\ Store.base <= finalized
    BY DEF SafeInv, Aligned, IsDatabase
  <2>2. Revision(Store, Store.base, finalized) /\ finalized \in Nat
    BY <2>1 DEF SafeInv, Aligned, TypeOK, NodeOK, BlockNums
  <2>3. HasState(kept) => final
    BY <2>1, <2>2
       DEF SafeInv, OnChain, Revision, StateOfRevision, BlockId
  <2>4. ~HasState(kept) => final
    <3> SUFFICES ASSUME ~HasState(kept) PROVE final OBVIOUS
    <3>1. kept.head_id = <<>> /\ Len(<<>>) = 0
      BY <2>2 DEF Revision, EmptyTables
    <3>2. BlockId(0) = <<>>
      BY SubSeqEmpty DEF BlockId
    <3> QED BY <2>2, <3>1, <3>2
  <2>5. db.at[db.base] = kept
    <3>1. CASE Store = db
      BY <3>1
    <3>2. CASE Store # db
      <4>1. /\ db.base = db.rev /\ Current(Store) = Current(db)
            /\ Store.base = Store.rev
        BY <3>2, StoreFacts DEF SafeInv
      <4> QED BY <4>1 DEF Current
    <3> QED BY <3>1, <3>2
  <2> QED BY <2>3, <2>4, <2>5 DEF CommittedIsFinal
<1> QED BY <1>1, SafeInvariant, PTL

\* The states the database can go back to lie on one branch, the head's.
THEOREM UndoOnOneChain == ASSUME Environment PROVE Spec => []UndoStatesOnOneChain
<1>1. SafeInv => UndoStatesOnOneChain
  <2> SUFFICES ASSUME SafeInv, NEW r \in Store.base .. Store.rev
               PROVE  IsPrefix(Store.at[r].head_id, Current(Store).head_id)
    <3>1. CASE Store = db
      BY <3>1 DEF UndoStatesOnOneChain
    <3>2. CASE Store # db
      <4> SUFFICES ASSUME SafeInv PROVE UndoStatesOnOneChain OBVIOUS
      <4>1. /\ db.base = 0 /\ db.rev = 0 /\ Current(Store) = Current(db)
            /\ Store.base = Store.rev /\ IsDatabase(Store)
        BY <3>2, StoreFacts DEF SafeInv
      <4>2. Store.rev \in Store.base .. Store.rev
        BY <4>1 DEF IsDatabase
      <4>3. IsPrefix(Current(Store).head_id, Current(Store).head_id)
        BY <4>1, <4>2 DEF Current
      <4>4. \A r \in db.base .. db.rev : db.at[r] = Current(db)
        BY <4>1 DEF Current
      <4> QED BY <4>1, <4>3, <4>4 DEF UndoStatesOnOneChain
    <3> QED BY <3>1, <3>2
  <2>1. Revision(Store, r, finalized) /\ r \in Nat /\ r <= Store.rev
    BY DEF SafeInv, Aligned, IsDatabase
  <2>2. Store.rev \in Store.base .. Store.rev
    BY DEF SafeInv, Aligned, IsDatabase
  <2>3. Current(Store).head_id \in Ids
    BY <2>2 DEF SafeInv, Aligned, Revision, TablesOK, Current
  <2>4. Len(Current(Store).head_id) \in Nat
    BY <2>3, LenProperties DEF Ids
  <2>5. CASE HasState(Store.at[r])
    <3>1. /\ Store.at[r].head_id = SubSeq(Current(Store).head_id, 1, r) /\ Len(Store.at[r].head_id) = r
          /\ Store.at[r].head_id \in Ids
      BY <2>1, <2>5 DEF Revision, StateOfRevision, Current, TablesOK
    <3>2. Len(Current(Store).head_id) = Store.rev
      BY <2>5, OnlyBaseIsEmpty DEF SafeInv, TypeOK, NodeOK, BlockNums, Current
    <3>3. SubSeq(Store.at[r].head_id, 1, r) = Store.at[r].head_id
      BY <3>1, WholeId
    <3> QED BY <2>1, <3>1, <3>2, <3>3 DEF IsPrefix
  <2>6. CASE ~HasState(Store.at[r])
    <3>1. Store.at[r].head_id = <<>> /\ Len(<<>>) = 0
      BY <2>1, <2>6 DEF Revision, EmptyTables
    <3>2. SubSeq(<<>>, 1, 0) = <<>> /\ SubSeq(Current(Store).head_id, 1, 0) = <<>>
      BY SubSeqEmpty
    <3> QED BY <2>4, <3>1, <3>2 DEF IsPrefix
  <2> QED BY <2>5, <2>6
<1> QED BY <1>1, SafeInvariant, PTL

\* The rollback loop of receive_result never runs out of undo sessions.
THEOREM RollbackAlwaysEnds == ASSUME Environment PROVE Spec => []RollbackTerminates
BY SafeInvariant, PTL DEF SafeInv
=============================================================================
