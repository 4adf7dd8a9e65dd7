------------------------- MODULE ContentSafetyProofs -------------------------
(***************************************************************************)
(* Theorems about BlockContent, for every set of accounts, ABIs, changes,  *)
(* traces and configurations: the context of the decoder, the types, the   *)
(* tables and the history of ABIs, what is decoded, and the filters.       *)
(***************************************************************************)
EXTENDS BlockContent, ChainbaseProofs, FiniteSetTheorems, WellFoundedInduction

(* ------------------------ context and ABI table ------------------------- *)

\* Every ABI of the context is the one the table has for the account.
Agrees(ctxt, abi) ==
  \A a \in DOMAIN ctxt : a \in DOMAIN abi /\ ctxt[a] = abi[a]

LEMMA EmptyAgrees == ASSUME NEW abi PROVE Agrees(<<>>, abi)
<1>1. DOMAIN <<>> = {} OBVIOUS
<1> QED BY <1>1 DEF Agrees

\* The context follows the table through the account rows of a block, in
\* whatever order the rows come.
LEMMA ContextFollowsTable ==
  ASSUME NEW ctxt, NEW abi, NEW changes \in Changes, NEW early, Agrees(ctxt, abi)
  PROVE  Agrees(Context(ctxt, changes, early), AbiTable(abi, changes))
<1> DEFINE new  == Context(ctxt, changes, early)
           lost == DOMAIN ctxt \cap DOMAIN changes # {}
           kept == IF lost THEN {} ELSE DOMAIN ctxt
           set  == IF lost THEN Usable(changes) \ early ELSE Usable(changes)
<1>1. new = [a \in kept \cup set |-> IF a \in set THEN changes[a] ELSE ctxt[a]]
  BY DEF Context
<1>2. Usable(changes) \cap Cleared(changes) = {}
  BY BlobsAssumption DEF Usable, Cleared
<1>3. Usable(changes) \subseteq DOMAIN changes /\ Cleared(changes) \subseteq DOMAIN changes
  BY DEF Usable, Cleared
<1>4. ASSUME NEW a \in set
      PROVE  a \in DOMAIN AbiTable(abi, changes) /\ AbiTable(abi, changes)[a] = changes[a]
  BY <1>2, <1>3, <1>4 DEF AbiTable
<1>5. ASSUME NEW a \in kept, a \notin set
      PROVE  a \in DOMAIN AbiTable(abi, changes) /\ AbiTable(abi, changes)[a] = ctxt[a]
  <2>1. a \in DOMAIN ctxt /\ a \notin DOMAIN changes
    BY <1>5
  <2>2. a \in DOMAIN abi /\ abi[a] = ctxt[a]
    BY <2>1 DEF Agrees
  <2> QED BY <1>3, <2>1, <2>2 DEF AbiTable
<1>6. ASSUME NEW a \in DOMAIN new
      PROVE  a \in DOMAIN AbiTable(abi, changes) /\ new[a] = AbiTable(abi, changes)[a]
  <2>1. a \in kept \cup set BY <1>1, <1>6
  <2>2. CASE a \in set BY <1>1, <1>4, <2>2
  <2>3. CASE a \notin set BY <1>1, <1>5, <2>1, <2>3
  <2> QED BY <2>2, <2>3
<1> HIDE DEF new
<1> QED BY <1>6 DEF Agrees, new

\* Looking accounts up in the table keeps the agreement.
LEMMA LookupAgrees ==
  ASSUME NEW ctxt, NEW abi, NEW accounts, Agrees(ctxt, abi)
  PROVE  Agrees(get_contract_abi_ready(ctxt, abi, accounts), abi)
BY DEF Agrees, get_contract_abi_ready

\* What a committed session leaves on top is what was pushed.
LEMMA StoredOnTop ==
  ASSUME NEW d, IsDatabase(d), NEW c, NEW r \in Int
  PROVE  /\ IsDatabase(Commit(PushSession(d, c), r))
         /\ Current(Commit(PushSession(d, c), r)) = c
<1> DEFINE p == PushSession(d, c)
           e == Commit(p, r)
<1>1. IsDatabase(p) /\ p.rev = d.rev + 1 /\ p.at[d.rev + 1] = c
  BY PushSessionFacts
<1> HIDE DEF p
<1>2. IsDatabase(e) /\ e.rev = p.rev /\ \A i \in e.base .. e.rev : e.at[i] = p.at[i]
  BY <1>1, CommitFacts
<1> HIDE DEF e
<1>3. e.rev \in e.base .. e.rev
  BY <1>2 DEF IsDatabase
<1> QED BY <1>1, <1>2, <1>3 DEF Current, e, p

(* --------------------------- the invariant ------------------------------ *)

ContextInv ==
  /\ IsDatabase(db)
  /\ irreversible \in Nat
  /\ phase = "stopped" => contract_abi_ctxt = <<>> /\ pending = {}
  /\ dropped = <<>> => Agrees(contract_abi_ctxt, Current(db).abi)
  /\ phase # "closed" => dropped = <<>>

\* The context a block starts with agrees with the table it starts with.
LEMMA ContextBefore ==
  ASSUME ContextInv, NEW n, Receives(n)
  PROVE  /\ IsDatabase(Before(n))
         /\ Agrees(ContextAfterFork(n), Current(Before(n)).abi)
<1>1. n \in Int /\ n - 1 \in Int
  BY DEF Receives
<1>2. IsDatabase(Before(n))
  BY <1>1, UndoToFacts DEF Before, ContextInv
<1>3. CASE n <= head
  BY <1>2, <1>3, EmptyAgrees DEF ContextAfterFork
<1>4. CASE ~(n <= head)
  <2>1. n - 1 = db.rev /\ db.rev \in Nat /\ db.base \in Nat /\ db.base <= db.rev
    BY <1>1, <1>4 DEF Receives, head, ContextInv, IsDatabase
  <2>2. Before(n).rev = db.rev /\ \A i \in Before(n).base .. db.rev : Before(n).at[i] = db.at[i]
    BY <1>1, <2>1, UndoToFacts DEF Before, ContextInv
  <2>3. db.rev \in Before(n).base .. db.rev
    BY <1>2, <2>2 DEF IsDatabase
  <2>4. Current(Before(n)) = Current(db)
    BY <2>2, <2>3 DEF Current
  <2> QED BY <1>2, <1>4, <2>4 DEF ContextAfterFork, ContextInv, Receives
<1> QED BY <1>2, <1>3, <1>4

\* What rows and traces are looked up in agrees with the table of the block.
LEMMA LoadedAgrees ==
  ASSUME ContextInv, NEW n, Receives(n), NEW changes \in Changes, NEW early, NEW codes
  PROVE  Agrees(Loaded(n, changes, early, codes), AbiTable(Current(Before(n)).abi, changes))
BY ContextBefore, ContextFollowsTable, LookupAgrees DEF Loaded

LEMMA ContextInit == Init => ContextInv
<1> SUFFICES ASSUME Init PROVE ContextInv OBVIOUS
<1>1. IsDatabase(db)
  BY OpenedFacts DEF Init
<1>2. Agrees(contract_abi_ctxt, Current(db).abi)
  BY EmptyAgrees DEF Init
<1> QED BY <1>1, <1>2 DEF Init, ContextInv

LEMMA ContextStep == ContextInv /\ [Next]_vars => ContextInv'
<1> SUFFICES ASSUME ContextInv, [Next]_vars PROVE ContextInv' OBVIOUS
<1>1. ASSUME NEW n \in 1..MaxBlock, NEW changes \in Changes, NEW codes, NEW traces,
             ReceiveBlock(n, changes, codes, traces)
      PROVE  ContextInv'
  <2>1. Receives(n) /\ irreversible' = irreversible /\ dropped' = dropped
    BY <1>1 DEF ReceiveBlock
  <2> DEFINE old   == Current(Before(n))
             stored == [abi     |-> AbiTable(old.abi, changes),
                        history |-> History(old.history, old.abi, changes, n)]
  <2>2. IsDatabase(Before(n)) /\ dropped = <<>>
    BY <2>1, ContextBefore DEF Receives, ContextInv
  <2>3. PICK early \in MayComeFirst(ContextAfterFork(n), changes),
             floor \in db.base .. irreversible :
          /\ db' = Commit(PushSession(Before(n), stored), floor)
          /\ contract_abi_ctxt' = Loaded(n, changes, early, codes)
          /\ phase' \in {"running", "closed"}
    BY <1>1 DEF ReceiveBlock
  <2>4. stored.abi = AbiTable(old.abi, changes) OBVIOUS
  <2> HIDE DEF stored
  <2>5. floor \in Int
    BY <2>3
  <2>6. IsDatabase(db') /\ Current(db') = stored
    BY <2>2, <2>3, <2>5, StoredOnTop
  <2>7. Agrees(contract_abi_ctxt', stored.abi)
    BY <2>1, <2>3, <2>4, LoadedAgrees
  <2>8. Current(db)' = stored
    BY <2>6 DEF Current
  <2> QED BY <2>1, <2>2, <2>3, <2>6, <2>7, <2>8 DEF ContextInv
<1>2. ASSUME NEW n \in 1..MaxBlock, NEW changes \in Changes, NEW codes,
             DeltasThrow(n, changes, codes)
      PROVE  ContextInv'
  <2>1. Receives(n) /\ db' = Before(n) /\ phase' = "closed" /\ irreversible' = irreversible
        /\ dropped' = <<changes>>
    BY <1>2 DEF DeltasThrow
  <2>2. <<changes>> # <<>> OBVIOUS
  <2> QED BY <2>1, <2>2, ContextBefore DEF ContextInv
<1>3. ASSUME NEW e, Decode(e) PROVE ContextInv'
  <2>1. /\ db' = db /\ phase' = phase /\ irreversible' = irreversible /\ dropped' = dropped
        /\ contract_abi_ctxt' =
             get_contract_abi_ready(contract_abi_ctxt, Current(db).abi, {e.account})
        /\ e \in pending
    BY <1>3 DEF Decode, ghosts
  <2>2. phase # "stopped"
    BY <2>1 DEF ContextInv
  <2>3. dropped = <<>> => Agrees(contract_abi_ctxt', Current(db).abi)
    BY <2>1, LookupAgrees DEF ContextInv
  <2> QED BY <2>1, <2>2, <2>3 DEF ContextInv, Current
<1>4. CASE NewIrreversible
  BY <1>4 DEF NewIrreversible, ContextInv, Current, ghosts
<1>5. CASE Stop
  BY <1>5, EmptyAgrees DEF Stop, ContextInv
<1>6. CASE Start
  <2>1. phase = "stopped" /\ db' = UndoAll(db) /\ irreversible' = irreversible
        /\ contract_abi_ctxt' = <<>> /\ phase' = "running" /\ dropped' = <<>>
    BY <1>6 DEF Start, Reverts, ContextInv
  <2> QED BY <2>1, UndoAllFacts, EmptyAgrees DEF ContextInv
<1>7. CASE SaveSnapshot
  <2>1. phase' = "stopped" /\ db' = UndoAll(db) /\ irreversible' = irreversible
        /\ contract_abi_ctxt' = <<>> /\ pending' = {} /\ dropped' = <<>>
    BY <1>7 DEF SaveSnapshot, Reverts, ContextInv
  <2> QED BY <2>1, UndoAllFacts, EmptyAgrees DEF ContextInv
<1>8. CASE RestoreSnapshot
  <2>1. phase' = "stopped" /\ irreversible' = irreversible /\ contract_abi_ctxt' = <<>>
        /\ pending' = {} /\ db' = Opened(head, Restored(Current(db))) /\ dropped' = <<>>
    BY <1>8 DEF RestoreSnapshot, ContextInv
  <2>2. head \in Nat
    BY DEF ContextInv, IsDatabase, head
  <2>3. IsDatabase(db')
    BY <2>1, <2>2, OpenedFacts
  <2> QED BY <2>1, <2>3, EmptyAgrees DEF ContextInv
<1>9. CASE UNCHANGED vars
  BY <1>9 DEF vars, ghosts, ContextInv, Current
<1> QED BY <1>1, <1>2, <1>3, <1>4, <1>5, <1>6, <1>7, <1>8, <1>9 DEF Next

\* The ABI context never disagrees with the contract_abi table, whatever the
\* order of setabi rows, forks, exceptions, decoding and restarts.
THEOREM ContextIsTable == Spec => []ContextAgrees
<1>1. ContextInv => ContextAgrees
  BY DEF ContextInv, ContextAgrees, Agrees
<1> QED BY <1>1, ContextInit, ContextStep, PTL DEF Spec

(* ------------------ the last usable ABI of a chain s -------------------- *)

\* A set of blocks up to n that is not empty has a last one.
LEMMA LastExists ==
  ASSUME NEW n \in Int, NEW D \in SUBSET (1..n), D # {}
  PROVE  \E i \in D : \A j \in D : j <= i
<1> DEFINE From(i) == {j \in D : i <= j}
           Ends == {From(i) : i \in D}
           Proper == StrictSubsetOrdering(D)
<1>1. IsFiniteSet(D)
  <2>1. IsFiniteSet(1..n)
    BY FS_Interval
  <2> QED BY <2>1, FS_Subset
<1>2. IsWellFoundedOn(Proper, SUBSET D)
  BY <1>1, FS_StrictSubsetOrderingWellFounded, FS_FiniteSubsetsOfFinite
<1>3. Ends \subseteq SUBSET D /\ Ends # {} OBVIOUS
<1> HIDE DEF Ends, Proper
<1>4. \E e \in Ends : \A f \in Ends : ~(<<f, e>> \in Proper)
  BY <1>2, <1>3, WFMin
<1> USE DEF Ends, Proper
<1>5. PICK i \in D : \A j \in D : ~(<<From(j), From(i)>> \in Proper)
  BY <1>4
<1>6. ASSUME NEW j \in D, ~(j <= i) PROVE FALSE
  <2>1. /\ From(j) \subseteq From(i)
        /\ i \in From(i) /\ i \notin From(j)
    <3>1. i \in Int /\ j \in Int /\ i < j /\ \A k \in D : k \in Int
      BY <1>6
    <3>2. i \in From(i) /\ i \notin From(j)
      BY <3>1
    <3>3. ASSUME NEW k \in From(j) PROVE k \in From(i)
      <4>1. k \in D /\ j <= k OBVIOUS
      <4> QED BY <3>1, <4>1
    <3> HIDE DEF From
    <3> QED BY <3>2, <3>3
  <2>2. From(j) \in SUBSET D /\ From(i) \in SUBSET D OBVIOUS
  <2> HIDE DEF From
  <2>3. <<From(j), From(i)>> \in Proper
    BY <2>1, <2>2 DEF StrictSubsetOrdering
  <2> QED BY <1>5, <2>3
<1> QED BY <1>6

\* And a first one.
LEMMA FirstExists ==
  ASSUME NEW n \in Int, NEW D \in SUBSET (1..n), D # {}
  PROVE  \E i \in D : \A j \in D : i <= j
<1> DEFINE M == {n + 1 - i : i \in D}
<1>1. M \in SUBSET (1..n) /\ M # {}
  <2>1. \A i \in D : n + 1 - i \in 1..n OBVIOUS
  <2>2. \E i \in D : TRUE OBVIOUS
  <2> QED BY <2>1, <2>2
<1>2. PICK m \in M : \A k \in M : k <= m
  BY <1>1, LastExists
<1>3. PICK i \in D : m = n + 1 - i
  BY <1>2
<1>4. ASSUME NEW j \in D PROVE i <= j
  <2>1. n + 1 - j \in M OBVIOUS
  <2>2. n + 1 - j <= n + 1 - i
    BY <1>2, <1>3, <2>1
  <2> QED BY <2>2
<1> QED BY <1>4

\* It is the change of a block that decides, and of the last of them.
LEMMA LatestIsDecided ==
  ASSUME NEW s, NEW a, NEW n \in Int, Deciding(s, a, n) # {}
  PROVE  \E i \in Deciding(s, a, n) : /\ \A j \in Deciding(s, a, n) : j <= i
                                        /\ LatestIn(s, a, n) = s[i][a]
<1> DEFINE D == Deciding(s, a, n)
           i == CHOOSE i \in D : \A j \in D : j <= i
<1>1. D \in SUBSET (1..n)
  BY DEF Deciding
<1>2. i \in D /\ \A j \in D : j <= i
  BY <1>1, LastExists
<1>3. LatestIn(s, a, n) = s[i][a]
  BY DEF LatestIn
<1> QED BY <1>2, <1>3

LEMMA NeverDecided ==
  ASSUME NEW s, NEW a, NEW n, Deciding(s, a, n) = {}
  PROVE  LatestIn(s, a, n) = NoAbi
BY DEF LatestIn

\* It depends on the blocks up to n only.
LEMMA LatestOfPrefix ==
  ASSUME NEW s, NEW t, NEW a, NEW n \in Int, \A i \in 1..n : s[i] = t[i]
  PROVE  LatestIn(s, a, n) = LatestIn(t, a, n)
<1>1. Deciding(s, a, n) = Deciding(t, a, n)
  BY DEF Deciding
<1>2. CASE Deciding(s, a, n) = {}
  BY <1>1, <1>2, NeverDecided
<1>3. CASE Deciding(s, a, n) # {}
  <2>1. PICK i \in Deciding(s, a, n) : /\ \A j \in Deciding(s, a, n) : j <= i
                                         /\ LatestIn(s, a, n) = s[i][a]
    BY <1>3, LatestIsDecided
  <2>2. PICK k \in Deciding(t, a, n) : /\ \A j \in Deciding(t, a, n) : j <= k
                                         /\ LatestIn(t, a, n) = t[k][a]
    BY <1>1, <1>3, LatestIsDecided
  <2>3. i \in 1..n /\ k \in 1..n /\ i <= k /\ k <= i
    BY <1>1, <2>1, <2>2 DEF Deciding
  <2> QED BY <2>1, <2>2, <2>3
<1> QED BY <1>2, <1>3

\* A block that changes the ABI of a to anything usable, or removes it, decides;
\* any other leaves what was.
LEMMA LatestOfNext ==
  ASSUME NEW s, NEW a, NEW n \in Int, 1 <= n
  PROVE  LatestIn(s, a, n) = IF a \in DOMAIN s[n] /\ s[n][a] # BadAbi
                             THEN s[n][a] ELSE LatestIn(s, a, n - 1)
<1>1. CASE a \in DOMAIN s[n] /\ s[n][a] # BadAbi
  <2>1. n \in Deciding(s, a, n)
    BY <1>1 DEF Deciding
  <2>2. PICK i \in Deciding(s, a, n) : /\ \A j \in Deciding(s, a, n) : j <= i
                                         /\ LatestIn(s, a, n) = s[i][a]
    BY <2>1, LatestIsDecided
  <2>3. i \in 1..n /\ n <= i
    BY <2>1, <2>2 DEF Deciding
  <2>4. i = n
    BY <2>3
  <2> QED BY <1>1, <2>2, <2>4
<1>2. CASE ~(a \in DOMAIN s[n] /\ s[n][a] # BadAbi)
  <2>1. Deciding(s, a, n) = Deciding(s, a, n - 1)
    <3>1. ASSUME NEW i \in Deciding(s, a, n) PROVE i \in Deciding(s, a, n - 1)
      <4>1. i \in 1..n /\ a \in DOMAIN s[i] /\ s[i][a] # BadAbi
        BY DEF Deciding
      <4>2. i # n
        BY <1>2, <4>1
      <4>3. i \in 1 .. n - 1
        BY <4>1, <4>2
      <4> QED BY <4>1, <4>3 DEF Deciding
    <3>2. ASSUME NEW i \in Deciding(s, a, n - 1) PROVE i \in Deciding(s, a, n)
      BY DEF Deciding
    <3> QED BY <3>1, <3>2
  <2>2. LatestIn(s, a, n) = LatestIn(s, a, n - 1)
    BY <2>1 DEF LatestIn
  <2> QED BY <1>2, <2>2
<1> QED BY <1>1, <1>2

(* ---------------- databases d that describe a chain s ------------------- *)

AbisOK(m) == DOMAIN m \subseteq Accounts /\ \A a \in DOMAIN m : m[a] \in Abis

TableAs(t, s, r) ==
  \A a \in Accounts : LatestIn(s, a, r) = IF a \in DOMAIN t.abi THEN t.abi[a] ELSE NoAbi

\* What HistoryIsBranch says of the history in t at revision r, where the
\* removals up to block k may have been forgotten.
Recorded(t, s, k, a, n) ==
  /\ <<a, n>> \in DOMAIN t.history => a \in DOMAIN s[n] /\ t.history[<<a, n>>] = s[n][a]
  /\ a \in DOMAIN s[n] => \/ <<a, n>> \in DOMAIN t.history
                          \/ s[n][a] = NoAbi /\ (n <= k \/ LatestIn(s, a, n - 1) = NoAbi)
HistoryAs(t, s, k, r) == \A a \in Accounts, n \in 1..r : Recorded(t, s, k, a, n)

TablesAs(t, s, k, r) ==
  /\ t = [abi |-> t.abi, history |-> t.history]
  /\ TablesOK(t, r) /\ TableAs(t, s, r) /\ HistoryAs(t, s, k, r)

Content(d, s, k) ==
  /\ IsDatabase(d) /\ k \in 0..d.base
  /\ s \in Seq(Changes) /\ Len(s) = d.rev
  /\ \A r \in d.base .. d.rev : TablesAs(d.at[r], s, k, r)

\* What the tables say at revision r depends on the blocks up to r.
LEMMA TablesOfPrefix ==
  ASSUME NEW t, NEW s, NEW u, NEW k \in Int, NEW r \in Nat,
         TablesAs(t, s, k, r), \A i \in 1..r : s[i] = u[i]
  PROVE  TablesAs(t, u, k, r)
<1>1. TableAs(t, u, r)
  BY LatestOfPrefix DEF TablesAs, TableAs
<1>2. ASSUME NEW a \in Accounts, NEW n \in 1..r PROVE Recorded(t, u, k, a, n)
  <2>1. s[n] = u[n] OBVIOUS
  <2>2. \A i \in 1 .. n - 1 : s[i] = u[i] OBVIOUS
  <2>3. LatestIn(s, a, n - 1) = LatestIn(u, a, n - 1)
    BY <2>2, LatestOfPrefix
  <2>4. Recorded(t, s, k, a, n)
    BY DEF TablesAs, HistoryAs
  <2> QED BY <2>1, <2>3, <2>4 DEF Recorded
<1> QED BY <1>1, <1>2 DEF TablesAs, HistoryAs

\* Undoing blocks goes back to the tables of the shorter chain.
LEMMA ContentUndone ==
  ASSUME NEW d, NEW s, NEW k, Content(d, s, k), NEW r \in d.base .. d.rev
  PROVE  Content(UndoTo(d, r), SubSeq(s, 1, r), k) /\ UndoTo(d, r).rev = r
<1> DEFINE e == UndoTo(d, r)
           u == SubSeq(s, 1, r)
<1>1. IsDatabase(d) /\ d.base \in Nat /\ d.rev \in Nat /\ r \in Nat /\ r <= d.rev /\ d.base <= r
  BY DEF Content, IsDatabase
<1>2. /\ IsDatabase(e) /\ e.base = d.base /\ e.rev = r
      /\ \A i \in e.base .. e.rev : i \in d.base .. d.rev /\ e.at[i] = d.at[i]
  BY <1>1, UndoToFacts
<1> HIDE DEF e
<1>3. s \in Seq(Changes) /\ Len(s) = d.rev /\ k \in 0..d.base
  BY DEF Content
<1>4. u \in Seq(Changes) /\ Len(u) = r /\ \A i \in 1..r : u[i] = s[i]
  BY <1>1, <1>3
<1> HIDE DEF u
<1>5. ASSUME NEW i \in e.base .. e.rev PROVE TablesAs(e.at[i], u, k, i)
  <2>1. i \in Nat /\ i <= r /\ e.at[i] = d.at[i] /\ TablesAs(d.at[i], s, k, i)
    BY <1>1, <1>2 DEF Content
  <2> QED BY <1>1, <1>3, <1>4, <2>1, TablesOfPrefix
<1>6. Content(e, u, k)
  BY <1>2, <1>3, <1>4, <1>5 DEF Content
<1> QED BY <1>2, <1>6 DEF e, u

\* A commit forgets tables and changes none.
LEMMA ContentCommitted ==
  ASSUME NEW d, NEW s, NEW k, Content(d, s, k), NEW r \in Int
  PROVE  Content(Commit(d, r), s, k)
<1> DEFINE e == Commit(d, r)
<1>1. /\ IsDatabase(e) /\ e.rev = d.rev /\ d.base <= e.base
      /\ \A i \in e.base .. e.rev : i \in d.base .. d.rev /\ e.at[i] = d.at[i]
  BY CommitFacts DEF Content
<1> HIDE DEF e
<1>2. k \in 0 .. e.base
  BY <1>1 DEF Content, IsDatabase
<1> QED BY <1>1, <1>2 DEF Content, e

(* ------------------------- the tables of a block ------------------------ *)

\* contract_abi after the changes of a block: set, removed, or as before.
LEMMA AbiTableFacts ==
  ASSUME NEW abi, AbisOK(abi), NEW changes \in Changes
  PROVE  LET new == AbiTable(abi, changes)
         IN /\ AbisOK(new)
            /\ \A a \in Accounts :
                 (IF a \in DOMAIN new THEN new[a] ELSE NoAbi) =
                   IF a \in DOMAIN changes /\ changes[a] # BadAbi THEN changes[a]
                   ELSE IF a \in DOMAIN abi THEN abi[a] ELSE NoAbi
<1> DEFINE new == AbiTable(abi, changes)
<1>1. DOMAIN changes \subseteq Accounts /\ \A a \in DOMAIN changes : changes[a] \in Blobs
  BY ChangesAssumption
<1>2. /\ DOMAIN new = (DOMAIN abi \cup Usable(changes)) \ Cleared(changes)
      /\ \A a \in DOMAIN new : new[a] = IF a \in Usable(changes) THEN changes[a] ELSE abi[a]
  BY DEF AbiTable
<1> HIDE DEF new
<1>3. \A a : /\ a \in Usable(changes) <=> a \in DOMAIN changes /\ changes[a] \in Abis
             /\ a \in Cleared(changes) <=> a \in DOMAIN changes /\ changes[a] = NoAbi
  BY DEF Usable, Cleared
<1>4. AbisOK(new)
  BY <1>1, <1>2, <1>3 DEF AbisOK
<1>5. ASSUME NEW a \in Accounts
      PROVE  (IF a \in DOMAIN new THEN new[a] ELSE NoAbi) =
               IF a \in DOMAIN changes /\ changes[a] # BadAbi THEN changes[a]
               ELSE IF a \in DOMAIN abi THEN abi[a] ELSE NoAbi
  <2>1. CASE a \in DOMAIN changes /\ changes[a] \in Abis
    BY <1>2, <1>3, <2>1, BlobsAssumption
  <2>2. CASE a \in DOMAIN changes /\ changes[a] = NoAbi
    BY <1>2, <1>3, <2>2, BlobsAssumption
  <2>3. CASE a \in DOMAIN changes /\ changes[a] = BadAbi
    BY <1>2, <1>3, <2>3, BlobsAssumption
  <2>4. CASE a \notin DOMAIN changes
    BY <1>2, <1>3, <2>4
  <2> QED BY <1>1, <2>1, <2>2, <2>3, <2>4 DEF Blobs
<1> QED BY <1>4, <1>5 DEF new

\* contract_abi_history gains the rows of block n, and no other row changes.
LEMMA HistoryFacts ==
  ASSUME NEW history, NEW abi, NEW changes, NEW n,
         \A k \in DOMAIN history : k = <<k[1], k[2]>> /\ k[2] # n
  PROVE  LET new == History(history, abi, changes, n)
         IN /\ \A a, i : i # n =>
                 /\ <<a, i>> \in DOMAIN new <=> <<a, i>> \in DOMAIN history
                 /\ <<a, i>> \in DOMAIN history => new[<<a, i>>] = history[<<a, i>>]
            /\ \A a : <<a, n>> \in DOMAIN new <=>
                        a \in DOMAIN changes /\ (changes[a] # NoAbi \/ a \in DOMAIN abi)
            /\ \A a : <<a, n>> \in DOMAIN new => new[<<a, n>>] = changes[a]
            /\ \A k \in DOMAIN new : k \in DOMAIN history \/ k = <<k[1], n>>
<1> DEFINE new == History(history, abi, changes, n)
           added == {<<a, n>> : a \in {x \in DOMAIN changes : changes[x] # NoAbi
                                                               \/ x \in DOMAIN abi}}
<1>1. /\ DOMAIN new = DOMAIN history \cup added
      /\ \A k \in DOMAIN new : new[k] = IF k \in added THEN changes[k[1]] ELSE history[k]
  BY DEF History
<1> HIDE DEF new
<1>2. \A a, i : <<a, i>> \in added <=>
        i = n /\ a \in DOMAIN changes /\ (changes[a] # NoAbi \/ a \in DOMAIN abi)
  OBVIOUS
<1>3. \A k \in added : k = <<k[1], n>> OBVIOUS
<1> HIDE DEF added
<1>4. \A a : <<a, n>> \notin DOMAIN history OBVIOUS
<1> QED BY <1>1, <1>2, <1>3, <1>4 DEF new

\* The tables of block n describe the chain that ends with its changes.
LEMMA TablesOfNext ==
  ASSUME NEW t, NEW s, NEW u, NEW k \in Int, NEW n \in Nat, 1 <= n,
         TablesAs(t, s, k, n - 1), \A i \in 1 .. n - 1 : s[i] = u[i], u[n] \in Changes
  PROVE  TablesAs([abi     |-> AbiTable(t.abi, u[n]),
                   history |-> History(t.history, t.abi, u[n], n)], u, k, n)
<1> DEFINE new == [abi     |-> AbiTable(t.abi, u[n]),
                   history |-> History(t.history, t.abi, u[n], n)]
<1>1. TablesAs(t, u, k, n - 1)
  BY TablesOfPrefix
<1>2. /\ AbisOK(t.abi)
      /\ DOMAIN t.history \subseteq Accounts \X (1 .. n - 1)
      /\ \A x \in DOMAIN t.history : t.history[x] \in Blobs
  BY <1>1 DEF TablesAs, TablesOK, AbisOK
<1>3. \A x \in DOMAIN t.history : x = <<x[1], x[2]>> /\ x[2] # n
  BY <1>2
<1>4. DOMAIN u[n] \subseteq Accounts /\ \A a \in DOMAIN u[n] : u[n][a] \in Blobs
  BY ChangesAssumption
<1>5. /\ AbisOK(new.abi)
      /\ \A a \in Accounts :
           (IF a \in DOMAIN new.abi THEN new.abi[a] ELSE NoAbi) =
             IF a \in DOMAIN u[n] /\ u[n][a] # BadAbi THEN u[n][a]
             ELSE IF a \in DOMAIN t.abi THEN t.abi[a] ELSE NoAbi
  BY <1>2, AbiTableFacts
<1>6. /\ \A a, i : i # n =>
           /\ <<a, i>> \in DOMAIN new.history <=> <<a, i>> \in DOMAIN t.history
           /\ <<a, i>> \in DOMAIN t.history => new.history[<<a, i>>] = t.history[<<a, i>>]
      /\ \A a : <<a, n>> \in DOMAIN new.history <=>
                  a \in DOMAIN u[n] /\ (u[n][a] # NoAbi \/ a \in DOMAIN t.abi)
      /\ \A a : <<a, n>> \in DOMAIN new.history => new.history[<<a, n>>] = u[n][a]
      /\ \A x \in DOMAIN new.history : x \in DOMAIN t.history \/ x = <<x[1], n>>
  BY <1>3, HistoryFacts
<1>record. new = [abi |-> new.abi, history |-> new.history]
  OBVIOUS
<1> HIDE DEF new
<1>7. TablesOK(new, n)
  <2>1. ASSUME NEW x \in DOMAIN new.history
        PROVE  x \in Accounts \X (1..n) /\ new.history[x] \in Blobs
    <3>1. CASE x \in DOMAIN t.history
      <4>1. x = <<x[1], x[2]>> /\ x[2] # n /\ x[1] \in Accounts /\ x[2] \in 1 .. n - 1
        BY <1>2, <1>3, <3>1
      <4>2. new.history[x] = t.history[x]
        BY <1>6, <3>1, <4>1
      <4> QED BY <1>2, <3>1, <4>1, <4>2
    <3>2. CASE x = <<x[1], n>>
      <4>1. x[1] \in DOMAIN u[n] /\ new.history[x] = u[n][x[1]]
        BY <1>6, <3>2
      <4>2. x[1] \in Accounts /\ n \in 1..n
        BY <1>4, <4>1
      <4> QED BY <1>4, <3>2, <4>1, <4>2
    <3> QED BY <1>6, <3>1, <3>2
  <2> QED BY <1>5, <2>1 DEF TablesOK, AbisOK
<1>8. TableAs(new, u, n)
  <2>1. ASSUME NEW a \in Accounts
        PROVE  LatestIn(u, a, n) = IF a \in DOMAIN new.abi THEN new.abi[a] ELSE NoAbi
    <3>1. LatestIn(u, a, n) = IF a \in DOMAIN u[n] /\ u[n][a] # BadAbi
                              THEN u[n][a] ELSE LatestIn(u, a, n - 1)
      BY LatestOfNext
    <3>2. LatestIn(u, a, n - 1) = IF a \in DOMAIN t.abi THEN t.abi[a] ELSE NoAbi
      BY <1>1 DEF TablesAs, TableAs
    <3> QED BY <1>5, <3>1, <3>2
  <2> QED BY <2>1 DEF TableAs
<1>9. ASSUME NEW a \in Accounts, NEW i \in 1..n PROVE Recorded(new, u, k, a, i)
  <2>1. CASE i # n
    <3>1. Recorded(t, u, k, a, i)
      BY <1>1, <2>1 DEF TablesAs, HistoryAs
    <3> QED BY <1>6, <2>1, <3>1 DEF Recorded
  <2>2. CASE i = n
    <3>1. a \notin DOMAIN t.abi => LatestIn(u, a, n - 1) = NoAbi
      BY <1>1 DEF TablesAs, TableAs
    <3> QED BY <1>6, <2>2, <3>1 DEF Recorded
  <2> QED BY <2>1, <2>2
<1>10. TablesAs(new, u, k, n)
  BY <1>record, <1>7, <1>8, <1>9 DEF TablesAs, HistoryAs
<1> QED BY <1>10 DEF new

\* A pushed session adds the tables of the next block.
LEMMA ContentPushed ==
  ASSUME NEW d, NEW s, NEW k, Content(d, s, k), NEW changes \in Changes
  PROVE  LET t   == Current(d)
             new == [abi     |-> AbiTable(t.abi, changes),
                     history |-> History(t.history, t.abi, changes, d.rev + 1)]
         IN Content(PushSession(d, new), Append(s, changes), k)
<1> DEFINE t   == Current(d)
           new == [abi     |-> AbiTable(t.abi, changes),
                   history |-> History(t.history, t.abi, changes, d.rev + 1)]
           e   == PushSession(d, new)
           u   == Append(s, changes)
           n   == d.rev + 1
<1>1. IsDatabase(d) /\ d.base \in Nat /\ d.rev \in Nat /\ d.base <= d.rev /\ k \in 0..d.base
  BY DEF Content, IsDatabase
<1>2. s \in Seq(Changes) /\ Len(s) = d.rev
  BY DEF Content
<1>3. /\ u \in Seq(Changes) /\ Len(u) = n /\ u[n] = changes
      /\ \A i \in 1 .. n - 1 : s[i] = u[i]
  BY <1>2
<1> HIDE DEF u
<1>4. TablesAs(t, s, k, n - 1)
  <2>1. d.rev \in d.base .. d.rev /\ n - 1 = d.rev
    BY <1>1
  <2> QED BY <2>1 DEF Content, Current
<1> HIDE DEF t
<1>5. TablesAs(new, u, k, n)
  <2>1. n \in Nat /\ 1 <= n /\ k \in Int /\ u[n] \in Changes
    BY <1>1, <1>3
  <2> QED BY <1>3, <1>4, <2>1, TablesOfNext
<1> HIDE DEF new
<1>6. /\ IsDatabase(e) /\ e.base = d.base /\ e.rev = n
      /\ \A r \in d.base .. d.rev : e.at[r] = d.at[r]
      /\ e.at[n] = new
  BY <1>1, PushSessionFacts
<1> HIDE DEF e
<1>7. ASSUME NEW r \in e.base .. e.rev PROVE TablesAs(e.at[r], u, k, r)
  <2>1. CASE r = n
    BY <1>5, <1>6, <2>1
  <2>2. CASE r # n
    <3>1. r \in d.base .. d.rev /\ r \in Nat /\ k \in Int
      BY <1>1, <1>6, <2>2
    <3>2. TablesAs(d.at[r], s, k, r) /\ e.at[r] = d.at[r]
      BY <1>6, <3>1 DEF Content
    <3>3. \A i \in 1..r : s[i] = u[i]
      BY <1>1, <1>3, <3>1
    <3> QED BY <3>1, <3>2, <3>3, TablesOfPrefix
  <2> QED BY <2>1, <2>2
<1>8. Content(e, u, k)
  BY <1>1, <1>3, <1>6, <1>7 DEF Content
<1> QED BY <1>8 DEF e, u, new, t

\* A restored snapshot has the tables of its head, without the removals.
LEMMA ContentRestored ==
  ASSUME NEW d, NEW s, NEW k, Content(d, s, k)
  PROVE  Content(Opened(d.rev, Restored(Current(d))), s, d.rev)
<1> DEFINE t   == Current(d)
           new == Restored(t)
           e   == Opened(d.rev, new)
           n   == d.rev
<1>1. IsDatabase(d) /\ d.base \in Nat /\ n \in Nat /\ d.base <= n /\ k \in 0..d.base
  BY DEF Content, IsDatabase
<1>2. TablesAs(t, s, k, n)
  BY <1>1 DEF Content, Current
<1> HIDE DEF t
<1>3. /\ new.abi = t.abi
      /\ DOMAIN new.history = {x \in DOMAIN t.history : t.history[x] # NoAbi}
      /\ \A x \in DOMAIN new.history : new.history[x] = t.history[x]
      /\ new = [abi |-> new.abi, history |-> new.history]
  <2>1. t = [abi |-> t.abi, history |-> t.history]
    BY <1>2 DEF TablesAs
  <2>2. new = [abi     |-> t.abi,
               history |-> [x \in {y \in DOMAIN t.history : t.history[y] # NoAbi} |->
                              t.history[x]]]
    BY <2>1 DEF Restored
  <2> QED BY <2>2
<1> HIDE DEF new
<1>4. TablesOK(new, n)
  BY <1>2, <1>3 DEF TablesAs, TablesOK
<1>5. TableAs(new, s, n)
  BY <1>2, <1>3 DEF TablesAs, TableAs
<1>6. ASSUME NEW a \in Accounts, NEW i \in 1..n PROVE Recorded(new, s, n, a, i)
  <2>1. Recorded(t, s, k, a, i)
    BY <1>2 DEF TablesAs, HistoryAs
  <2>2. i <= n OBVIOUS
  <2> QED BY <1>3, <2>1, <2>2 DEF Recorded
<1>7. TablesAs(new, s, n, n)
  BY <1>3, <1>4, <1>5, <1>6 DEF TablesAs, HistoryAs
<1>8. IsDatabase(e) /\ e.base = n /\ e.rev = n /\ e.at[n] = new
  BY <1>1, OpenedFacts
<1> HIDE DEF e
<1>9. \A r \in e.base .. e.rev : r = n
  BY <1>1, <1>8
<1>10. n \in 0 .. e.base
  BY <1>1, <1>8
<1>11. Content(e, s, n)
  BY <1>7, <1>8, <1>9, <1>10 DEF Content
<1> QED BY <1>11 DEF e, new, t

LEMMA ContentOfNothing == Content(Opened(0, EmptyTables), <<>>, 0)
<1> DEFINE e == Opened(0, EmptyTables)
<1>1. IsDatabase(e) /\ e.base = 0 /\ e.rev = 0 /\ e.at[0] = EmptyTables
  BY OpenedFacts
<1> HIDE DEF e
<1>2. /\ EmptyTables.abi = <<>> /\ EmptyTables.history = <<>> /\ DOMAIN <<>> = {}
      /\ EmptyTables = [abi |-> EmptyTables.abi, history |-> EmptyTables.history]
  BY DEF EmptyTables
<1>3. TablesOK(EmptyTables, 0)
  BY <1>2 DEF TablesOK
<1>4. ASSUME NEW a \in Accounts PROVE LatestIn(<<>>, a, 0) = NoAbi
  <2>1. Deciding(<<>>, a, 0) = {}
    BY DEF Deciding
  <2> QED BY <2>1, NeverDecided
<1>5. TableAs(EmptyTables, <<>>, 0)
  BY <1>2, <1>4 DEF TableAs
<1>6. HistoryAs(EmptyTables, <<>>, 0, 0)
  BY DEF HistoryAs
<1>7. \A r \in e.base .. e.rev : r = 0
  BY <1>1
<1> QED BY <1>1, <1>2, <1>3, <1>5, <1>6, <1>7 DEF Content, TablesAs, e

(* ------------------------ context and pending rows ---------------------- *)

LEMMA ContextTyped ==
  ASSUME NEW ctxt, AbisOK(ctxt), NEW changes \in Changes, NEW early
  PROVE  AbisOK(Context(ctxt, changes, early))
<1> DEFINE new  == Context(ctxt, changes, early)
           lost == DOMAIN ctxt \cap DOMAIN changes # {}
           kept == IF lost THEN {} ELSE DOMAIN ctxt
           set  == IF lost THEN Usable(changes) \ early ELSE Usable(changes)
<1>1. new = [a \in kept \cup set |-> IF a \in set THEN changes[a] ELSE ctxt[a]]
  BY DEF Context
<1>2. \A a \in set : a \in Accounts /\ changes[a] \in Abis
  BY ChangesAssumption DEF Usable
<1>3. \A a \in kept : a \in Accounts /\ ctxt[a] \in Abis
  BY DEF AbisOK
<1> HIDE DEF kept, set
<1>4. DOMAIN new = kept \cup set
      /\ \A a \in DOMAIN new : new[a] = IF a \in set THEN changes[a] ELSE ctxt[a]
  BY <1>1
<1> HIDE DEF new
<1>5. AbisOK(new)
  BY <1>2, <1>3, <1>4 DEF AbisOK
<1> QED BY <1>5 DEF new

LEMMA LookupTyped ==
  ASSUME NEW ctxt, AbisOK(ctxt), NEW abi, AbisOK(abi), NEW accounts
  PROVE  AbisOK(get_contract_abi_ready(ctxt, abi, accounts))
BY DEF AbisOK, get_contract_abi_ready

LEMMA EmptyTyped == AbisOK(<<>>)
<1>1. DOMAIN <<>> = {} OBVIOUS
<1> QED BY <1>1 DEF AbisOK

\* What a block publishes names the block and an account.
Pendings == [kind : {"row", "action"}, block : Nat, account : Accounts]

LEMMA PublishedTyped ==
  ASSUME NEW n \in Nat, NEW codes \in SUBSET Accounts, NEW traces \in SUBSET Traces
  PROVE  /\ Rows(n, codes) \subseteq Pendings /\ \A e \in Rows(n, codes) : e.block = n
         /\ Actions(n, traces) \subseteq Pendings /\ \A e \in Actions(n, traces) : e.block = n
<1>1. ASSUME NEW e \in Rows(n, codes) PROVE e \in Pendings /\ e.block = n
  BY DEF Rows, Pendings
<1>2. ASSUME NEW e \in Actions(n, traces) PROVE e \in Pendings /\ e.block = n
  <2>1. PICK t \in traces :
          e \in [kind : {"action"}, block : {n}, account : {t[i].account : i \in DOMAIN t}]
    BY DEF Actions
  <2>2. \A i \in DOMAIN t : t[i].account \in Accounts
    BY TracesAssumption
  <2> QED BY <2>1, <2>2 DEF Pendings
<1> QED BY <1>1, <1>2

(* ---------------------------- the invariant ----------------------------- *)

\* The blocks received on the branch, with the one an exception dropped.
Received == applied \o dropped
DroppedOK == dropped = <<>> \/ (phase = "closed" /\ \E c \in Changes : dropped = <<c>>)

\* The rows of a dropped block need no lookup any more.
PublishedOK ==
  \A e \in pending :
    /\ e.block = Len(Received)
    /\ dropped # <<>> =>
         /\ e.account \in DOMAIN contract_abi_ctxt
         /\ contract_abi_ctxt[e.account] = LatestIn(Received, e.account, Len(Received))

ContentInv ==
  /\ ContextInv
  /\ config \in Configs /\ phase \in {"stopped", "running", "closed"}
  /\ Content(db, applied, restored) /\ db.base <= irreversible
  /\ AbisOK(contract_abi_ctxt)
  /\ pending \subseteq Pendings /\ DroppedOK /\ PublishedOK

LEMMA ContentInit == Init => ContentInv
BY ContextInit, ContentOfNothing, OpenedFacts, EmptyTyped
   DEF Init, ContentInv, DroppedOK, PublishedOK

\* Without a dropped block, what was received is what was applied.
LEMMA ReceivedApplied ==
  ASSUME NEW s \in Seq(Changes), NEW t, t = <<>>
  PROVE  s \o t = s
OBVIOUS

LEMMA LoadedTyped ==
  ASSUME NEW n, AbisOK(ContextAfterFork(n)), AbisOK(Current(Before(n)).abi),
         NEW changes \in Changes, NEW early, NEW codes
  PROVE  AbisOK(Loaded(n, changes, early, codes))
<1>1. AbisOK(AbiTable(Current(Before(n)).abi, changes))
  BY AbiTableFacts
<1>2. AbisOK(Context(ContextAfterFork(n), changes, early))
  BY ContextTyped
<1> QED BY <1>1, <1>2, LookupTyped DEF Loaded

\* Where a block starts: undone to the block before it.
LEMMA BlockBefore ==
  ASSUME ContentInv, NEW n \in 1..MaxBlock, Receives(n)
  PROVE  /\ Content(Before(n), SubSeq(applied, 1, n - 1), restored)
         /\ Before(n).rev = n - 1 /\ Before(n).base = db.base
         /\ AbisOK(ContextAfterFork(n))
<1>1. /\ IsDatabase(db) /\ db.base \in Nat /\ db.rev \in Nat /\ irreversible \in Nat
      /\ db.base <= db.rev /\ n \in Nat
  BY DEF ContentInv, ContextInv, IsDatabase
<1>2. n - 1 \in db.base .. db.rev
  BY <1>1 DEF Receives, ContentInv, head
<1>3. Before(n).base = db.base
  BY <1>1, UndoToFacts DEF Before
<1>4. AbisOK(ContextAfterFork(n))
  BY EmptyTyped DEF ContextAfterFork, ContentInv
<1> QED BY <1>2, <1>3, <1>4, ContentUndone DEF Before, ContentInv

\* The tables a block starts with describe the blocks before it.
LEMMA TablesBefore ==
  ASSUME ContentInv, NEW n \in 1..MaxBlock, Receives(n)
  PROVE  /\ TablesAs(Current(Before(n)), SubSeq(applied, 1, n - 1), restored, n - 1)
         /\ AbisOK(Current(Before(n)).abi)
         /\ n \in Nat /\ n - 1 \in Nat /\ restored \in Nat
         /\ SubSeq(applied, 1, n - 1) \in Seq(Changes)
         /\ Len(SubSeq(applied, 1, n - 1)) = n - 1
<1> DEFINE before == Before(n)
           s      == SubSeq(applied, 1, n - 1)
<1>1. Content(before, s, restored) /\ before.rev = n - 1 /\ n \in Nat
  BY BlockBefore
<1> HIDE DEF before, s
<1>2. before.rev \in before.base .. before.rev /\ before.rev \in Nat /\ before.base \in Nat
  BY <1>1 DEF Content, IsDatabase
<1>3. TablesAs(Current(before), s, restored, n - 1)
  BY <1>1, <1>2 DEF Content, Current
<1>4. AbisOK(Current(before).abi)
  BY <1>3 DEF TablesAs, TablesOK, AbisOK
<1>5. restored \in Nat /\ s \in Seq(Changes) /\ Len(s) = n - 1
  BY <1>1, <1>2 DEF Content
<1> QED BY <1>1, <1>2, <1>3, <1>4, <1>5 DEF before, s

\* The ABI that the context has for an account when the rows of block n are
\* published is the one the changes of the block leave it, though the tables of
\* the block may never be stored.
LEMMA LoadedIsLatest ==
  ASSUME ContentInv, NEW n \in 1..MaxBlock, Receives(n), NEW changes \in Changes,
         NEW early, NEW codes, NEW a \in Accounts, a \in DOMAIN Loaded(n, changes, early, codes)
  PROVE  Loaded(n, changes, early, codes)[a] =
           LatestIn(Append(SubSeq(applied, 1, n - 1), changes), a, n)
<1> DEFINE t == Current(Before(n))
           s == SubSeq(applied, 1, n - 1)
           u == Append(s, changes)
           ctxt == Loaded(n, changes, early, codes)
           abi == AbiTable(t.abi, changes)
<1>1. Agrees(ctxt, abi)
  BY LoadedAgrees DEF ContentInv
<1>2. /\ TablesAs(t, s, restored, n - 1) /\ AbisOK(t.abi)
      /\ n \in Nat /\ n - 1 \in Nat /\ restored \in Int
      /\ s \in Seq(Changes) /\ Len(s) = n - 1
  BY TablesBefore
<1> HIDE DEF ctxt, t, s
<1>3. u[n] = changes /\ \A i \in 1 .. n - 1 : s[i] = u[i]
  BY <1>2
<1> HIDE DEF u
<1>4. TableAs(t, u, n - 1)
  BY <1>2, <1>3, TablesOfPrefix DEF TablesAs
<1>5. LatestIn(u, a, n) = IF a \in DOMAIN changes /\ changes[a] # BadAbi
                          THEN changes[a] ELSE LatestIn(u, a, n - 1)
  BY <1>2, <1>3, LatestOfNext
<1>6. (IF a \in DOMAIN abi THEN abi[a] ELSE NoAbi) = LatestIn(u, a, n)
  <2>1. (IF a \in DOMAIN abi THEN abi[a] ELSE NoAbi) =
           IF a \in DOMAIN changes /\ changes[a] # BadAbi THEN changes[a]
           ELSE IF a \in DOMAIN t.abi THEN t.abi[a] ELSE NoAbi
    BY <1>2, AbiTableFacts
  <2> QED BY <1>4, <1>5, <2>1 DEF TableAs
<1>7. a \in DOMAIN abi /\ ctxt[a] = abi[a]
  BY <1>1 DEF Agrees, ctxt
<1> HIDE DEF abi
<1> QED BY <1>6, <1>7 DEF ctxt, u, s

LEMMA ReceiveContent ==
  ASSUME ContentInv, ContextInv', NEW n \in 1..MaxBlock, NEW changes \in Changes,
         NEW codes \in SUBSET Accounts, NEW traces \in TracesOf,
         ReceiveBlock(n, changes, codes, traces)
  PROVE  ContentInv'
<1> DEFINE before == Before(n)
           s      == SubSeq(applied, 1, n - 1)
           old    == Current(before)
           stored == [abi     |-> AbiTable(old.abi, changes),
                      history |-> History(old.history, old.abi, changes, n)]
<1>1. /\ Receives(n) /\ config' = config /\ irreversible' = irreversible
      /\ restored' = restored /\ dropped' = <<>>
  BY DEF ReceiveBlock, Receives, ContentInv, ContextInv
<1>2. applied' = Append(s, changes)
  BY DEF ReceiveBlock
<1>3. PICK early \in MayComeFirst(ContextAfterFork(n), changes),
           floor \in db.base .. irreversible :
        /\ db' = Commit(PushSession(before, stored), floor)
        /\ contract_abi_ctxt' = Loaded(n, changes, early, codes)
        /\ \E done \in SUBSET traces :
             /\ phase' = IF done = traces THEN "running" ELSE "closed"
             /\ pending' = pending \cup Published(n, codes, contract_abi_ctxt') \cup Actions(n, done)
  BY DEF ReceiveBlock
<1>4. /\ Content(before, s, restored) /\ before.rev = n - 1 /\ before.base = db.base
      /\ AbisOK(ContextAfterFork(n)) /\ AbisOK(old.abi) /\ IsDatabase(before)
  BY <1>1, BlockBefore, TablesBefore DEF Content
<1>5. AbisOK(contract_abi_ctxt')
  BY <1>3, <1>4, LoadedTyped
<1>6. n = before.rev + 1 /\ floor \in Int /\ n \in Nat /\ floor <= irreversible
  BY <1>3, <1>4 DEF ContentInv, ContextInv, IsDatabase
<1> HIDE DEF before, s, old
<1>7. Content(PushSession(before, stored), applied', restored)
  BY <1>2, <1>4, <1>6, ContentPushed DEF old
<1> HIDE DEF stored
<1>8. Content(db', applied', restored')
  BY <1>1, <1>3, <1>6, <1>7, ContentCommitted
<1>9. db'.rev = n /\ (db'.base <= floor \/ db'.base = db.base)
  <2>1. /\ IsDatabase(PushSession(before, stored))
        /\ PushSession(before, stored).base = db.base
        /\ PushSession(before, stored).rev = n
    BY <1>4, <1>6, PushSessionFacts
  <2> QED BY <1>3, <1>6, <2>1, CommitFacts
<1>10. db'.base <= irreversible'
  <2>1. db'.base \in Nat /\ irreversible \in Nat /\ db.base <= irreversible
    BY <1>8 DEF Content, IsDatabase, ContentInv, ContextInv
  <2> QED BY <1>1, <1>6, <1>9, <2>1
<1>11. pending' \subseteq Pendings /\ \A e \in pending' : e.block = n
  <2>1. PICK done \in SUBSET traces :
          pending' = pending \cup Published(n, codes, contract_abi_ctxt') \cup Actions(n, done)
    BY <1>3
  <2>2. done \in SUBSET Traces
    BY TracesAssumption
  <2>3. pending = {}
    BY <1>1 DEF Receives, HandlersIdle
  <2> QED BY <1>6, <2>1, <2>2, <2>3, PublishedTyped DEF Published
<1>12. Received' = applied' /\ Len(applied') = n
  BY <1>1, <1>8, <1>9, ReceivedApplied DEF Received, Content
<1>13. DroppedOK' /\ PublishedOK'
  BY <1>1, <1>11, <1>12 DEF DroppedOK, PublishedOK
<1>14. phase' \in {"stopped", "running", "closed"}
  BY <1>3
<1> QED BY <1>1, <1>5, <1>8, <1>10, <1>11, <1>13, <1>14 DEF ContentInv

\* A block dropped: its tables are undone, its rows are published.
LEMMA ThrowContent ==
  ASSUME ContentInv, ContextInv', NEW n \in 1..MaxBlock, NEW changes \in Changes,
         NEW codes \in SUBSET Accounts, DeltasThrow(n, changes, codes)
  PROVE  ContentInv'
<1> DEFINE s == SubSeq(applied, 1, n - 1)
           u == Append(s, changes)
<1>1. /\ Receives(n) /\ db' = Before(n) /\ phase' = "closed" /\ applied' = s
      /\ dropped' = <<changes>>
      /\ config' = config /\ irreversible' = irreversible /\ restored' = restored
  BY DEF DeltasThrow
<1>2. PICK early :
        /\ contract_abi_ctxt' = Loaded(n, changes, early, codes)
        /\ pending' = pending \cup Published(n, codes, contract_abi_ctxt')
  BY DEF DeltasThrow
<1>3. /\ Content(db', applied', restored') /\ db'.base = db.base
      /\ AbisOK(ContextAfterFork(n)) /\ AbisOK(Current(Before(n)).abi)
      /\ s \in Seq(Changes) /\ Len(s) = n - 1 /\ n \in Nat
  BY <1>1, BlockBefore, TablesBefore
<1>4. AbisOK(contract_abi_ctxt')
  BY <1>2, <1>3, LoadedTyped
<1>5. Received' = u /\ Len(u) = n
  <2> HIDE DEF s
  <2>1. s \o <<changes>> = Append(s, changes) /\ Len(Append(s, changes)) = n
    BY <1>3
  <2> QED BY <1>1, <2>1 DEF Received
<1>6. ASSUME NEW e \in pending'
      PROVE  /\ e \in Pendings /\ e.block = n /\ e.account \in DOMAIN contract_abi_ctxt'
             /\ contract_abi_ctxt'[e.account] = LatestIn(u, e.account, n)
  <2>1. e \in Rows(n, codes) /\ e.account \in DOMAIN contract_abi_ctxt'
    BY <1>1, <1>2 DEF Published, Receives, HandlersIdle
  <2>2. e \in Pendings /\ e.block = n
    BY <1>3, <2>1, PublishedTyped, {} \in SUBSET Traces
  <2>3. e.account \in Accounts
    BY <2>2 DEF Pendings
  <2>4. Loaded(n, changes, early, codes)[e.account] = LatestIn(u, e.account, n)
    BY <1>1, <1>2, <2>1, <2>3, LoadedIsLatest
  <2> QED BY <1>2, <2>1, <2>2, <2>4
<1> HIDE DEF u, s
<1>7. PublishedOK'
  BY <1>5, <1>6 DEF PublishedOK
<1>8. DroppedOK'
  BY <1>1 DEF DroppedOK
<1>9. pending' \subseteq Pendings
  BY <1>6
<1> QED BY <1>1, <1>3, <1>4, <1>7, <1>8, <1>9 DEF ContentInv

LEMMA UndoneContent ==
  ASSUME ContentInv, ContextInv', config' = config, irreversible' = irreversible,
         restored' = restored, pending' = {}, contract_abi_ctxt' = <<>>, dropped' = <<>>,
         phase' \in {"stopped", "running"},
         db' = UndoAll(db), applied' = SubSeq(applied, 1, db.base)
  PROVE  ContentInv'
<1>1. db.base \in db.base .. db.rev
  BY DEF ContentInv, ContextInv, IsDatabase
<1>2. Content(db', applied', restored')
  BY <1>1, ContentUndone DEF ContentInv, UndoAll
<1>3. db'.base = db.base
  BY UndoAllFacts DEF ContentInv, ContextInv
<1>4. DroppedOK' /\ PublishedOK'
  BY DEF DroppedOK, PublishedOK
<1> QED BY <1>2, <1>3, <1>4, EmptyTyped DEF ContentInv

LEMMA ContentStep == ContentInv /\ [Next]_vars => ContentInv'
<1> SUFFICES ASSUME ContentInv, [Next]_vars PROVE ContentInv' OBVIOUS
<1>0. ContextInv'
  BY ContextStep DEF ContentInv
<1>1. ASSUME NEW n \in 1..MaxBlock, NEW changes \in Changes,
             NEW codes \in SUBSET Accounts, NEW traces \in TracesOf,
             ReceiveBlock(n, changes, codes, traces)
      PROVE  ContentInv'
  BY <1>0, <1>1, ReceiveContent
<1>2. ASSUME NEW n \in 1..MaxBlock, NEW changes \in Changes, NEW codes \in SUBSET Accounts,
             DeltasThrow(n, changes, codes)
      PROVE  ContentInv'
  BY <1>0, <1>2, ThrowContent
<1>3. ASSUME NEW e \in pending, Decode(e) PROVE ContentInv'
  <2>1. /\ UNCHANGED <<config, phase, db, irreversible, applied, dropped, restored>>
        /\ pending' = pending \ {e}
        /\ contract_abi_ctxt' =
             get_contract_abi_ready(contract_abi_ctxt, Current(db).abi, {e.account})
    BY <1>3 DEF Decode, ghosts
  <2>2. AbisOK(Current(db).abi)
    <3>1. db.rev \in db.base .. db.rev
      BY DEF ContentInv, ContextInv, IsDatabase
    <3> QED BY <3>1 DEF ContentInv, Content, Current, TablesAs, TablesOK, AbisOK
  <2>3. AbisOK(contract_abi_ctxt')
    BY <2>1, <2>2, LookupTyped DEF ContentInv
  <2>4. \A a \in DOMAIN contract_abi_ctxt : /\ a \in DOMAIN contract_abi_ctxt'
                                            /\ contract_abi_ctxt'[a] = contract_abi_ctxt[a]
    BY <2>1 DEF get_contract_abi_ready
  <2>5. DroppedOK' /\ PublishedOK'
    <3>1. Received' = Received
      BY <2>1 DEF Received
    <3>2. \A f \in pending' : f \in pending
      BY <2>1
    <3>3. DroppedOK'
      BY <2>1 DEF ContentInv, DroppedOK
    <3>4. ASSUME NEW f \in pending'
          PROVE  /\ f.block = Len(Received)'
                 /\ dropped' # <<>> =>
                      /\ f.account \in DOMAIN contract_abi_ctxt'
                      /\ contract_abi_ctxt'[f.account] =
                           LatestIn(Received', f.account, Len(Received)')
      BY <2>1, <2>4, <3>1, <3>2 DEF ContentInv, PublishedOK
    <3> QED BY <3>3, <3>4 DEF PublishedOK
  <2> QED BY <1>0, <2>1, <2>3, <2>5 DEF ContentInv
<1>4. CASE NewIrreversible
  <2>1. /\ UNCHANGED <<config, phase, db, contract_abi_ctxt, pending, applied, dropped, restored>>
        /\ irreversible' = irreversible + 1
    BY <1>4 DEF NewIrreversible, ghosts
  <2>2. db.base <= irreversible'
    BY <2>1 DEF ContentInv, ContextInv, IsDatabase
  <2> QED BY <1>0, <2>1, <2>2 DEF ContentInv, DroppedOK, PublishedOK, Received
<1>5. CASE Stop
  <2>1. /\ UNCHANGED <<config, db, irreversible, applied, restored>>
        /\ phase' = "stopped" /\ contract_abi_ctxt' = <<>> /\ pending' = {} /\ dropped' = <<>>
    BY <1>5 DEF Stop
  <2>2. DroppedOK' /\ PublishedOK'
    BY <2>1 DEF DroppedOK, PublishedOK
  <2> QED BY <1>0, <2>1, <2>2, EmptyTyped DEF ContentInv
<1>6. CASE Start
  <2>1. contract_abi_ctxt = <<>> /\ pending = {} /\ phase' = "running" /\ dropped = <<>>
    BY <1>6 DEF Start, Reverts, ContentInv, ContextInv
  <2> QED BY <1>0, <1>6, <2>1, UndoneContent DEF Start, Reverts
<1>7. CASE SaveSnapshot
  <2>1. contract_abi_ctxt = <<>> /\ pending = {} /\ phase' = "stopped" /\ dropped = <<>>
    BY <1>7 DEF SaveSnapshot, Reverts, ContentInv, ContextInv
  <2> QED BY <1>0, <1>7, <2>1, UndoneContent DEF SaveSnapshot, Reverts
<1>8. CASE RestoreSnapshot
  <2>1. /\ UNCHANGED <<config, phase, irreversible, contract_abi_ctxt, pending, applied, dropped>>
        /\ phase = "stopped" /\ ~HasUndoSession(db) /\ restored' = db.rev
        /\ db' = Opened(db.rev, Restored(Current(db)))
    BY <1>8 DEF RestoreSnapshot, head
  <2>2. pending = {} /\ dropped = <<>>
    BY <2>1 DEF ContentInv, ContextInv
  <2>3. Content(db', applied', restored')
    BY <2>1, ContentRestored DEF ContentInv
  <2>4. db'.base = db.base
    BY <2>1, OpenedFacts DEF ContentInv, ContextInv, IsDatabase, HasUndoSession
  <2>5. DroppedOK' /\ PublishedOK'
    BY <2>1, <2>2 DEF DroppedOK, PublishedOK
  <2> QED BY <1>0, <2>1, <2>2, <2>3, <2>4, <2>5 DEF ContentInv
<1>9. CASE UNCHANGED vars
  BY <1>0, <1>9 DEF vars, ghosts, ContentInv, DroppedOK, PublishedOK, Received
<1> QED BY <1>1, <1>2, <1>3, <1>4, <1>5, <1>6, <1>7, <1>8, <1>9 DEF Next

(* ------------------------------ theorems -------------------------------- *)

\* The variables keep the types of the code's members and tables: contract_abi
\* and the context hold accepted ABIs only, the history no row of a later block.
THEOREM ContentTypeCorrect == Spec => []TypeOK
<1>1. ContentInv => TypeOK
  <2> SUFFICES ASSUME ContentInv PROVE TypeOK OBVIOUS
  <2>1. \A r \in db.base .. db.rev : TablesOK(db.at[r], r)
    BY DEF ContentInv, Content, TablesAs
  <2> QED BY <2>1 DEF ContentInv, ContextInv, Content, TypeOK, AbisOK, Pendings, DroppedOK
<1> QED BY <1>1, ContentInit, ContentStep, PTL DEF Spec

\* Whatever is rejected, removed, rolled back, restarted or restored, contract_abi
\* has the last usable ABI of every account, at every revision in the undo stack.
THEOREM TableAlwaysLatest == Spec => []TableIsLatestUsable
<1>1. ContentInv => TableIsLatestUsable
  BY DEF ContentInv, Content, TablesAs, TableAs, TableIsLatestUsable, LatestUsable
<1> QED BY <1>1, ContentInit, ContentStep, PTL DEF Spec

\* contract_abi_history is the record of the branch of the head: all of it, but
\* for removals before a restored snapshot, and nothing of an abandoned branch.
THEOREM HistoryAlwaysBranch == Spec => []HistoryIsBranch
<1>1. ContentInv => HistoryIsBranch
  <2> SUFFICES ASSUME ContentInv, NEW r \in db.base .. db.rev,
                      NEW a \in Accounts, NEW n \in 1..r
               PROVE  LET history == db.at[r].history
                      IN /\ <<a, n>> \in DOMAIN history =>
                              /\ a \in DOMAIN applied[n]
                              /\ history[<<a, n>>] = applied[n][a]
                         /\ a \in DOMAIN applied[n] =>
                              \/ <<a, n>> \in DOMAIN history
                              \/ /\ applied[n][a] = NoAbi
                                 /\ n <= restored \/ LatestUsable(a, n - 1) = NoAbi
    BY DEF HistoryIsBranch
  <2>1. Recorded(db.at[r], applied, restored, a, n)
    BY DEF ContentInv, Content, TablesAs, HistoryAs
  <2> QED BY <2>1 DEF Recorded, LatestUsable
<1> QED BY <1>1, ContentInit, ContentStep, PTL DEF Spec

\* A row or an action is decoded with the ABI its block ended with, though
\* receive_result returned before: the handlers' priorities keep the next block
\* from being read, and the context from being changed, until then.  When an
\* exception drops the block after its rows are published, contract_abi is back at
\* the block before; the rows still have the ABI of theirs, from the context.
THEOREM DecodedAlwaysAsOfBlock == Spec => []DecodedAsOfBlock
<1>1. ContentInv => DecodedAsOfBlock
  <2> SUFFICES ASSUME ContentInv, NEW e \in pending
               PROVE  /\ e.block = Len(Received)
                      /\ UsedAbi(e.account) = LatestIn(Received, e.account, e.block)
    BY DEF DecodedAsOfBlock, Received
  <2> DEFINE abi == Current(db).abi
             a   == e.account
  <2>1. /\ e.block = Len(Received) /\ a \in Accounts
        /\ dropped # <<>> => /\ a \in DOMAIN contract_abi_ctxt
                             /\ contract_abi_ctxt[a] = LatestIn(Received, a, Len(Received))
    BY DEF ContentInv, Pendings, PublishedOK
  <2>2. db.rev \in db.base .. db.rev
    BY DEF ContentInv, ContextInv, IsDatabase
  <2>3. LatestIn(applied, a, db.rev) = IF a \in DOMAIN abi THEN abi[a] ELSE NoAbi
    BY <2>1, <2>2 DEF ContentInv, Content, TablesAs, TableAs, Current
  <2>4. dropped = <<>> => Agrees(contract_abi_ctxt, abi)
    BY DEF ContentInv, ContextInv
  <2>5. dropped = <<>> => Received = applied /\ Len(applied) = db.rev
    BY ReceivedApplied DEF ContentInv, Content, Received
  <2> HIDE DEF abi, a
  <2>6. UsedAbi(a) = IF a \in DOMAIN contract_abi_ctxt THEN contract_abi_ctxt[a]
                     ELSE IF a \in DOMAIN abi THEN abi[a] ELSE NoAbi
    BY DEF UsedAbi, get_contract_abi_ready, abi
  <2>7. CASE dropped = <<>>
    <3>1. UsedAbi(a) = IF a \in DOMAIN abi THEN abi[a] ELSE NoAbi
      BY <2>4, <2>6, <2>7 DEF Agrees
    <3> QED BY <2>1, <2>3, <2>5, <2>7, <3>1 DEF a
  <2>8. CASE dropped # <<>>
    BY <2>1, <2>6, <2>8 DEF a
  <2> QED BY <2>7, <2>8
<1> QED BY <1>1, ContentInit, ContentStep, PTL DEF Spec

\* The loop over the actions of a trace ends at the first that decides.
LEMMA LoopEndsAtFirst ==
  ASSUME NEW t \in Traces, NEW c,
         \E i \in DOMAIN t : InBlacklist(c, t[i]) \/ Matches(c, t[i])
  PROVE  LoopEnds(c, t) # {}
<1> DEFINE D == {i \in DOMAIN t : InBlacklist(c, t[i]) \/ Matches(c, t[i])}
<1>1. Len(t) \in Nat /\ DOMAIN t = 1..Len(t)
  <2>1. t \in Seq({t[i] : i \in DOMAIN t})
    BY TracesAssumption
  <2> QED BY <2>1
<1>2. D \in SUBSET (1..Len(t)) /\ D # {} /\ Len(t) \in Int
  BY <1>1
<1> HIDE DEF D
<1>3. PICK i \in D : \A j \in D : i <= j
  BY <1>1, <1>2, FirstExists
<1>4. ASSUME NEW j \in 1 .. i - 1
      PROVE  ~InBlacklist(c, t[j]) /\ ~Matches(c, t[j])
  <2>1. j \in DOMAIN t /\ j \notin D
    BY <1>1, <1>2, <1>3
  <2> QED BY <2>1 DEF D
<1>5. i \in LoopEnds(c, t)
  BY <1>3, <1>4 DEF LoopEnds, D
<1> QED BY <1>5

\* The loop in receive_traces exports every trace that is wanted and has nothing
\* from the blacklist, and with filters on no other, though it stops early.
THEOREM FiltersAlwaysComplete == Spec => []FiltersAreComplete
<1>1. FiltersAreComplete
  <2> SUFFICES ASSUME NEW t \in Traces
               PROVE  /\ Wanted(t) /\ ~Blacklisted(t) => TakesTrace(config, t)
                      /\ TakesTrace(config, t) => Wanted(t)
    BY DEF FiltersAreComplete
  <2>1. LoopEnds(config, t) \subseteq DOMAIN t
    BY DEF LoopEnds
  <2>2. ASSUME Wanted(t), ~Blacklisted(t) PROVE TakesTrace(config, t)
    <3>1. CASE LoopEnds(config, t) = {}
      <4>1. ~ \E i \in DOMAIN t : Matches(config, t[i])
        BY <3>1, LoopEndsAtFirst
      <4> QED BY <2>2, <3>1, <4>1 DEF Wanted, TakesTrace
    <3>2. CASE LoopEnds(config, t) # {}
      BY <2>1, <2>2, <3>2 DEF Blacklisted, TakesTrace
    <3> QED BY <3>1, <3>2
  <2>3. ASSUME TakesTrace(config, t) PROVE Wanted(t)
    <3>1. CASE LoopEnds(config, t) = {}
      BY <2>3, <3>1 DEF TakesTrace, Wanted
    <3>2. CASE LoopEnds(config, t) # {}
      <4>1. PICK i \in LoopEnds(config, t) : ~InBlacklist(config, t[i])
        BY <2>3, <3>2 DEF TakesTrace
      <4>2. i \in DOMAIN t /\ Matches(config, t[i])
        BY <4>1 DEF LoopEnds
      <4> QED BY <4>2 DEF Wanted
    <3> QED BY <3>1, <3>2
  <2> QED BY <2>2, <2>3
<1> QED BY <1>1, PTL DEF Spec
=============================================================================
