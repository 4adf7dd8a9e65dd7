---------------------------- MODULE BlockContent ----------------------------
(***************************************************************************)
(* What a scanning receiver does with the content of a block: it keeps the *)
(* ABI of every contract and the history of all ABIs in the database       *)
(* (receive_deltas), filters table rows and traces, and the decoder turns  *)
(* them into JSON with the ABI context (get_contract_abi_ready).           *)
(*                                                                         *)
(* How blocks arrive is ScanReceiver's matter; here a block either extends *)
(* the head or replaces reversible blocks, and the revision number of the  *)
(* database is the number of the head block.  A commit reaches any revision*)
(* up to the irreversible block.                                           *)
(*                                                                         *)
(* state_history lists an account at most once in the deltas of a block,   *)
(* and the account rows first.                                             *)
(***************************************************************************)
EXTENDS Chainbase, BlockFilters

CONSTANTS
  Accounts,   \* account names, numbers in their order
  Abis,       \* ABIs that abieos accepts
  BadAbi,     \* an ABI that abieos rejects
  NoAbi,      \* the empty ABI: setabi with nothing removes the ABI
  MaxBlock,   \* bound: highest block number
  Changes,    \* possible setabi changes of a block, account -> blob
  Traces,     \* possible transaction traces
  Configs,    \* configurations to consider
  TracesOf    \* possible sets of traces of one block

Blobs == Abis \cup {BadAbi, NoAbi}

ASSUME AccountsAssumption == Accounts \subseteq Nat /\ MaxBlock \in Nat
ASSUME BlobsAssumption == BadAbi # NoAbi /\ BadAbi \notin Abis /\ NoAbi \notin Abis
ASSUME ChangesAssumption ==
  \A c \in Changes : DOMAIN c \subseteq Accounts /\ \A a \in DOMAIN c : c[a] \in Blobs
ASSUME TracesAssumption ==
  /\ TracesOf \subseteq SUBSET Traces
  /\ \A t \in Traces : /\ t \in Seq({t[i] : i \in DOMAIN t})
                       /\ \A i \in DOMAIN t : t[i].account \in Accounts

VARIABLES
  config,             \* the options of the process
  phase,              \* "stopped", "running" or "closed" (after an exception)
  db,                 \* chainbase
  irreversible,       \* last irreversible block reported by the node
  contract_abi_ctxt,  \* ABIs the context holds, by account (contract_abi_imported)
  pending,            \* rows and actions published, not decoded yet
  applied,            \* specification only: the changes of blocks 1..head
  dropped,            \* specification only: those of the block an exception dropped
  restored            \* specification only: head of the last snapshot restored

ghosts == <<applied, dropped, restored>>
vars == <<config, phase, db, irreversible, contract_abi_ctxt, pending, ghosts>>

head == db.rev

\* Database tables: ABI by account, and all blobs by account and block.
EmptyTables == [abi |-> <<>>, history |-> <<>>]

(* ------------------------ ABI tables and context ----------------------- *)

Usable(changes) == {a \in DOMAIN changes : changes[a] \in Abis}
Cleared(changes) == {a \in DOMAIN changes : changes[a] = NoAbi}

\* contract_abi: an unusable ABI leaves the previous row alone.
\* Mutant: an unusable ABI is stored like any other.
AbiTableUnchecked(abi, changes) ==
  [a \in (DOMAIN abi \cup DOMAIN changes) \ Cleared(changes) |->
     IF a \in DOMAIN changes THEN changes[a] ELSE abi[a]]
AbiTable(abi, changes) ==
  [a \in (DOMAIN abi \cup Usable(changes)) \ Cleared(changes) |->
     IF a \in Usable(changes) THEN changes[a] ELSE abi[a]]

\* contract_abi_history: every blob, and the removal of a row that existed.
\* Mutant: the removal of an ABI leaves no trace in the history.
HistoryWithoutRemovals(history, abi, changes, n) ==
  LET new == {<<a, n>> : a \in DOMAIN changes \ Cleared(changes)}
  IN [k \in DOMAIN history \cup new |-> IF k \in new THEN changes[k[1]] ELSE history[k]]
History(history, abi, changes, n) ==
  LET new == {<<a, n>> : a \in {x \in DOMAIN changes : changes[x] # NoAbi \/ x \in DOMAIN abi}}
  IN [k \in DOMAIN history \cup new |-> IF k \in new THEN changes[k[1]] ELSE history[k]]

\* Removing or replacing an account the context holds destroys the whole
\* context; the accounts in early came before that one in the deltas.
\* Mutant: the context is kept.
ContextKept(ctxt, changes, early) ==
  [a \in DOMAIN ctxt \cup Usable(changes) |->
     IF a \in DOMAIN ctxt THEN ctxt[a] ELSE changes[a]]
Context(ctxt, changes, early) ==
  LET lost == DOMAIN ctxt \cap DOMAIN changes # {}
      kept == IF lost THEN {} ELSE DOMAIN ctxt
      set  == IF lost THEN Usable(changes) \ early ELSE Usable(changes)
  IN [a \in kept \cup set |-> IF a \in set THEN changes[a] ELSE ctxt[a]]
MayComeFirst(ctxt, changes) == SUBSET (DOMAIN changes \ DOMAIN ctxt)

\* get_contract_abi_ready: the accounts are looked up in contract_abi.
get_contract_abi_ready(ctxt, abi, accounts) ==
  [a \in DOMAIN ctxt \cup (accounts \cap DOMAIN abi) |->
     IF a \in DOMAIN ctxt THEN ctxt[a] ELSE abi[a]]

(* ----------------------------- a new block ----------------------------- *)

\* Mutant: the rolled back database keeps the context of the abandoned branch.
ContextAfterForkKept(n) == contract_abi_ctxt
ContextAfterFork(n) == IF n <= head THEN <<>> ELSE contract_abi_ctxt
Before(n) == UndoTo(db, n - 1)

Rows(n, codes) ==
  [kind : {"row"}, block : {n}, account : {a \in codes : TakesRow(config, a)}]
Actions(n, traces) ==
  UNION {[kind : {"action"}, block : {n}, account : {t[i].account : i \in DOMAIN t}] :
           t \in {x \in traces : TakesTrace(config, x)}}

\* The stream has a lower priority than the decoder: the next result is read
\* when everything published before is decoded.
\* Mutant: both have the same priority.
HandlersIdleNever == TRUE
HandlersIdle == pending = {}

\* The rows of the contracts codes are published when their ABI is found, in the
\* context or in the table as the block's account rows leave it.
Loaded(n, changes, early, codes) ==
  get_contract_abi_ready(Context(ContextAfterFork(n), changes, early),
                         AbiTable(Current(Before(n)).abi, changes),
                         {e.account : e \in Rows(n, codes)})
Published(n, codes, ctxt) == {e \in Rows(n, codes) : e.account \in DOMAIN ctxt}

Receives(n) ==
  /\ phase = "running" /\ HandlersIdle
  /\ n \in 1..MaxBlock
  /\ n = head + 1 \/ (irreversible < n /\ n <= head)

\* receive_result: the tables of block n, its rows and traces.  An exception
\* in receive_traces, when some are done, comes after the revision was pushed.
ReceiveBlock(n, changes, codes, traces) ==
  /\ Receives(n)
  /\ \E early \in MayComeFirst(ContextAfterFork(n), changes), floor \in db.base .. irreversible :
      LET old  == Current(Before(n))
          new  == [abi     |-> AbiTable(old.abi, changes),
                   history |-> History(old.history, old.abi, changes, n)]
          ctxt == Loaded(n, changes, early, codes)
      IN /\ db' = Commit(PushSession(Before(n), new), floor)
         /\ contract_abi_ctxt' = ctxt
         /\ \E done \in SUBSET traces :
              /\ phase' = IF done = traces THEN "running" ELSE "closed"
              /\ pending' = pending \cup Published(n, codes, ctxt) \cup Actions(n, done)
  /\ applied' = Append(SubSeq(applied, 1, n - 1), changes)
  /\ UNCHANGED <<config, irreversible, dropped, restored>>

\* An exception before the revision is pushed, in receive_block or receive_deltas,
\* after some of the account rows (changes) and then some contract rows (codes):
\* the undo session is dropped; the context, and the rows published, stay.
DeltasThrow(n, changes, codes) ==
  /\ Receives(n)
  /\ \E early \in MayComeFirst(ContextAfterFork(n), changes) :
       LET ctxt == Loaded(n, changes, early, codes)
       IN contract_abi_ctxt' = ctxt /\ pending' = pending \cup Published(n, codes, ctxt)
  /\ phase' = "closed"
  /\ db' = Before(n)
  /\ applied' = SubSeq(applied, 1, n - 1)
  /\ dropped' = <<changes>>
  /\ UNCHANGED <<config, irreversible, restored>>

\* The decoder looks the account up again, and decodes or reports an error.
Decode(e) ==
  /\ e \in pending
  /\ contract_abi_ctxt' =
       get_contract_abi_ready(contract_abi_ctxt, Current(db).abi, {e.account})
  /\ pending' = pending \ {e}
  /\ UNCHANGED <<config, phase, db, irreversible, ghosts>>

NewIrreversible ==
  /\ irreversible < MaxBlock
  /\ irreversible' = irreversible + 1
  /\ irreversible < head
  /\ UNCHANGED <<config, phase, db, contract_abi_ctxt, pending, ghosts>>

Stop ==
  /\ phase # "stopped"
  /\ phase' = "stopped" /\ contract_abi_ctxt' = <<>> /\ pending' = {} /\ dropped' = <<>>
  /\ UNCHANGED <<config, db, irreversible, applied, restored>>

\* revert_uncommitted_revisions.
Reverts ==
  /\ phase = "stopped"
  /\ db' = UndoAll(db)
  /\ applied' = SubSeq(applied, 1, db.base)
  /\ UNCHANGED <<config, irreversible, contract_abi_ctxt, pending, dropped, restored>>

\* load_state and init_contract_abi_ctxt.
Start == Reverts /\ phase' = "running"

(* -------------------------- portable snapshots ------------------------- *)

\* What write_snapshot writes and read_snapshot creates again: empty blobs are
\* left out, so that the history forgets the removals.
\* Mutant: an account keeps only its last row of the history.
RestoredLastOnly(t) ==
  LET kept == {k \in DOMAIN t.history :
                 \A l \in DOMAIN t.history : l[1] = k[1] => l[2] <= k[2]}
  IN [t EXCEPT !.history = [k \in kept |-> t.history[k]]]
Restored(t) ==
  LET kept == {k \in DOMAIN t.history : t.history[k] # NoAbi}
  IN [t EXCEPT !.history = [k \in kept |-> t.history[k]]]

\* --save-snapshot reverts first, also when it then finds no state to save.
SaveSnapshot == Reverts /\ UNCHANGED phase

\* --restore-snapshot of what was saved, into a new database without sessions.
\* The next block sets the revision to the head.
RestoreSnapshot ==
  /\ phase = "stopped" /\ head > 0 /\ ~HasUndoSession(db)
  /\ db' = Opened(head, Restored(Current(db)))
  /\ restored' = head
  /\ UNCHANGED <<config, phase, irreversible, contract_abi_ctxt, pending, applied, dropped>>

Init ==
  /\ config \in Configs
  /\ phase = "stopped" /\ db = Opened(0, EmptyTables) /\ irreversible = 1
  /\ contract_abi_ctxt = <<>> /\ pending = {}
  /\ applied = <<>> /\ dropped = <<>> /\ restored = 0

Next ==
  \/ \E n \in 1..MaxBlock, changes \in Changes :
       \E codes \in SUBSET Accounts :
         \/ \E traces \in TracesOf : ReceiveBlock(n, changes, codes, traces)
         \/ DeltasThrow(n, changes, codes)
  \/ \E e \in pending : Decode(e)
  \/ NewIrreversible \/ Stop \/ Start \/ SaveSnapshot \/ RestoreSnapshot

Spec == Init /\ [][Next]_vars

(* ---------------------------- properties ------------------------------- *)

\* The blocks of a branch whose changes decide what ABI account a has at block n.
Deciding(branch, a, n) == {i \in 1..n : a \in DOMAIN branch[i] /\ branch[i][a] # BadAbi}
LatestIn(branch, a, n) ==
  IF Deciding(branch, a, n) = {} THEN NoAbi
  ELSE LET D == Deciding(branch, a, n)
           i == CHOOSE i \in D : \A j \in D : j <= i
       IN branch[i][a]
LatestUsable(a, n) == LatestIn(applied, a, n)

\* The ABI a row or action of the account is decoded with.
UsedAbi(a) ==
  LET ctxt == get_contract_abi_ready(contract_abi_ctxt, Current(db).abi, {a})
  IN IF a \in DOMAIN ctxt THEN ctxt[a] ELSE NoAbi

TablesOK(t, n) ==
  /\ DOMAIN t.abi \subseteq Accounts /\ \A a \in DOMAIN t.abi : t.abi[a] \in Abis
  /\ DOMAIN t.history \subseteq Accounts \X (1..n)
  /\ \A k \in DOMAIN t.history : t.history[k] \in Blobs

\* The variables have the types of the code's members and tables.
TypeOK ==
  /\ config \in Configs /\ phase \in {"stopped", "running", "closed"}
  /\ IsDatabase(db) /\ \A r \in db.base .. db.rev : TablesOK(db.at[r], r)
  /\ irreversible \in Nat
  /\ DOMAIN contract_abi_ctxt \subseteq Accounts
  /\ \A a \in DOMAIN contract_abi_ctxt : contract_abi_ctxt[a] \in Abis
  /\ pending \subseteq [kind : {"row", "action"}, block : Nat, account : Accounts]
  /\ applied \in Seq(Changes) /\ Len(applied) = db.rev /\ restored \in 0..db.base
  /\ dropped = <<>> \/ (phase = "closed" /\ \E c \in Changes : dropped = <<c>>)

\* Through forks, rejected ABIs and restarts, contract_abi holds for every
\* account the last usable ABI set on the branch of the head, at every revision
\* the database can go back to.
TableIsLatestUsable ==
  \A r \in db.base .. db.rev : \A a \in Accounts :
    LatestUsable(a, r) = IF a \in DOMAIN db.at[r].abi THEN db.at[r].abi[a] ELSE NoAbi

\* contract_abi_history has the blob of every setabi on the branch, and nothing
\* from an abandoned one: a lookup at any block gives what was set last.  Only a
\* restored snapshot has lost the removals.
HistoryIsBranch ==
  \A r \in db.base .. db.rev : \A a \in Accounts, n \in 1..r :
    LET history == db.at[r].history
    IN /\ <<a, n>> \in DOMAIN history => /\ a \in DOMAIN applied[n]
                                         /\ history[<<a, n>>] = applied[n][a]
       /\ a \in DOMAIN applied[n] =>
            \/ <<a, n>> \in DOMAIN history
            \/ applied[n][a] = NoAbi /\ (n <= restored \/ LatestUsable(a, n - 1) = NoAbi)

\* The context holds no ABI but the one in the table, also when an exception in
\* receive_traces left the block half exported.  Only the exception that drops a
\* block reverts the table under the context.
ContextAgrees ==
  dropped = <<>> =>
    \A a \in DOMAIN contract_abi_ctxt :
      /\ a \in DOMAIN Current(db).abi
      /\ contract_abi_ctxt[a] = Current(db).abi[a]

\* Everything published is decoded with the ABI that the account rows of its own
\* block left, although receive_result has returned, and also when an exception
\* made it return: before the revision was pushed, when contract_abi is back at
\* the block before, or after, in receive_traces.
DecodedAsOfBlock ==
  LET received == applied \o dropped
  IN \A e \in pending : /\ e.block = Len(received)
                         /\ UsedAbi(e.account) = LatestIn(received, e.account, e.block)

Blacklisted(trace) == \E i \in DOMAIN trace : InBlacklist(config, trace[i])
Wanted(trace) == do_trace_filter(config) => \E i \in DOMAIN trace : Matches(config, trace[i])

\* A trace is exported when some action matches a filter and none is blacklisted,
\* and never when filters are on and no action matches.
FiltersAreComplete ==
  \A t \in Traces :
    /\ Wanted(t) /\ ~Blacklisted(t) => TakesTrace(config, t)
    /\ TakesTrace(config, t) => Wanted(t)

\* The blacklist has absolute precedence: a transaction that matches it is dropped.
BlacklistIsAbsolute == \A t \in Traces : Blacklisted(t) => ~TakesTrace(config, t)
=============================================================================
