---------------------------- MODULE ScanReceiver ----------------------------
(***************************************************************************)
(* chronicle-receiver in scanning mode (receiver_plugin.cpp): one process  *)
(* that follows a state-history node, rolls its chainbase database back on *)
(* a fork, and hands every block to a consumer that acknowledges blocks.   *)
(*                                                                         *)
(* The process is single-threaded: every asio handler is one action, with  *)
(* all the calls it makes.  The node, the queue of events between receiver *)
(* and consumer, and the consumer are the environment.                     *)
(*                                                                         *)
(* A block id stands for a hash chain: the id of block n is the sequence   *)
(* of fork epochs of blocks 1..n, so Len(id) is the block number and the   *)
(* id of the previous block is Front(id).                                  *)
(***************************************************************************)
EXTENDS Chainbase, Sequences, SequencesExt

CONSTANTS
  MaxBlock,          \* bound: highest block the node produces
  MaxForks,          \* bound: number of times the node switches forks
  StartBlock,        \* option start-block (0 = from genesis)
  EndBlock,          \* option end-block
  InitLib,           \* blocks that are irreversible before the receiver runs
  WillAck,           \* the exporter acknowledges (exp_ws_plugin: TRUE)
  MaxUnconfirmed,    \* option exp-ws-max-unack
  MaxQueue,          \* option receiver queue size, in events
  QueueHwm,          \* option exp-ws-max-queue
  UModulus,          \* 2^32, scaled down
  IrreversibleOnly,  \* option irreversible-only
  MayStop,           \* the process may be stopped at any handler boundary
  MayFailOver,       \* a restart may reach a node that is behind
  MayReject,         \* receive_result may throw while it handles a block
  NodeKeepsUp,       \* environment: a replaced block is sent before it is final
  ConsumerKeepsUp,   \* environment: a FORK is processed before its block is final
  RestartForkSurvives, \* environment: once load_state has reverted revisions, the
                     \* process lives until its FORK event is delivered
  BaseForkIsSound    \* environment: no exception hits a block that replaces the
                     \* one right above the undo stack, before it is stored

ASSUME NumbersAssumption ==
  /\ MaxBlock \in Nat /\ MaxForks \in Nat /\ EndBlock \in Nat
  /\ StartBlock \in Nat /\ StartBlock <= MaxBlock
  /\ InitLib \in Nat /\ InitLib <= MaxBlock
  /\ MaxUnconfirmed \in Nat \ {0} /\ MaxQueue \in Nat /\ QueueHwm \in Nat \ {0}
  /\ UModulus \in Nat \ {0}
ASSUME SwitchesAssumption ==
  /\ {WillAck, IrreversibleOnly, MayStop, MayFailOver, MayReject} \subseteq BOOLEAN
  /\ {NodeKeepsUp, ConsumerKeepsUp, RestartForkSurvives, BaseForkIsSound} \subseteq BOOLEAN

VARIABLES
  chain,                \* node: fork epoch of every block it has
  lib,                  \* node: the last irreversible block it reports
  finalized,            \* network: the highest block ever final
  epoch,                \* network: forks so far
  toSend,               \* node: next block of the current request
  phase,                \* what the process waits for, see Phases
  db,                   \* chainbase, survives the process
  head, head_id, irreversible,
  forked_at_block, exporter_acked_block,
  slowdown_requested, start_block_num,
  events,               \* undelivered FORK and BLOCK_COMPLETED events
  view                  \* consumer: id of the last block it holds

node     == <<chain, lib, finalized, epoch>>
position == <<head, head_id, irreversible>>
flow     == <<forked_at_block, exporter_acked_block>>
memory   == <<position, flow, slowdown_requested, start_block_num>>
consumer == <<events, view>>
vars     == <<node, toSend, phase, db, memory, consumer>>

Min2(a, b) == IF a <= b THEN a ELSE b

(* ------------------------------ data ----------------------------------- *)

Phases == {"stopped",     \* no process
           "connecting",  \* start() ran, start_read's handler has not
           "reading",     \* async_read outstanding
           "paused",      \* pause_timer outstanding
           "closed",      \* an exception closed the stream, no read follows
           "spinning"}    \* inside the rollback loop, for ever
Alive == phase # "stopped"
Connected == phase \in {"reading", "paused"}

Ids == {id \in Seq(0..MaxForks) : Len(id) <= MaxBlock}
BlockId(n) == SubSeq(chain, 1, n)

\* The chainbase tables of the scanning receiver.  head = 0: no state_object.
EmptyTables == [head |-> 0, head_id |-> <<>>, irreversible |-> 0, blocks |-> <<>>]
HasState(t) == t.head > 0

ForkEvent(n, why) == [type |-> "FORK", num |-> n, reason |-> why]
BlockEvent(id) == [type |-> "BLOCK_COMPLETED", num |-> Len(id), id |-> id]

(* ------------------------------ node ----------------------------------- *)

NodeProduce ==
  /\ Len(chain) < MaxBlock
  /\ chain' = Append(chain, epoch)
  /\ toSend' = Min2(toSend, Len(chain) + 1)
  /\ UNCHANGED <<lib, finalized, epoch, phase, db, memory, consumer>>

\* The node replaces every block from k on; its request restarts at k.
NodeFork(k) ==
  /\ epoch < MaxForks
  /\ k \in finalized + 1 .. Len(chain)
  /\ chain' = Append(SubSeq(chain, 1, k - 1), epoch + 1)
  /\ epoch' = epoch + 1
  /\ toSend' = Min2(toSend, k)
  /\ UNCHANGED <<lib, finalized, phase, db, memory, consumer>>

\* Block n is replaced but not re-sent yet.
AwaitsResend(n) == Connected /\ toSend <= head /\ n >= toSend
ForkUndelivered(n) ==
  \E i \in DOMAIN events :
    /\ events[i].type = "FORK" /\ events[i].reason = "network"
    /\ n >= events[i].num

NodeLib ==
  /\ lib < Len(chain)
  /\ NodeKeepsUp => ~AwaitsResend(lib + 1)
  /\ ConsumerKeepsUp => ~ForkUndelivered(lib + 1)
  /\ lib' = lib + 1
  /\ finalized' = IF lib + 1 > finalized THEN lib + 1 ELSE finalized
  /\ UNCHANGED <<chain, epoch, toSend, phase, db, memory, consumer>>

\* While the receiver is down its host name moves to a node with an older LIB.
NodeFailOver ==
  /\ MayFailOver /\ phase \in {"stopped", "connecting"} /\ lib > InitLib
  /\ lib' = lib - 1
  /\ UNCHANGED <<chain, finalized, epoch, toSend, phase, db, memory, consumer>>

(* --------------------- pausing and reading on -------------------------- *)

Unconfirmed(h, acked) == (h - acked) % UModulus

\* Mutant: one block too many.
MustPauseLate(h, acked, forked, slow, pending) ==
  \/ slow
  \/ WillAck /\ (forked > 0 \/ Unconfirmed(h, acked) > MaxUnconfirmed)
  \/ pending > MaxQueue
  \/ h = EndBlock - 1
MustPause(h, acked, forked, slow, pending) ==
  \/ slow
  \/ WillAck /\ (forked > 0 \/ Unconfirmed(h, acked) >= MaxUnconfirmed)
  \/ pending > MaxQueue
  \/ h = EndBlock - 1

ReachedEnd(h, irr, acked) ==
  /\ h = EndBlock - 1
  /\ irr >= h
  /\ WillAck => acked = h

\* Mutants: commit what is irreversible; what is acknowledged; one block too many.
CommitRevIrreversible(irr, acked) == irr
CommitRevAcked(irr, acked) == IF WillAck THEN acked ELSE irr
CommitRevOneMore(irr, acked) == irr + 1
CommitRev(irr, acked) == IF WillAck /\ acked < irr THEN acked ELSE irr
commit_db(d, irr, acked) == Commit(d, CommitRev(irr, acked))

ForgetMemory ==
  /\ head' = 0 /\ head_id' = <<>> /\ irreversible' = 0
  /\ forked_at_block' = 0 /\ exporter_acked_block' = 0
  /\ slowdown_requested' = FALSE /\ start_block_num' = 0

\* continue_read and check_pause once the handler has left the database as d
\* and the receiver at head h: stop at the end block, pause, or read on.
continue_read(d, h, hid, irr, acked, forked) ==
  IF ReachedEnd(h, irr, acked)
  THEN /\ phase' = "stopped"
       /\ db' = commit_db(d, irr, acked)
       /\ ForgetMemory
  ELSE /\ phase' = IF MustPause(h, acked, forked, slowdown_requested, Len(events'))
                   THEN "paused" ELSE "reading"
       /\ db' = d
       /\ head' = h /\ head_id' = hid /\ irreversible' = irr
       /\ forked_at_block' = forked /\ exporter_acked_block' = acked
       /\ UNCHANGED <<slowdown_requested, start_block_num>>

(* ----------------------------- start-up -------------------------------- *)

\* Mutant: the test of start_block_num is dropped.
InitialHeadUnchecked(option) == option - 1
InitialHead(option) == IF option > 0 THEN option - 1 ELSE 0

RestartNotice(did_undo, h) ==
  IF did_undo THEN <<ForkEvent(h + 1, "restart")>> ELSE <<>>

\* revert_uncommitted_revisions and load_state.  start-block is given until a
\* database exists; with a database present it is an error, as is an end block
\* that was already reached: the process then exits, having only reverted.
load_state ==
  /\ phase = "stopped"
  /\ \E option \in {0, StartBlock} :
      LET d       == UndoAll(db)
          did_undo == HasUndoSession(db)
          saved   == Current(d)
          h       == IF HasState(saved) THEN saved.head ELSE InitialHead(option)
          resync  == IF HasState(saved) THEN <<>> ELSE <<ForkEvent(h + 1, "resync")>>
          restart == RestartNotice(did_undo, h)
      IN /\ HasState(saved) \/ option = StartBlock
         /\ db' = d
         /\ IF (HasState(saved) /\ option > 0) \/ h >= EndBlock
            THEN /\ RestartForkSurvives => ~did_undo
                 /\ UNCHANGED <<phase, memory, events>>
            ELSE /\ phase' = "connecting"
                 /\ head' = h
                 /\ head_id' = saved.head_id
                 /\ irreversible' = saved.irreversible
                 /\ events' = resync \o restart
                 /\ forked_at_block' = IF resync \o restart = <<>> THEN 0 ELSE h + 1
                 /\ exporter_acked_block' = IF WillAck THEN h ELSE 0
                 /\ slowdown_requested' = FALSE
                 /\ start_block_num' = option
  /\ UNCHANGED <<node, toSend, view>>

\* The node starts at head+1, or at the lowest have_position it knows otherwise.
Mismatches(t) ==
  {n \in DOMAIN t.blocks : /\ irreversible <= n /\ n <= head
                           /\ n > Len(chain) \/ BlockId(n) # t.blocks[n]}
IsFirstToSend(n) ==
  LET asked == Mismatches(Current(db)) \cup {head + 1}
  IN n \in asked /\ \A m \in asked : n <= m

\* start_read's handler: receive_abi, request_blocks, continue_read.
request_blocks ==
  /\ phase = "connecting"
  /\ \E n \in 1 .. MaxBlock + 1 : IsFirstToSend(n) /\ toSend' = n
  /\ UNCHANGED <<node, consumer>>
  /\ continue_read(db, head, head_id, irreversible, exporter_acked_block, forked_at_block)

(* --------------------------- receive_result ---------------------------- *)

NodeHasResult ==
  /\ toSend <= (IF IrreversibleOnly THEN Min2(lib, Len(chain)) ELSE Len(chain))
  /\ toSend < EndBlock

IsFork(n) == n > lib /\ n <= head
LowerLib == lib < irreversible
\* Mutant: the revision number is never set.
WantsRevisionNever(n) == FALSE
WantsRevision(n) == db.rev < n - 1
Refused(n) ==
  \/ LowerLib
  \/ WantsRevision(n) /\ ~MaySetRevision(db, n - 1)
  \/ n > lib /\ ~IsFork(n) /\ head > 0 /\ head > start_block_num /\ BlockId(n - 1) # head_id
Prepared(n) ==
  IF WantsRevision(n) /\ ~LowerLib /\ MaySetRevision(db, n - 1)
  THEN SetRevision(db, n - 1) ELSE db

\* while (db->revision() >= block_num) db->undo() ends only above the base.
RollbackEnds(n) == IsFork(n) => Prepared(n).base < n
Rolled(n) == IF IsFork(n) THEN UndoTo(Prepared(n), n - 1) ELSE Prepared(n)
NoUndoStack(n) == IsFork(n) /\ Rolled(n).rev <= 0
AckedAfter(n) ==
  IF IsFork(n) /\ WillAck THEN Min2(exporter_acked_block, n - 1) ELSE exporter_acked_block
ForkedAfter(n) == IF IsFork(n) THEN n ELSE forked_at_block
\* Mutant: no FORK event when only the head block is replaced.
ForkNoticeDeepOnly(n) ==
  IF n > lib /\ n < head THEN <<ForkEvent(n, "network")>> ELSE <<>>
ForkNotice(n) == IF IsFork(n) THEN <<ForkEvent(n, "network")>> ELSE <<>>

\* received_block rows: add block n when it is reversible, then truncate.
DuplicateRow(n) == n > lib /\ n \in DOMAIN Current(Rolled(n)).blocks
\* Mutant: rows are truncated up to the block after the irreversible one.
AddedRowsTruncatedEarly(n) ==
  LET old == Current(Rolled(n)).blocks
      all == [m \in DOMAIN old \cup {n} |-> IF m = n THEN BlockId(n) ELSE old[m]]
  IN IF n > lib THEN [m \in {i \in DOMAIN all : i > lib + 1} |-> all[m]] ELSE old
AddedRows(n) ==
  LET old == Current(Rolled(n)).blocks
      all == [m \in DOMAIN old \cup {n} |-> IF m = n THEN BlockId(n) ELSE old[m]]
  IN IF n > lib THEN [m \in {i \in DOMAIN all : i >= lib} |-> all[m]] ELSE old
\* Mutant: save_state runs before the head is updated.
SavedTablesEarly(n) ==
  [head |-> head, head_id |-> head_id, irreversible |-> irreversible, blocks |-> AddedRows(n)]
SavedTables(n) ==
  [head |-> n, head_id |-> BlockId(n), irreversible |-> lib, blocks |-> AddedRows(n)]

Result(n) == phase = "reading" /\ n = toSend /\ NodeHasResult
Usable(n) == Result(n) /\ ~Refused(n)

\* An exception: LIB went back, set_revision or the previous id does not fit.
ResultRefused(n) ==
  /\ Result(n) /\ Refused(n)
  /\ phase' = "closed" /\ db' = Prepared(n)
  /\ UNCHANGED <<memory, events>>

RollbackForEver(n) ==
  /\ Usable(n) /\ ~RollbackEnds(n)
  /\ phase' = "spinning" /\ db' = UndoAll(Prepared(n))
  /\ UNCHANGED <<memory, events>>

RollbackFails(n) ==
  /\ Usable(n) /\ RollbackEnds(n) /\ NoUndoStack(n)
  /\ phase' = "closed" /\ db' = Rolled(n)
  /\ UNCHANGED <<memory, events>>

\* from_bin finds no valid message: nothing of it is used.
MessageRejected(n) ==
  /\ Result(n) /\ MayReject
  /\ phase' = "closed"
  /\ UNCHANGED <<db, memory, events>>

\* What receive_result has done with block n when its undo session starts.
Begun(n) ==
  /\ Usable(n) /\ RollbackEnds(n) /\ ~NoUndoStack(n)
  /\ forked_at_block' = ForkedAfter(n) /\ exporter_acked_block' = AckedAfter(n)
  /\ head' = n /\ head_id' = BlockId(n) /\ irreversible' = lib
  /\ UNCHANGED <<slowdown_requested, start_block_num>>

\* An exception in receive_block or receive_deltas, or of the unique index on
\* block_index: the undo session is dropped, the FORK event stays published.
BlockDropped(n) ==
  /\ Begun(n)
  /\ \/ DuplicateRow(n)
     \/ MayReject /\ (BaseForkIsSound /\ IsFork(n) => HasUndoSession(Rolled(n)))
  /\ phase' = "closed" /\ db' = Rolled(n)
  /\ events' = events \o ForkNotice(n)

Stored(n) == commit_db(PushSession(Rolled(n), SavedTables(n)), lib, AckedAfter(n))

\* An exception in receive_traces: the block is stored but never completed.
TracesRejected(n) ==
  /\ Begun(n) /\ ~DuplicateRow(n) /\ MayReject
  /\ phase' = "closed" /\ db' = Stored(n)
  /\ events' = events \o ForkNotice(n)

BlockStored(n) ==
  /\ Usable(n) /\ RollbackEnds(n) /\ ~NoUndoStack(n) /\ ~DuplicateRow(n)
  /\ events' = events \o ForkNotice(n) \o <<BlockEvent(BlockId(n))>>
  /\ continue_read(Stored(n), n, BlockId(n), lib, AckedAfter(n), ForkedAfter(n))

receive_result ==
  \E n \in 1..MaxBlock :
    /\ \/ ResultRefused(n)
       \/ RollbackForEver(n)
       \/ RollbackFails(n)
       \/ MessageRejected(n)
       \/ BlockDropped(n)
       \/ TracesRejected(n)
       \/ BlockStored(n)
    /\ toSend' = n + 1
    /\ UNCHANGED <<node, view>>

\* pause_timer's handler.
PauseTimer ==
  /\ phase = "paused"
  /\ UNCHANGED <<node, toSend, consumer>>
  /\ continue_read(db, head, head_id, irreversible, exporter_acked_block, forked_at_block)

(* ------------------- acknowledgements and delivery --------------------- *)

\* abort_receiver, an acknowledgement that is no block number, a lost connection
\* or a signal: between two handlers.
Stopped == phase' = "stopped" /\ ForgetMemory /\ UNCHANGED <<node, toSend, db>>

AckTaken(n) ==
  \/ forked_at_block > 0 /\ n <= forked_at_block - 1
  \/ forked_at_block = 0 /\ n >= exporter_acked_block

\* slow is what the exporter last told the receiver through slowdown().
\* Mutant: the flow resumes only on the acknowledgement of the fork block itself.
FlowResumesLate(n) == n = forked_at_block
FlowResumes(n) == n = forked_at_block - 1
ack_block(n, slow) ==
  IF forked_at_block = 0 /\ n < exporter_acked_block
  THEN Stopped
  ELSE /\ exporter_acked_block' = IF AckTaken(n) THEN n ELSE exporter_acked_block
       /\ forked_at_block' = IF FlowResumes(n) THEN 0 ELSE forked_at_block
       /\ slowdown_requested' = slow
       /\ UNCHANGED <<node, toSend, phase, db, position, start_block_num>>

MayAck == WillAck /\ phase \in {"connecting", "reading", "paused", "closed"}

\* The consumer acknowledges the last block it has processed.
ConsumerAck ==
  /\ MayAck /\ Len(view) > 0 /\ Len(view) >= StartBlock
  /\ ack_block(Len(view), slowdown_requested)
  /\ UNCHANGED consumer

\* async_send_events looks at the length of the queue before every message.
\* Mutant: the low watermark is never undercut by a queue that is not empty.
QueueLwmTooLow == QueueHwm \div 3
QueueLwm == (QueueHwm * 3) \div 4
SlowdownAfter ==
  /\ Alive
  /\ Len(events) >= QueueHwm \/ (slowdown_requested /\ Len(events) >= QueueLwm)

Deliverable(type) == phase # "spinning" /\ events # <<>> /\ Head(events).type = type

DeliverBlock ==
  /\ Deliverable("BLOCK_COMPLETED")
  /\ view' = Head(events).id
  /\ events' = Tail(events)
  /\ slowdown_requested' = SlowdownAfter
  /\ UNCHANGED <<node, toSend, phase, db, position, flow, start_block_num>>

\* The consumer drops the blocks from the fork on and acknowledges the one below.
DeliverFork ==
  /\ Deliverable("FORK")
  /\ view' = SubSeq(view, 1, Min2(Len(view), Head(events).num - 1))
  /\ events' = Tail(events)
  /\ IF MayAck THEN ack_block(Head(events).num - 1, SlowdownAfter)
     ELSE /\ slowdown_requested' = SlowdownAfter
          /\ UNCHANGED <<node, toSend, phase, db, position, flow, start_block_num>>

(* ------------------------------- stops --------------------------------- *)

RestartForkPending ==
  \/ phase = "connecting"
  \/ \E i \in DOMAIN events : events[i].type = "FORK" /\ events[i].reason = "restart"

Stop ==
  /\ MayStop /\ Alive /\ phase # "spinning"
  /\ RestartForkSurvives => ~RestartForkPending
  /\ Stopped
  /\ UNCHANGED consumer

\* check_stale_head finds nothing new since the stream was closed.
StaleAbort ==
  /\ phase = "closed"
  /\ Stopped
  /\ UNCHANGED consumer

(* ----------------------------- snapshots ------------------------------- *)

\* --save-snapshot: the revisions are reverted, and no FORK event follows.
SaveSnapshot ==
  /\ MayStop /\ phase = "stopped"
  /\ RestartForkSurvives => ~HasUndoSession(db)
  /\ db' = UndoAll(db)
  /\ UNCHANGED <<node, toSend, phase, memory, consumer>>

\* The upgrade: the data of the snapshot just saved go into a new database,
\* whose revision is 0 until receive_result sets it.
\* Mutant: the received_block rows are left out.
RestoreWithoutRows(t) == Opened(0, [t EXCEPT !.blocks = <<>>])
Restored(t) == Opened(0, t)
RestoreSnapshot ==
  /\ MayStop /\ phase = "stopped"
  /\ HasState(Current(db)) /\ ~HasUndoSession(db)
  /\ db' = Restored(Current(db))
  /\ UNCHANGED <<node, toSend, phase, memory, consumer>>

Init ==
  /\ chain = [i \in 1..InitLib |-> 0]
  /\ lib = InitLib /\ finalized = InitLib
  /\ epoch = 0 /\ toSend = 1
  /\ phase = "stopped"
  /\ db = Opened(0, EmptyTables)
  /\ head = 0 /\ head_id = <<>> /\ irreversible = 0
  /\ forked_at_block = 0 /\ exporter_acked_block = 0
  /\ slowdown_requested = FALSE /\ start_block_num = 0
  /\ events = <<>> /\ view = <<>>

Node == NodeProduce \/ (\E k \in 1..MaxBlock : NodeFork(k)) \/ NodeLib \/ NodeFailOver
Receiver == load_state \/ request_blocks \/ receive_result \/ PauseTimer \/ StaleAbort
Consumer == ConsumerAck \/ DeliverBlock \/ DeliverFork
Operator == Stop \/ SaveSnapshot \/ RestoreSnapshot
Next == Node \/ Receiver \/ Consumer \/ Operator

Spec == Init /\ [][Next]_vars

(* The io_service runs every ready handler, the websocket drains to a consumer
   that reads and acknowledges, and the node keeps sending what it has. *)
Fairness ==
  /\ WF_vars(load_state) /\ WF_vars(request_blocks) /\ WF_vars(receive_result)
  /\ WF_vars(PauseTimer) /\ WF_vars(StaleAbort)
  /\ WF_vars(ConsumerAck) /\ WF_vars(DeliverBlock) /\ WF_vars(DeliverFork)
FairSpec == Spec /\ Fairness /\ WF_vars(NodeProduce) /\ WF_vars(NodeLib)

(* ---------------------------- properties ------------------------------- *)

BlockNums == 0 .. MaxBlock
TablesOK(t) ==
  /\ t.head \in BlockNums /\ t.head_id \in Ids /\ t.irreversible \in BlockNums
  /\ DOMAIN t.blocks \subseteq BlockNums
  /\ \A n \in DOMAIN t.blocks : t.blocks[n] \in Ids
ForkEvents == [type : {"FORK"}, num : 1 .. MaxBlock + 1,
               reason : {"network", "restart", "resync"}]
BlockEvents == [type : {"BLOCK_COMPLETED"}, num : BlockNums, id : Ids]

NodeOK ==
  /\ chain \in Ids /\ lib \in BlockNums /\ finalized \in BlockNums
  /\ epoch \in 0..MaxForks /\ toSend \in 1 .. MaxBlock + 1
DbOK == IsDatabase(db) /\ \A r \in db.base .. db.rev : TablesOK(db.at[r])
MemoryOK ==
  /\ phase \in Phases
  /\ head \in BlockNums /\ head_id \in Ids /\ irreversible \in BlockNums
  /\ forked_at_block \in 0 .. MaxBlock + 1 /\ exporter_acked_block \in BlockNums
  /\ slowdown_requested \in BOOLEAN /\ start_block_num \in {0, StartBlock}
ConsumerOK == events \in Seq(ForkEvents \cup BlockEvents) /\ view \in Ids

\* The variables have the types of the members of receiver_plugin_impl.
TypeOK == NodeOK /\ DbOK /\ MemoryOK /\ ConsumerOK

\* The revision number of the database is the number of the block whose state
\* it restores: undoing "down to block n-1" lands exactly on block n-1, however
\* forks, stops, commits and snapshots interleave (receive_result's rollback
\* loop).  Only a database that was just restored stands at revision 0.
RevisionTracksHead ==
  /\ \A r \in db.base .. db.rev :
       HasState(db.at[r]) => db.at[r].head = r \/ db.rev = 0
  /\ Len(Current(db).head_id) = Current(db).head

\* What commit_db made permanent is final in the network: no fork can ever ask
\* the receiver to undo below its undo stack.
CommittedIsFinal ==
  LET kept == db.at[db.base].head_id
  IN Len(kept) <= finalized /\ kept = BlockId(Len(kept))

\* The revisions that can be restored lie on one chain, ending in the head.
UndoStatesOnOneChain ==
  \A r \in db.base .. db.rev : IsPrefix(db.at[r].head_id, Current(db).head_id)

\* The received_block rows name every reversible block of the current head, with
\* the right id: after a restart have_positions lets the node find any fork.
PositionsCoverReversible ==
  \A r \in db.base .. db.rev :
    \A n \in db.at[r].irreversible + 1 .. db.at[r].head :
      n >= StartBlock =>
        /\ n \in DOMAIN db.at[r].blocks
        /\ db.at[r].blocks[n] = SubSeq(Current(db).head_id, 1, n)

\* The consumer is handed a chain: each block extends the last one it holds,
\* because a FORK event came first whenever that is not so.
ConsumerContinuity ==
  [][DeliverBlock => \/ view = <<>>
                     \/ view = Front(view')]_vars

\* Whatever happens, a restart resumes at a block the consumer has processed:
\* commit_db never makes a block permanent that the consumer never saw.
RestartPointProcessed ==
  WillAck => LET kept == db.at[db.base] IN HasState(kept) => IsPrefix(kept.head_id, view)

\* A read is outstanding only while every fork is confirmed, and then no more
\* than exp-ws-max-unack blocks are received beyond the acknowledged one,
\* whatever late acknowledgements, further forks and restarts come in between.
\* While a fork is unconfirmed the limit may be exceeded: the acknowledgement of
\* an older FORK event lowers exporter_acked_block below what was read since.
UnconfirmedIsBounded ==
  WillAck /\ Alive =>
    /\ phase = "reading" => forked_at_block = 0
    /\ forked_at_block = 0 => head <= exporter_acked_block + MaxUnconfirmed

\* The loop that rolls the database back on a fork ends.
RollbackTerminates == phase # "spinning"

\* Once the node has nothing new, the consumer holds the node's whole chain:
\* no pause, unconfirmed fork or queue limit stops the flow for ever.
CatchesUp == <>[](Len(chain) = MaxBlock /\ view = chain)

\* A slowdown the exporter requested is always lifted again.
SlowdownEnds == slowdown_requested ~> ~slowdown_requested

\* The receiver that has reached the end block stops.
StopsAtEnd == (phase \in {"reading", "paused"} /\ head = EndBlock - 1) ~> (phase = "stopped")

\* The database, seen through undo sessions and commits, follows one chain.
Follower == INSTANCE ChainFollower
  WITH tip <- Current(db).head_id, stable <- db.at[db.base].head_id
FollowsChain == Follower!Spec
=============================================================================
