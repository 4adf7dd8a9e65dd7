-------------------------- MODULE ScanReceiverProofs --------------------------
(***************************************************************************)
(* Theorems about ScanReceiver, for every value of its constants.          *)
(***************************************************************************)
EXTENDS ScanReceiver, ChainbaseProofs, SequenceTheorems

(* ------------------------- block ids and tables ------------------------- *)

\* The prefixes of a block id are the ids of the blocks before it.
LEMMA IdPrefix ==
  ASSUME NEW s \in Ids, NEW n \in 0 .. Len(s)
  PROVE  SubSeq(s, 1, n) \in Ids /\ Len(SubSeq(s, 1, n)) = n
<1>1. s \in Seq(0..MaxForks) /\ Len(s) \in Nat /\ Len(s) <= MaxBlock
  BY LenProperties DEF Ids
<1>2. s \in [1..Len(s) -> 0..MaxForks]
  BY <1>1, LenProperties
<1>3. \A i \in 1..n : s[i] \in 0..MaxForks
  BY <1>1, <1>2
<1>4. SubSeq(s, 1, n) \in Seq(0..MaxForks) /\ Len(SubSeq(s, 1, n)) = n
  BY <1>1, <1>3, SubSeqProperties
<1> QED
  BY <1>1, <1>4, NumbersAssumption DEF Ids

\* A block on top of an id below the bound gives an id.
LEMMA IdAppend ==
  ASSUME NEW s \in Ids, NEW e \in 0..MaxForks, Len(s) < MaxBlock
  PROVE  Append(s, e) \in Ids /\ Len(Append(s, e)) = Len(s) + 1
<1>1. s \in Seq(0..MaxForks) /\ Len(s) \in Nat
  BY LenProperties DEF Ids
<1> QED
  BY <1>1, AppendProperties, NumbersAssumption DEF Ids

LEMMA EmptyId == <<>> \in Ids
  BY NumbersAssumption, EmptySeq DEF Ids

LEMMA EmptyTablesOK == TablesOK(EmptyTables)
<1>1. DOMAIN <<>> = {} OBVIOUS
<1> QED
  BY <1>1, EmptyId, NumbersAssumption DEF TablesOK, EmptyTables, BlockNums

(* ------------------------------- types ---------------------------------- *)

LEMMA InitType == Init => TypeOK
<1> SUFFICES ASSUME Init PROVE TypeOK OBVIOUS
<1>1. chain \in Seq(0..MaxForks) /\ Len(chain) = InitLib
  BY NumbersAssumption, IsASeq DEF Init
<1>2. NodeOK
  BY <1>1, NumbersAssumption DEF Init, NodeOK, Ids, BlockNums
<1>3. IsDatabase(db) /\ db.base = 0 /\ db.rev = 0 /\ db.at[0] = EmptyTables
  BY OpenedFacts DEF Init
<1>4. DbOK
  BY <1>3, EmptyTablesOK DEF DbOK
<1>5. MemoryOK
  <2>1. slowdown_requested \in BOOLEAN
    BY DEF Init
  <2>2. head \in BlockNums /\ irreversible \in BlockNums /\ exporter_acked_block \in BlockNums
    BY NumbersAssumption DEF Init, BlockNums
  <2>3. phase \in Phases /\ head_id \in Ids /\ start_block_num \in {0, StartBlock}
    BY EmptyId DEF Init, Phases
  <2>4. forked_at_block \in 0 .. MaxBlock + 1
    BY NumbersAssumption DEF Init
  <2> QED BY <2>1, <2>2, <2>3, <2>4 DEF MemoryOK
<1>6. ConsumerOK
  BY EmptyId, EmptySeq DEF Init, ConsumerOK
<1> QED BY <1>2, <1>4, <1>5, <1>6 DEF TypeOK

\* A stopped process has forgotten everything.
LEMMA StoppedMemoryOK ==
  ASSUME phase' = "stopped", ForgetMemory
  PROVE  MemoryOK'
<1>1. slowdown_requested' \in BOOLEAN
  BY DEF ForgetMemory
<1>2. /\ head' \in BlockNums /\ irreversible' \in BlockNums
      /\ exporter_acked_block' \in BlockNums /\ forked_at_block' \in 0 .. MaxBlock + 1
  BY NumbersAssumption DEF ForgetMemory, BlockNums
<1>3. phase' \in Phases /\ head_id' \in Ids /\ start_block_num' \in {0, StartBlock}
  BY EmptyId DEF ForgetMemory, Phases
<1> QED BY <1>1, <1>2, <1>3 DEF MemoryOK

\* Stopping, pausing or reading on leaves well-typed variables.
LEMMA ContinueReadType ==
  ASSUME NEW d, NEW h \in BlockNums, NEW hid \in Ids, NEW irr \in BlockNums,
         NEW acked \in BlockNums, NEW forked \in 0 .. MaxBlock + 1,
         IsDatabase(d), \A r \in d.base .. d.rev : TablesOK(d.at[r]),
         slowdown_requested \in BOOLEAN, start_block_num \in {0, StartBlock},
         continue_read(d, h, hid, irr, acked, forked)
  PROVE  DbOK' /\ MemoryOK'
<1>1. CASE ReachedEnd(h, irr, acked)
  <2>1. db' = Commit(d, CommitRev(irr, acked)) /\ phase' = "stopped" /\ ForgetMemory
    BY <1>1 DEF continue_read, commit_db
  <2>2. CommitRev(irr, acked) \in Int
    BY DEF CommitRev, BlockNums
  <2>3. DbOK'
    BY <2>1, <2>2, CommitFacts DEF DbOK
  <2>4. MemoryOK'
    BY <2>1, StoppedMemoryOK
  <2> QED BY <2>3, <2>4
<1>2. CASE ~ReachedEnd(h, irr, acked)
  <2>1. /\ db' = d /\ head' = h /\ head_id' = hid /\ irreversible' = irr
        /\ forked_at_block' = forked /\ exporter_acked_block' = acked
        /\ phase' \in {"paused", "reading"}
        /\ UNCHANGED <<slowdown_requested, start_block_num>>
    BY <1>2 DEF continue_read
  <2> QED BY <2>1 DEF DbOK, MemoryOK, Phases
<1> QED BY <1>1, <1>2

\* What a received block leaves in the tables is well typed.
LEMMA RolledType ==
  ASSUME TypeOK, NEW n \in 1..MaxBlock
  PROVE  /\ IsDatabase(Prepared(n)) /\ IsDatabase(Rolled(n))
         /\ \A r \in Prepared(n).base .. Prepared(n).rev : TablesOK(Prepared(n).at[r])
         /\ \A r \in Rolled(n).base .. Rolled(n).rev : TablesOK(Rolled(n).at[r])
<1>1. IsDatabase(db) /\ \A r \in db.base .. db.rev : TablesOK(db.at[r])
  BY DEF TypeOK, DbOK
<1>2. n - 1 \in Nat /\ n - 1 \in Int
  OBVIOUS
<1>3. db.rev \in db.base .. db.rev
  BY <1>1 DEF IsDatabase
<1>4. /\ IsDatabase(Prepared(n))
      /\ \A r \in Prepared(n).base .. Prepared(n).rev : TablesOK(Prepared(n).at[r])
  <2>1. CASE Prepared(n) = db
    BY <2>1, <1>1
  <2>2. CASE Prepared(n) = SetRevision(db, n - 1)
    <3>1. Prepared(n) = Opened(n - 1, db.at[db.rev])
      BY <2>2 DEF SetRevision, Current
    <3> QED BY <3>1, <1>1, <1>2, <1>3, OpenedFacts
  <2> QED BY <2>1, <2>2 DEF Prepared
<1>5. /\ IsDatabase(Rolled(n))
      /\ \A r \in Rolled(n).base .. Rolled(n).rev : TablesOK(Rolled(n).at[r])
  <2>1. CASE Rolled(n) = Prepared(n)
    BY <2>1, <1>4
  <2>2. CASE Rolled(n) = UndoTo(Prepared(n), n - 1)
    BY <2>2, <1>2, <1>4, UndoToFacts
  <2> QED BY <2>1, <2>2 DEF Rolled
<1> QED BY <1>4, <1>5

LEMMA SavedTablesType ==
  ASSUME TypeOK, NEW n \in 1..MaxBlock, Result(n)
  PROVE  BlockId(n) \in Ids /\ Len(BlockId(n)) = n /\ TablesOK(SavedTables(n))
<1>1. n \in 0 .. Len(chain) /\ chain \in Ids /\ Len(chain) \in Nat
  <2>1. chain \in Ids /\ lib \in 0..MaxBlock
    BY DEF TypeOK, NodeOK, BlockNums
  <2>2. Len(chain) \in Nat
    BY <2>1, LenProperties DEF Ids
  <2> QED BY <2>1, <2>2 DEF Result, NodeHasResult, Min2
<1>2. BlockId(n) \in Ids /\ Len(BlockId(n)) = n
  BY <1>1, IdPrefix DEF BlockId
<1>3. TablesOK(Current(Rolled(n)))
  BY RolledType DEF Current, IsDatabase
<1>4. /\ DOMAIN AddedRows(n) \subseteq BlockNums
      /\ \A m \in DOMAIN AddedRows(n) : AddedRows(n)[m] \in Ids
  BY <1>2, <1>3 DEF AddedRows, TablesOK, BlockNums
<1> QED
  BY <1>2, <1>4, NumbersAssumption DEF SavedTables, TablesOK, TypeOK, NodeOK, BlockNums

LEMMA EventAppend ==
  ASSUME NEW s \in Seq(ForkEvents \cup BlockEvents), NEW t \in Seq(ForkEvents \cup BlockEvents)
  PROVE  s \o t \in Seq(ForkEvents \cup BlockEvents)
BY ConcatProperties

LEMMA NoticeType ==
  ASSUME NEW n \in 1 .. MaxBlock + 1, NEW why \in {"network", "restart", "resync"}
  PROVE  <<ForkEvent(n, why)>> \in Seq(ForkEvents \cup BlockEvents)
BY DEF ForkEvent, ForkEvents

\* Every outcome of receive_result keeps the types.
LEMMA ReceiveType ==
  ASSUME TypeOK, receive_result
  PROVE  TypeOK'
<1> PICK n \in 1..MaxBlock :
      /\ \/ ResultRefused(n)
         \/ RollbackForEver(n)
         \/ RollbackFails(n)
         \/ MessageRejected(n)
         \/ BlockDropped(n)
         \/ TracesRejected(n)
         \/ BlockStored(n)
      /\ toSend' = n + 1
      /\ UNCHANGED <<node, view>>
  BY DEF receive_result
<1>1. NodeOK'
  BY NumbersAssumption DEF TypeOK, NodeOK, node
<1>2. ForkNotice(n) \in Seq(ForkEvents \cup BlockEvents)
  <2>1. n \in 1 .. MaxBlock + 1
    BY NumbersAssumption
  <2>2. <<ForkEvent(n, "network")>> \in Seq(ForkEvents \cup BlockEvents)
    BY <2>1, NoticeType
  <2>3. <<>> \in Seq(ForkEvents \cup BlockEvents)
    BY EmptySeq
  <2> QED BY <2>2, <2>3 DEF ForkNotice
<1>3. /\ events \in Seq(ForkEvents \cup BlockEvents) /\ view' \in Ids
      /\ lib \in BlockNums /\ slowdown_requested \in BOOLEAN
      /\ start_block_num \in {0, StartBlock}
  BY DEF TypeOK, NodeOK, ConsumerOK, MemoryOK
<1>4. AckedAfter(n) \in BlockNums /\ ForkedAfter(n) \in 0 .. MaxBlock + 1
  BY NumbersAssumption DEF AckedAfter, ForkedAfter, TypeOK, MemoryOK, BlockNums, Min2
<1>5. CASE ResultRefused(n) \/ RollbackForEver(n) \/ RollbackFails(n) \/ MessageRejected(n)
  <2>1. /\ phase' \in {"closed", "spinning"} /\ UNCHANGED <<memory, events>>
        /\ db' \in {db, Prepared(n), UndoAll(Prepared(n)), Rolled(n)}
    BY <1>5 DEF ResultRefused, RollbackForEver, RollbackFails, MessageRejected
  <2>2. MemoryOK'
    BY <2>1 DEF TypeOK, MemoryOK, Phases, memory, position, flow
  <2>3. DbOK'
    <3>1. CASE UNCHANGED db
      BY <3>1 DEF TypeOK, DbOK
    <3>2. CASE ~UNCHANGED db
      BY <2>1, <3>2, RolledType, UndoAllFacts DEF DbOK, IsDatabase
    <3> QED BY <3>1, <3>2
  <2> QED BY <1>1, <1>3, <2>1, <2>2, <2>3 DEF TypeOK, ConsumerOK
<1>6. ASSUME Begun(n) PROVE MemoryOK' \/ phase' # "closed"
  <2>1. Result(n)
    BY <1>6 DEF Begun, Usable
  <2> QED BY <1>6, <2>1, <1>3, <1>4, SavedTablesType DEF Begun, MemoryOK, Phases, BlockNums
<1>7. ASSUME Result(n)
      PROVE  IsDatabase(Stored(n)) /\ \A r \in Stored(n).base .. Stored(n).rev : TablesOK(Stored(n).at[r])
  <2> DEFINE pushed == PushSession(Rolled(n), SavedTables(n))
  <2>1. IsDatabase(pushed) /\ \A r \in pushed.base .. pushed.rev : TablesOK(pushed.at[r])
    <3> DEFINE d == Rolled(n)
               t == SavedTables(n)
    <3>1. IsDatabase(d) /\ (\A r \in d.base .. d.rev : TablesOK(d.at[r])) /\ TablesOK(t)
      BY <1>7, RolledType, SavedTablesType
    <3> HIDE DEF d, t
    <3> DEFINE e == PushSession(d, t)
    <3>2. /\ IsDatabase(e) /\ e.base = d.base /\ e.rev = d.rev + 1
          /\ \A r \in d.base .. d.rev : e.at[r] = d.at[r]
          /\ e.at[d.rev + 1] = t
      BY <3>1, PushSessionFacts
    <3>3. d.base \in Nat /\ d.rev \in Nat /\ d.base <= d.rev
      BY <3>1 DEF IsDatabase
    <3> HIDE DEF e
    <3>4. \A r \in e.base .. e.rev : r \in d.base .. d.rev \/ r = d.rev + 1
      BY <3>2, <3>3
    <3>5. IsDatabase(e) /\ \A r \in e.base .. e.rev : TablesOK(e.at[r])
      BY <3>1, <3>2, <3>4
    <3> QED BY <3>5 DEF e, d, t
  <2>2. CommitRev(lib, AckedAfter(n)) \in Int
    BY <1>3, <1>4 DEF CommitRev, BlockNums
  <2>3. Stored(n) = Commit(pushed, CommitRev(lib, AckedAfter(n)))
    BY DEF Stored, commit_db
  <2> HIDE DEF pushed
  <2> QED BY <2>1, <2>2, <2>3, CommitFacts
<1>8. CASE BlockDropped(n) \/ TracesRejected(n)
  <2>1. /\ Begun(n) /\ phase' = "closed" /\ events' = events \o ForkNotice(n)
        /\ db' \in {Rolled(n), Stored(n)}
    BY <1>8 DEF BlockDropped, TracesRejected
  <2>2. MemoryOK' /\ Result(n)
    BY <1>6, <2>1 DEF Begun, Usable
  <2>3. DbOK'
    BY <1>7, <2>1, <2>2, RolledType DEF DbOK
  <2>4. ConsumerOK'
    BY <2>1, <1>2, <1>3, EventAppend DEF ConsumerOK
  <2> QED BY <1>1, <2>2, <2>3, <2>4 DEF TypeOK
<1>9. CASE BlockStored(n)
  <2>1. Result(n)
    BY <1>9 DEF BlockStored, Usable
  <2>4. BlockEvent(BlockId(n)) \in BlockEvents
    BY <2>1, SavedTablesType DEF BlockEvent, BlockEvents, BlockNums
  <2>5. ConsumerOK'
    <3>1. <<BlockEvent(BlockId(n))>> \in Seq(ForkEvents \cup BlockEvents)
      BY <2>4
    <3>2. events' = events \o ForkNotice(n) \o <<BlockEvent(BlockId(n))>>
      BY <1>9 DEF BlockStored
    <3> QED BY <3>1, <3>2, <1>2, <1>3, EventAppend DEF ConsumerOK
  <2>6. continue_read(Stored(n), n, BlockId(n), lib, AckedAfter(n), ForkedAfter(n))
    BY <1>9 DEF BlockStored
  <2>7. DbOK' /\ MemoryOK'
    <3>1. n \in BlockNums /\ BlockId(n) \in Ids
      BY <2>1, SavedTablesType DEF BlockNums
    <3> QED BY <1>7, <2>1, <2>6, <3>1, <1>3, <1>4, ContinueReadType
  <2> QED BY <1>1, <2>5, <2>7 DEF TypeOK
<1> QED BY <1>5, <1>8, <1>9

\* Starting a process keeps the types.
LEMMA LoadStateType ==
  ASSUME TypeOK, load_state
  PROVE  TypeOK'
<1> DEFINE d == UndoAll(db)
           did_undo == HasUndoSession(db)
           saved == Current(d)
<1> PICK option \in {0, StartBlock} :
      LET h       == IF HasState(saved) THEN saved.head ELSE InitialHead(option)
          resync  == IF HasState(saved) THEN <<>> ELSE <<ForkEvent(h + 1, "resync")>>
          restart == IF did_undo THEN <<ForkEvent(h + 1, "restart")>> ELSE <<>>
      IN /\ db' = d
         /\ \/ UNCHANGED <<phase, memory, events>>
            \/ /\ phase' = "connecting"
               /\ head' = h
               /\ head_id' = saved.head_id
               /\ irreversible' = saved.irreversible
               /\ events' = resync \o restart
               /\ forked_at_block' = IF resync \o restart = <<>> THEN 0 ELSE h + 1
               /\ exporter_acked_block' = IF WillAck THEN h ELSE 0
               /\ slowdown_requested' = FALSE
               /\ start_block_num' = option
  BY DEF load_state, RestartNotice
<1> DEFINE h == IF HasState(saved) THEN saved.head ELSE InitialHead(option)
           resync == IF HasState(saved) THEN <<>> ELSE <<ForkEvent(h + 1, "resync")>>
           restart == IF did_undo THEN <<ForkEvent(h + 1, "restart")>> ELSE <<>>
<1>1. /\ IsDatabase(d) /\ d.base = d.rev
      /\ \A r \in d.base .. d.rev : TablesOK(d.at[r])
  BY UndoAllFacts DEF TypeOK, DbOK, IsDatabase
<1>2. DbOK'
  BY <1>1 DEF DbOK
<1>3. NodeOK' /\ view' \in Ids
  BY DEF load_state, node, TypeOK, NodeOK, ConsumerOK
<1>4. TablesOK(saved)
  BY <1>1 DEF Current, IsDatabase
<1>5. h \in BlockNums /\ saved.head_id \in Ids /\ saved.irreversible \in BlockNums
  BY <1>4, NumbersAssumption DEF TablesOK, BlockNums, InitialHead
<1>6. CASE UNCHANGED <<phase, memory, events>>
  <2>1. MemoryOK' /\ ConsumerOK'
    BY <1>3, <1>6 DEF TypeOK, MemoryOK, ConsumerOK, memory, position, flow
  <2> QED BY <1>2, <1>3, <2>1 DEF TypeOK
<1>7. CASE ~ UNCHANGED <<phase, memory, events>>
  <2> HIDE DEF saved, d
  <2>1. resync \o restart \in Seq(ForkEvents \cup BlockEvents)
    <3>0. h + 1 \in 1 .. MaxBlock + 1
      BY <1>5, NumbersAssumption DEF BlockNums
    <3> HIDE DEF h, did_undo
    <3>1. resync \in Seq(ForkEvents \cup BlockEvents)
      BY <3>0, NoticeType, EmptySeq
    <3>2. restart \in Seq(ForkEvents \cup BlockEvents)
      BY <3>0, NoticeType, EmptySeq
    <3> HIDE DEF resync, restart
    <3> QED BY <3>1, <3>2, EventAppend
  <2>2. slowdown_requested' \in BOOLEAN
    BY <1>7
  <2>3. /\ phase' \in Phases /\ head' \in BlockNums /\ head_id' \in Ids
        /\ irreversible' \in BlockNums /\ start_block_num' \in {0, StartBlock}
    BY <1>5, <1>7 DEF Phases
  <2>4. forked_at_block' \in 0 .. MaxBlock + 1 /\ exporter_acked_block' \in BlockNums
    BY <1>5, <1>7, NumbersAssumption DEF BlockNums
  <2>5. events' \in Seq(ForkEvents \cup BlockEvents)
    BY <1>7, <2>1
  <2> QED BY <1>2, <1>3, <2>2, <2>3, <2>4, <2>5 DEF TypeOK, MemoryOK, ConsumerOK
<1> QED BY <1>6, <1>7

\* An acknowledgement keeps the types, whether it is taken or stops the process.
LEMMA AckType ==
  ASSUME TypeOK, NEW n \in BlockNums, NEW slow \in BOOLEAN, ack_block(n, slow)
  PROVE  NodeOK' /\ DbOK' /\ MemoryOK'
<1>1. CASE Stopped
  BY <1>1, StoppedMemoryOK DEF Stopped, TypeOK, NodeOK, DbOK, node
<1>2. CASE ~(forked_at_block = 0 /\ n < exporter_acked_block)
  <2>1. /\ exporter_acked_block' \in {n, exporter_acked_block}
        /\ forked_at_block' \in {0, forked_at_block}
        /\ slowdown_requested' = slow
        /\ UNCHANGED <<node, toSend, phase, db, position, start_block_num>>
    BY <1>2 DEF ack_block
  <2>2. NodeOK' /\ DbOK'
    BY <2>1 DEF TypeOK, NodeOK, DbOK, node
  <2>3. MemoryOK'
    BY <2>1, NumbersAssumption DEF TypeOK, MemoryOK, position, BlockNums
  <2> QED BY <2>2, <2>3
<1> QED BY <1>1, <1>2 DEF ack_block

\* Delivering an event keeps the types.
LEMMA DeliverType ==
  ASSUME TypeOK, DeliverBlock \/ DeliverFork
  PROVE  TypeOK'
<1>1. /\ events # <<>> /\ events \in Seq(ForkEvents \cup BlockEvents)
      /\ view \in Ids /\ events' = Tail(events)
  BY DEF DeliverBlock, DeliverFork, Deliverable, TypeOK, ConsumerOK
<1>2. events' \in Seq(ForkEvents \cup BlockEvents) /\ Head(events) \in ForkEvents \cup BlockEvents
  BY <1>1, HeadTailProperties
<1>3. SlowdownAfter \in BOOLEAN
  BY DEF SlowdownAfter
<1>4. CASE DeliverBlock
  <2>1. Head(events) \in BlockEvents
    BY <1>2, <1>4 DEF DeliverBlock, Deliverable, ForkEvents, BlockEvents
  <2>2. ConsumerOK'
    BY <1>2, <1>4, <2>1 DEF DeliverBlock, ConsumerOK, BlockEvents
  <2>3. NodeOK' /\ DbOK'
    BY <1>4 DEF DeliverBlock, TypeOK, NodeOK, DbOK, node
  <2>4. slowdown_requested' \in BOOLEAN
    BY <1>3, <1>4 DEF DeliverBlock
  <2>5. MemoryOK'
    BY <1>4, <2>4 DEF DeliverBlock, TypeOK, MemoryOK, position, flow
  <2> QED BY <2>2, <2>3, <2>5 DEF TypeOK
<1>5. CASE DeliverFork
  <2>1. Head(events) \in ForkEvents /\ Head(events).num - 1 \in BlockNums
    BY <1>2, <1>5, NumbersAssumption
       DEF DeliverFork, Deliverable, ForkEvents, BlockEvents, BlockNums
  <2>2. view' \in Ids
    <3>1. Len(view) \in Nat
      BY <1>1, LenProperties DEF Ids
    <3>2. Min2(Len(view), Head(events).num - 1) \in 0 .. Len(view)
      BY <2>1, <3>1 DEF Min2, BlockNums
    <3> QED BY <1>1, <1>5, <3>2, IdPrefix DEF DeliverFork
  <2>3. CASE MayAck
    <3>1. NodeOK' /\ DbOK' /\ MemoryOK'
      BY <1>3, <1>5, <2>1, <2>3, AckType DEF DeliverFork
    <3> QED BY <1>2, <2>2, <3>1 DEF TypeOK, ConsumerOK
  <2>4. CASE ~MayAck
    <3>1. /\ slowdown_requested' = SlowdownAfter
          /\ UNCHANGED <<node, toSend, phase, db, position, flow, start_block_num>>
      BY <1>5, <2>4 DEF DeliverFork
    <3>2. slowdown_requested' \in BOOLEAN
      BY <1>3, <3>1
    <3>3. NodeOK' /\ DbOK'
      BY <3>1 DEF TypeOK, NodeOK, DbOK, node
    <3>4. MemoryOK'
      BY <3>1, <3>2 DEF TypeOK, MemoryOK, position, flow
    <3> QED BY <1>2, <2>2, <3>3, <3>4 DEF TypeOK, ConsumerOK
  <2> QED BY <2>3, <2>4
<1> QED BY <1>4, <1>5

\* The node's steps keep the types.
LEMMA NodeType ==
  ASSUME TypeOK, Node
  PROVE  TypeOK'
<1>1. Len(chain) \in Nat /\ chain \in Ids /\ Len(chain) <= MaxBlock
  BY LenProperties DEF TypeOK, NodeOK, Ids
<1>2. UNCHANGED <<phase, db, memory, consumer>>
  BY DEF Node, NodeProduce, NodeFork, NodeLib, NodeFailOver
<1>3. DbOK' /\ MemoryOK' /\ ConsumerOK'
  BY <1>2 DEF TypeOK, DbOK, MemoryOK, ConsumerOK, memory, position, flow, consumer
<1>4. CASE NodeProduce
  <2>1. chain' \in Ids
    BY <1>1, <1>4, IdAppend DEF NodeProduce, TypeOK, NodeOK
  <2>2. NodeOK'
    BY <1>1, <1>4, <2>1, NumbersAssumption DEF NodeProduce, TypeOK, NodeOK, Min2
  <2> QED BY <1>3, <2>2 DEF TypeOK
<1>5. ASSUME NEW k \in 1..MaxBlock, NodeFork(k) PROVE TypeOK'
  <2>1. k - 1 \in 0 .. Len(chain) /\ k <= MaxBlock
    BY <1>1, <1>5 DEF NodeFork
  <2>2. SubSeq(chain, 1, k - 1) \in Ids /\ Len(SubSeq(chain, 1, k - 1)) = k - 1
    BY <1>1, <2>1, IdPrefix
  <2>3. epoch + 1 \in 0..MaxForks
    BY <1>5, NumbersAssumption DEF NodeFork, TypeOK, NodeOK
  <2>4. chain' \in Ids
    <3> DEFINE kept == SubSeq(chain, 1, k - 1)
    <3>1. chain' = Append(kept, epoch + 1)
      BY <1>5 DEF NodeFork
    <3>2. kept \in Ids /\ Len(kept) < MaxBlock
      BY <2>1, <2>2, NumbersAssumption
    <3> HIDE DEF kept
    <3> QED BY <2>3, <3>1, <3>2, IdAppend
  <2>5. NodeOK'
    BY <1>5, <2>1, <2>3, <2>4, NumbersAssumption DEF NodeFork, TypeOK, NodeOK, Min2
  <2> QED BY <1>3, <2>5 DEF TypeOK
<1>6. CASE NodeLib
  BY <1>1, <1>3, <1>6, NumbersAssumption DEF NodeLib, TypeOK, NodeOK, BlockNums
<1>7. CASE NodeFailOver
  BY <1>3, <1>7, NumbersAssumption DEF NodeFailOver, TypeOK, NodeOK, BlockNums
<1> QED BY <1>4, <1>5, <1>6, <1>7 DEF Node

\* The remaining steps of the receiver and its end keep the types.
LEMMA ReceiverType ==
  ASSUME TypeOK, request_blocks \/ PauseTimer \/ StaleAbort \/ Stop \/ ConsumerAck
  PROVE  TypeOK'
<1>1. /\ head \in BlockNums /\ head_id \in Ids /\ irreversible \in BlockNums
      /\ exporter_acked_block \in BlockNums /\ forked_at_block \in 0 .. MaxBlock + 1
      /\ slowdown_requested \in BOOLEAN /\ start_block_num \in {0, StartBlock}
      /\ IsDatabase(db) /\ \A r \in db.base .. db.rev : TablesOK(db.at[r])
  BY DEF TypeOK, MemoryOK, DbOK
<1>2. CASE request_blocks \/ PauseTimer
  <2>1. DbOK' /\ MemoryOK'
    BY <1>1, <1>2, ContinueReadType DEF request_blocks, PauseTimer
  <2>2. NodeOK' /\ ConsumerOK'
    BY <1>2 DEF request_blocks, PauseTimer, TypeOK, NodeOK, ConsumerOK, node, consumer
  <2> QED BY <2>1, <2>2 DEF TypeOK
<1>3. CASE StaleAbort \/ Stop
  BY <1>3, StoppedMemoryOK
     DEF StaleAbort, Stop, Stopped, TypeOK, NodeOK, DbOK, ConsumerOK, node, consumer
<1>4. CASE ConsumerAck
  <2>1. Len(view) \in BlockNums
    BY LenProperties DEF TypeOK, ConsumerOK, Ids, BlockNums
  <2>2. NodeOK' /\ DbOK' /\ MemoryOK'
    BY <1>1, <1>4, <2>1, AckType DEF ConsumerAck
  <2> QED BY <1>4, <2>2 DEF ConsumerAck, TypeOK, ConsumerOK, consumer
<1> QED BY <1>2, <1>3, <1>4

\* Snapshots keep the types.
LEMMA SnapshotType ==
  ASSUME TypeOK, SaveSnapshot \/ RestoreSnapshot
  PROVE  TypeOK'
<1>1. UNCHANGED <<node, toSend, phase, memory, consumer>>
  BY DEF SaveSnapshot, RestoreSnapshot
<1>2. NodeOK' /\ MemoryOK' /\ ConsumerOK'
  BY <1>1 DEF TypeOK, NodeOK, MemoryOK, ConsumerOK, node, memory, position, flow, consumer
<1>3. IsDatabase(db) /\ \A r \in db.base .. db.rev : TablesOK(db.at[r])
  BY DEF TypeOK, DbOK
<1>4. CASE SaveSnapshot
  <2>1. DbOK'
    BY <1>3, <1>4, UndoAllFacts DEF SaveSnapshot, DbOK, IsDatabase
  <2> QED BY <1>2, <2>1 DEF TypeOK
<1>5. CASE RestoreSnapshot
  <2>1. TablesOK(Current(db)) /\ db' = Opened(0, Current(db))
    BY <1>3, <1>5 DEF RestoreSnapshot, Restored, Current, IsDatabase
  <2>2. DbOK'
    BY <2>1, OpenedFacts DEF DbOK
  <2> QED BY <1>2, <2>2 DEF TypeOK
<1> QED BY <1>4, <1>5

LEMMA NextType == TypeOK /\ [Next]_vars => TypeOK'
<1> SUFFICES ASSUME TypeOK, [Next]_vars PROVE TypeOK' OBVIOUS
<1>1. CASE Node
  BY <1>1, NodeType
<1>2. CASE load_state
  BY <1>2, LoadStateType
<1>3. CASE receive_result
  BY <1>3, ReceiveType
<1>4. CASE DeliverBlock \/ DeliverFork
  BY <1>4, DeliverType
<1>5. CASE request_blocks \/ PauseTimer \/ StaleAbort \/ Stop \/ ConsumerAck
  BY <1>5, ReceiverType
<1>6. CASE SaveSnapshot \/ RestoreSnapshot
  BY <1>6, SnapshotType
<1>7. CASE UNCHANGED vars
  BY <1>7 DEF vars, node, memory, position, flow, consumer,
              TypeOK, NodeOK, DbOK, MemoryOK, ConsumerOK
<1> QED BY <1>1, <1>2, <1>3, <1>4, <1>5, <1>6, <1>7 DEF Next, Receiver, Consumer, Operator

\* In every behaviour, whatever the node, the consumer and the operator do, the
\* members of the receiver and the rows of its database keep their types: no
\* block number leaves the range of blocks the node has.
THEOREM TypeCorrect == Spec => []TypeOK
BY InitType, NextType, PTL DEF Spec

(* ----------------------------- flow control ----------------------------- *)

\* Block numbers are counted modulo UModulus without wrapping.
NoWrap == MaxBlock < UModulus

\* The node is never ahead of the receiver; a read is outstanding only with every
\* fork confirmed and below the limit; a fork is confirmed at the head or above.
FlowInv ==
  /\ Connected => toSend <= head + 1
  /\ WillAck /\ phase = "reading" =>
       forked_at_block = 0 /\ head < exporter_acked_block + MaxUnconfirmed
  /\ WillAck /\ Alive => IF forked_at_block = 0
                         THEN head <= exporter_acked_block + MaxUnconfirmed
                         ELSE head <= forked_at_block

\* Without a pause the limit is not reached, although the difference is unsigned.
LEMMA UnconfirmedBelow ==
  ASSUME NoWrap, NEW h \in BlockNums, NEW acked \in BlockNums,
         Unconfirmed(h, acked) < MaxUnconfirmed
  PROVE  h < acked + MaxUnconfirmed
<1>1. CASE h < acked
  BY <1>1, NumbersAssumption DEF BlockNums
<1>2. CASE h >= acked
  <2>1. h - acked \in 0 .. UModulus - 1
    BY <1>2, NumbersAssumption DEF NoWrap, BlockNums
  <2>2. (h - acked) % UModulus = h - acked
    BY <2>1, NumbersAssumption
  <2> QED BY <2>2, NumbersAssumption DEF Unconfirmed, BlockNums
<1> QED BY <1>1, <1>2, NumbersAssumption DEF BlockNums

LEMMA ContinueFlow ==
  ASSUME NoWrap, NEW d, NEW h \in BlockNums, NEW hid, NEW irr,
         NEW acked \in BlockNums, NEW forked \in 0 .. MaxBlock + 1,
         continue_read(d, h, hid, irr, acked, forked), toSend' <= h + 1,
         WillAck => IF forked = 0 THEN h <= acked + MaxUnconfirmed ELSE h <= forked
  PROVE  FlowInv'
<1>1. CASE phase' = "stopped"
  BY <1>1 DEF FlowInv, Connected, Alive
<1>2. CASE phase' # "stopped"
  <2>1. /\ head' = h /\ exporter_acked_block' = acked /\ forked_at_block' = forked
        /\ phase' = IF MustPause(h, acked, forked, slowdown_requested, Len(events'))
                    THEN "paused" ELSE "reading"
    BY <1>2 DEF continue_read
  <2>2. WillAck /\ phase' = "reading" => forked = 0 /\ h < acked + MaxUnconfirmed
    <3> SUFFICES ASSUME WillAck, phase' = "reading"
                 PROVE  forked = 0 /\ h < acked + MaxUnconfirmed
      OBVIOUS
    <3>1. ~(forked > 0) /\ ~(Unconfirmed(h, acked) >= MaxUnconfirmed)
      BY <2>1 DEF MustPause
    <3>2. Unconfirmed(h, acked) \in Int
      BY NumbersAssumption DEF Unconfirmed, BlockNums
    <3>3. Unconfirmed(h, acked) < MaxUnconfirmed
      BY <3>1, <3>2, NumbersAssumption
    <3> QED BY <3>1, <3>3, UnconfirmedBelow
  <2> QED BY <2>1, <2>2 DEF FlowInv
<1> QED BY <1>1, <1>2

\* A process that ends, or a step of the node, disturbs no flow control.
LEMMA KeptFlow ==
  ASSUME FlowInv, toSend' <= toSend, toSend \in Int, toSend' \in Int, head \in Int,
         UNCHANGED <<phase, head, flow>>
  PROVE  FlowInv'
BY DEF FlowInv, Connected, Alive, flow

LEMMA StoppedFlow == ASSUME phase' = "stopped" PROVE FlowInv'
BY DEF FlowInv, Connected, Alive

LEMMA LoadStateFlow == ASSUME TypeOK, FlowInv, load_state PROVE FlowInv'
<1>1. CASE phase' = "stopped"
  BY <1>1, StoppedFlow
<1>2. CASE phase' # "stopped"
  <2>1. /\ phase' = "connecting"
        /\ forked_at_block' = 0 \/ forked_at_block' = head' + 1
        /\ WillAck => exporter_acked_block' = head'
    BY <1>2 DEF load_state
  <2>2. head' \in Nat
    BY LoadStateType DEF TypeOK, MemoryOK, BlockNums
  <2> QED BY <2>1, <2>2, NumbersAssumption DEF FlowInv, Connected
<1> QED BY <1>1, <1>2

LEMMA AckFlow ==
  ASSUME TypeOK, FlowInv, NEW n \in BlockNums, NEW slow, ack_block(n, slow)
  PROVE  FlowInv'
<1>0. /\ head \in Nat /\ exporter_acked_block \in Nat /\ forked_at_block \in Nat
      /\ n \in Nat /\ MaxUnconfirmed \in Nat \ {0}
  BY NumbersAssumption DEF TypeOK, MemoryOK, BlockNums
<1>1. CASE forked_at_block = 0 /\ n < exporter_acked_block
  BY <1>1, StoppedFlow DEF ack_block, Stopped
<1>2. CASE ~(forked_at_block = 0 /\ n < exporter_acked_block)
  <2>1. /\ exporter_acked_block' = IF AckTaken(n) THEN n ELSE exporter_acked_block
        /\ forked_at_block' = IF FlowResumes(n) THEN 0 ELSE forked_at_block
        /\ phase' = phase /\ head' = head /\ toSend' = toSend
    BY <1>2 DEF ack_block, position
  <2>2. CASE forked_at_block = 0
    <3>1. exporter_acked_block' = n /\ n >= exporter_acked_block /\ forked_at_block' = 0
      BY <1>0, <1>2, <2>1, <2>2 DEF AckTaken
    <3> QED BY <1>0, <2>1, <2>2, <3>1 DEF FlowInv, Connected, Alive
  <2>3. CASE forked_at_block > 0 /\ FlowResumes(n)
    <3>1. exporter_acked_block' = forked_at_block - 1 /\ forked_at_block' = 0
      BY <1>0, <2>1, <2>3 DEF AckTaken, FlowResumes
    <3> QED BY <1>0, <2>1, <2>3, <3>1 DEF FlowInv, Connected, Alive
  <2>4. CASE forked_at_block > 0 /\ ~FlowResumes(n)
    BY <1>0, <2>1, <2>4 DEF FlowInv, Connected, Alive
  <2> QED BY <1>0, <2>2, <2>3, <2>4
<1> QED BY <1>1, <1>2

LEMMA ReceiveFlow ==
  ASSUME NoWrap, TypeOK, FlowInv, receive_result
  PROVE  FlowInv'
<1>1. PICK n \in 1..MaxBlock :
        /\ \/ ResultRefused(n)
           \/ RollbackForEver(n)
           \/ RollbackFails(n)
           \/ MessageRejected(n)
           \/ BlockDropped(n)
           \/ TracesRejected(n)
           \/ BlockStored(n)
        /\ toSend' = n + 1
  BY DEF receive_result
<1>2. /\ head \in Nat /\ exporter_acked_block \in BlockNums /\ MaxBlock \in Nat
      /\ n \in BlockNums /\ forked_at_block \in 0 .. MaxBlock + 1
      /\ MaxUnconfirmed \in Nat \ {0}
  BY NumbersAssumption DEF TypeOK, MemoryOK, BlockNums
<1>3. phase = "reading" /\ n = toSend
  BY <1>1 DEF ResultRefused, RollbackForEver, RollbackFails, MessageRejected, BlockDropped,
              TracesRejected, Begun, BlockStored, Usable, Result
<1>4. n <= head + 1
  BY <1>3 DEF FlowInv, Connected
<1>5. AckedAfter(n) \in BlockNums /\ ForkedAfter(n) \in 0 .. MaxBlock + 1
  BY <1>2 DEF AckedAfter, ForkedAfter, Min2, BlockNums
<1>6. WillAck => IF ForkedAfter(n) = 0 THEN n <= AckedAfter(n) + MaxUnconfirmed
                                       ELSE n <= ForkedAfter(n)
  <2>1. CASE IsFork(n)
    BY <1>2, <2>1 DEF ForkedAfter
  <2>2. CASE ~IsFork(n)
    <3>1. ForkedAfter(n) = forked_at_block /\ AckedAfter(n) = exporter_acked_block
      BY <2>2 DEF ForkedAfter, AckedAfter
    <3> QED BY <1>2, <1>3, <1>4, <3>1 DEF FlowInv, BlockNums
  <2> QED BY <2>1, <2>2
<1>7. CASE ResultRefused(n) \/ RollbackForEver(n) \/ RollbackFails(n) \/ MessageRejected(n)
  <2>1. phase' \in {"closed", "spinning"} /\ UNCHANGED <<head, flow>>
    BY <1>7 DEF ResultRefused, RollbackForEver, RollbackFails, MessageRejected, memory, position
  <2> QED BY <1>3, <2>1 DEF FlowInv, Connected, Alive, flow
<1>8. CASE BlockDropped(n) \/ TracesRejected(n)
  <2>1. /\ phase' = "closed" /\ head' = n
        /\ forked_at_block' = ForkedAfter(n) /\ exporter_acked_block' = AckedAfter(n)
    BY <1>8 DEF BlockDropped, TracesRejected, Begun
  <2> QED BY <1>6, <2>1 DEF FlowInv, Connected
<1>9. CASE BlockStored(n)
  <2>1. PICK d : continue_read(d, n, BlockId(n), lib, AckedAfter(n), ForkedAfter(n))
    BY <1>9 DEF BlockStored
  <2>2. toSend' <= n + 1
    BY <1>1, <1>2
  <2> QED BY <1>2, <1>5, <1>6, <2>1, <2>2, ContinueFlow
<1> QED BY <1>1, <1>7, <1>8, <1>9

LEMMA ReadOnFlow ==
  ASSUME NoWrap, TypeOK, FlowInv, request_blocks \/ PauseTimer
  PROVE  FlowInv'
<1>1. continue_read(db, head, head_id, irreversible, exporter_acked_block, forked_at_block)
  BY DEF request_blocks, PauseTimer
<1>2. /\ head \in BlockNums /\ exporter_acked_block \in BlockNums
      /\ forked_at_block \in 0 .. MaxBlock + 1
  BY DEF TypeOK, MemoryOK
<1>3. toSend' <= head + 1
  <2>1. CASE request_blocks
    <3>1. PICK n \in 1 .. MaxBlock + 1 : IsFirstToSend(n) /\ toSend' = n
      BY <2>1 DEF request_blocks
    <3> QED BY <3>1 DEF IsFirstToSend
  <2>2. CASE PauseTimer
    BY <2>2 DEF PauseTimer, FlowInv, Connected
  <2> QED BY <2>1, <2>2
<1>4. WillAck => IF forked_at_block = 0 THEN head <= exporter_acked_block + MaxUnconfirmed
                                        ELSE head <= forked_at_block
  BY DEF FlowInv, Alive, request_blocks, PauseTimer
<1> QED BY <1>1, <1>2, <1>3, <1>4, ContinueFlow

LEMMA NodeFlow == ASSUME TypeOK, FlowInv, Node PROVE FlowInv'
<1>1. toSend \in Int /\ head \in Int /\ Len(chain) \in Int
  BY LenProperties DEF TypeOK, NodeOK, MemoryOK, BlockNums, Ids
<1>2. UNCHANGED <<phase, head, flow>>
  BY DEF Node, NodeProduce, NodeFork, NodeLib, NodeFailOver, memory, position
<1>3. toSend' <= toSend /\ toSend' \in Int
  <2>1. CASE NodeProduce
    BY <1>1, <2>1 DEF NodeProduce, Min2
  <2>2. ASSUME NEW k \in 1..MaxBlock, NodeFork(k) PROVE toSend' <= toSend /\ toSend' \in Int
    BY <1>1, <2>2, NumbersAssumption DEF NodeFork, Min2
  <2>3. CASE NodeLib \/ NodeFailOver
    BY <1>1, <2>3 DEF NodeLib, NodeFailOver
  <2> QED BY <2>1, <2>2, <2>3 DEF Node
<1> QED BY <1>1, <1>2, <1>3, KeptFlow

LEMMA NextFlow == NoWrap /\ TypeOK /\ FlowInv /\ [Next]_vars => FlowInv'
<1> SUFFICES ASSUME NoWrap, TypeOK, FlowInv, [Next]_vars PROVE FlowInv' OBVIOUS
<1>1. toSend \in Int /\ head \in Int
  BY DEF TypeOK, NodeOK, MemoryOK, BlockNums
<1>2. CASE Node
  BY <1>2, NodeFlow
<1>3. CASE load_state
  BY <1>3, LoadStateFlow
<1>4. CASE request_blocks \/ PauseTimer
  BY <1>4, ReadOnFlow
<1>5. CASE receive_result
  BY <1>5, ReceiveFlow
<1>6. CASE StaleAbort \/ Stop
  BY <1>6, StoppedFlow DEF StaleAbort, Stop, Stopped
<1>7. CASE ConsumerAck
  <2>1. Len(view) \in BlockNums
    BY LenProperties, NumbersAssumption DEF TypeOK, ConsumerOK, Ids, BlockNums
  <2> QED BY <1>7, <2>1, AckFlow DEF ConsumerAck
<1>8. CASE DeliverBlock
  <2>1. UNCHANGED <<toSend, phase, head, flow>>
    BY <1>8 DEF DeliverBlock, position
  <2> QED BY <1>1, <2>1, KeptFlow
<1>9. CASE DeliverFork
  <2>1. CASE MayAck
    <3>1. Head(events).num - 1 \in BlockNums
      <4>1. events # <<>> /\ events \in Seq(ForkEvents \cup BlockEvents)
            /\ Head(events).type = "FORK"
        BY <1>9 DEF DeliverFork, Deliverable, TypeOK, ConsumerOK
      <4>2. Head(events) \in ForkEvents \cup BlockEvents
        BY <4>1, HeadTailProperties
      <4>3. Head(events).num \in 1 .. MaxBlock + 1
        BY <4>1, <4>2 DEF ForkEvents, BlockEvents
      <4> QED BY <4>3, NumbersAssumption DEF BlockNums
    <3>2. ack_block(Head(events).num - 1, SlowdownAfter)
      BY <1>9, <2>1 DEF DeliverFork
    <3> QED BY <3>1, <3>2, AckFlow
  <2>2. CASE ~MayAck
    <3>1. UNCHANGED <<toSend, phase, head, flow>>
      BY <1>9, <2>2 DEF DeliverFork, position
    <3> QED BY <1>1, <3>1, KeptFlow
  <2> QED BY <2>1, <2>2
<1>10. CASE SaveSnapshot \/ RestoreSnapshot
  <2>1. UNCHANGED <<toSend, phase, head, flow>>
    BY <1>10 DEF SaveSnapshot, RestoreSnapshot, memory, position
  <2> QED BY <1>1, <2>1, KeptFlow
<1>11. CASE UNCHANGED vars
  <2>1. UNCHANGED <<toSend, phase, head, flow>>
    BY <1>11 DEF vars, memory, position
  <2> QED BY <1>1, <2>1, KeptFlow
<1> QED BY <1>2, <1>3, <1>4, <1>5, <1>6, <1>7, <1>8, <1>9, <1>10, <1>11
        DEF Next, Receiver, Consumer, Operator

\* check_pause and ack_block keep the receiver within exp-ws-max-unack of the
\* acknowledged block while every fork is confirmed, and let no read be outstanding
\* while one is not: in any environment, as long as the block numbers do not wrap.
THEOREM FlowIsBounded == ASSUME NoWrap PROVE Spec => []UnconfirmedIsBounded
<1>1. Init => FlowInv
  BY DEF Init, FlowInv, Connected, Alive
<1>2. TypeOK /\ FlowInv /\ [Next]_vars => FlowInv'
  BY NextFlow
<1>3. TypeOK /\ FlowInv => UnconfirmedIsBounded
  BY DEF FlowInv, UnconfirmedIsBounded
<1> QED BY <1>1, <1>2, <1>3, TypeCorrect, PTL DEF Spec
=============================================================================
