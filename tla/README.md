# TLA+ models of eos-chronicle

`chronicle-receiver` reads blocks, table deltas and traces from the
`state_history` plugin of a nodeos and hands them, as JSON, to a consumer over a
websocket. This directory models the parts of it that keep state and checks them
with TLC; what matters most is also proved with TLAPS. Line numbers without a
file refer to `chronicle-receiver/receiver_plugin.cpp`; `exp_ws` is
`chronicle-receiver/exp_ws_plugin.cpp`, `decoder` is
`chronicle-receiver/decoder_plugin.cpp`.

## 1. The system

### Components

| Component | Code | State | Operations | Module |
|---|---|---|---|---|
| scanning receiver | `receiver_plugin.cpp` | `head`, `head_id`, `irreversible`, `forked_at_block`, `exporter_acked_block`, `slowdown_requested`, `start_block_num`; rows `state_object`, `received_block` | `load_state`, `start_read`, `request_blocks`, `receive_result`, `save_state`, `commit_db`, `continue_read`/`check_pause`, `ack_block`, `slowdown`, `abort_receiver` | `ScanReceiver` |
| snapshots | 1357-1535, `chronicle_portable_state.hpp` | a file | `write_snapshot`, `read_snapshot` | `ScanReceiver`, `BlockContent` |
| database | chainbase, external | a stack of undo sessions, numbered by revision, in shared memory | `start_undo_session`/`push`, `undo`, `commit`, `set_revision` | `Chainbase` |
| ABI store and context | 912-1181, decoder 142-224 | tables `contract_abi`, `contract_abi_history`; `contract_abi_ctxt`, `contract_abi_imported` in memory | `receive_deltas`, `save_contract_abi`, `clear_contract_abi`, `get_contract_abi_ready`, `init_contract_abi_ctxt` | `BlockContent` |
| filters | 947-960, 1184-1275 | options | the loop of `receive_traces`, the tests of `receive_deltas` | `BlockFilters` |
| interactive receiver | 656-738, 1148-1165 | `interactive_req_queue`, `interactive_req_pending`, `end_block_num`, its own context | `on_block_req`, `process_interactive_reqs`, `receive_result` | `InteractiveReceiver`, `RequestServer` |
| shared-memory lock | 658, 740, 797, 1153-1172 | a mutex in `lock.bin` | lock/unlock by two processes | `InteractiveReceiver` |
| timers, exporter | 496-603, 1315-1351, exp_ws 237-404 | `pause_timer`, `pause_time`, `stale_check_timer`, `async_queue`, `mytimer`, send pause | the chains of asio handlers that read, pause, watch and send | `ReaderTimers` |
| decoder's JSON | `decoder_plugin.cpp` | subscriptions | one message, and perhaps an error, for every event | `EventLoop`; formatting is not modelled |
| application | `main.cpp`, 1844-1881, appbase | its queue of handlers by priority | plugins start, dependencies register, handlers run | `EventLoop`, `ReaderTimers`; option parsing and `systemd/` are not modelled |
| `exp-dummy-plugin`, build files | `examples/`, `pinned_build/` | none | | not modelled |

### How they interact

The plugins start one after the other, in any order; the receiver waits with a
timer until decoder and exporter have started: an event that is published before the decoder has
subscribed is gone, and before the exporter has started the restart position counts as unacknowledged.
Dependencies register, and the exporter subscribes to the decoder's channels, when the plugins are
initialised, which is before any of them is started.

One scanning process is one thread: the appbase `io_service` runs the handlers of
the stream, the timers, the channels and the websocket. Handlers never overlap,
but they interleave, and their priorities differ: stream 40, channels 50,
decoder 55, exporter 60. `receive_result` handles one block completely: it
detects a fork, rolls the database back, opens an undo session, stores the
block's tables, publishes events on channels, pushes the session, commits what
may be committed and asks for the next read. The decoder takes the events from
the channels and asks the receiver for ABIs; the exporter queues the JSON, calls
`slowdown` before each message it writes, and calls `ack_block` when the consumer
acknowledges. A restart loses the events and the memory, not the database. An exception in a handler
closes the stream, but does not end the process: only the stale timer does, if a block was ever received.

An interactive process opens the same database, which the scanning process writes,
takes ranges of blocks from its consumer and reads them from the node one range
after the other, with ABIs from the history table. Both processes take the mutex in
`lock.bin`: the scanning one for a rollback and again for storing the block, the interactive one
for the comparison of a request with the head and for finding a row of the history. It reads
the row after it has released the mutex.

`--save-snapshot` and `--restore-snapshot` are runs of their own between two scanning
processes: one reverts the database and writes its tables to a file, the other
fills an empty database with them.

### What is hard, and the properties that matter

- **Forks, restarts and commits together.** Revision numbers must be block
  numbers, the rollback must end, nothing committed may be replaced, and a
  restart must resume at a block the consumer has processed.
  (`RevisionTracksHead`, `CommittedIsFinal`, `UndoStatesOnOneChain`,
  `RollbackTerminates`, `RestartPointProcessed`, `PositionsCoverReversible`,
  `FollowsChain`)
- **The consumer sees one chain** although events, FORK notices and
  acknowledgements cross each other. (`ConsumerContinuity`)
- **Three reasons to pause** (slowdown, unacknowledged blocks, unconfirmed fork)
  and one to stop: no deadlock, no overrun. (`UnconfirmedIsBounded`, `CatchesUp`,
  `SlowdownEnds`, `StopsAtEnd`)
- **A cache beside a table**: the ABI context survives blocks but not forks; the
  decoder runs after `receive_result` returned. (`ContextAgrees`,
  `TableIsLatestUsable`, `HistoryIsBranch`, `DecodedAsOfBlock`)
- **Requests that overlap** with those under way. (`ServedInOrder`,
  `PendingIsExact`, `RequestsServed`, `ServesRequests`)
- **Two processes on one database**, one of which reads a row after it gave the lock back.
  (`FoundRowIsAlive`, `OwnRowIsFound`, `LatestOwnAbi`)
- **Snapshots**: what a restored database has to hold for everything above to stay true.
  (`PositionsCoverReversible`, `HistoryIsBranch`, `RevisionTracksHead`, with
  `RestoreSnapshot` among the steps)
- **Chains of handlers** that must neither die nor double. (`OneReader`,
  `OneSender`, `NoMessageWaits`, `PausesEnd`, `StopsWithNode`, `SilenceEnds`,
  `StaleMeansQuiet`)
- **An event takes two handlers** to the consumer's queue, with priorities between them and an
  exception anywhere in the block. (`MessagesInOrder`)
- **Exceptions at every point of a block**: before the rollback, after the FORK event was published, in the
  middle of the rows, after the revision was pushed. (`ConsumerContinuity`, `UnconfirmedIsBounded`,
  `FollowsChain`, `DecodedAsOfBlock`, `SilenceEnds`)

`PROJECT.json` lists every hazard at its line with the properties that cover it.

## 2. The modules

```
Chainbase --- ScanReceiver --- ScanReceiverProofs --- ScanSafetyProofs
   |               |  |                                   '- ScanRefinementProofs --- ScanConsumerProofs
   |               |  '- MCScanReceiver
   |               '- (implements ChainFollower)
   |--- ChainbaseProofs
   '--- BlockContent --- InteractiveReceiver --- InteractiveProofs
        (BlockFilters)     |     (implements RequestServer)
           |               '- MCInteractiveReceiver
           '- MCBlockContent, ContentSafetyProofs
EventLoop --- ReaderTimers --- MCReaderTimers, TimersProofs
```

**`Chainbase`** is the external library as the receiver uses it: `base` is the
revision that can no longer be undone, `rev` the current one, `at` the tables at
every revision between. `PushSession`, `UndoTo`, `UndoAll`, `Commit` and
`SetRevision` are the calls; a session that is not pushed leaves no trace.

**`ScanReceiver`** composes the receiver with its database, a node, a queue of
events and a consumer. The id of block *n* is the sequence of the fork epochs of
blocks 1..n, so that "same hash" is equality and "previous id" is `Front`.
Actions and code:

| Action | Code |
|---|---|
| `load_state` | `revert_uncommitted_revisions` and `load_state`, 398-470: with or without a database, with or without `start-block` |
| `request_blocks` | `start_read`'s handler, `receive_abi`, `request_blocks`, 496-540, 606-653 |
| `receive_result` | 710-868, one disjunct per way out: a message that is not decoded (`MessageRejected`), an exception before the rollback (`ResultRefused`), a rollback that never ends (`RollbackForEver`) or ends with no stack (`RollbackFails`), an exception after the FORK event and before the push, from `receive_block`, `receive_deltas` or the unique index of the rows (`BlockDropped`: the undo session is dropped, the members and the FORK event stay), an exception in `receive_traces` after the commit (`TracesRejected`: stored, never completed), or a stored block with everything that follows (`BlockStored`: FORK event, acknowledgement moved back, rows, `save_state`, push, commit, `continue_read`) |
| `PauseTimer` | `continue_read` again when `pause_timer` fires, 571-580 |
| `DeliverBlock`, `DeliverFork` | `async_send_events` and the consumer's processing; the consumer answers FORK(n) with an acknowledgement of n-1, as `testing/chronicle-ws-dumper.pl` does |
| `ConsumerAck` | exp_ws 253-273, `ack_block` (1904-1935) |
| `Stop`, `StaleAbort` | the end of a process between two handlers: `close_ws`, an acknowledgement that is no block number (exp_ws 262-268), `abort_receiver`; `check_stale_head` after an exception closed the stream |
| `SaveSnapshot`, `RestoreSnapshot` | `write_snapshot`, `read_snapshot`, 1357-1535: `chainbase` is reverted without a FORK event; the state and the `received_block` rows go into a database whose revision is 0 |
| `NodeProduce`, `NodeFork`, `NodeLib`, `NodeFailOver` | the environment |

Simplifications, and why they lose nothing the properties speak of. A handler is
one action, because nothing else runs in the thread. The node's request and the
receiver's read meet in one step: what is between them in sockets is in order.
Undelivered events are one queue (channel, exporter, socket) because all three
are FIFO and all three are lost with the process. An acknowledgement is applied at
once: the consumer acknowledges only what it has processed, and a delayed one is a
later `ConsumerAck`. A process ends only between handlers; one that is killed
inside leaves chainbase's dirty flag set and does not start again. `StaleAbort` may also follow a
`MessageRejected` that was the very first result, when the code's timer would wait for ever: one behaviour more, and
`ScanLive` has no exceptions. A snapshot is restored
from the file just saved: the upgrade procedure of the repository's README.
`uint32` arithmetic is modulo `UModulus`, in the difference of two counters, the
only place where it can wrap.

**`ChainFollower`** is what the database promises to its readers: a tip that moves
along one chain, stepping back only above a stable block that never goes back (`Advance`, `Settle`, and `Retreat` to
a block of the same branch, for restarts and for blocks that an exception dropped).
`FollowsChain` is the refinement, with the current state of the database as tip
and the state below the undo stack as stable block.

**`BlockContent`** takes how blocks arrive from `ScanReceiver` (a block extends the
head or replaces reversible ones; the revision is the head number, which is proved
there) and models what is done with them: `AbiTable`, `History` and `Context` are
the effect of all setabi of a block, `ReceiveBlock` also starts the decoder's work
and may end in an exception in the traces, after the push. `DeltasThrow` is an exception before it, after some of
the account rows and then some of the contract rows: the undo session is dropped, but the rows published so far
(`Published`) are decoded all the same, with what the context was loaded with (`Loaded`). `Decode` is the decoder's second lookup, `Stop` and
`Start` are a restart. A commit may reach any revision up to the irreversible block,
so acknowledgements need not be repeated. The order of account rows is a choice
(`early`), because destroying the context in the middle loses the ABIs that were
imported before. `HandlersIdle` is the priority of the decoder over the stream.
`applied` is the history the properties compare with, `dropped` the account rows of the block an exception dropped. `RestoreSnapshot` drops the empty blobs, as
`write_snapshot` does, so that the history forgets removals; `restored` records up to which
block that has happened.

**`BlockFilters`** has the two filters as operators: which action ends the loop of
`receive_traces`, and what that decides.

**`InteractiveReceiver`** extends `BlockContent` (the scanning process) with a second
process. What either of them does under the mutex is one step: `ScannerRolls` is the rollback of a
fork, `ScannerGrows` the storing of a block, and `FindRow` the search in
`get_contract_abi_ready`. `UseRow` is what follows after the mutex is released; when the row it refers
to was undone or modified in between, what it imports is any blob. `wanted` are the accounts the
running handler still has to look up, and no other handler of the process runs meanwhile.
`lower_bound` is the library function with the order of the index it is
called on; `process_interactive_reqs` is called from three handlers and takes
what the caller has changed so far as parameters. A fork takes the request back
to the replaced block, which is what state_history does to an open request. `waits` is what the process
waits for, and it has every end the code has:

| `waits`, action | Code |
|---|---|
| `"abi"`, `ReadAbi` | `start_read`'s handler, 496-511 |
| `"result"`, `receive_result` | 710-868 with `continue_read`; `BlockReceived` is what it has done when it returns or throws |
| `"pause"`, `PauseTimer` | `check_pause`, 544-580 |
| `"refused"`, `AbiRefused` | `receive_abi` throws before `received_blocks` can count: nothing ends this process |
| `"closed"`, `ResultRefused`, `ResultThrows` | `from_bin` throws or the last irreversible block went back (724-728); `receive_block`, `receive_deltas` or `receive_traces` throws after some rows, or all of them and some actions |
| `"ended"`, `StaleAbort` | `check_stale_head`, 586-603, armed in both modes (513-522): some block was received, none since the last check, and no pause |
| `"ended"`, `Stopped` | a signal, a lost connection, a request for no block, on which exp_ws 296-299 throws, or one written to a stream that is closed |
| `"ended"`, `continue_read` | 551-557, see *Observed* |

Requests go on being accepted while the stream is closed and the process has not ended.

**`RequestServer`** is what the interactive receiver promises its consumer: accepted requests
are delivered block by block in their order. `ServesRequests` is the refinement, with the node's
request and the queue as what is left.

**`EventLoop`** is appbase's queue of handlers and the way of an event through it:
`LoadStateEvents` and `BlockEvents` are what the receiver publishes, `Decode` is a handler of the decoder, which
posts one message and, if the data do not fit their ABI, an error; `TakeMessage` is the exporter's
handler. `HasTurn` chooses by priority and then by age. `told` says whether the consumer has heard of a block or a fork
that it can acknowledge. `Types` are the classes
of events whose order can be told apart.

**`ReaderTimers`** composes the loop with the timers of receiver and exporter. `PluginStarts` and
`DependenciesTimer` are the start-up. It models handlers and time: a timer is the number of ticks left, and
all ready handlers run before the next tick. Blocks are numbers here. `continue_read` is `check_pause` with all its
reasons: the consumer has to be waited for (`blocked`, any value a block may lead to), a slowdown,
more than `MaxQueue` handlers waiting, or the block before the end block (`AtEnd`). It reads on, pauses, or, at an end block
that is irreversible (`final`) and acknowledged (`confirmed`), ends the process. A process at the end block whose
block is not irreversible yet is `StuckAtEnd`: finding 2. `ReadThrows` is an exception with nothing done, with
the block counted only, or with the block taken over and some of its events posted, after its FORK if it is one. Handlers of
timers and sockets are not counted in the size of the queue, only those of events.

`MC*` modules hold the values for TLC. `Mutant` comments mark definitions
that are not used by the models: each is a plausible mistake in the definition
after it, with which the property named in `PROJECT.json` fails.

## 3. The runs

TLC, two workers; `Interactive` takes three minutes, the other runs that pass one or two, the findings less than
one.

| Run | What is asked | Distinct states |
|---|---|---|
| `ScanFollow` | the database, the restart point and the stream of events, with restarts, snapshots, two forks, exceptions, an end block and a node that moves back | 2,363,000 |
| `ScanLive` | `CatchesUp` and `SlowdownEnds` under fairness | 215,000 |
| `ScanHostile` | types and the flow control by acknowledgements when every assumption about the environment is dropped; fires every error path | 2,228,000 |
| `Content` | tables, history, context, decoding and filters, with snapshots and exceptions at every point of a block | 127,000 |
| `Interactive` | requests that overlap, rows read outside the lock, with a scanner that forks and restarts, and a process that an exception, the stale check or a stop ends | 1,201,000 |
| `Timers` | start-up, the chains of handlers, the order of messages, and that a process ends when it should, with exceptions and an end block | 563,000 |
| `RollbackPastStart`, `EndBlockReversible`, `LostRestartFork`, `TraceBlacklist`, `InteractiveAbi`, `StaleAfterPause` | one finding each: TLC shows the behaviour | up to 56,000 |

### Bounds, and why they are enough

- *Blocks* 4 to 6 (`MaxBlock`): a fork of depth two above an irreversible block,
  with a block below and one after. `ScanFollow` has four reversible blocks, so that an acknowledgement
  which crosses a FORK, the block read after it and a second fork fit in. *Forks* 2: a fork that is replaced again while the
  first is not confirmed. `epoch` distinguishes every version of a block.
- *Unacknowledged blocks* 2 or 3, *queue* 3 to 5: the limit is reached with and without a fork
  in between. The high watermark is at least 3 so that the low one (three quarters) differs from
  zero and from the high one.
- `StartBlock` = 2 and `EndBlock` = 7 in `ScanFollow`: both boundaries are inside the chain.
- *Accounts* 2, *ABIs* 2, one rejected ABI, the empty one, *blocks* 3, and setabi changes of
  one or both accounts: enough for an ABI that is set, replaced, rejected, removed,
  rolled back and set again on another branch.
- *Traces* of one or two actions, and two configurations, one with
  only a blacklist and one that combines it with receiver and auth: the loop is decided by at most two
  actions, the one that ends it and the one it does not reach.
- *Requests* 2: one may wait while the other runs. *Contents of a block* 3: only an action, only
  rows, both; two accounts, of which one never has an ABI, so that the search in
  the history meets no row, the row of another account, and its own.
- *End block* after two blocks (`LastBlock`), which may or may not be irreversible when it is reached; *receiver
  queue* 3 (`MaxQueue`): the events of a block and its fork exceed it, those of a block alone do not.
- *Messages under way* 5 (`QueueBound`): the events of one block with a fork notice and a
  pause fit in while the previous block is still being sent.
- *Pause* 2 steps, *deadline* 3, *send pause* 4: the growing timers reach their maximum, and a
  pause can be shorter and longer than the deadline. `WriteMax` = 1: a websocket that
  takes less than a pause for a message. If it took longer, the `RCVR_PAUSE` events that
  each pause produces would keep the exporter's queue above its watermark.

`CHECK_DEADLOCK FALSE` is set where the system may really stop: in `ScanHostile` the process
may spin, in `Interactive` all requests may have been served, in `Timers` and
`StaleAfterPause` the process exits.

### Assumptions about the environment

They are constants, so that a run can drop them.

- `NodeKeepsUp`: the node sends a replaced block before that block becomes final.
- `ConsumerKeepsUp`: a FORK event is processed before its block becomes final.
- `RestartForkSurvives`: a process that reverted its database lives until its FORK event
  is delivered.
- `BaseForkIsSound`: an exception does not hit a block that replaces the one right above the undo stack, before it is
  stored. Such a block leaves no undo session, so that the FORK that is still queued is the only one the consumer
  will ever get, and it is lost with the process (see *Observed*).
- `MayReject` = FALSE in `ScanLive`: no exceptions. After one the process ends and starts again, and nothing keeps
  that from happening for ever.
- `OnlyIrreversible`: interactive consumers ask for irreversible blocks, as the
  repository's README tells them to (line 105).
- `RestartsAreQuiet`: the scanning process is not restarted while a request is being served. A
  restart reverts to the last commit, which may be below irreversible blocks that a request
  was checked against.
- `MayRejectAbi` = FALSE: the node's first message is well formed.

### Fairness

`ScanLive`, `EndBlockReversible`, `Interactive` and `Timers` assume weak fairness only.

- The `io_service` runs every handler that is ready: `load_state`, `request_blocks`,
  `receive_result`, `PauseTimer`, `StaleAbort`; `Startup`, `StartRead`, `ReadFails`,
  `PauseExpires`, `StaleExpires`, `SendTimer`, `DecoderStep`, `push_msg`; `ReadAbi`,
  `Results`, `Decodes`, `Lookups`. `Results` needs a block from the node, which has the
  blocks that were asked for. `Lookups` needs the mutex, which nobody keeps.
- The websocket drains, and the consumer acknowledges what it has processed: `DeliverBlock`,
  `DeliverFork`, `ConsumerAck`; `WriteDone`, `Acknowledged(TRUE)` (all it was told of); `SpeedUp`.
- In `ScanLive` and `EndBlockReversible` the chain grows and becomes irreversible
  (`NodeProduce`, `NodeLib`); in `Timers` time passes (`Tick`).

Nothing is assumed of forks, stops, exceptions, slowdowns, new requests, the end of an interactive process
(`StaleAbort` included), and of the scanning process in `Interactive`. `Timers` does not assume that the node sends anything: `SilenceEnds` is
about a node that does not.

## 4. The proofs

TLAPS checks, for every value of the constants the assumptions allow:

| Theorem | Statement |
|---|---|
| `TypeCorrect` (`ScanReceiverProofs`) | `Spec => []TypeOK`, in any environment |
| `FlowIsBounded` | `NoWrap` implies `Spec => []UnconfirmedIsBounded`, in any environment |
| `RevisionAligned` (`ScanSafetyProofs`) | `Environment => (Spec => []RevisionTracksHead)` |
| `CommitFinal` | ... `[]CommittedIsFinal` |
| `UndoOnOneChain` | ... `[]UndoStatesOnOneChain` |
| `RollbackAlwaysEnds` | ... `[]RollbackTerminates` |
| `ImplementsFollower` (`ScanRefinementProofs`) | `Environment => (Spec => FollowsChain)` |
| `PositionsAlwaysCover` | ... `[]PositionsCoverReversible` |
| `RestartPointAlwaysProcessed` (`ScanConsumerProofs`) | `ConsumerEnvironment => (Spec => []RestartPointProcessed)` |
| `ConsumerSeesOneChain` | ... `ConsumerContinuity` |
| `ContextIsTable` (`ContentSafetyProofs`) | `Spec => []ContextAgrees` |
| `ContentTypeCorrect` | `Spec => []TypeOK` |
| `TableAlwaysLatest` | `Spec => []TableIsLatestUsable` |
| `HistoryAlwaysBranch` | `Spec => []HistoryIsBranch` |
| `DecodedAlwaysAsOfBlock` | `Spec => []DecodedAsOfBlock` |
| `FiltersAlwaysComplete` | `Spec => []FiltersAreComplete` |
| `InteractiveTypeCorrect` (`InteractiveProofs`) | `ISpec => []InteractiveTypeOK`, whatever is asked for |
| `PendingIsExactAlways` | `OnlyIrreversible` implies `ISpec => []PendingIsExact` |
| `ImplementsServer` | `OnlyIrreversible` implies `ISpec => ServesRequests` |
| `AlwaysServedInOrder` | `OnlyIrreversible` implies `ISpec => []ServedInOrder` |
| `FoundRowStaysAlive` | `OnlyIrreversible` and `RestartsAreQuiet` imply `ISpec => []FoundRowIsAlive` |
| `OwnRowAlwaysFound` | the same for `OwnRowIsFound` |
| `TimersTypeCorrect` (`TimersProofs`) | `Spec => []TypeOK` |
| `OneReaderAlways` | `Spec => []OneReader` |
| `OneSenderAlways` | `Spec => []OneSender` |
| `NoMessageEverWaits` | `Spec => []NoMessageWaits` |
| `MessagesAlwaysInOrder` | `Spec => MessagesInOrder` |

`Environment` is `NodeKeepsUp /\ StartBlock <= InitLib + 1`. Both parts are needed: without the
first `CommittedIsFinal` fails (see *late re-send* below), without the second the rollback loop may
run for ever (`RollbackPastStart`). The theorems that have only this hypothesis assume nothing of the
consumer, of restarts or of the numbers of blocks and forks.

`ConsumerEnvironment` is what `ScanFollow` is checked under: `Environment`, and `WillAck`,
`ConsumerKeepsUp`, `RestartForkSurvives` and `BaseForkIsSound`; exceptions may strike anywhere else. Without `WillAck` nothing is promised about the restart
point: commits follow the irreversible block, and a stop loses what is queued. Without `ConsumerKeepsUp` a block is
committed that the consumer has not dropped its predecessor for (*late consumer* below), and
without `RestartForkSurvives` or `BaseForkIsSound` a block is delivered that does not extend what the consumer holds
(`LostRestartFork`, *lost FORK* below).

The theorems about `BlockContent` and `ReaderTimers` assume nothing
but the constants' ranges: any accounts, ABIs, changes, traces and filters, exceptions anywhere, any order of
plugins, any end block, watermarks and timeouts.

`TypeCorrect` is inductive as it stands. `ChainbaseProofs` states what each call of the library does to
a well-formed stack (it is one again, with these revisions and these tables), and
the proof uses nothing else about the database.

`FlowIsBounded` needs `NoWrap`, that there are fewer than 2^32 blocks: `head - exporter_acked_block` is
unsigned. `FlowInv` adds two things. The node is never more than one block ahead of the head, so that a
result moves it by one at most; and while a fork is unconfirmed the head is not above it, so that the
acknowledgement which ends the wait leaves one block unacknowledged and not more.

The four safety properties share one inductive invariant, `SafeInv`. None of them is inductive
alone: that the rollback ends needs that no replaced block is below the stack; that needs that what
was committed is final; that needs that the states in the stack are the prefixes of one chain,
numbered by block; and all need what links the receiver to the node: that `lib` never passes a
block which is replaced and not sent again, and that the head as the receiver remembers it is
the one in the database. The proof has a step for each action; the ones of the
environment change one part of the invariant, `BlockStored` changes nearly all of it and is split
into rollback, store and commit.

The refinement needs more than `SafeInv`, and has it in `BranchInv`. `Advance` asks that the
parent of a new block is on the branch that was followed. When the base of the stack holds a state, that
follows from `SafeInv`; when it is the empty database before the start block it does not, so
`BaseBelow` says that the head extends the final chain up to there as well. `Covered` and `Settled` are
for the positions: every state in the stack has a row for each block above its own
irreversible one, and none of them knows of a later irreversible block than the process does, so that
the rows which `AddedRows` drops are no longer needed. From `BranchInv` it also follows that
in this environment `RollbackForEver` never happens and the index never refuses a row (`NoDuplicateRow`). Each action
then maps to a step: a stored block, completed or not (`TracesRejected`), to `Advance`; a restart, `--save-snapshot`, a
rollback to revision 0 and a block that an exception dropped (`BlockDropped`) to `Retreat`, a commit when the end block is reached to `Settle`, the rest to stuttering.

`ConsumerInv` adds the queue and the consumer to `BranchInv`. Its core is `QueueInv`: a consumer that
processes the events in the queue one after the other is handed a block that extends what it holds each time, or drops
blocks at a FORK, and ends up with the head of the database (`Follows`, with what
the consumer holds in between as witness). After an exception it may end up elsewhere: below the head, when the last stored
block was never completed, or below the tip it will be reverted to, when its FORK was published and the block dropped. Then there is
an undo session, and the next process sends a FORK of its own. That is what `BaseForkIsSound` is for: a block that
replaces the one right above the base and is dropped leaves no session. It gives `ConsumerContinuity` at once, because a delivery is the first step of that
path. For the restart point, `SeenInv` says that what can no longer be undone is part of what
the consumer holds. A commit keeps it because the database commits acknowledged blocks only; but the number in
`exporter_acked_block` must mean the block of that number on the branch of the head, and acknowledgements
cross FORK events. So `AckInv` says that the consumer has at least the acknowledged number of blocks and that
the mark is below an unconfirmed fork, and the path says that
of what the consumer holds only blocks which a later FORK in the queue drops can differ from the
head. `ForksInv` and `NoticesInv` are about those FORK events: none drops a block
that is final (`ConsumerKeepsUp`) or permanent, those of `load_state` come first, and `Answered` says that the last one
is followed by the block that replaces it. `StartInv` and
`EndInv` are the two boundaries: nothing before the start block is replaced, and with the end block
everything is committed. `RestInv` is what a restart or a snapshot leaves: without an undo session
the consumer holds, or will hold after the notices in the queue, exactly what the database does.

`ContextIsTable` uses `ContextInv`: the context agrees with the table unless an exception has dropped a block,
and is empty when the process has stopped. Agreement after `ReceiveBlock` holds because a change of an
account the context holds destroys it, and agreement after a rollback because the context is
emptied then.

The other properties of `BlockContent` follow from `ContentInv`, which adds the
tables to it: at every revision in the stack, `contract_abi` and the history are what the changes of the
branch up to that block leave (`TableAs`, `HistoryAs`). A rollback, a commit and a snapshot then only choose among
revisions, and `ReceiveBlock` extends the branch by one set of changes. `DecodedAsOfBlock` needs
that what is pending belongs to the block received last and that the context holds, for each published row, the ABI
the block's account rows left (`PublishedOK`). For a block that was kept the context agrees with the table; for one that
was dropped the table is back at the block before, and what counts is that a row is published only after its ABI was
loaded (`LoadedIsLatest`). That is where `HandlersIdle` is used: no block is received before the decoder is done.

The theorems about the interactive receiver need no run of the scanning process to be
complete: they hold for every interleaving of its locked sections, and whatever exception, stale check or stop ends the
reading. `TypeInv`, the types with the history as
`HistoryOK` describes it, is inductive in any environment; that at most one row is found comes from the order of
the index, in which a lower bound is unique (`OneLowerBound`). `RequestInv` is enough for
`PendingIsExact` and the refinement: the range at the node, the flag and `end_block_num` agree, and no block that was
asked for can be rolled back, because it is irreversible and the undo stack begins
below (`HistoryOK`, which says that a rollback takes from the history exactly the rows of the
blocks it undoes). Without the second part a fork would take the request back and the flag would
not say so. `ReaderInv` adds that the database still has the blocks that are asked for (`Covered`), which a
restart of the scanning process would break, and what was found under the mutex (`FoundInv`): the key is the
contract's latest up to `reader_head`, and since that is irreversible, neither a fork nor a new
block touches its row. `LowerBoundIsLatest` is where the descending order of the index is used.

`ServedInOrder` is about the concatenation of all requests, however many there are. `FlattenSeq` is a
recursive function inside a definition, so what it returns has to be proved by induction. The theorems of the library
for that take an operator and cannot be instantiated, but `SetInduction` does the same for a set of
numbers, from the well-foundedness of `<`. With it the recursive function exists
(`FlattensExists`), is determined by its equation (`FlattensUnique`), and `FlattenSeq` appends what is put behind or before its
argument (`FlattenAppend`, `FlattenCons`). `OrderInv` is then `ServedInOrder` beside `RequestInv`: a
request that is accepted is put behind both sides, one that is sent moves from the queue to the
node, and a block that is delivered moves to `served`.

`TimersProofs` builds its invariants one on the other. `StartInv`: when the reader is launched all plugins
have started, and before that nothing is posted. `ReaderInv`: while the stream is in order exactly one
of a read and a pause is outstanding, and a process that is aborting has no pause, be it closed by an exception or ended
at the end block. `SenderInv`: the exporter waits exactly when `send_pause` is not 0, and
then its queue is empty, so that a message that arrives is written or follows one that is. `LineInv` is the invariant behind
`MessagesInOrder`: what is queued in the event loop is the undecoded part of one handler's events,
behind it the messages of the event before; each may follow the one before it, and the reader only
adds to a queue whose last block is complete, because its priority is the lowest. Only an exception leaves an incomplete
block behind, and then `aborting` keeps anything from being added to it.

Every safety property of the runs that pass is the statement of a theorem. Only model-checked: the
liveness properties, `CatchesUp`, `SlowdownEnds`, `RequestsServed`, `PausesEnd`, `StopsWithNode` and `SilenceEnds`, because fairness
and ENABLED are beyond the prover; and the properties the findings refute.

## 5. Findings

Each has a run with expected violation, and the lines it contradicts in `PROJECT.json`.

1. **`RollbackPastStart`** (760). With `start-block` above the irreversible block, a
   fork below the start block leaves nothing to undo and the loop never ends.
2. **`EndBlockReversible`** (549). The receiver that reached the end block stops reading, so
   `irreversible` does not grow any more and the condition for stopping stays false. Such a process does not notice
   either that nodeos stops or falls silent (no read is outstanding, and the stale check sees a pause), although the
   repository's README (45-47) says that it stops with nodeos. `PausesEnd`, `StopsWithNode` and `SilenceEnds` except
   this case as `StuckAtEnd`, and each of them fails without the exception.
3. **`LostRestartFork`** (398-411). The revert at start is permanent before its FORK
   event has been delivered; if the process ends in between, the next one sends none.
4. **`TraceBlacklist`** (1234). The loop stops at the first action that matches a filter;
   a blacklisted action after it does not drop the transaction.
5. **`InteractiveAbi`** (1155). `lower_bound` may return another account's row, and the code does
   not compare accounts. The context is also emptied when a request is sent (688, 733-737) before
   the previous request's last block has been decoded. The repository's README (96-98) says of this search that it finds "the
   latest copy from a block number that is below the requested block"; the code takes a row of the requested block
   itself, too, so that the two differ for an ABI that is set in that very block. `OwnRowIsFound` states what the code does.
6. **`StaleAfterPause`** (587). The stale timer looks at the pause at the moment it fires: a process
   that has just resumed from one is aborted.

Observed while modelling, without a statement in the repository that says otherwise:

- *Late re-send* (748): with `NodeKeepsUp` = FALSE a block that replaces another and is already irreversible when
  it arrives is not taken for a fork, and `CommittedIsFinal` fails.
- *Late consumer* (1906-1920): with `ConsumerKeepsUp` = FALSE a FORK still in the queue when
  its block becomes final lets the database commit what the consumer has not seen;
  `RestartPointProcessed` fails.
- *Acknowledgement across a fork* (1906-1930): while FORK *n* is still in the queue the consumer acknowledges
  *n*-1 for the block it already has. `ack_block` takes that for the answer to the fork and the reader goes on.
  When the consumer has acknowledged more abandoned blocks, its answer to the FORK is below
  `exporter_acked_block` and the process ends itself. If a second fork has come meanwhile, that answer only lowers
  `exporter_acked_block`: the head may then be more than `exp-ws-max-unack` ahead until the second fork is
  confirmed, which is why `UnconfirmedIsBounded` is about confirmed forks. The runs
  contain the crossing, the second fork and the process that ends itself; the excess needs one block more
  (`EndBlock` = 8 in `ScanFollow`), the theorem `FlowIsBounded` covers it for every number of blocks.
- *Lost FORK* (772-816): the FORK event is published before the block is stored. When the block replaces the one right
  above the undo stack and `receive_block` or `receive_deltas` throws, the rollback has taken the last undo session. If the
  process ends with the event still in its queue, the next one finds nothing to revert, sends no FORK, and the consumer gets
  block *n* over the old *n*. With `BaseForkIsSound` = FALSE in `ScanFollow` TLC finds this in 17 states
  (`ConsumerContinuity`).
- *Rows of a dropped block* (961-967, 815): what `receive_deltas` has published before it throws is decoded, with the
  ABIs of that block, and exported, although the block is never completed and the next process sends it again.
- *Queue of two* (exp_ws 325-330, 464): with `QueueHwm` = 2 the low watermark is 1, the slowdown is evaluated
  with the message that is about to be written still in the queue, and is never lifted.
- `ack_block` does not commit (820): what was acknowledged since the last block is reverted by a
  restart, and the consumer gets it again after a FORK.
- The previous-id check is skipped for a head up to `start_block_num` (781); the test at 749 can never be
  true.
- Without acknowledgements, blocks that were stored but not exported yet are lost when the process ends.
- An exception before the first block closes the stream, and since `received_blocks` is 0
  the stale timer never ends the process (`MayRejectAbi` = TRUE: `SilenceEnds` holds only
  because it excepts this).
- No blacklist is installed by default, although the repository's README (436-439) says so.
- The interactive mode serves reversible blocks (665-673) against its README (105), cannot
  request the head block, and ends itself after the last block of a request if it is
  in a slowdown at that moment (551-557 do not ask for the mode).
- `start_read` arms the stale check in interactive mode, too (513-522), and `check_stale_head` does not ask whether
  anything was requested: an idle process that has served a block is ended at the deadline, also right after
  it has accepted a request. One whose `receive_abi` threw is never ended, and puts requests into its queue for ever.
  The last block that was received before an exception may be incomplete at the consumer, although it counts as `served`. Hence
  `RequestsServed` is about processes that go on reading: a request waits neither behind a pause or a fork nor
  behind another request, but it is lost with the process.
- A rejected ABI leaves the old row in `contract_abi`, but its blob is in the history.
- Snapshots drop the history rows of removed ABIs (1413, 1431): after a restore the
  interactive mode decodes with an ABI its contract had removed, hence the last line of `HistoryIsBranch`.
- `save-snapshot` reverts uncommitted revisions without a FORK event: an upgrade loses it like a
  restart in finding 3.
- `read_snapshot` writes the state row first and without an undo session (1485): a truncated file
  leaves a database that looks valid and that a second attempt refuses.
- `get_contract_abi_ready` uses an iterator after it has released the lock (1153-1162, 1167-1176).
  `FoundRowIsAlive` shows that this does no harm for a contract's own row and irreversible
  blocks. A row of another account (finding 5), or one of a reversible block, may be gone when it is read.
- The rollback loop that never ends (finding 1) holds the mutex, so that interactive processes stop, too.
- `check_pause` commits without the mutex (554). A process that is killed in a locked section leaves
  the mutex locked for all that come after it. Two processes that start on an empty directory may
  both create `lock.bin` (1632).

## 6. Not modelled, and what comes next

Not modelled for good: option parsing, formatting of messages, logging, the handshake that opens
and the one that closes a websocket, chainbase's memory limits and dirty flag, the example exporter,
the build.

Left out of a component that is modelled otherwise: snapshots of an older version and truncated ones;
what an interactive process that was ended and starts again is asked for; the creation of `lock.bin` and a process killed while it holds the
mutex; handlers of timers and sockets in the size of the event queue that `check_pause` compares with `max-queue-size`;
exporters that do not acknowledge and `irreversible-only` in the runs
(`WillAck` = FALSE, `IrreversibleOnly` = TRUE are values that the theorems about `ScanReceiver` cover, but for
the two that need `WillAck`).

Next: the part of `LatestOwnAbi` that does hold, as a theorem, when every contract that is looked up has an
ABI and the context was filled for the request it is used for.
