----------------------------- MODULE ReaderTimers -----------------------------
(***************************************************************************)
(* The timers of the scanning receiver and of exp_ws_plugin: pause_timer   *)
(* and stale_check_timer of receiver_plugin.cpp, mytimer of the exporter.  *)
(* They run in the event loop with the events on their way from the        *)
(* receiver through the decoder to the exporter (EventLoop).               *)
(*                                                                         *)
(* Time passes in ticks.  A timer is the number of ticks left, 0 when its  *)
(* handler is ready, Off when nobody waits for it.  Every handler that is  *)
(* ready runs before the next tick.  What a block is made of, and how      *)
(* acknowledgements are counted, is the matter of ScanReceiver.            *)
(***************************************************************************)
EXTENDS EventLoop

CONSTANTS
  LastBlock,    \* the block before option end-block
  MaxQueue,     \* option max-queue-size
  PauseMax,     \* 500 ms, in steps of 50 ms
  Deadline,     \* option stale-deadline, in ticks
  SendPauseMax, \* 256 ms, in ticks
  WriteMax,     \* environment: ticks the websocket takes for a message, at most
  QueueHwm,     \* option exp-ws-max-queue
  QueueBound,   \* bound: no block is read with so many messages on their way
  MayRejectAbi  \* the first message of the node may be one that throws

ASSUME TimesAssumption ==
  /\ {LastBlock, MaxQueue} \subseteq Nat /\ {PauseMax, Deadline, SendPauseMax, WriteMax, QueueHwm} \subseteq Nat \ {0}
  /\ QueueBound \in Nat /\ MayRejectAbi \in BOOLEAN

VARIABLES
  state,           \* "starting", "connecting", "abi", "up", or "quit": app().quit()
                   \* was called
  node_gone,       \* node: it has stopped
  reads,           \* async_reads outstanding on the stream
  aborting,        \* the stream was closed by an exception
  pause_timer, pause_time,
  stale_check_timer, stale_check_last_head,
  head, received,  \* received: received_blocks > 0
  final,           \* irreversible >= head
  confirmed,       \* exporter_acked_block = head
  blocked,         \* too many unconfirmed blocks, or an unconfirmed fork
  slow,            \* slowdown_requested
  async_queue,     \* messages in the exporter's queue
  writes,          \* async_writes outstanding
  write_left,      \* ticks the last of them may still take
  mytimer, send_pause,
  quiet            \* specification only: ticks the reader has been waiting for

stale     == <<stale_check_timer, stale_check_last_head>>
position  == <<head, received, final, confirmed>>
exporter  == <<async_queue, writes, write_left, mytimer, send_pause, slow>>
reading   == <<reads, pause_timer, pause_time>>
vars == <<state, node_gone, aborting, reading, stale, position, blocked, loop, exporter, quiet>>

Off == -1
Left(t) == IF t > 0 THEN t - 1 ELSE t
Alive == state \in {"abi", "up"}
NoHandlerBefore == StreamMayRun /\ mytimer # 0

(* ------------------------------ receiver ------------------------------- *)

\* Mutant: the pause time is kept when reading resumes.
PauseTimeKept == pause_time
PauseTimeRead == 0

PauseAfter == IF pause_time < PauseMax THEN pause_time + 1 ELSE pause_time

\* Mutant: the next async_read is issued before the test.
ReadsInPauseToo(outstanding) == outstanding + 1
ReadsInPause(outstanding) == outstanding

\* check_pause: the reader does not go on, or it has done its work.
AtEnd == head' = LastBlock
Pauses(isBlocked, events) ==
  isBlocked \/ slow \/ Len(app_queue \o events) > MaxQueue \/ AtEnd
Finished == AtEnd /\ final' /\ confirmed'

\* continue_read and check_pause; outstanding reads and events as the handler
\* left them.  A pause is announced with an event of its own.
continue_read(outstanding, isBlocked, events) ==
  /\ blocked' = isBlocked /\ UNCHANGED <<started, last_msg, told>>
  /\ \/ /\ ~Pauses(isBlocked, events)
        /\ state' = "up" /\ UNCHANGED aborting
        /\ pause_time' = PauseTimeRead /\ pause_timer' = Off
        /\ app_queue' = app_queue \o events
        /\ reads' = outstanding + 1
     \/ /\ Pauses(isBlocked, events) /\ Finished
        /\ state' = "quit" /\ aborting' = TRUE
        /\ pause_timer' = Off /\ UNCHANGED pause_time
        /\ app_queue' = app_queue \o events
        /\ reads' = outstanding
     \/ /\ Pauses(isBlocked, events) /\ ~Finished
        /\ state' = "up" /\ UNCHANGED aborting
        /\ pause_time' = PauseAfter /\ pause_timer' = pause_time'
        /\ app_queue' = app_queue \o events \o <<Event("PAUSE", head')>>
        /\ reads' = ReadsInPause(outstanding)

\* start() and load_state, with a FORK event or without one.  The restart position
\* counts as acknowledged if the exporter has announced acknowledgements by then.
Launched(plugins) ==
  \E isFork \in BOOLEAN :
    /\ app_queue' = app_queue \o LoadStateEvents(plugins, head, isFork)
    /\ blocked' = (isFork \/ "exporter" \notin plugins)

start_after_dependencies(plugins) ==
  IF DependenciesStarted(plugins)
  THEN state' = "connecting" /\ Launched(plugins) /\ pause_timer' = Off
  ELSE pause_timer' = 1 /\ UNCHANGED <<state, blocked, app_queue>>

\* appbase starts the plugins one after the other, in the order of the options.
PluginStarts(p) ==
  /\ state # "quit" /\ p \notin started
  /\ started' = started \cup {p}
  /\ IF p = "receiver"
     THEN start_after_dependencies(started)
     ELSE UNCHANGED <<state, blocked, app_queue, pause_timer>>
  /\ IF p = "exporter" THEN mytimer' = 1 /\ send_pause' = 1 ELSE UNCHANGED <<mytimer, send_pause>>
  /\ UNCHANGED <<last_msg, told, node_gone, aborting, reads, pause_time, stale, position,
                 async_queue, writes, write_left, slow, quiet>>

\* Handlers run when all the plugins have been started.
DependenciesTimer ==
  /\ state = "starting" /\ started = Plugins /\ pause_timer = 0
  /\ start_after_dependencies(started)
  /\ UNCHANGED <<started, last_msg, told, node_gone, aborting, reads, pause_time, stale,
                 position, exporter, quiet>>

ConnectFails ==
  /\ state = "connecting" /\ started = Plugins
  /\ state' = "quit"
  /\ UNCHANGED <<node_gone, aborting, reading, stale, position, blocked, loop, exporter, quiet>>

StartRead ==
  /\ state = "connecting" /\ started = Plugins /\ state' = "abi"
  /\ reads' = 1
  /\ stale_check_last_head' = head /\ stale_check_timer' = Deadline
  /\ UNCHANGED <<node_gone, aborting, pause_timer, pause_time, position, blocked, loop,
                 exporter, quiet>>

\* The handler of an async_read has data.
HasRead(s) == state = s /\ reads > 0 /\ ~aborting /\ ~node_gone /\ NoHandlerBefore
Bounded == Len(app_queue) + async_queue < QueueBound

\* receive_abi, request_blocks.
AbiRead ==
  /\ HasRead("abi") /\ UNCHANGED position
  /\ continue_read(reads - 1, blocked, <<>>)
  /\ quiet' = 0
  /\ UNCHANGED <<node_gone, stale, exporter>>

\* receive_result takes block n over.  A block that replaces others is not
\* irreversible, and the consumer has to confirm the fork.
TakesBlock(n, isBlocked) ==
  /\ HasRead("up") /\ Bounded
  /\ n = head + 1 \/ (n <= head /\ ~final /\ isBlocked)
  /\ head' = n /\ received' = TRUE
  /\ final' \in {FALSE, n > head} /\ confirmed' = FALSE

\* What receive_result has posted of block n when it throws: the fork, if there is
\* one, and the first of the block's own events.
PartOfBlock(n, isFork, posted) ==
  ForkEvents(n, isFork) \o SubSeq(BlockEvents(n, 1), 1, posted)

\* An exception in a handler: catch_and_close.  The message is not decoded; it is
\* refused when the block has been counted; or the block is taken over, and what was
\* posted before the exception stays in the queue.
ReadThrows ==
  /\ \/ HasRead("abi") /\ MayRejectAbi /\ UNCHANGED <<position, blocked, app_queue>>
     \/ HasRead("up") /\ (received \/ MayRejectAbi) /\ UNCHANGED <<position, blocked, app_queue>>
     \/ /\ HasRead("up") /\ received' = TRUE
        /\ UNCHANGED <<head, final, confirmed, blocked, app_queue>>
     \/ \E n \in 1..LastBlock, isBlocked \in BOOLEAN, posted \in 0..2 :
          /\ TakesBlock(n, isBlocked) /\ blocked' = isBlocked
          /\ app_queue' = app_queue \o PartOfBlock(n, n <= head, posted)
  /\ reads' = reads - 1
  /\ aborting' = TRUE
  /\ UNCHANGED <<state, node_gone, pause_timer, pause_time, stale, started,
                 last_msg, told, exporter, quiet>>

\* receive_result: block n and its events.
ResultRead(n, data, isBlocked) ==
  /\ TakesBlock(n, isBlocked)
  /\ continue_read(reads - 1, isBlocked, ForkEvents(n, n <= head) \o BlockEvents(n, data))
  /\ quiet' = 0
  /\ UNCHANGED <<node_gone, stale, exporter>>

\* A result without a block.
EmptyRead ==
  /\ HasRead("up") /\ Bounded /\ UNCHANGED position
  /\ continue_read(reads - 1, blocked, <<>>)
  /\ UNCHANGED <<node_gone, stale, exporter, quiet>>

\* on_fail: the node is gone, or the stream was closed.
\* Mutant: it closes the stream but does not end the process.
StateOnFailKept == state
StateOnFail == "quit"
ReadHasFailed == Alive /\ reads > 0 /\ (node_gone \/ aborting)
ReadFails ==
  /\ ReadHasFailed /\ NoHandlerBefore
  /\ reads' = reads - 1
  /\ state' = StateOnFail
  /\ aborting' = TRUE
  /\ UNCHANGED <<node_gone, pause_timer, pause_time, stale, position, blocked, loop, exporter,
                 quiet>>

PauseExpires ==
  /\ Alive /\ pause_timer = 0 /\ NoHandlerBefore /\ Bounded /\ UNCHANGED position
  /\ continue_read(reads, blocked, <<>>)
  /\ quiet' = IF reads' > reads THEN 0 ELSE quiet
  /\ UNCHANGED <<node_gone, stale, exporter>>

\* check_stale_head.
IsStale == stale_check_last_head = head /\ pause_time = 0 /\ received
StaleExpires ==
  /\ Alive /\ stale_check_timer = 0 /\ NoHandlerBefore
  /\ IF IsStale
     THEN state' = "quit" /\ aborting' = TRUE /\ UNCHANGED stale
     ELSE /\ stale_check_last_head' = head /\ stale_check_timer' = Deadline
          /\ UNCHANGED <<state, aborting>>
  /\ UNCHANGED <<node_gone, reading, position, blocked, loop, exporter, quiet>>

(* ------------------------------ exporter ------------------------------- *)

\* Mutant: the waiting time of the exporter has no limit.
SendPauseUnlimited == IF send_pause = 0 THEN 1 ELSE 2 * send_pause
SendPauseAfter == IF send_pause = 0 THEN 1
                  ELSE IF send_pause < SendPauseMax THEN 2 * send_pause ELSE send_pause

\* async_send_events with q messages waiting.
\* Mutant: a slowdown is lifted only by an empty queue.
SlowAfterEmpty(q) == q >= QueueHwm \/ (slow /\ q > 0)
SlowAfter(q) == q >= QueueHwm \/ (slow /\ q >= (QueueHwm * 3) \div 4)
async_send_events(outstanding) ==
  IF async_queue = 0
  THEN /\ send_pause' = SendPauseAfter
       /\ mytimer' = send_pause'
       /\ writes' = outstanding
       /\ write_left' = Off
       /\ UNCHANGED <<async_queue, slow>>
  ELSE /\ send_pause' = 0 /\ mytimer' = Off
       /\ slow' = SlowAfter(async_queue)
       /\ async_queue' = async_queue - 1
       /\ writes' = outstanding + 1 /\ write_left' = WriteMax

SendTimer ==
  /\ state # "quit" /\ mytimer = 0
  /\ async_send_events(writes)
  /\ UNCHANGED <<state, node_gone, aborting, reading, stale, position, blocked, loop, quiet>>

WriteDone ==
  /\ state # "quit" /\ writes > 0
  /\ async_send_events(writes - 1)
  /\ UNCHANGED <<state, node_gone, aborting, reading, stale, position, blocked, loop, quiet>>

\* The exporter's own handlers come first.
DecoderStep ==
  /\ state # "quit" /\ mytimer # 0
  /\ \E i \in DOMAIN app_queue : Decode(i)
  /\ UNCHANGED <<state, node_gone, aborting, reading, stale, position, blocked, exporter, quiet>>

\* push_msg cancels the wait: the handler of mytimer is ready at once.
\* Mutants: only a long wait is cancelled; it calls async_send_events itself.
CancelledAlways == 0
CancelledLong == IF send_pause > 1 THEN 0 ELSE mytimer
Cancelled == IF send_pause > 0 THEN 0 ELSE mytimer
push_msg ==
  /\ state # "quit" /\ mytimer # 0
  /\ \E i \in DOMAIN app_queue : TakeMessage(i)
  /\ async_queue' = async_queue + 1
  /\ mytimer' = Cancelled
  /\ UNCHANGED <<state, node_gone, aborting, reading, stale, position, blocked, writes,
                 write_left, send_pause, slow, quiet>>

(* ----------------------------- environment ----------------------------- *)

\* An acknowledgement that lets the reader go on, of all blocks or of enough.  The
\* consumer acknowledges only what it was told of.
Acknowledged(all) ==
  /\ state # "quit" /\ told /\ (blocked \/ (all /\ ~confirmed))
  /\ blocked' = FALSE /\ confirmed' = (confirmed \/ all)
  /\ UNCHANGED <<state, node_gone, aborting, reading, stale, head, received, final, loop,
                 exporter, quiet>>

\* The websocket of the consumer is closed or fails: close_ws.
ConsumerGone ==
  /\ state # "quit" /\ "exporter" \in started
  /\ state' = "quit" /\ aborting' = TRUE
  /\ UNCHANGED <<node_gone, reading, stale, position, blocked, loop, exporter, quiet>>

NodeGone ==
  /\ Alive /\ ~node_gone /\ node_gone' = TRUE
  /\ UNCHANGED <<state, aborting, reading, stale, position, blocked, loop, exporter, quiet>>

Tick ==
  /\ state # "quit" /\ started = Plugins /\ NoHandlerBefore
  /\ pause_timer # 0 /\ stale_check_timer # 0 /\ write_left # 0 /\ ~ReadHasFailed
  /\ pause_timer' = Left(pause_timer) /\ stale_check_timer' = Left(stale_check_timer)
  /\ mytimer' = Left(mytimer) /\ write_left' = Left(write_left)
  /\ quiet' = IF reads > 0 /\ quiet < Deadline THEN quiet + 1 ELSE quiet
  /\ UNCHANGED <<state, node_gone, aborting, reads, pause_time, stale_check_last_head,
                 position, blocked, loop, async_queue, writes, send_pause, slow>>

Init ==
  /\ LoopInit /\ state = "starting" /\ node_gone = FALSE /\ aborting = FALSE
  /\ reads = 0 /\ pause_timer = Off /\ pause_time = 0
  /\ stale_check_timer = Off /\ stale_check_last_head = 0
  /\ head = 0 /\ received = FALSE /\ final \in BOOLEAN /\ confirmed = TRUE
  /\ blocked = FALSE /\ slow = FALSE
  /\ async_queue = 0 /\ writes = 0 /\ write_left = Off
  /\ mytimer = Off /\ send_pause = 0
  /\ quiet = 0

Startup == DependenciesTimer \/ \E p \in Plugins : PluginStarts(p)
Results == \E n \in 1..LastBlock, data \in 0..1, isBlocked \in BOOLEAN :
             ResultRead(n, data, isBlocked)
Reader == StartRead \/ ConnectFails \/ AbiRead \/ ReadFails \/ PauseExpires \/ StaleExpires
Acks == \E all \in BOOLEAN : Acknowledged(all)
Sender == SendTimer \/ WriteDone \/ DecoderStep \/ push_msg
Next ==
  \/ Startup \/ Reader \/ Results \/ EmptyRead \/ ReadThrows
  \/ Sender
  \/ Acks \/ ConsumerGone \/ NodeGone \/ Tick

Spec == Init /\ [][Next]_vars

(* Ready handlers run, time passes, the consumer reads and acknowledges all. *)
FairSpec ==
  /\ Spec
  /\ WF_vars(Startup) /\ WF_vars(StartRead) /\ WF_vars(ReadFails)
  /\ WF_vars(PauseExpires) /\ WF_vars(StaleExpires)
  /\ WF_vars(SendTimer) /\ WF_vars(WriteDone)
  /\ WF_vars(DecoderStep) /\ WF_vars(push_msg)
  /\ WF_vars(Acknowledged(TRUE)) /\ WF_vars(Tick)

(* ---------------------------- properties ------------------------------- *)

\* The variables have the types of the members of the two plugins.
TypeOK ==
  /\ LoopOK /\ state \in {"starting", "connecting", "abi", "up", "quit"}
  /\ {node_gone, aborting, received, final, confirmed, blocked, slow} \subseteq BOOLEAN
  /\ {reads, writes, async_queue} \subseteq Nat
  /\ pause_timer \in Off..PauseMax /\ pause_time \in 0..PauseMax
  /\ stale_check_timer \in Off..Deadline /\ {head, stale_check_last_head} \subseteq 0..LastBlock
  /\ mytimer \in Off .. 2 * SendPauseMax /\ send_pause \in 0 .. 2 * SendPauseMax
  /\ write_left \in Off..WriteMax /\ quiet \in 0..Deadline

\* While the stream is in order the reader is either reading or pausing, never
\* both and never neither: no handler ends the flow or starts a second one.
OneReader ==
  Alive /\ ~aborting => reads + (IF pause_timer = Off THEN 0 ELSE 1) = 1

\* The exporter has one write or one wait outstanding: it never writes a message
\* over one that is still being written, and never stops sending.
OneSender ==
  state # "quit" /\ "exporter" \in started => writes + (IF mytimer = Off THEN 0 ELSE 1) = 1

\* A message never waits for the exporter's growing timer: when there is one, a
\* write is in progress or the next handler is the exporter's.
NoMessageWaits == async_queue > 0 /\ state # "quit" => writes > 0 \/ mytimer = 0

\* The consumer gets the messages of a block together and in order, from its start
\* to BLOCK_COMPLETED, with the decoder's errors next to the data they are about,
\* and forks and pauses between blocks, although every message takes two handlers.
MessagesInOrder ==
  [][push_msg => InOrder(last_msg, last_msg')]_vars

\* The reader pauses at the end block, which is not irreversible yet.  It does not
\* read on, so that this lasts for ever: see finding EndBlockReversible.
StuckAtEnd == pause_timer # Off /\ head = LastBlock /\ ~final

\* A pause ends, with the next read or with the process, in whatever order the
\* plugins were started and whatever fork was announced; only one at a reversible
\* end block does not.
PausesEnd == pause_timer # Off ~> (pause_timer = Off \/ state = "quit" \/ StuckAtEnd)

\* When nodeos stops, the receiver stops, even if it was paused by its consumer;
\* only one that pauses at a reversible end block does not notice.
StopsWithNode == node_gone ~> (state = "quit" \/ StuckAtEnd)

\* When the node falls silent, or an exception closed the stream, the process
\* ends, unless the consumer keeps the receiver paused, no block ever came, or it
\* pauses at a reversible end block.
SilenceEnds ==
  \/ []<><<Results>>_vars
  \/ []<>(blocked \/ slow)
  \/ []~received
  \/ <>(state = "quit" \/ StuckAtEnd)

\* The stale deadline ends a process whose stream is in order only when the reader
\* has waited for a block for the whole deadline; time in a pause does not count.
StaleMeansQuiet ==
  [][StaleExpires /\ state' = "quit" => aborting \/ quiet >= Deadline]_vars
=============================================================================
