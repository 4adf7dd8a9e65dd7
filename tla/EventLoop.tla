------------------------------ MODULE EventLoop -------------------------------
(***************************************************************************)
(* The way of an event through the plugins.  Everything runs in handlers of*)
(* one thread, which appbase takes from a queue by priority, and those of  *)
(* the same priority in the order they were posted.  The receiver posts an *)
(* event; the decoder's handler makes a message of it and posts that; the  *)
(* exporter's handler puts the message into its queue.                     *)
(*                                                                         *)
(* An event of a channel nobody has subscribed to is dropped.  The plugins *)
(* register as dependencies of the receiver, and the exporter subscribes to*)
(* the decoder's channels, when they are initialised, which is before any  *)
(* of them is started; the decoder subscribes when it is started.          *)
(*                                                                         *)
(* Types of events: FORK; BLOCK is BLOCK_STARTED and BLOCK; DATA is a trace*)
(* a table row or another content of a block; COMPLETED is BLOCK_COMPLETED;*)
(* PAUSE is RCVR_PAUSE.  ERR is ENCODER_ERR, which the decoder adds.       *)
(***************************************************************************)
EXTENDS Integers, SequencesExt

VARIABLES
  started,    \* plugins whose plugin_startup() was called
  app_queue,  \* handlers waiting in appbase's priority queue, as posted
  last_msg,   \* the last message the exporter put into its queue
  told        \* consumer: it was told of something it can acknowledge

loop == <<started, app_queue, last_msg, told>>

Plugins == {"receiver", "decoder", "exporter"}

StreamPriority == 40    \* the receiver's own handlers
ReceiverPriority == 50  \* its events
DecoderPriority == 55   \* the decoder's messages; the exporter's own handlers have 60

Types == {"FORK", "BLOCK", "DATA", "ERR", "COMPLETED", "PAUSE"}
Posted == [priority : {ReceiverPriority, DecoderPriority}, type : Types, block : Nat]
Event(type, n)   == [priority |-> ReceiverPriority, type |-> type, block |-> n]
Message(type, n) == [priority |-> DecoderPriority, type |-> type, block |-> n]
NoMessage == [priority |-> 0, type |-> "NONE", block |-> 0]

(* ------------------------------ the queue ------------------------------ *)

\* The handler whose turn it is.
IsFirst(i) ==
  \A j \in DOMAIN app_queue :
    \/ app_queue[j].priority < app_queue[i].priority
    \/ app_queue[j].priority = app_queue[i].priority /\ i <= j
HasTurn(i, priority) ==
  i \in DOMAIN app_queue /\ app_queue[i].priority = priority /\ IsFirst(i)

\* A handler of the receiver's stream or timers may run.
StreamMayRun == \A i \in DOMAIN app_queue : app_queue[i].priority < StreamPriority

(* ------------------------------- events -------------------------------- *)

\* The events of block n in the order receive_result posts them.
\* Mutant: the block is reported before its traces are received.
CompletedEarly(n, data) ==
  <<Event("BLOCK", n), Event("COMPLETED", n)>> \o [i \in 1..data |-> Event("DATA", n)]
BlockEvents(n, data) ==
  <<Event("BLOCK", n)>> \o [i \in 1..data |-> Event("DATA", n)] \o <<Event("COMPLETED", n)>>
ForkEvents(n, isFork) == IF isFork THEN <<Event("FORK", n)>> ELSE <<>>

\* on_transaction_trace, on_table_row_update and the other handlers of the
\* decoder; data that do not fit their ABI are reported by a message of its own.
\* Mutant: the report has the priority of the receiver's events.
ErrorsLate(n, failed) == IF failed THEN <<Event("ERR", n)>> ELSE <<>>
Errors(n, failed) == IF failed THEN <<Message("ERR", n)>> ELSE <<>>
Decoded(i, failed) ==
  LET e == app_queue[i]
  IN RemoveAt(app_queue, i) \o <<Message(e.type, e.block)>> \o Errors(e.block, failed)

Decode(i) ==
  /\ HasTurn(i, ReceiverPriority)
  /\ \E failed \in BOOLEAN :
       /\ failed => app_queue[i].type = "DATA"
       /\ app_queue' = Decoded(i, failed)
  /\ UNCHANGED <<started, last_msg, told>>

\* on_event_json, on_event_bin.
TakeMessage(i) ==
  /\ HasTurn(i, DecoderPriority)
  /\ app_queue' = RemoveAt(app_queue, i)
  /\ last_msg' = app_queue[i]
  /\ told' = (told \/ app_queue[i].type \in {"FORK", "COMPLETED"})
  /\ UNCHANGED started

(* ------------------------------ start-up ------------------------------- *)

\* start_after_dependencies asks for the plugins that registered at init.
\* Mutant: it does not wait.
DependenciesIgnored(plugins) == TRUE
DependenciesStarted(plugins) == {"decoder", "exporter"} \subseteq plugins

\* What load_state publishes reaches nobody before the decoder has subscribed.
LoadStateEvents(plugins, n, isFork) == ForkEvents(n, isFork /\ "decoder" \in plugins)

LoopInit == started = {} /\ app_queue = <<>> /\ last_msg = NoMessage /\ told = FALSE

(* ----------------------------- properties ------------------------------ *)

LoopOK ==
  /\ started \subseteq Plugins /\ told \in BOOLEAN
  /\ app_queue \in Seq(Posted) /\ last_msg \in Posted \cup {NoMessage}

\* Message m may follow message l: block after block, each begun, filled and
\* completed; forks and pauses between blocks; an error after its data.
InOrder(l, m) ==
  CASE m.type \in {"FORK", "BLOCK", "PAUSE"} -> l.type \in {"NONE", "FORK", "PAUSE", "COMPLETED"}
    [] m.type \in {"DATA", "COMPLETED"} -> l.type \in {"BLOCK", "DATA", "ERR"} /\ l.block = m.block
    [] m.type = "ERR" -> l.type = "DATA" /\ l.block = m.block
===============================================================================
