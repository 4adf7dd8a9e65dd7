------------------------- MODULE InteractiveReceiver -------------------------
(***************************************************************************)
(* chronicle-receiver in interactive mode: a second process that reads the *)
(* database a scanning receiver (BlockContent) writes, takes requests for  *)
(* ranges of blocks from its exporter, asks the node for one range at a    *)
(* time and decodes the blocks with the ABIs of the history.               *)
(*                                                                         *)
(* A request is [start, end]: the blocks start .. end-1.                   *)
(*                                                                         *)
(* The two processes share the mutex in lock.bin.  What one of them does   *)
(* while it holds the mutex is one step here.  The scanning process takes  *)
(* it twice for a block, to roll back a fork and to store the block; the   *)
(* interactive one takes it to compare a request with the head, and to find*)
(* a row of the ABI history, but it reads the row after it released the    *)
(* mutex.  The scanning process' own rows and traces do not matter here,   *)
(* and an exception in it is a Stop.                                       *)
(***************************************************************************)
EXTENDS BlockContent, SequencesExt

CONSTANTS
  MaxRequests,      \* bound: number of requests the consumer sends
  MaySlowDown,      \* the exporter's queue may fill up
  Contents,         \* bound: what a block may hold, [rows, actions] by account
  OnlyIrreversible, \* environment: the consumer asks for irreversible blocks
  RestartsAreQuiet  \* environment: nobody restarts the scanning process while
                    \* a request is being served

ASSUME RequestsAssumption ==
  /\ MaxRequests \in Nat /\ MaxBlock # 0 /\ {MaySlowDown, OnlyIrreversible, RestartsAreQuiet} \subseteq BOOLEAN
  /\ Contents \subseteq [rows : SUBSET Accounts, actions : SUBSET Accounts]

VARIABLES
  waits,                   \* what the process waits for: "abi", "result", "pause"; or,
                           \* after an exception closed the stream, before the ABI was
                           \* accepted or later, "refused", "closed"; "ended"
  interactive_req_queue, interactive_req_pending,
  end_block_num,           \* end of the request sent last
  reader_head,             \* head of this process: the last block it received
  reader_ctxt,             \* contract_abi_ctxt of this process
  undecoded,               \* accounts of rows and actions still to be decoded
  wanted,                  \* accounts the running handler still looks up
  found,                   \* the row found under the mutex and not read yet, if any
  slowdown_requested,
  request,                 \* node: what is left of the request
  accepted,                \* specification only: all requests put into the queue
  served                   \* specification only: numbers of the blocks received

lookup   == <<wanted, found>>
requests == <<interactive_req_queue, interactive_req_pending, end_block_num, accepted>>
reader   == <<waits, reader_head, reader_ctxt, undecoded, slowdown_requested, served>>
ivars    == <<vars, requests, request, reader, lookup>>
Serving  == waits \in {"abi", "result", "pause"}

\* The requests that can be answered.
Requests == {r \in [start : 1..MaxBlock, end : 1..MaxBlock] : r.start < r.end}
\* The consumer may ask for anything; a range of no block ends the process.
Asked == {r \in [start : 1..MaxBlock, end : 1 .. MaxBlock + 1] : r.start < r.end}
BlocksOf(r) == [i \in 1 .. r.end - r.start |-> r.start + i - 1]
NothingAsked == [start |-> 1, end |-> 1]
NoEnd == MaxBlock + 2  \* end-block's default, the highest number

(* -------------------------- ABI of a contract -------------------------- *)

\* The order of the index: by account and descending block.
\* Mutant: the blocks are in ascending order.
FollowsAscending(k, account, block) == k[1] > account \/ (k[1] = account /\ k[2] >= block)
Follows(k, account, block) == k[1] > account \/ (k[1] = account /\ k[2] <= block)
lower_bound(history, account, block) ==
  {k \in DOMAIN history :
     /\ Follows(k, account, block)
     /\ \A l \in DOMAIN history : Follows(l, account, block) => l = k \/ Follows(l, k[1], k[2])}

\* Handlers of the process run one after the other; one that looks up ABIs is
\* not finished.
Idle == wanted = {}

\* get_contract_abi_ready, under the mutex.
FindRow(a) ==
  /\ a \in wanted /\ found = {}
  /\ found' = {[account |-> a, key |-> k, abi |-> Current(db).history[k]] :
                 k \in lower_bound(Current(db).history, a, reader_head)}
  /\ wanted' = IF found' = {} THEN wanted \ {a} ELSE wanted
  /\ UNCHANGED <<vars, requests, request, reader>>

\* After it: the row is read and its ABI imported.  A row that was undone or
\* modified in between is freed memory, and may hold anything.
UseRow ==
  /\ \E r \in found, blob \in Blobs :
       /\ r.key \in DOMAIN Current(db).history /\ Current(db).history[r.key] = r.abi
            => blob = r.abi
       /\ reader_ctxt' = [a \in DOMAIN reader_ctxt \cup {r.account} |->
                            IF a = r.account THEN blob ELSE reader_ctxt[a]]
       /\ wanted' = wanted \ {r.account}
       /\ undecoded' = undecoded \cup {r.account}
  /\ found' = {}
  /\ UNCHANGED <<vars, requests, request, waits, reader_head, slowdown_requested, served>>

(* ------------------------------ requests ------------------------------- *)

\* process_interactive_reqs: the next request goes to the node when none is
\* pending there, and the context is emptied.
\* Mutant: it does not wait for the pending one.
MaySendAlways(ready, isPending, queue) == ready /\ queue # <<>>
MaySend(ready, isPending, queue) == ready /\ ~isPending /\ queue # <<>>

\* isPending, queue, rest and ctxt as the caller leaves them.
process_interactive_reqs(ready, isPending, queue, rest) ==
  IF MaySend(ready, isPending, queue)
  THEN /\ interactive_req_queue' = Tail(queue)
       /\ interactive_req_pending' = TRUE
       /\ end_block_num' = Head(queue).end
       /\ request' = Head(queue)
  ELSE /\ interactive_req_queue' = queue
       /\ interactive_req_pending' = isPending
       /\ request' = rest
       /\ UNCHANGED end_block_num
ContextAfter(ready, isPending, queue) ==
  IF MaySend(ready, isPending, queue) THEN <<>> ELSE reader_ctxt

\* on_block_req: nothing beyond the head of the database is accepted.
\* Mutant: only the start is compared.
AvailableByStart(r) == r.start <= head
Available(r) == r.end <= head
on_block_req(r) ==
  LET queue == Append(interactive_req_queue, r)
      ready == waits \notin {"abi", "refused"}
  IN /\ Idle /\ waits # "ended" /\ Len(accepted) < MaxRequests
     /\ OnlyIrreversible => r.end - 1 <= irreversible
     /\ Available(r)
     /\ process_interactive_reqs(ready, interactive_req_pending, queue, request)
     /\ reader_ctxt' = ContextAfter(ready, interactive_req_pending, queue)
     /\ accepted' = Append(accepted, r)
     /\ UNCHANGED <<vars, waits, reader_head, undecoded, slowdown_requested, served, lookup>>

(* ------------------------------- reading ------------------------------- *)

\* check_pause: under a slowdown the test for the end block comes first, and
\* it does not ask whether the process is interactive.
continue_read(b) ==
  waits' = IF ~slowdown_requested THEN "result"
           ELSE IF b = end_block_num' - 1 /\ irreversible >= b THEN "ended" ELSE "pause"

\* start_read's handler.
ReadAbi ==
  /\ Idle /\ waits = "abi"
  /\ process_interactive_reqs(TRUE, interactive_req_pending, interactive_req_queue, request)
  /\ reader_ctxt' = ContextAfter(TRUE, interactive_req_pending, interactive_req_queue)
  /\ continue_read(reader_head)
  /\ UNCHANGED <<vars, accepted, reader_head, undecoded, slowdown_requested, served, lookup>>

\* Mutant: the request counts as served one block later.
EndsRequestLate(b) == b = end_block_num
EndsRequest(b) == b = end_block_num - 1

\* What receive_result has done with the next block b of the request when it
\* returns or throws.  receive_deltas looks up the contracts of the rows, and
\* publishes a row whose ABI the context has.
BlockReceived(rows, actions) ==
  LET b         == request.start
      isPending == interactive_req_pending /\ ~EndsRequest(b)
      mayGoOn   == EndsRequest(b)
      rest      == [request EXCEPT !.start = b + 1]
      ctxt      == ContextAfter(mayGoOn, isPending, interactive_req_queue)
  IN /\ Idle /\ waits = "result" /\ undecoded = {}
     /\ b < request.end
     /\ b <= head \/ b <= irreversible  \* the node has the block
     /\ process_interactive_reqs(mayGoOn, isPending, interactive_req_queue, rest)
     /\ reader_ctxt' = ctxt
     /\ wanted' = rows \ DOMAIN ctxt
     /\ undecoded' = actions \cup (rows \cap DOMAIN ctxt)
     /\ reader_head' = b
     /\ served' = Append(served, b)
     /\ UNCHANGED <<vars, accepted, slowdown_requested, found>>

receive_result(rows, actions) == BlockReceived(rows, actions) /\ continue_read(request.start)

\* An exception in receive_block, receive_deltas or receive_traces, after some
\* rows, or all and then some actions.
ResultThrows(rows, actions) ==
  /\ \E some \in SUBSET rows, more \in SUBSET actions :
       (more = {} \/ some = rows) /\ BlockReceived(some, more)
  /\ waits' = "closed"

PauseTimer ==
  /\ Idle /\ waits = "pause" /\ undecoded = {}
  /\ UNCHANGED <<vars, requests, request, reader_head, reader_ctxt, undecoded,
                 slowdown_requested, served, lookup>>
  /\ continue_read(reader_head)

\* The decoder looks the account up again, as a request may have come in between;
\* when it finds the ABI the account is back, and decoded.
DecodeAs(a) ==
  /\ Idle /\ a \in undecoded
  /\ undecoded' = undecoded \ {a}
  /\ wanted' = {a} \ DOMAIN reader_ctxt
  /\ UNCHANGED <<vars, requests, request, waits, reader_head, reader_ctxt,
                 slowdown_requested, served, found>>

(* ------------------- exceptions and the end of the process -------------- *)

Closes(w) ==
  /\ waits' = w
  /\ UNCHANGED <<vars, requests, request, reader_head, reader_ctxt, undecoded,
                 slowdown_requested, served, lookup>>

\* The process forgets its members and what waits to be decoded.
Ends ==
  /\ waits' = "ended" /\ reader_ctxt' = <<>> /\ undecoded' = {} /\ slowdown_requested' = FALSE
  /\ UNCHANGED <<vars, requests, request, reader_head, served, lookup>>

\* receive_abi throws.
AbiRefused == Idle /\ waits = "abi" /\ Closes("refused")

\* from_bin throws, or the last irreversible block went back.
ResultRefused ==
  /\ Idle /\ waits = "result" /\ undecoded = {} /\ request.start < request.end
  /\ Closes("closed")

\* check_stale_head: some block was received, none since the last check, and the
\* reader does not pause.  It does not ask whether anything was requested.
StaleAbort == Idle /\ waits \in {"result", "closed"} /\ served # <<>> /\ Ends

\* A signal, a lost connection, a request written to the closed stream; or a
\* range of no block, on which async_read_interactive_reqs throws.
Stopped == Idle /\ waits # "ended" /\ Ends

(* -------------------- exporter, scanner and node ----------------------- *)

\* The exporter's queue grows only while there is something to decode.
SlowDown ==
  /\ Idle /\ MaySlowDown /\ ~slowdown_requested
  /\ waits = "result" \/ undecoded # {}
  /\ slowdown_requested' = TRUE
  /\ UNCHANGED <<vars, requests, request, waits, reader_head, reader_ctxt, undecoded,
                 served, lookup>>

SpeedUp ==
  /\ Idle /\ slowdown_requested /\ slowdown_requested' = FALSE
  /\ UNCHANGED <<vars, requests, request, waits, reader_head, reader_ctxt, undecoded,
                 served, lookup>>

\* Mutant: the rollback goes one revision too far.
RolledTooFar(n) == UndoTo(db, n - 2)
RolledBack(n) == UndoTo(db, n - 1)

\* The first locked section, for a block that replaces others; the node takes
\* the request of the interactive process back, too.
ScannerRolls(n) ==
  /\ Receives(n) /\ n <= head
  /\ db' = RolledBack(n)
  /\ applied' = SubSeq(applied, 1, db'.rev)
  /\ contract_abi_ctxt' = <<>>
  /\ request' = IF n < request.start THEN [request EXCEPT !.start = n] ELSE request
  /\ UNCHANGED <<config, phase, irreversible, pending, dropped, restored, requests, reader,
                 lookup>>

\* The second one.
ScannerGrows ==
  /\ \E changes \in Changes : ReceiveBlock(head + 1, changes, {}, {})
  /\ UNCHANGED <<requests, request, reader, lookup>>

AllServed == interactive_req_queue = <<>> /\ request.start = request.end
Quiet == (~Serving \/ AllServed) /\ undecoded = {} /\ Idle
ScannerStarts ==
  /\ RestartsAreQuiet => Quiet
  /\ Start
  /\ UNCHANGED <<requests, request, reader, lookup>>
ScannerStops == Stop /\ UNCHANGED <<requests, request, reader, lookup>>
ScannerLearns == NewIrreversible /\ UNCHANGED <<requests, request, reader, lookup>>

IInit ==
  /\ Init
  /\ waits = "abi" /\ interactive_req_queue = <<>> /\ interactive_req_pending = FALSE
  /\ end_block_num = NoEnd /\ request = NothingAsked
  /\ reader_head = 0 /\ reader_ctxt = <<>> /\ undecoded = {} /\ wanted = {} /\ found = {}
  /\ slowdown_requested = FALSE /\ accepted = <<>> /\ served = <<>>

Results == \E c \in Contents : receive_result(c.rows, c.actions)
Failures ==
  \/ \E c \in Contents : ResultThrows(c.rows, c.actions)
  \/ AbiRefused \/ ResultRefused \/ StaleAbort \/ Stopped
Decodes == \E a \in Accounts : DecodeAs(a)
Lookups == UseRow \/ \E a \in Accounts : FindRow(a)
Forks   == \E n \in 1..head : ScannerRolls(n)
INext ==
  \/ \E r \in Asked : on_block_req(r)
  \/ ReadAbi \/ Results \/ Failures \/ PauseTimer \/ Decodes \/ Lookups
  \/ SlowDown \/ SpeedUp
  \/ Forks \/ ScannerGrows \/ ScannerStarts \/ ScannerStops \/ ScannerLearns

ISpec == IInit /\ [][INext]_ivars

(* Handlers that are ready run, and the exporter's queue drains. *)
IFairSpec ==
  /\ ISpec
  /\ WF_ivars(ReadAbi) /\ WF_ivars(Results) /\ WF_ivars(PauseTimer) /\ WF_ivars(Decodes)
  /\ WF_ivars(Lookups) /\ WF_ivars(SpeedUp)

(* ---------------------------- properties ------------------------------- *)

\* The variables have the types of the members of the interactive process; no
\* request reaches beyond the blocks the scanning receiver has had.
InteractiveTypeOK ==
  /\ waits \in {"abi", "result", "pause", "refused", "closed", "ended"}
  /\ interactive_req_queue \in Seq(Requests) /\ accepted \in Seq(Requests)
  /\ interactive_req_pending \in BOOLEAN /\ slowdown_requested \in BOOLEAN
  /\ end_block_num \in 2..MaxBlock \cup {NoEnd}
  /\ request.start \in 1 .. MaxBlock /\ request.end \in 1..MaxBlock
  /\ reader_head \in 0..MaxBlock /\ undecoded \subseteq Accounts
  /\ DOMAIN reader_ctxt \subseteq Accounts /\ wanted \subseteq Accounts
  /\ Cardinality(found) <= 1 /\ \A r \in found : r.account \in wanted

\* The blocks of the requests are received one range after the other, each
\* complete, in order and once, although requests arrive while others run, before
\* the connection to the node is up, and after an exception ended the reading.
ServedInOrder ==
  served \o BlocksOf(request) \o FlattenSeq([i \in DOMAIN interactive_req_queue |->
                                              BlocksOf(interactive_req_queue[i])])
    = FlattenSeq([i \in DOMAIN accepted |-> BlocksOf(accepted[i])])

\* interactive_req_pending is set exactly while the node has blocks to send for
\* the request: the next request neither overwrites it nor waits for nothing.
PendingIsExact == interactive_req_pending <=> request.start < request.end

\* Seen through its queue and the node's request, the process is a server that
\* delivers the requested blocks one by one, in the order of the requests.
Server == INSTANCE RequestServer WITH
  Ranges <- Requests,
  left <- (IF request.start < request.end THEN <<request>> ELSE <<>>) \o interactive_req_queue,
  delivered <- served
ServesRequests == Server!Spec

\* Every accepted request is served, through pauses and forks, unless an exception
\* closed the stream or the process ended: the queue never stands still for good
\* while the receiver reads.
RequestsServed == <>[](~Serving \/ AllServed)

\* Between the release of the mutex and the import of the ABI the scanning
\* process may roll back and store blocks: a row of the contract itself, found
\* for an irreversible block, is still there and holds what it held.
FoundRowIsAlive ==
  \A r \in found :
    r.key[1] = r.account =>
      r.key \in DOMAIN Current(db).history /\ Current(db).history[r.key] = r.abi

\* A contract that ever had an ABI up to the block that is read, this block
\* included, is found by its own latest row, whatever the other rows of the history
\* and through forks.  So it is in the code; README.md:96-98 says the copy is "from
\* a block number that is below the requested block", which is another one when
\* the block itself sets the ABI.
OwnRowIsFound ==
  \A r \in found :
    LET own == {k \in DOMAIN Current(db).history : k[1] = r.account /\ k[2] <= reader_head}
    IN own # {} => r.key \in own /\ \A k \in own : k[2] <= r.key[2]

\* The ABI used for a block is the contract's own, the latest from a block up to
\* the requested one (README.md:96-98 says below it; see OwnRowIsFound).
LatestOwnAbi ==
  \A a \in DOMAIN reader_ctxt \cap undecoded :
    LET own == {k \in DOMAIN Current(db).history : k[1] = a /\ k[2] <= reader_head}
    IN \E k \in own : /\ \A l \in own : l[2] <= k[2]
                      /\ reader_ctxt[a] = Current(db).history[k]
=============================================================================
