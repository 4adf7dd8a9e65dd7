-------------------------- MODULE InteractiveProofs --------------------------
(***************************************************************************)
(* Theorems about InteractiveReceiver, for every set of accounts, ABIs,    *)
(* blocks and requests.  All but the one about types need a consumer that  *)
(* asks for irreversible blocks.                                           *)
(***************************************************************************)
EXTENDS InteractiveReceiver, ChainbaseProofs, SequenceTheorems, FiniteSetTheorems,
        WellFoundedInduction

(* ---------------------------- the invariant ----------------------------- *)

\* A rollback takes from the history exactly the rows of the blocks it undoes.
HistoryOK(d) ==
  /\ IsDatabase(d) /\ d.rev <= MaxBlock
  /\ \A r \in d.base .. d.rev : DOMAIN d.at[r].history \subseteq Accounts \X (1..r)
  /\ \A r, s \in d.base .. d.rev : r <= s =>
       /\ DOMAIN d.at[r].history = {k \in DOMAIN d.at[s].history : k[2] <= r}
       /\ \A k \in DOMAIN d.at[r].history : d.at[r].history[k] = d.at[s].history[k]

\* The database of the scanning process.
StoreOK == HistoryOK(db) /\ irreversible \in Nat

\* The node's request, the flag and the end of the request agree, and nothing
\* that is asked for can be rolled back.
Pairs == [start : Int, end : Int]
RequestsOK(rest, isPending, end, queue, lib) ==
  /\ rest \in Pairs /\ end \in Int /\ isPending \in BOOLEAN
  /\ rest.start <= rest.end /\ rest.end - 1 <= lib
  /\ isPending <=> rest.start < rest.end
  /\ isPending => end = rest.end
  /\ queue \in Seq(Requests)
  /\ \A i \in DOMAIN queue : queue[i].end - 1 <= lib
RequestInv ==
  /\ HistoryOK(db) /\ irreversible \in Nat
  /\ RequestsOK(request, interactive_req_pending, end_block_num, interactive_req_queue,
                irreversible)

\* The database has the blocks that are asked for, and the one that is decoded.
Within(rest, isPending, queue, bound) ==
  /\ isPending => rest.end - 1 <= bound
  /\ \A i \in DOMAIN queue : queue[i].end - 1 <= bound
Covered ==
  /\ Serving => Within(request, interactive_req_pending, interactive_req_queue, head)
  /\ wanted # {} \/ undecoded # {} => reader_head <= head

\* The row that is found is the contract's latest, and stays it.
FoundInv ==
  /\ reader_head \in Int /\ reader_head <= irreversible
  /\ \A f \in found :
       LET history == Current(db).history
       IN /\ f.account \in wanted
          /\ f.key[1] = f.account =>
               f.key[2] <= reader_head /\ f.key \in DOMAIN history /\ history[f.key] = f.abi
          /\ \A k \in DOMAIN history :
               k[1] = f.account /\ k[2] <= reader_head =>
                 f.key[1] = f.account /\ k[2] <= f.key[2]

(* ------------------------- the history of ABIs --------------------------- *)

\* Undoing and committing keep part of the revisions as they are.
LEMMA KeptHistory ==
  ASSUME NEW d, HistoryOK(d), NEW e, IsDatabase(e), e.rev <= d.rev,
         \A i \in e.base .. e.rev : i \in d.base .. d.rev /\ e.at[i] = d.at[i]
  PROVE  HistoryOK(e)
<1>1. e.rev <= MaxBlock
  BY AccountsAssumption DEF HistoryOK, IsDatabase
<1>2. \A r \in e.base .. e.rev : DOMAIN e.at[r].history \subseteq Accounts \X (1..r)
  BY DEF HistoryOK
<1>3. ASSUME NEW r \in e.base .. e.rev, NEW s \in e.base .. e.rev, r <= s
      PROVE  /\ DOMAIN e.at[r].history = {k \in DOMAIN e.at[s].history : k[2] <= r}
             /\ \A k \in DOMAIN e.at[r].history : e.at[r].history[k] = e.at[s].history[k]
  <2>1. e.at[r] = d.at[r] /\ e.at[s] = d.at[s] /\ r \in d.base .. d.rev /\ s \in d.base .. d.rev
    BY <1>3
  <2> QED BY <1>3, <2>1 DEF HistoryOK
<1> QED BY <1>1, <1>2, <1>3 DEF HistoryOK

\* A block adds rows with its own number.
LEMMA AddedHistory ==
  ASSUME NEW d, HistoryOK(d), d.rev < MaxBlock, NEW changes \in Changes, NEW c,
         c.history = History(Current(d).history, Current(d).abi, changes, d.rev + 1)
  PROVE  /\ HistoryOK(PushSession(d, c))
         /\ \A k \in DOMAIN Current(d).history :
              k \in DOMAIN c.history /\ c.history[k] = Current(d).history[k]
         /\ \A k \in DOMAIN c.history : k \in DOMAIN Current(d).history \/ k[2] = d.rev + 1
<1> DEFINE e   == PushSession(d, c)
           n   == d.rev + 1
           old == Current(d).history
           new == {<<a, n>> : a \in {x \in DOMAIN changes : changes[x] # NoAbi \/ x \in DOMAIN Current(d).abi}}
<1>1. /\ IsDatabase(d) /\ d.base \in Nat /\ d.rev \in Nat /\ d.base <= d.rev
      /\ MaxBlock \in Nat /\ n \in Nat
  BY AccountsAssumption DEF HistoryOK, IsDatabase
<1>2. /\ IsDatabase(e) /\ e.base = d.base /\ e.rev = n
      /\ \A r \in d.base .. d.rev : e.at[r] = d.at[r]
      /\ e.at[n] = c
  BY <1>1, PushSessionFacts
<1> HIDE DEF e
<1>3. c.history = [k \in DOMAIN old \cup new |-> IF k \in new THEN changes[k[1]] ELSE old[k]]
  BY DEF History
<1>4. DOMAIN old \subseteq Accounts \X (1 .. d.rev)
  BY <1>1 DEF HistoryOK, Current
<1>5. new \subseteq Accounts \X (1..n) /\ \A k \in new : k[2] = n
  <2>1. DOMAIN changes \subseteq Accounts
    BY ChangesAssumption
  <2>2. n \in 1..n
    BY <1>1
  <2> HIDE DEF n
  <2> QED BY <2>1, <2>2
<1>6. \A k \in DOMAIN old : k[2] \in 1 .. d.rev /\ k \notin new
  <2>1. \A k \in DOMAIN old : k[2] \in 1 .. d.rev
    BY <1>4
  <2> QED BY <1>1, <1>5, <2>1
<1> HIDE DEF new
<1>7. DOMAIN c.history = DOMAIN old \cup new /\ \A k \in DOMAIN old : c.history[k] = old[k]
  BY <1>3, <1>6
<1>8. DOMAIN c.history \subseteq Accounts \X (1..n)
  <2>1. 1 .. d.rev \subseteq 1..n
    BY <1>1
  <2> QED BY <1>4, <1>5, <1>7, <2>1
<1>9. DOMAIN old = {k \in DOMAIN c.history : k[2] <= d.rev}
  BY <1>1, <1>5, <1>6, <1>7
<1>10. e.rev <= MaxBlock
  BY <1>1, <1>2
<1>11. ASSUME NEW r \in e.base .. e.rev
       PROVE  DOMAIN e.at[r].history \subseteq Accounts \X (1..r)
  <2>1. CASE r = n
    BY <1>2, <1>8, <2>1
  <2>2. CASE r # n
    <3>1. r \in d.base .. d.rev
      BY <1>1, <1>2, <2>2
    <3> QED BY <1>2, <3>1 DEF HistoryOK
  <2> QED BY <2>1, <2>2
<1>12. ASSUME NEW r \in e.base .. e.rev, NEW s \in e.base .. e.rev, r <= s
       PROVE  /\ DOMAIN e.at[r].history = {k \in DOMAIN e.at[s].history : k[2] <= r}
              /\ \A k \in DOMAIN e.at[r].history : e.at[r].history[k] = e.at[s].history[k]
  <2>1. CASE r = n /\ s = n
    <3>1. \A k \in DOMAIN c.history : k[2] <= n
      BY <1>1, <1>8
    <3> QED BY <1>2, <2>1, <3>1
  <2>2. CASE s # n
    <3>1. r \in d.base .. d.rev /\ s \in d.base .. d.rev
      BY <1>1, <1>2, <1>12, <2>2
    <3> QED BY <1>2, <1>12, <3>1 DEF HistoryOK
  <2>3. CASE r # n /\ s = n
    <3>1. r \in d.base .. d.rev /\ d.rev \in d.base .. d.rev /\ r <= d.rev
      BY <1>1, <1>2, <2>3
    <3>2. /\ DOMAIN d.at[r].history = {k \in DOMAIN old : k[2] <= r}
          /\ \A k \in DOMAIN d.at[r].history : d.at[r].history[k] = old[k]
      BY <3>1 DEF HistoryOK, Current
    <3>3. \A k \in new : ~(k[2] <= r)
      BY <1>1, <1>5, <3>1
    <3>4. {k \in DOMAIN old : k[2] <= r} = {k \in DOMAIN c.history : k[2] <= r}
      BY <1>7, <3>3
    <3> QED BY <1>2, <1>7, <2>3, <3>1, <3>2, <3>4
  <2> QED BY <2>1, <2>2, <2>3, <1>1, <1>2
<1>13. HistoryOK(e)
  BY <1>2, <1>10, <1>11, <1>12 DEF HistoryOK
<1> QED BY <1>5, <1>7, <1>13 DEF e

(* --------------------------- scanner's steps ---------------------------- *)

\* The newest revisions of d and e have the same rows for the blocks up to n.
SameRows(d, e, n) ==
  \A k : k[2] <= n =>
    /\ k \in DOMAIN Current(d).history <=> k \in DOMAIN Current(e).history
    /\ k \in DOMAIN Current(d).history => Current(d).history[k] = Current(e).history[k]

\* A fork takes back no irreversible block and none of their rows.
LEMMA RollsFacts ==
  ASSUME StoreOK, NEW n \in 1..head, ScannerRolls(n)
  PROVE  /\ HistoryOK(db') /\ irreversible <= db'.rev
         /\ SameRows(db, db', irreversible)
<1>1. /\ IsDatabase(db) /\ db.base \in Nat /\ db.rev \in Nat /\ db.base <= db.rev
      /\ irreversible \in Nat
  BY DEF StoreOK, HistoryOK, IsDatabase
<1>2. irreversible < n /\ n <= db.rev /\ n \in Int /\ n - 1 \in Int
  BY <1>1 DEF ScannerRolls, Receives, head
<1>3. /\ IsDatabase(db') /\ db'.base = db.base
      /\ db'.rev = IF n - 1 <= db.base THEN db.base ELSE n - 1
      /\ \A i \in db'.base .. db'.rev : i \in db.base .. db.rev /\ db'.at[i] = db.at[i]
  <2>1. db' = UndoTo(db, n - 1)
    BY DEF ScannerRolls, RolledBack
  <2> QED BY <1>1, <1>2, <2>1, UndoToFacts
<1>4. db'.rev <= db.rev /\ irreversible <= db'.rev
  BY <1>1, <1>2, <1>3
<1>5. HistoryOK(db')
  BY <1>3, <1>4, KeptHistory DEF StoreOK
<1>7. SameRows(db, db', irreversible)
  <2>1. /\ db'.rev \in db'.base .. db'.rev /\ db'.rev \in db.base .. db.rev
        /\ db.rev \in db.base .. db.rev /\ db'.rev \in Nat
    BY <1>1, <1>3 DEF IsDatabase
  <2>2. db'.at[db'.rev] = db.at[db'.rev]
    BY <1>3, <2>1
  <2>3. /\ DOMAIN Current(db').history = {k \in DOMAIN Current(db).history : k[2] <= db'.rev}
        /\ \A k \in DOMAIN Current(db').history :
             Current(db').history[k] = Current(db).history[k]
    BY <1>4, <2>1, <2>2 DEF StoreOK, HistoryOK, Current
  <2>4. \A k \in DOMAIN Current(db).history : k[2] \in Int
    <3>1. DOMAIN Current(db).history \subseteq Accounts \X (1 .. db.rev)
      BY <2>1 DEF StoreOK, HistoryOK, Current
    <3> QED BY <3>1
  <2>5. \A k \in DOMAIN Current(db).history : k[2] <= irreversible => k[2] <= db'.rev
    BY <1>1, <1>4, <2>1, <2>4
  <2> QED BY <2>3, <2>5 DEF SameRows
<1> QED BY <1>4, <1>5, <1>7

\* A new block leaves the rows of the blocks before it alone.
LEMMA GrowsFacts ==
  ASSUME StoreOK, ScannerGrows
  PROVE  /\ HistoryOK(db') /\ db'.rev = db.rev + 1
         /\ SameRows(db, db', db.rev)
<1> PICK changes \in Changes : ReceiveBlock(head + 1, changes, {}, {})
  BY DEF ScannerGrows
<1> DEFINE b == Before(head + 1)
<1>1. /\ IsDatabase(db) /\ db.base \in Nat /\ db.rev \in Nat /\ db.base <= db.rev
      /\ db.rev < MaxBlock /\ MaxBlock \in Nat /\ irreversible \in Nat
  BY AccountsAssumption DEF StoreOK, HistoryOK, IsDatabase, ReceiveBlock, Receives, head
<1>2. /\ IsDatabase(b) /\ b.base = db.base /\ b.rev = db.rev
      /\ \A i \in b.base .. b.rev : i \in db.base .. db.rev /\ b.at[i] = db.at[i]
  <2>1. b = UndoTo(db, head + 1 - 1) /\ head + 1 - 1 = db.rev
    BY <1>1 DEF Before, head
  <2> QED BY <1>1, <2>1, UndoToFacts
<1>3. HistoryOK(b) /\ Current(b) = Current(db)
  <2>1. db.rev \in b.base .. b.rev
    BY <1>1, <1>2
  <2> QED BY <1>1, <1>2, <2>1, KeptHistory DEF StoreOK, Current
<1> DEFINE c == [abi     |-> AbiTable(Current(b).abi, changes),
                 history |-> History(Current(b).history, Current(b).abi, changes, head + 1)]
<1>4. c.history = History(Current(b).history, Current(b).abi, changes, head + 1)
  OBVIOUS
<1>stored. PICK floor \in db.base .. irreversible : db' = Commit(PushSession(b, c), floor)
  BY DEF ReceiveBlock
<1> HIDE DEF c
<1> DEFINE p == PushSession(b, c)
<1>5. /\ HistoryOK(p) /\ p.rev = db.rev + 1 /\ IsDatabase(p) /\ p.at[p.rev] = c
      /\ \A k \in DOMAIN Current(db).history :
           k \in DOMAIN c.history /\ c.history[k] = Current(db).history[k]
      /\ \A k \in DOMAIN c.history : k \in DOMAIN Current(db).history \/ k[2] = db.rev + 1
  <2>1. c.history = History(Current(b).history, Current(b).abi, changes, b.rev + 1)
    BY <1>2, <1>4 DEF head
  <2>2. IsDatabase(p) /\ p.rev = db.rev + 1 /\ p.at[p.rev] = c
    BY <1>2, PushSessionFacts
  <2>3. b.rev < MaxBlock
    BY <1>1, <1>2
  <2> HIDE DEF b
  <2>4. /\ HistoryOK(PushSession(b, c))
        /\ \A k \in DOMAIN Current(b).history :
             k \in DOMAIN c.history /\ c.history[k] = Current(b).history[k]
        /\ \A k \in DOMAIN c.history : k \in DOMAIN Current(b).history \/ k[2] = b.rev + 1
    BY <1>3, <2>1, <2>3, AddedHistory
  <2> QED BY <1>2, <1>3, <2>2, <2>4
<1> HIDE DEF b, p
<1>6. /\ IsDatabase(db') /\ db'.rev = p.rev
      /\ \A i \in db'.base .. db'.rev : i \in p.base .. p.rev /\ db'.at[i] = p.at[i]
  <2>1. floor \in Int /\ db' = Commit(p, floor)
    BY <1>1, <1>stored DEF p
  <2> QED BY <1>5, <2>1, CommitFacts DEF IsDatabase
<1>7. HistoryOK(db')
  <2>1. db'.rev <= p.rev
    BY <1>1, <1>5, <1>6
  <2> QED BY <1>5, <1>6, <2>1, KeptHistory
<1>8. Current(db') = c
  <2>1. db'.rev \in db'.base .. db'.rev
    BY <1>6 DEF IsDatabase
  <2> QED BY <1>5, <1>6, <2>1 DEF Current
<1>9. SameRows(db, db', db.rev)
  <2>1. ~(db.rev + 1 <= db.rev)
    BY <1>1
  <2>2. ASSUME NEW k, k[2] <= db.rev
        PROVE  k \in DOMAIN Current(db).history <=> k \in DOMAIN c.history
    BY <1>5, <2>1, <2>2, Zenon
  <2> QED BY <1>5, <1>8, <2>2 DEF SameRows
<1> QED BY <1>5, <1>6, <1>7, <1>9

\* The rest of the scanning process' steps: only a start moves the database.
LEMMA StartsFacts ==
  ASSUME StoreOK, ScannerStarts
  PROVE  HistoryOK(db') /\ irreversible' = irreversible
<1>1. IsDatabase(db) /\ db.base \in Int /\ db.base \in Nat /\ db.rev \in Nat /\ db.base <= db.rev
  BY DEF StoreOK, HistoryOK, IsDatabase
<1>2. db' = UndoTo(db, db.base) /\ irreversible' = irreversible
  BY DEF ScannerStarts, Start, Reverts, UndoAll
<1>3. /\ IsDatabase(db') /\ db'.rev <= db.rev
      /\ \A i \in db'.base .. db'.rev : i \in db.base .. db.rev /\ db'.at[i] = db.at[i]
  BY <1>1, <1>2, UndoToFacts
<1> QED BY <1>2, <1>3, KeptHistory DEF StoreOK

(* ------------------------------ requests -------------------------------- *)

\* What is left of the requests, as RequestServer sees it.
LeftOf(rest, queue) == (IF rest.start < rest.end THEN <<rest>> ELSE <<>>) \o queue

LEMMA RequestsArePairs == Requests \subseteq Pairs /\ \A r \in Requests : r.start < r.end
BY DEF Requests, Pairs

\* A sequence is its head before its tail.
LEMMA HeadBeforeTail ==
  ASSUME NEW S, NEW s \in Seq(S), s # <<>>
  PROVE  <<Head(s)>> \o Tail(s) = s
<1>1. /\ Head(s) \in S /\ Tail(s) \in Seq(S) /\ Len(Tail(s)) = Len(s) - 1 /\ Len(s) \in Nat
      /\ \A i \in 1 .. Len(Tail(s)) : Tail(s)[i] = s[i + 1]
  BY HeadTailProperties, LenProperties
<1>2. <<Head(s)>> \in Seq(S) /\ Len(<<Head(s)>>) = 1 /\ <<Head(s)>>[1] = s[1]
  BY <1>1
<1> DEFINE h == <<Head(s)>>
           t == Tail(s)
<1> HIDE DEF h, t
<1>3. /\ h \o t \in Seq(S) /\ Len(h \o t) = Len(h) + Len(t)
      /\ \A i \in 1 .. Len(h) + Len(t) :
           (h \o t)[i] = IF i <= Len(h) THEN h[i] ELSE t[i - Len(h)]
  BY <1>1, <1>2, ConcatProperties DEF h, t
<1>4. Len(h \o t) = Len(s) /\ \A i \in 1 .. Len(s) : (h \o t)[i] = s[i]
  BY <1>1, <1>2, <1>3 DEF h, t
<1> QED BY <1>3, <1>4, SeqEqual DEF h, t

\* An element before a sequence is its head, the sequence its tail.
LEMMA ConsFacts ==
  ASSUME NEW S, NEW x \in S, NEW s \in Seq(S)
  PROVE  /\ <<x>> \o s # <<>> /\ Head(<<x>> \o s) = x /\ Tail(<<x>> \o s) = s
<1>1. <<x>> \in Seq(S) /\ Len(<<x>>) = 1 /\ <<x>>[1] = x /\ Len(s) \in Nat
  BY LenProperties
<1> DEFINE c == <<x>> \o s
<1>2. /\ c \in Seq(S) /\ Len(c) = 1 + Len(s) /\ c[1] = x
      /\ \A i \in 1 .. Len(s) : c[i + 1] = s[i]
  BY <1>1, ConcatProperties
<1> HIDE DEF c
<1>3. c # <<>> /\ Head(c) = x
  BY <1>1, <1>2
<1>4. /\ Tail(c) \in Seq(S) /\ Len(Tail(c)) = Len(s)
      /\ \A i \in 1 .. Len(s) : Tail(c)[i] = s[i]
  BY <1>1, <1>2, <1>3, HeadTailProperties
<1>5. Tail(c) = s
  BY <1>4, SeqEqual
<1> QED BY <1>3, <1>5 DEF c

\* Sending the next request changes nothing in what is left of them.
LEMMA SendsFacts ==
  ASSUME NEW ready \in BOOLEAN, NEW isPending, NEW queue, NEW rest, irreversible \in Nat,
         RequestsOK(rest, isPending, end_block_num, queue, irreversible),
         process_interactive_reqs(ready, isPending, queue, rest)
  PROVE  /\ RequestsOK(request', interactive_req_pending', end_block_num',
                       interactive_req_queue', irreversible)
         /\ LeftOf(request', interactive_req_queue') = LeftOf(rest, queue)
<1>1. CASE ~MaySend(ready, isPending, queue)
  BY <1>1 DEF process_interactive_reqs
<1>2. CASE MaySend(ready, isPending, queue)
  <2>1. queue \in Seq(Requests) /\ queue # <<>> /\ ~(rest.start < rest.end)
    BY <1>2 DEF MaySend, RequestsOK
  <2>2. /\ interactive_req_queue' = Tail(queue) /\ interactive_req_pending' = TRUE
        /\ end_block_num' = Head(queue).end /\ request' = Head(queue)
    BY <1>2 DEF process_interactive_reqs
  <2>3. /\ Head(queue) \in Requests /\ Tail(queue) \in Seq(Requests)
        /\ Head(queue) = queue[1] /\ 1 \in DOMAIN queue
        /\ \A i \in DOMAIN Tail(queue) : i + 1 \in DOMAIN queue /\ Tail(queue)[i] = queue[i + 1]
    BY <2>1, HeadTailProperties, LenProperties
  <2>4. Head(queue) \in Pairs /\ Head(queue).start < Head(queue).end
    BY <2>3, RequestsArePairs
  <2>5. RequestsOK(request', interactive_req_pending', end_block_num',
                   interactive_req_queue', irreversible)
    BY <2>2, <2>3, <2>4 DEF RequestsOK, Pairs
  <2>6. LeftOf(request', interactive_req_queue') = queue
    BY <2>1, <2>2, <2>4, HeadBeforeTail DEF LeftOf
  <2>7. LeftOf(rest, queue) = queue
    BY <2>1, ConcatEmptySeq DEF LeftOf
  <2> QED BY <2>5, <2>6, <2>7
<1> QED BY <1>1, <1>2

\* The blocks of the request that is sent were covered as part of the queue.
LEMMA SendsWithin ==
  ASSUME NEW ready, NEW isPending, NEW queue \in Seq(Requests), NEW rest, NEW bound,
         Within(rest, isPending, queue, bound),
         process_interactive_reqs(ready, isPending, queue, rest)
  PROVE  Within(request', interactive_req_pending', interactive_req_queue', bound)
<1>1. CASE ~MaySend(ready, isPending, queue)
  BY <1>1 DEF process_interactive_reqs, Within
<1>2. CASE MaySend(ready, isPending, queue)
  <2>1. queue # <<>> /\ interactive_req_queue' = Tail(queue) /\ request' = Head(queue)
    BY <1>2 DEF MaySend, process_interactive_reqs
  <2>2. /\ Head(queue) = queue[1] /\ 1 \in DOMAIN queue
        /\ \A i \in DOMAIN Tail(queue) : i + 1 \in DOMAIN queue /\ Tail(queue)[i] = queue[i + 1]
    BY <2>1, HeadTailProperties, LenProperties
  <2> QED BY <2>1, <2>2 DEF Within
<1> QED BY <1>1, <1>2

\* A request that is accepted goes to the end of the queue.
LEMMA AcceptFacts ==
  ASSUME RequestInv, OnlyIrreversible, NEW r \in Asked, on_block_req(r)
  PROVE  LET queue == Append(interactive_req_queue, r)
         IN /\ RequestsOK(request, interactive_req_pending, end_block_num, queue, irreversible)
            /\ r \in Requests /\ r.end - 1 <= head
            /\ \A i \in DOMAIN queue :
                 queue[i] = r \/ \E j \in DOMAIN interactive_req_queue :
                                  queue[i] = interactive_req_queue[j]
            /\ LeftOf(request, queue) = Append(LeftOf(request, interactive_req_queue), r)
<1> DEFINE q == interactive_req_queue
           queue == Append(q, r)
<1>1. q \in Seq(Requests) /\ request \in Pairs /\ irreversible \in Nat
  BY DEF RequestInv, RequestsOK
<1>2. r.end <= db.rev /\ r.end - 1 <= irreversible
  BY DEF on_block_req, Available, head
<1>3. db.rev \in Nat /\ db.rev <= MaxBlock /\ MaxBlock \in Nat
  BY AccountsAssumption DEF RequestInv, HistoryOK, IsDatabase
<1>4. r \in Requests /\ r.end - 1 <= head
  BY <1>2, <1>3 DEF Asked, Requests, head
<1>5. /\ queue \in Seq(Requests)
      /\ \A i \in DOMAIN queue : queue[i] = r \/ \E j \in DOMAIN q : queue[i] = q[j]
  BY <1>1, <1>4
<1> HIDE DEF queue
<1>6. \A i \in DOMAIN queue : queue[i].end - 1 <= irreversible
  BY <1>2, <1>5 DEF RequestInv, RequestsOK
<1>7. RequestsOK(request, interactive_req_pending, end_block_num, queue, irreversible)
  BY <1>5, <1>6 DEF RequestInv, RequestsOK
<1>8. LeftOf(request, queue) = Append(LeftOf(request, q), r)
  <2>1. q \in Seq(Pairs) /\ r \in Pairs
    BY <1>1, <1>4, RequestsArePairs, SeqMonotonic
  <2>2. ASSUME NEW l \in Seq(Pairs) PROVE l \o Append(q, r) = Append(l \o q, r)
    BY <2>1
  <2>3. <<>> \in Seq(Pairs) /\ <<request>> \in Seq(Pairs)
    BY <1>1
  <2> QED BY <2>2, <2>3 DEF LeftOf, queue
<1> QED BY <1>4, <1>5, <1>7, <1>8 DEF queue

\* A block is one of the request, and what is left of it is in order again.
LEMMA ResultFacts ==
  ASSUME RequestInv, NEW rows, NEW actions, BlockReceived(rows, actions)
  PROVE  LET b         == request.start
             isPending == interactive_req_pending /\ ~EndsRequest(b)
             rest      == [request EXCEPT !.start = b + 1]
         IN /\ b \in Int /\ b <= request.end - 1 /\ interactive_req_pending
            /\ rest = [start |-> b + 1, end |-> request.end]
            /\ RequestsOK(rest, isPending, end_block_num, interactive_req_queue, irreversible)
<1> DEFINE b         == request.start
           isPending == interactive_req_pending /\ ~EndsRequest(b)
           rest      == [request EXCEPT !.start = b + 1]
<1>1. request \in Pairs /\ b < request.end
  BY DEF RequestInv, RequestsOK, BlockReceived
<1>2. b \in Int /\ request.end \in Int /\ b <= request.end - 1
  BY <1>1 DEF Pairs
<1>3. interactive_req_pending /\ end_block_num = request.end
  BY <1>1 DEF RequestInv, RequestsOK
<1>4. rest = [start |-> b + 1, end |-> request.end] /\ rest \in Pairs
  BY <1>1, <1>2 DEF Pairs
<1>5. isPending <=> b + 1 < request.end
  BY <1>2, <1>3 DEF EndsRequest
<1>6. RequestsOK(rest, isPending, end_block_num, interactive_req_queue, irreversible)
  BY <1>2, <1>3, <1>4, <1>5 DEF RequestInv, RequestsOK
<1> QED BY <1>2, <1>3, <1>4, <1>6

(* ------------------------ the request invariant -------------------------- *)

LEMMA RequestStore == RequestInv => StoreOK
BY DEF RequestInv, StoreOK

\* A fork takes back no block the consumer asked for.
LEMMA RollsKeepRequest ==
  ASSUME RequestInv, NEW n \in 1..head, ScannerRolls(n)
  PROVE  request' = request
<1>1. irreversible \in Nat /\ irreversible < n /\ n \in Int
  BY DEF RequestInv, HistoryOK, IsDatabase, ScannerRolls, Receives, head
<1>2. ~(n < request.start)
  BY <1>1 DEF RequestInv, RequestsOK, Pairs
<1> QED BY <1>2 DEF ScannerRolls

\* What every step of the process keeps of the database, and every step of the
\* scanning process of the requests.
LEMMA ScannerKeepsRequests ==
  ASSUME RequestInv,
         \/ Forks \/ ScannerGrows \/ ScannerStarts \/ ScannerStops \/ ScannerLearns
  PROVE  /\ RequestInv' /\ irreversible <= irreversible'
         /\ UNCHANGED <<requests, request, reader, lookup>>
<1>1. ASSUME NEW n \in 1..head, ScannerRolls(n)
      PROVE  /\ HistoryOK(db') /\ irreversible' = irreversible
             /\ UNCHANGED <<requests, request, reader, lookup>>
  BY <1>1, RollsFacts, RollsKeepRequest, RequestStore DEF ScannerRolls
<1>2. CASE ScannerGrows
  <2>1. irreversible' = irreversible /\ UNCHANGED <<requests, request, reader, lookup>>
    BY <1>2 DEF ScannerGrows, ReceiveBlock
  <2> QED BY <1>2, <2>1, GrowsFacts, RequestStore DEF RequestInv, RequestsOK, requests
<1>3. CASE ScannerStarts
  <2>1. UNCHANGED <<requests, request, reader, lookup>>
    BY <1>3 DEF ScannerStarts
  <2> QED BY <1>3, <2>1, StartsFacts, RequestStore DEF RequestInv, RequestsOK, requests
<1>4. CASE ScannerStops
  <2>1. db' = db /\ irreversible' = irreversible /\ UNCHANGED <<requests, request, reader, lookup>>
    BY <1>4 DEF ScannerStops, Stop
  <2> QED BY <2>1 DEF RequestInv, RequestsOK, requests
<1>5. CASE ScannerLearns
  <2>1. /\ db' = db /\ irreversible' = irreversible + 1
        /\ UNCHANGED <<requests, request, reader, lookup>>
    BY <1>5 DEF ScannerLearns, NewIrreversible
  <2>2. irreversible \in Nat /\ irreversible' \in Nat /\ irreversible <= irreversible'
    BY <2>1 DEF RequestInv
  <2>3. \A m \in Int : m <= irreversible => m <= irreversible'
    BY <2>2
  <2>4. \A i \in DOMAIN interactive_req_queue : interactive_req_queue[i].end - 1 \in Int
    <3>1. \A i \in DOMAIN interactive_req_queue : interactive_req_queue[i] \in Pairs
      BY RequestsArePairs, ElementOfSeq, LenProperties DEF RequestInv, RequestsOK
    <3> QED BY <3>1 DEF Pairs
  <2>5. request.end - 1 \in Int
    BY DEF RequestInv, RequestsOK, Pairs
  <2> QED BY <2>1, <2>2, <2>3, <2>4, <2>5 DEF RequestInv, RequestsOK, requests
<1>6. CASE Forks
  <2>1. PICK n \in 1..head : ScannerRolls(n)
    BY <1>6 DEF Forks
  <2> QED BY <1>1, <2>1 DEF RequestInv, RequestsOK, requests
<1> QED BY <1>2, <1>3, <1>4, <1>5, <1>6

\* A block is received to its end, or an exception leaves it in the middle.
Received == \E rows \in SUBSET Accounts, actions \in SUBSET Accounts :
              /\ BlockReceived(rows, actions)
              /\ waits' \in {"result", "pause", "ended", "closed"}

LEMMA ReceivedSome ==
  ASSUME Results \/ \E c \in Contents : ResultThrows(c.rows, c.actions)
  PROVE  Received
<1>1. \A c \in Contents : c.rows \in SUBSET Accounts /\ c.actions \in SUBSET Accounts
  BY RequestsAssumption
<1>2. ASSUME NEW c \in Contents, receive_result(c.rows, c.actions) PROVE Received
  <2>1. waits' \in {"result", "pause", "ended", "closed"}
    BY <1>2 DEF receive_result, continue_read
  <2> QED BY <1>1, <1>2, <2>1 DEF receive_result, Received
<1>3. ASSUME NEW c \in Contents, ResultThrows(c.rows, c.actions) PROVE Received
  <2>1. PICK some \in SUBSET c.rows, more \in SUBSET c.actions : BlockReceived(some, more)
    BY <1>3 DEF ResultThrows
  <2>2. waits' = "closed"
    BY <1>3 DEF ResultThrows
  <2> QED BY <1>1, <2>1, <2>2 DEF Received
<1> QED BY <1>2, <1>3 DEF Results

\* The stream is closed, or the process ends, between two blocks.
Leaves == AbiRefused \/ ResultRefused \/ StaleAbort \/ Stopped

LEMMA LeavesFacts ==
  ASSUME Leaves
  PROVE  /\ UNCHANGED <<vars, requests, request, reader_head, served, lookup>>
         /\ waits' \in {"refused", "closed", "ended"}
         /\ undecoded' \in {undecoded, {}} /\ reader_ctxt' \in {reader_ctxt, <<>>}
         /\ slowdown_requested' \in {slowdown_requested, FALSE}
<1>1. CASE AbiRefused \/ ResultRefused
  BY <1>1 DEF AbiRefused, ResultRefused, Closes
<1>2. CASE StaleAbort \/ Stopped
  BY <1>2 DEF StaleAbort, Stopped, Ends
<1> QED BY <1>1, <1>2 DEF Leaves

\* Steps of the process that have nothing to do with its requests.
LEMMA OtherStepsFacts ==
  ASSUME \/ PauseTimer \/ Decodes \/ Lookups \/ SlowDown \/ SpeedUp \/ Leaves
         \/ UNCHANGED ivars
  PROVE  UNCHANGED <<vars, requests, request, reader_head, served>>
BY LeavesFacts DEF PauseTimer, Decodes, DecodeAs, Lookups, UseRow, FindRow, SlowDown, SpeedUp, ivars, reader

\* Accepting and sending a request.
LEMMA AcceptStep ==
  ASSUME RequestInv, OnlyIrreversible, NEW r \in Asked, on_block_req(r)
  PROVE  /\ RequestInv' /\ UNCHANGED <<vars, served>>
         /\ LeftOf(request', interactive_req_queue') =
              Append(LeftOf(request, interactive_req_queue), r)
<1> DEFINE queue == Append(interactive_req_queue, r)
           ready == waits \notin {"abi", "refused"}
<1>1. process_interactive_reqs(ready, interactive_req_pending, queue, request)
  BY DEF on_block_req
<1>2. /\ RequestsOK(request, interactive_req_pending, end_block_num, queue, irreversible)
      /\ LeftOf(request, queue) = Append(LeftOf(request, interactive_req_queue), r)
  BY AcceptFacts
<1>3. UNCHANGED <<vars, served>> /\ irreversible \in Nat /\ ready \in BOOLEAN
  BY DEF on_block_req, RequestInv
<1> HIDE DEF queue, ready
<1>4. /\ RequestsOK(request', interactive_req_pending', end_block_num',
                    interactive_req_queue', irreversible)
      /\ LeftOf(request', interactive_req_queue') = LeftOf(request, queue)
  BY <1>1, <1>2, <1>3, SendsFacts
<1> QED BY <1>2, <1>3, <1>4 DEF RequestInv, vars

\* The connection is up and a waiting request goes out.
LEMMA AbiStep ==
  ASSUME RequestInv, ReadAbi
  PROVE  /\ RequestInv' /\ UNCHANGED <<vars, served>>
         /\ LeftOf(request', interactive_req_queue') = LeftOf(request, interactive_req_queue)
<1>1. /\ process_interactive_reqs(TRUE, interactive_req_pending, interactive_req_queue, request)
      /\ UNCHANGED <<vars, served>> /\ irreversible \in Nat
      /\ RequestsOK(request, interactive_req_pending, end_block_num, interactive_req_queue,
                    irreversible)
  BY DEF ReadAbi, RequestInv
<1>2. /\ RequestsOK(request', interactive_req_pending', end_block_num',
                    interactive_req_queue', irreversible)
      /\ LeftOf(request', interactive_req_queue') = LeftOf(request, interactive_req_queue)
  BY <1>1, SendsFacts
<1> QED BY <1>1, <1>2 DEF RequestInv, vars

\* A block is delivered, and the next request goes out after the last one.
LEMMA ResultStep ==
  ASSUME RequestInv, NEW rows, NEW actions, BlockReceived(rows, actions)
  PROVE  LET rest == [start |-> request.start + 1, end |-> request.end]
         IN /\ RequestInv' /\ UNCHANGED vars /\ served' = Append(served, request.start)
            /\ request.start < request.end
            /\ LeftOf(request', interactive_req_queue') = LeftOf(rest, interactive_req_queue)
<1> DEFINE b         == request.start
           isPending == interactive_req_pending /\ ~EndsRequest(b)
           mayGoOn   == EndsRequest(b)
           rest      == [start |-> b + 1, end |-> request.end]
<1>1. RequestsOK(rest, isPending, end_block_num, interactive_req_queue, irreversible)
  BY ResultFacts
<1>2. process_interactive_reqs(mayGoOn, isPending, interactive_req_queue, rest)
  BY ResultFacts DEF BlockReceived
<1>3. /\ UNCHANGED vars /\ served' = Append(served, b) /\ irreversible \in Nat
      /\ b < request.end /\ mayGoOn \in BOOLEAN
  BY DEF BlockReceived, RequestInv, EndsRequest
<1> HIDE DEF isPending, mayGoOn, rest
<1>4. /\ RequestsOK(request', interactive_req_pending', end_block_num',
                    interactive_req_queue', irreversible)
      /\ LeftOf(request', interactive_req_queue') = LeftOf(rest, interactive_req_queue)
  BY <1>1, <1>2, <1>3, SendsFacts
<1> QED BY <1>3, <1>4 DEF RequestInv, vars, rest

LEMMA RequestInit == IInit => RequestInv
<1> SUFFICES ASSUME IInit PROVE RequestInv OBVIOUS
<1>1. db = Opened(0, EmptyTables) /\ irreversible = 1
  BY DEF IInit, Init
<1>2. IsDatabase(db) /\ db.base = 0 /\ db.rev = 0 /\ db.at[0] = EmptyTables
  BY <1>1, OpenedFacts
<1>3. DOMAIN EmptyTables.history = {}
  <2>1. DOMAIN <<>> = {} OBVIOUS
  <2> QED BY <2>1 DEF EmptyTables
<1>4. HistoryOK(db)
  BY <1>2, <1>3, AccountsAssumption DEF HistoryOK
<1>5. RequestsOK(request, interactive_req_pending, end_block_num, interactive_req_queue,
                 irreversible)
  <2>1. NoEnd \in Int
    BY AccountsAssumption DEF NoEnd
  <2>2. <<>> \in Seq(Requests) /\ DOMAIN <<>> = {}
    OBVIOUS
  <2>3. /\ request = [start |-> 1, end |-> 1] /\ interactive_req_pending = FALSE
        /\ end_block_num = NoEnd /\ interactive_req_queue = <<>>
    BY DEF IInit, NothingAsked
  <2>4. request \in Pairs /\ request.start = 1 /\ request.end = 1
    BY <2>3 DEF Pairs
  <2>5. request.start <= request.end /\ request.end - 1 <= irreversible
        /\ ~(request.start < request.end)
    BY <1>1, <2>4
  <2>6. /\ interactive_req_queue \in Seq(Requests)
        /\ \A i \in DOMAIN interactive_req_queue : interactive_req_queue[i].end - 1 <= irreversible
    <3>1. DOMAIN interactive_req_queue = {}
      BY <2>2, <2>3
    <3> QED BY <2>2, <2>3, <3>1
  <2> QED BY <2>1, <2>3, <2>4, <2>5, <2>6, Zenon DEF RequestsOK
<1> QED BY <1>1, <1>4, <1>5 DEF RequestInv

LEMMA RequestStep ==
  ASSUME RequestInv, OnlyIrreversible, [INext]_ivars
  PROVE  RequestInv' /\ [Server!Next]_<<LeftOf(request, interactive_req_queue), served>>
<1>1. ASSUME NEW r \in Asked, on_block_req(r)
      PROVE  RequestInv' /\ Server!Accept(r) /\ r \in Requests
  BY <1>1, AcceptStep, AcceptFacts DEF Server!Accept, LeftOf
<1>2. CASE ReadAbi
  BY <1>2, AbiStep
<1>3. ASSUME NEW rows, NEW actions, BlockReceived(rows, actions)
      PROVE  RequestInv' /\ Server!Deliver
  <2> DEFINE q    == interactive_req_queue
             rest == [start |-> request.start + 1, end |-> request.end]
  <2>1. request \in Pairs /\ q \in Seq(Pairs) /\ request.start < request.end
    BY <1>3, ResultStep, RequestsArePairs, SeqMonotonic DEF RequestInv, RequestsOK
  <2>2. LeftOf(request, q) = <<request>> \o q
    BY <2>1 DEF LeftOf
  <2>3. /\ LeftOf(request, q) # <<>> /\ Head(LeftOf(request, q)) = request
        /\ Tail(LeftOf(request, q)) = q
    BY <2>1, <2>2, ConsFacts
  <2>4. [request EXCEPT !.start = request.start + 1] = rest
    BY <2>1 DEF Pairs
  <2>5. RequestInv' /\ served' = Append(served, request.start)
        /\ LeftOf(request', q') = LeftOf(rest, q)
    BY <1>3, ResultStep
  <2>6. Server!Deliver
    BY <2>3, <2>4, <2>5 DEF Server!Deliver, LeftOf
  <2> QED BY <2>5, <2>6
<1>4. CASE Forks \/ ScannerGrows \/ ScannerStarts \/ ScannerStops \/ ScannerLearns
  BY <1>4, ScannerKeepsRequests DEF LeftOf, requests, reader
<1>5. CASE \/ PauseTimer \/ Decodes \/ Lookups \/ SlowDown \/ SpeedUp \/ Leaves
           \/ UNCHANGED ivars
  BY <1>5, OtherStepsFacts DEF RequestInv, LeftOf, vars, requests
<1>6. CASE Received
  BY <1>3, <1>6 DEF Received, Server!Next
<1> QED BY <1>1, <1>2, <1>4, <1>5, <1>6, ReceivedSome
       DEF INext, Failures, Leaves, Server!Next

\* interactive_req_pending says whether the node has blocks of a request to send,
\* whatever requests come in and whatever the scanning process does.
THEOREM PendingIsExactAlways == ASSUME OnlyIrreversible PROVE ISpec => []PendingIsExact
<1>1. RequestInv => PendingIsExact
  BY DEF RequestInv, RequestsOK, PendingIsExact
<1>2. RequestInv /\ [INext]_ivars => RequestInv'
  BY RequestStep
<1> QED BY <1>1, <1>2, RequestInit, PTL DEF ISpec

\* The process implements RequestServer: all the blocks of all the requests, one
\* by one and in order.
THEOREM ImplementsServer == ASSUME OnlyIrreversible PROVE ISpec => ServesRequests
<1>1. IInit => Server!Init
  <2>1. <<>> \o <<>> = <<>>
    OBVIOUS
  <2> QED BY <2>1 DEF IInit, NothingAsked, Server!Init
<1>2. RequestInv /\ [INext]_ivars => RequestInv'
  BY RequestStep
<1>3. RequestInv /\ [INext]_ivars
        => [Server!Next]_<<LeftOf(request, interactive_req_queue), served>>
  BY RequestStep
<1>4. RequestInv /\ [INext]_ivars
        => [Server!Next]_<<(IF request.start < request.end THEN <<request>> ELSE <<>>)
                             \o interactive_req_queue, served>>
  BY <1>3 DEF LeftOf
<1> QED BY <1>1, <1>2, <1>4, RequestInit, PTL DEF ISpec, ServesRequests, Server!Spec

(* -------------------------- the row that is found ------------------------ *)

ReaderInv == RequestInv /\ Covered /\ FoundInv

\* Rows of the history have numbers; the newest revision has the head's.
LEMMA RowsFacts ==
  ASSUME NEW d, HistoryOK(d)
  PROVE  /\ d.rev \in Nat
         /\ \A k \in DOMAIN Current(d).history : k[1] \in Int /\ k[2] \in Int
<1>1. d.rev \in Nat /\ d.rev \in d.base .. d.rev
  BY DEF HistoryOK, IsDatabase
<1>2. DOMAIN Current(d).history \subseteq Accounts \X (1 .. d.rev)
  BY <1>1 DEF HistoryOK, Current
<1>3. ASSUME NEW k \in DOMAIN Current(d).history PROVE k[1] \in Int /\ k[2] \in Int
  <2>1. k \in Accounts \X (1 .. d.rev)
    BY <1>2
  <2>2. k[1] \in Accounts /\ k[2] \in 1 .. d.rev
    BY <2>1
  <2>3. k[1] \in Int
    <3>1. Accounts \subseteq Int
      BY AccountsAssumption
    <3> QED BY <2>2, <3>1
  <2>4. k[2] \in Int
    BY <1>1, <2>2
  <2> QED BY <2>3, <2>4
<1> QED BY <1>1, <1>3

\* A step that keeps the rows of the blocks up to the one that is read keeps the
\* row that is found.
LEMMA FoundIsKept ==
  ASSUME HistoryOK(db), HistoryOK(db'), FoundInv, UNCHANGED <<reader_head, lookup>>,
         irreversible \in Nat, irreversible' \in Nat, irreversible <= irreversible',
         NEW bound \in Int, found # {} => reader_head <= bound, SameRows(db, db', bound)
  PROVE  FoundInv'
<1>1. reader_head \in Int /\ reader_head <= irreversible'
  BY DEF FoundInv
<1>2. ASSUME NEW f \in found
      PROVE  /\ f.account \in wanted
             /\ f.key[1] = f.account =>
                  /\ f.key[2] <= reader_head /\ f.key \in DOMAIN Current(db').history
                  /\ Current(db').history[f.key] = f.abi
             /\ \A k \in DOMAIN Current(db').history :
                  k[1] = f.account /\ k[2] <= reader_head =>
                    f.key[1] = f.account /\ k[2] <= f.key[2]
  <2>1. reader_head <= bound /\ f.account \in wanted
    BY <1>2 DEF FoundInv
  <2>2. ASSUME f.key[1] = f.account
        PROVE  /\ f.key[2] <= reader_head /\ f.key \in DOMAIN Current(db').history
               /\ Current(db').history[f.key] = f.abi
    <3>1. /\ f.key[2] <= reader_head /\ f.key \in DOMAIN Current(db).history
          /\ Current(db).history[f.key] = f.abi
      BY <1>2, <2>2 DEF FoundInv
    <3>2. f.key[2] \in Int
      BY <3>1, RowsFacts
    <3>3. f.key[2] <= bound
      BY <1>1, <2>1, <3>1, <3>2
    <3> QED BY <3>1, <3>3 DEF SameRows
  <2>3. ASSUME NEW k \in DOMAIN Current(db').history, k[1] = f.account, k[2] <= reader_head
        PROVE  f.key[1] = f.account /\ k[2] <= f.key[2]
    <3>1. k[2] \in Int
      BY RowsFacts
    <3>2. k[2] <= bound
      BY <1>1, <2>1, <2>3, <3>1
    <3>3. k \in DOMAIN Current(db).history
      BY <3>2 DEF SameRows
    <3> QED BY <1>2, <2>3, <3>3 DEF FoundInv
  <2> QED BY <2>1, <2>2, <2>3
<1>3. UNCHANGED <<reader_head, wanted, found>> /\ Current(db)' = Current(db')
  BY DEF lookup, Current
<1> QED BY <1>1, <1>2, <1>3 DEF FoundInv

\* The lower bound of an account that has a row for the block, or an earlier one,
\* is the latest such row.
LEMMA LowerBoundIsLatest ==
  ASSUME NEW history, \A k \in DOMAIN history : k[1] \in Int /\ k[2] \in Int,
         NEW account \in Int, NEW block \in Int,
         NEW k \in lower_bound(history, account, block)
  PROVE  /\ k \in DOMAIN history
         /\ k[1] = account => k[2] <= block
         /\ \A l \in DOMAIN history :
              l[1] = account /\ l[2] <= block => k[1] = account /\ l[2] <= k[2]
<1>1. k \in DOMAIN history /\ k[1] \in Int /\ k[2] \in Int
  BY DEF lower_bound
<1>2. k[1] > account \/ (k[1] = account /\ k[2] <= block)
  BY DEF lower_bound, Follows
<1>3. ASSUME NEW l \in DOMAIN history, l[1] = account, l[2] <= block
      PROVE  k[1] = account /\ l[2] <= k[2]
  <2>1. l[1] \in Int /\ l[2] \in Int
    OBVIOUS
  <2>2. l = k \/ l[1] > k[1] \/ (l[1] = k[1] /\ l[2] <= k[2])
    BY <1>3 DEF lower_bound, Follows
  <2> QED BY <1>1, <1>2, <1>3, <2>1, <2>2
<1> QED BY <1>1, <1>2, <1>3

\* A handler that looks up nothing has found nothing.
LEMMA IdleFindsNothing == ASSUME FoundInv, Idle PROVE found = {}
BY DEF FoundInv, Idle

LEMMA CoveredAfterAccept ==
  ASSUME ReaderInv, OnlyIrreversible, NEW r \in Asked, on_block_req(r)
  PROVE  Covered'
<1> DEFINE queue == Append(interactive_req_queue, r)
           ready == waits \notin {"abi", "refused"}
<1>1. /\ process_interactive_reqs(ready, interactive_req_pending, queue, request)
      /\ UNCHANGED <<vars, waits, reader_head, undecoded, lookup>>
  BY DEF on_block_req
<1>2. /\ queue \in Seq(Requests) /\ r.end - 1 <= head
      /\ \A i \in DOMAIN queue :
           queue[i] = r \/ \E j \in DOMAIN interactive_req_queue :
                            queue[i] = interactive_req_queue[j]
  BY AcceptFacts DEF ReaderInv, RequestsOK
<1> HIDE DEF queue, ready
<1>3. ASSUME Serving
      PROVE  Within(request', interactive_req_pending', interactive_req_queue', head)
  <2>1. Within(request, interactive_req_pending, interactive_req_queue, head)
    BY <1>3 DEF ReaderInv, Covered
  <2>2. Within(request, interactive_req_pending, queue, head)
    BY <1>2, <2>1 DEF Within
  <2> QED BY <1>1, <1>2, <2>2, SendsWithin
<1> QED BY <1>1, <1>3 DEF ReaderInv, Covered, Serving, head, vars, lookup

LEMMA CoveredAfterAbi ==
  ASSUME ReaderInv, ReadAbi
  PROVE  Covered'
<1>1. /\ process_interactive_reqs(TRUE, interactive_req_pending, interactive_req_queue, request)
      /\ waits = "abi" /\ UNCHANGED <<vars, reader_head, undecoded, lookup>>
  BY DEF ReadAbi
<1>2. /\ Within(request, interactive_req_pending, interactive_req_queue, head)
      /\ interactive_req_queue \in Seq(Requests)
  BY <1>1 DEF ReaderInv, Covered, Serving, RequestInv, RequestsOK
<1>3. Within(request', interactive_req_pending', interactive_req_queue', head)
  BY <1>1, <1>2, SendsWithin
<1> QED BY <1>1, <1>3 DEF ReaderInv, Covered, head, vars, lookup

LEMMA ReaderAfterResult ==
  ASSUME ReaderInv, NEW rows, NEW actions, BlockReceived(rows, actions)
  PROVE  Covered' /\ FoundInv'
<1> DEFINE b         == request.start
           isPending == interactive_req_pending /\ ~EndsRequest(b)
           mayGoOn   == EndsRequest(b)
           rest      == [request EXCEPT !.start = b + 1]
<1>1. /\ process_interactive_reqs(mayGoOn, isPending, interactive_req_queue, rest)
      /\ waits = "result" /\ Idle /\ reader_head' = b /\ UNCHANGED <<vars, found>>
  BY DEF BlockReceived
<1>2. /\ b \in Int /\ b <= request.end - 1 /\ interactive_req_pending
      /\ rest = [start |-> b + 1, end |-> request.end]
      /\ interactive_req_queue \in Seq(Requests)
  BY ResultFacts DEF ReaderInv, RequestInv, RequestsOK
<1>3. Within(request, interactive_req_pending, interactive_req_queue, head)
  BY <1>1 DEF ReaderInv, Covered, Serving
<1>4. Within(rest, isPending, interactive_req_queue, head)
  BY <1>2, <1>3 DEF Within
<1>5. b <= head /\ b <= irreversible
  <2>1. /\ request.end \in Int /\ request.end - 1 <= irreversible /\ irreversible \in Int
        /\ head \in Int /\ request.end - 1 <= head
    BY <1>2, <1>3
       DEF ReaderInv, RequestInv, RequestsOK, Pairs, Within, head, HistoryOK, IsDatabase
  <2> QED BY <1>2, <2>1
<1> HIDE DEF isPending, mayGoOn, rest
<1>6. Within(request', interactive_req_pending', interactive_req_queue', head)
  BY <1>1, <1>2, <1>4, SendsWithin
<1>7. Covered'
  BY <1>1, <1>5, <1>6 DEF Covered, head, vars
<1>8. found' = {}
  BY <1>1, IdleFindsNothing DEF ReaderInv
<1> QED BY <1>1, <1>2, <1>5, <1>7, <1>8 DEF FoundInv, vars

\* The row found for an account is its latest, also when it is found first.
LEMMA FoundFirst ==
  ASSUME ReaderInv, NEW a \in Accounts, FindRow(a)
  PROVE  FoundInv'
<1> DEFINE history == Current(db).history
<1>1. /\ found' = {[account |-> a, key |-> k, abi |-> history[k]] :
                      k \in lower_bound(history, a, reader_head)}
      /\ a \in wanted /\ wanted' = IF found' = {} THEN wanted \ {a} ELSE wanted
      /\ UNCHANGED <<vars, reader_head>>
  BY DEF FindRow, reader
<1>2. reader_head \in Int /\ reader_head <= irreversible /\ a \in Int
  BY AccountsAssumption DEF ReaderInv, FoundInv
<1>3. \A k \in DOMAIN history : k[1] \in Int /\ k[2] \in Int
  BY RowsFacts DEF ReaderInv, RequestInv
<1>4. history' = history
  BY <1>1 DEF vars, Current
<1> HIDE DEF history
<1>5. ASSUME NEW f \in found'
      PROVE  /\ f.account \in wanted'
             /\ f.key[1] = f.account =>
                  f.key[2] <= reader_head /\ f.key \in DOMAIN history /\ history[f.key] = f.abi
             /\ \A k \in DOMAIN history :
                  k[1] = f.account /\ k[2] <= reader_head =>
                    f.key[1] = f.account /\ k[2] <= f.key[2]
  <2>1. PICK k \in lower_bound(history, a, reader_head) :
          f = [account |-> a, key |-> k, abi |-> history[k]]
    BY <1>1, <1>5
  <2>2. f.account = a /\ f.key = k /\ f.abi = history[k] /\ f.account \in wanted'
    BY <1>1, <1>5, <2>1
  <2> QED BY <1>2, <1>3, <2>2, LowerBoundIsLatest
<1> QED BY <1>1, <1>2, <1>4, <1>5 DEF FoundInv, history, vars

LEMMA ReaderAfterLookup ==
  ASSUME ReaderInv, Lookups
  PROVE  Covered' /\ FoundInv'
<1>1. ASSUME NEW a \in Accounts, FindRow(a) PROVE Covered' /\ FoundInv'
  <2>1. /\ UNCHANGED <<vars, requests, request, waits, reader_head, undecoded>>
        /\ a \in wanted
    BY <1>1 DEF FindRow, reader
  <2> QED BY <1>1, <2>1, FoundFirst DEF ReaderInv, Covered, Serving, head, vars, requests
<1>2. CASE UseRow
  <2>1. /\ UNCHANGED <<vars, requests, request, waits, reader_head>> /\ found' = {}
        /\ \E r \in found : TRUE
    BY <1>2 DEF UseRow
  <2>2. wanted # {}
    BY <2>1 DEF ReaderInv, FoundInv
  <2> QED BY <2>1, <2>2 DEF ReaderInv, Covered, Serving, FoundInv, head, vars, requests
<1> QED BY <1>1, <1>2 DEF Lookups

LEMMA ReaderAfterOther ==
  ASSUME ReaderInv,
         PauseTimer \/ Decodes \/ SlowDown \/ SpeedUp \/ Leaves \/ UNCHANGED ivars
  PROVE  Covered' /\ FoundInv'
<1>1. CASE PauseTimer
  <2>1. /\ waits = "pause"
        /\ UNCHANGED <<vars, requests, request, reader_head, undecoded, lookup>>
    BY <1>1 DEF PauseTimer
  <2> QED BY <2>1 DEF ReaderInv, Covered, Serving, FoundInv, head, vars, requests, lookup, Current
<1>2. ASSUME NEW a \in Accounts, DecodeAs(a) PROVE Covered' /\ FoundInv'
  <2>1. /\ UNCHANGED <<vars, requests, request, waits, reader_head, found>>
        /\ a \in undecoded /\ Idle
    BY <1>2 DEF DecodeAs
  <2>2. found = {}
    BY <2>1, IdleFindsNothing DEF ReaderInv
  <2> QED BY <2>1, <2>2 DEF ReaderInv, Covered, Serving, FoundInv, head, vars, requests
<1>3. CASE SlowDown \/ SpeedUp \/ UNCHANGED ivars
  <2>1. UNCHANGED <<vars, requests, request, waits, reader_head, undecoded, lookup>>
    BY <1>3 DEF SlowDown, SpeedUp, ivars, reader
  <2> QED BY <2>1 DEF ReaderInv, Covered, Serving, FoundInv, head, vars, requests, lookup, Current
<1>4. CASE Leaves
  <2>1. /\ UNCHANGED <<vars, requests, request, reader_head, lookup>>
        /\ waits' \in {"refused", "closed", "ended"} /\ undecoded' \in {undecoded, {}}
    BY <1>4, LeavesFacts
  <2>2. Covered'
    BY <2>1 DEF ReaderInv, Covered, Serving, head, vars, requests, lookup
  <2>3. FoundInv'
    BY <2>1 DEF ReaderInv, FoundInv, vars, lookup, Current
  <2> QED BY <2>2, <2>3
<1> QED BY <1>1, <1>2, <1>3, <1>4 DEF Decodes

LEMMA ReaderAfterScanner ==
  ASSUME ReaderInv, RestartsAreQuiet,
         \/ Forks \/ ScannerGrows \/ ScannerStarts \/ ScannerStops \/ ScannerLearns
  PROVE  Covered' /\ FoundInv'
<1>1. /\ RequestInv' /\ irreversible <= irreversible'
      /\ UNCHANGED <<requests, request, reader, lookup>>
  BY ScannerKeepsRequests DEF ReaderInv
<1>2. /\ HistoryOK(db) /\ HistoryOK(db') /\ irreversible \in Nat /\ irreversible' \in Nat
      /\ reader_head \in Int /\ reader_head <= irreversible
      /\ head \in Nat /\ head' \in Nat /\ head = db.rev /\ head' = db'.rev
  BY <1>1, RowsFacts DEF ReaderInv, RequestInv, FoundInv, head
<1>3. /\ UNCHANGED <<waits, reader_head, undecoded, wanted, found, request>>
      /\ UNCHANGED <<interactive_req_queue, interactive_req_pending>>
  BY <1>1 DEF requests, reader, lookup
<1>4. /\ request.end - 1 \in Int /\ request.end - 1 <= irreversible
      /\ \A i \in DOMAIN interactive_req_queue :
           /\ interactive_req_queue[i].end - 1 \in Int
           /\ interactive_req_queue[i].end - 1 <= irreversible
  <2>1. \A i \in DOMAIN interactive_req_queue : interactive_req_queue[i] \in Pairs
    BY RequestsArePairs, ElementOfSeq, LenProperties DEF ReaderInv, RequestInv, RequestsOK
  <2> QED BY <2>1 DEF ReaderInv, RequestInv, RequestsOK, Pairs
<1>5. ASSUME irreversible <= head' PROVE Covered'
  <2>1. \A m \in Int : m <= irreversible => m <= head'
    BY <1>2, <1>5
  <2> QED BY <1>2, <1>3, <1>4, <2>1 DEF Covered, Serving, Within
<1>6. ASSUME head <= head' PROVE Covered'
  <2>1. \A m \in Int : m <= head => m <= head'
    BY <1>2, <1>6
  <2> QED BY <1>2, <1>3, <1>4, <2>1 DEF ReaderInv, Covered, Serving, Within
<1>7. ASSUME NEW n \in 1..head, ScannerRolls(n) PROVE Covered' /\ FoundInv'
  <2>1. irreversible <= head' /\ SameRows(db, db', irreversible)
    BY <1>2, <1>7, RollsFacts, RequestStore DEF ReaderInv
  <2>2. FoundInv'
    BY <1>1, <1>2, <1>3, <2>1, FoundIsKept DEF ReaderInv
  <2> QED BY <1>5, <2>1, <2>2
<1>8. CASE ScannerGrows
  <2>1. head' = head + 1 /\ SameRows(db, db', head)
    BY <1>2, <1>8, GrowsFacts, RequestStore DEF ReaderInv
  <2>2. found # {} => reader_head <= head
    BY DEF ReaderInv, Covered, FoundInv
  <2>3. FoundInv'
    BY <1>1, <1>2, <1>3, <2>1, <2>2, FoundIsKept DEF ReaderInv
  <2> QED BY <1>2, <1>6, <2>1, <2>3
<1>9. CASE ScannerStarts
  <2>1. Quiet
    BY <1>9 DEF ScannerStarts
  <2>2. found = {} /\ wanted = {} /\ undecoded = {}
    BY <2>1, IdleFindsNothing DEF Quiet, Idle, ReaderInv
  <2>3. ~Serving \/ (interactive_req_queue = <<>> /\ ~interactive_req_pending)
    <3>1. ~(request.start < request.end) => ~interactive_req_pending
      BY DEF ReaderInv, RequestInv, RequestsOK
    <3>2. request \in Pairs
      BY DEF ReaderInv, RequestInv, RequestsOK
    <3>3. request.start = request.end => ~(request.start < request.end)
      BY <3>2 DEF Pairs
    <3> QED BY <2>1, <3>1, <3>3 DEF Quiet, AllServed
  <2>4. Covered'
    <3>1. DOMAIN <<>> = {}
      OBVIOUS
    <3> QED BY <1>3, <2>2, <2>3, <3>1 DEF Covered, Serving, Within
  <2>5. FoundInv'
    <3>1. reader_head <= irreversible'
      BY <1>1, <1>2
    <3> QED BY <1>2, <1>3, <2>2, <3>1 DEF FoundInv
  <2> QED BY <2>4, <2>5
<1>10. CASE ScannerStops \/ ScannerLearns
  <2>1. db' = db
    BY <1>10 DEF ScannerStops, ScannerLearns, Stop, NewIrreversible
  <2>2. head' = head /\ SameRows(db, db', reader_head)
    BY <2>1 DEF SameRows, head
  <2>3. FoundInv'
    BY <1>1, <1>2, <1>3, <2>2, FoundIsKept DEF ReaderInv
  <2> QED BY <1>2, <1>6, <2>2, <2>3
<1> QED BY <1>7, <1>8, <1>9, <1>10 DEF Forks

LEMMA ReaderInit == IInit => ReaderInv
<1> SUFFICES ASSUME IInit PROVE ReaderInv OBVIOUS
<1>1. RequestInv
  BY RequestInit
<1>2. /\ interactive_req_queue = <<>> /\ interactive_req_pending = FALSE
      /\ wanted = {} /\ undecoded = {} /\ found = {} /\ reader_head = 0 /\ irreversible = 1
  BY DEF IInit, Init
<1>3. DOMAIN <<>> = {}
  OBVIOUS
<1>4. Covered
  BY <1>2, <1>3 DEF Covered, Within
<1>5. FoundInv
  BY <1>2 DEF FoundInv
<1> QED BY <1>1, <1>4, <1>5 DEF ReaderInv

LEMMA ReaderStep ==
  ASSUME ReaderInv, OnlyIrreversible, RestartsAreQuiet, [INext]_ivars
  PROVE  ReaderInv'
<1>1. RequestInv'
  BY RequestStep DEF ReaderInv
<1> SUFFICES Covered' /\ FoundInv'
  BY <1>1 DEF ReaderInv
<1>2. ASSUME NEW r \in Asked, on_block_req(r) PROVE Covered' /\ FoundInv'
  <2>1. UNCHANGED <<vars, reader_head, lookup>>
    BY <1>2 DEF on_block_req
  <2> QED BY <1>2, <2>1, CoveredAfterAccept DEF ReaderInv, FoundInv, vars, lookup, Current
<1>3. CASE ReadAbi
  <2>1. UNCHANGED <<vars, reader_head, lookup>>
    BY <1>3 DEF ReadAbi
  <2> QED BY <1>3, <2>1, CoveredAfterAbi DEF ReaderInv, FoundInv, vars, lookup, Current
<1>4. CASE Received
  BY <1>4, ReaderAfterResult DEF Received
<1>5. CASE Lookups
  BY <1>5, ReaderAfterLookup
<1>6. CASE PauseTimer \/ Decodes \/ SlowDown \/ SpeedUp \/ Leaves \/ UNCHANGED ivars
  BY <1>6, ReaderAfterOther
<1>7. CASE Forks \/ ScannerGrows \/ ScannerStarts \/ ScannerStops \/ ScannerLearns
  BY <1>7, ReaderAfterScanner
<1> QED BY <1>2, <1>3, <1>4, <1>5, <1>6, <1>7, ReceivedSome DEF INext, Failures, Leaves

\* The lock protocol is sound for irreversible blocks: a row of the contract that
\* get_contract_abi_ready reads after it gave up the mutex is as it found it.
THEOREM FoundRowStaysAlive ==
  ASSUME OnlyIrreversible, RestartsAreQuiet PROVE ISpec => []FoundRowIsAlive
<1>1. ReaderInv => FoundRowIsAlive
  BY DEF ReaderInv, FoundInv, FoundRowIsAlive
<1>2. ReaderInv /\ [INext]_ivars => ReaderInv'
  BY ReaderStep
<1> QED BY <1>1, <1>2, ReaderInit, PTL DEF ISpec

\* The lower bound of the index is the contract's latest row, and stays the latest
\* until it is used.
THEOREM OwnRowAlwaysFound ==
  ASSUME OnlyIrreversible, RestartsAreQuiet PROVE ISpec => []OwnRowIsFound
<1>1. ReaderInv => OwnRowIsFound
  <2> SUFFICES
        ASSUME ReaderInv, NEW f \in found,
               NEW own, own = {k \in DOMAIN Current(db).history :
                                 k[1] = f.account /\ k[2] <= reader_head},
               own # {}
        PROVE  f.key \in own /\ \A k \in own : k[2] <= f.key[2]
    BY DEF OwnRowIsFound
  <2>1. \A k \in own : f.key[1] = f.account /\ k[2] <= f.key[2]
    BY DEF ReaderInv, FoundInv
  <2>2. f.key[2] <= reader_head /\ f.key \in DOMAIN Current(db).history
    BY <2>1 DEF ReaderInv, FoundInv
  <2> QED BY <2>1, <2>2
<1>2. ReaderInv /\ [INext]_ivars => ReaderInv'
  BY ReaderStep
<1> QED BY <1>1, <1>2, ReaderInit, PTL DEF ISpec

(* ------------------------------- types ----------------------------------- *)

\* InteractiveTypeOK does not depend on what the consumer asks for, nor on when
\* the scanning process restarts.
Ranges == [start : 1..MaxBlock, end : 1..MaxBlock]
TypeInv == StoreOK /\ request \in Ranges /\ InteractiveTypeOK

LEMMA RequestsAreRanges ==
  Requests \subseteq Ranges /\ \A r \in Requests : r.end \in 2..MaxBlock
BY AccountsAssumption DEF Requests, Ranges

\* The index holds every key once: there is one lower bound at most.
LEMMA OneLowerBound ==
  ASSUME NEW d, HistoryOK(d), NEW account \in Int, NEW block \in Int,
         NEW k \in lower_bound(Current(d).history, account, block),
         NEW l \in lower_bound(Current(d).history, account, block)
  PROVE  k = l
<1> DEFINE rows == DOMAIN Current(d).history
<1>1. k \in rows /\ l \in rows /\ Follows(k, account, block) /\ Follows(l, account, block)
  BY DEF lower_bound
<1>2. k = l \/ (Follows(k, l[1], l[2]) /\ Follows(l, k[1], k[2]))
  BY <1>1 DEF lower_bound
<1>3. k[1] \in Int /\ k[2] \in Int /\ l[1] \in Int /\ l[2] \in Int
  BY <1>1, RowsFacts
<1>4. k[1] = l[1] /\ k[2] = l[2]
  BY <1>2, <1>3 DEF Follows
<1>5. k = <<k[1], k[2]>> /\ l = <<l[1], l[2]>>
  <2>1. d.rev \in d.base .. d.rev
    BY DEF HistoryOK, IsDatabase
  <2>2. rows \subseteq Accounts \X (1 .. d.rev)
    BY <2>1 DEF HistoryOK, Current
  <2> QED BY <1>1, <2>2
<1> QED BY <1>4, <1>5

\* What is sent next is one of the requests.
LEMMA SendsTypes ==
  ASSUME NEW ready, NEW isPending \in BOOLEAN, NEW queue \in Seq(Requests),
         NEW rest \in Ranges, end_block_num \in 2..MaxBlock \cup {NoEnd},
         process_interactive_reqs(ready, isPending, queue, rest)
  PROVE  /\ interactive_req_queue' \in Seq(Requests) /\ interactive_req_pending' \in BOOLEAN
         /\ end_block_num' \in 2..MaxBlock \cup {NoEnd} /\ request' \in Ranges
<1>1. CASE ~MaySend(ready, isPending, queue)
  BY <1>1 DEF process_interactive_reqs
<1>2. CASE MaySend(ready, isPending, queue)
  <2>1. queue # <<>>
    BY <1>2 DEF MaySend
  <2>2. Head(queue) \in Requests /\ Tail(queue) \in Seq(Requests)
    BY <2>1, HeadTailProperties
  <2>3. Head(queue) \in Ranges /\ Head(queue).end \in 2..MaxBlock
    BY <2>2, RequestsAreRanges
  <2> QED BY <1>2, <2>2, <2>3 DEF process_interactive_reqs
<1> QED BY <1>1, <1>2

\* The scanning process keeps its database, and moves the node's request at most
\* to a block it has had.
LEMMA ScannerTypes ==
  ASSUME TypeInv,
         \/ Forks \/ ScannerGrows \/ ScannerStarts \/ ScannerStops \/ ScannerLearns
  PROVE  /\ StoreOK' /\ request' \in Ranges
         /\ UNCHANGED <<requests, reader, lookup>>
<1>1. ASSUME NEW n \in 1..head, ScannerRolls(n)
      PROVE  /\ StoreOK' /\ request' \in Ranges
             /\ UNCHANGED <<requests, reader, lookup>>
  <2>1. n \in 1..MaxBlock
    BY <1>1 DEF ScannerRolls, Receives
  <2>2. request' \in Ranges
    BY <1>1, <2>1 DEF ScannerRolls, TypeInv, Ranges
  <2> QED BY <1>1, <2>2, RollsFacts DEF TypeInv, StoreOK, ScannerRolls
<1>2. CASE ScannerGrows
  <2>1. irreversible' = irreversible /\ UNCHANGED <<requests, request, reader, lookup>>
    BY <1>2 DEF ScannerGrows, ReceiveBlock
  <2> QED BY <1>2, <2>1, GrowsFacts DEF TypeInv, StoreOK
<1>3. CASE ScannerStarts
  BY <1>3, StartsFacts DEF TypeInv, StoreOK, ScannerStarts
<1>4. CASE ScannerStops
  BY <1>4 DEF TypeInv, StoreOK, ScannerStops, Stop
<1>5. CASE ScannerLearns
  BY <1>5 DEF TypeInv, StoreOK, ScannerLearns, NewIrreversible
<1> QED BY <1>1, <1>2, <1>3, <1>4, <1>5 DEF Forks

\* A step that keeps the types of what it changes keeps InteractiveTypeOK.
LookupTypes ==
  /\ reader_head \in 0..MaxBlock /\ undecoded \subseteq Accounts
  /\ DOMAIN reader_ctxt \subseteq Accounts /\ wanted \subseteq Accounts
  /\ Cardinality(found) <= 1 /\ \A r \in found : r.account \in wanted
RequestTypes ==
  /\ interactive_req_queue \in Seq(Requests) /\ accepted \in Seq(Requests)
  /\ interactive_req_pending \in BOOLEAN
  /\ end_block_num \in 2..MaxBlock \cup {NoEnd} /\ request \in Ranges
WaitTypes ==
  /\ waits \in {"abi", "result", "pause", "refused", "closed", "ended"}
  /\ slowdown_requested \in BOOLEAN

LEMMA TypeParts == TypeInv <=> StoreOK /\ RequestTypes /\ LookupTypes /\ WaitTypes
<1>1. request \in Ranges => request.start \in 1..MaxBlock /\ request.end \in 1..MaxBlock
  BY DEF Ranges
<1> QED BY <1>1 DEF TypeInv, InteractiveTypeOK, RequestTypes, LookupTypes, WaitTypes

LEMMA ReadWaits == ASSUME NEW b, continue_read(b) PROVE waits' \in {"result", "ended", "pause"}
BY DEF continue_read

\* Handlers that run one after the other look up nothing when they start.
LEMMA IdleTypes == ASSUME LookupTypes, Idle PROVE found = {}
BY DEF LookupTypes, Idle

LEMMA AcceptTypes ==
  ASSUME TypeInv, NEW r \in Asked, on_block_req(r)
  PROVE  TypeInv'
<1> DEFINE queue == Append(interactive_req_queue, r)
           ready == waits \notin {"abi", "refused"}
<1>1. /\ process_interactive_reqs(ready, interactive_req_pending, queue, request)
      /\ reader_ctxt' = ContextAfter(ready, interactive_req_pending, queue)
      /\ accepted' = Append(accepted, r) /\ r.end <= db.rev
      /\ UNCHANGED <<vars, waits, reader_head, undecoded, slowdown_requested, wanted, found>>
  BY DEF on_block_req, Available, head, lookup
<1>2. StoreOK /\ RequestTypes /\ LookupTypes /\ WaitTypes
  BY TypeParts
<1>3. r \in Requests
  <2>1. db.rev \in Nat /\ db.rev <= MaxBlock /\ MaxBlock \in Nat
    BY <1>2, AccountsAssumption DEF StoreOK, HistoryOK, IsDatabase
  <2> QED BY <1>1, <2>1 DEF Asked, Requests
<1>4. queue \in Seq(Requests) /\ accepted' \in Seq(Requests)
  BY <1>1, <1>2, <1>3 DEF RequestTypes
<1>5. DOMAIN reader_ctxt' \subseteq Accounts
  <2>1. DOMAIN <<>> = {}
    OBVIOUS
  <2> QED BY <1>1, <1>2, <2>1 DEF ContextAfter, LookupTypes
<1> HIDE DEF queue, ready
<1>6. RequestTypes'
  BY <1>1, <1>2, <1>4, SendsTypes DEF RequestTypes
<1>7. StoreOK' /\ LookupTypes' /\ WaitTypes'
  BY <1>1, <1>2, <1>5 DEF StoreOK, LookupTypes, WaitTypes, vars
<1> QED BY <1>6, <1>7, TypeParts, PTL

LEMMA AbiTypes ==
  ASSUME TypeInv, ReadAbi
  PROVE  TypeInv'
<1>1. /\ process_interactive_reqs(TRUE, interactive_req_pending, interactive_req_queue, request)
      /\ reader_ctxt' = ContextAfter(TRUE, interactive_req_pending, interactive_req_queue)
      /\ continue_read(reader_head)
      /\ UNCHANGED <<vars, accepted, reader_head, undecoded, slowdown_requested, wanted, found>>
  BY DEF ReadAbi, lookup
<1>2. StoreOK /\ RequestTypes /\ LookupTypes /\ WaitTypes
  BY TypeParts
<1>3. DOMAIN reader_ctxt' \subseteq Accounts
  <2>1. DOMAIN <<>> = {}
    OBVIOUS
  <2> QED BY <1>1, <1>2, <2>1 DEF ContextAfter, LookupTypes
<1>4. RequestTypes'
  BY <1>1, <1>2, SendsTypes DEF RequestTypes
<1>5. waits' \in {"result", "ended", "pause"}
  BY <1>1, ReadWaits
<1>6. StoreOK' /\ LookupTypes' /\ WaitTypes'
  BY <1>1, <1>2, <1>3, <1>5 DEF StoreOK, LookupTypes, WaitTypes, vars
<1> QED BY <1>4, <1>6, TypeParts, PTL

LEMMA ResultTypes ==
  ASSUME TypeInv, Received
  PROVE  TypeInv'
<1> PICK rows \in SUBSET Accounts, actions \in SUBSET Accounts :
      BlockReceived(rows, actions) /\ waits' \in {"result", "pause", "ended", "closed"}
  BY DEF Received
<1> DEFINE b         == request.start
           isPending == interactive_req_pending /\ ~EndsRequest(b)
           mayGoOn   == EndsRequest(b)
           rest      == [request EXCEPT !.start = b + 1]
           ctxt      == ContextAfter(mayGoOn, isPending, interactive_req_queue)
<1>1. /\ process_interactive_reqs(mayGoOn, isPending, interactive_req_queue, rest)
      /\ reader_ctxt' = ctxt /\ b < request.end /\ Idle
      /\ wanted' = rows \ DOMAIN ctxt
      /\ undecoded' = actions \cup (rows \cap DOMAIN ctxt) /\ reader_head' = b
      /\ UNCHANGED <<vars, accepted, slowdown_requested, found>>
  BY DEF BlockReceived
<1>2. StoreOK /\ RequestTypes /\ LookupTypes /\ WaitTypes
  BY TypeParts
<1>4. rest \in Ranges /\ b \in 0..MaxBlock
  <2>1. request \in Ranges /\ b \in 1..MaxBlock /\ request.end \in 1..MaxBlock
    BY <1>2 DEF RequestTypes, Ranges
  <2>2. b + 1 \in 1..MaxBlock /\ b \in 0..MaxBlock
    BY <1>1, <2>1, AccountsAssumption
  <2> HIDE DEF b
  <2>3. rest \in Ranges
    BY <2>1, <2>2 DEF Ranges
  <2> QED BY <2>2, <2>3
<1>5. DOMAIN ctxt \subseteq Accounts
  <2>1. DOMAIN <<>> = {}
    OBVIOUS
  <2> QED BY <1>2, <2>1 DEF ContextAfter, LookupTypes
<1>6. isPending \in BOOLEAN
  BY <1>2 DEF RequestTypes, EndsRequest
<1>7. found' = {}
  BY <1>1, <1>2, IdleTypes
<1> HIDE DEF isPending, mayGoOn, rest, ctxt
<1>9. RequestTypes'
  BY <1>1, <1>2, <1>4, <1>6, SendsTypes DEF RequestTypes
<1>10. LookupTypes'
  <2>1. Cardinality({}) = 0
    BY FS_EmptySet
  <2> QED BY <1>1, <1>4, <1>5, <1>7, <2>1 DEF LookupTypes
<1>11. StoreOK' /\ WaitTypes'
  BY <1>1, <1>2 DEF StoreOK, WaitTypes, vars
<1> QED BY <1>9, <1>10, <1>11, TypeParts, PTL

\* A row that is found, or found missing.
LEMMA FindTypes ==
  ASSUME TypeInv, NEW a \in Accounts, FindRow(a)
  PROVE  TypeInv'
<1> DEFINE history == Current(db).history
           bounds  == lower_bound(history, a, reader_head)
           row(k)  == [account |-> a, key |-> k, abi |-> history[k]]
<1>1. /\ found' = {row(k) : k \in bounds}
      /\ a \in wanted /\ wanted' = IF found' = {} THEN wanted \ {a} ELSE wanted
      /\ UNCHANGED <<vars, requests, request, reader>>
  BY DEF FindRow
<1>2. StoreOK /\ RequestTypes /\ LookupTypes /\ WaitTypes
  BY TypeParts
<1>3. a \in Int /\ reader_head \in Int
  BY <1>2, AccountsAssumption DEF LookupTypes
<1>4. \A k, l \in bounds : k = l
  BY <1>2, <1>3, OneLowerBound DEF StoreOK
<1> HIDE DEF bounds
<1>5. Cardinality(found') <= 1
  <2>1. CASE found' = {}
    <3>1. Cardinality({}) = 0
      BY FS_EmptySet
    <3> QED BY <2>1, <3>1
  <2>2. CASE found' # {}
    <3>1. PICK k \in bounds : found' = {row(k)}
      BY <1>1, <1>4, <2>2
    <3>2. Cardinality({row(k)}) = 1
      BY FS_Singleton
    <3> QED BY <3>1, <3>2
  <2> QED BY <2>1, <2>2
<1>6. \A r \in found' : r.account \in wanted'
  BY <1>1
<1>7. LookupTypes'
  BY <1>1, <1>2, <1>5, <1>6 DEF LookupTypes, reader
<1>8. StoreOK' /\ RequestTypes' /\ WaitTypes'
  BY <1>1, <1>2 DEF StoreOK, RequestTypes, WaitTypes, vars, requests, reader
<1> QED BY <1>7, <1>8, TypeParts, PTL

LEMMA UseTypes ==
  ASSUME TypeInv, UseRow
  PROVE  TypeInv'
<1> PICK r \in found, blob \in Blobs :
      /\ reader_ctxt' = [a \in DOMAIN reader_ctxt \cup {r.account} |->
                           IF a = r.account THEN blob ELSE reader_ctxt[a]]
      /\ wanted' = wanted \ {r.account}
      /\ undecoded' = undecoded \cup {r.account}
  BY DEF UseRow
<1>1. found' = {} /\ UNCHANGED <<vars, requests, request, waits, reader_head, slowdown_requested>>
  BY DEF UseRow
<1>2. StoreOK /\ RequestTypes /\ LookupTypes /\ WaitTypes
  BY TypeParts
<1>3. r.account \in Accounts
  BY <1>2 DEF LookupTypes
<1>4. Cardinality({}) = 0
  BY FS_EmptySet
<1>5. LookupTypes'
  BY <1>1, <1>2, <1>3, <1>4 DEF LookupTypes
<1>6. StoreOK' /\ RequestTypes' /\ WaitTypes'
  BY <1>1, <1>2 DEF StoreOK, RequestTypes, WaitTypes, vars, requests
<1> QED BY <1>5, <1>6, TypeParts, PTL

\* The steps that have nothing to do with requests or rows.
LEMMA OtherTypes ==
  ASSUME TypeInv, PauseTimer \/ Decodes \/ SlowDown \/ SpeedUp \/ UNCHANGED ivars
  PROVE  TypeInv'
<1>1. StoreOK /\ RequestTypes /\ LookupTypes /\ WaitTypes
  BY TypeParts
<1>2. UNCHANGED <<vars, requests, request, reader_head, reader_ctxt, found>>
  BY DEF PauseTimer, Decodes, DecodeAs, SlowDown, SpeedUp, ivars, lookup, reader
<1>3. StoreOK' /\ RequestTypes'
  BY <1>1, <1>2 DEF StoreOK, RequestTypes, vars, requests
<1>4. WaitTypes'
  <2>1. CASE PauseTimer
    BY <1>1, <2>1, ReadWaits DEF PauseTimer, WaitTypes
  <2>2. CASE Decodes \/ SlowDown \/ SpeedUp \/ UNCHANGED ivars
    BY <1>1, <2>2 DEF Decodes, DecodeAs, SlowDown, SpeedUp, ivars, reader, WaitTypes
  <2> QED BY <2>1, <2>2
<1>5. LookupTypes'
  <2>1. ASSUME NEW a \in Accounts, DecodeAs(a) PROVE LookupTypes'
    <3>1. found = {} /\ undecoded' = undecoded \ {a} /\ wanted' = {a} \ DOMAIN reader_ctxt
      BY <1>1, <2>1, IdleTypes DEF DecodeAs
    <3> QED BY <1>1, <1>2, <3>1 DEF LookupTypes
  <2>2. CASE PauseTimer \/ SlowDown \/ SpeedUp \/ UNCHANGED ivars
    <3>1. UNCHANGED <<undecoded, wanted>>
      BY <2>2 DEF PauseTimer, SlowDown, SpeedUp, ivars, reader, lookup
    <3> QED BY <1>1, <1>2, <3>1 DEF LookupTypes
  <2> QED BY <2>1, <2>2 DEF Decodes
<1> QED BY <1>3, <1>4, <1>5, TypeParts, PTL

LEMMA LeavesTypes ==
  ASSUME TypeInv, Leaves
  PROVE  TypeInv'
<1>1. StoreOK /\ RequestTypes /\ LookupTypes /\ WaitTypes
  BY TypeParts
<1>2. /\ UNCHANGED <<vars, requests, request, reader_head, lookup>>
      /\ waits' \in {"refused", "closed", "ended"}
      /\ undecoded' \in {undecoded, {}} /\ reader_ctxt' \in {reader_ctxt, <<>>}
      /\ slowdown_requested' \in {slowdown_requested, FALSE}
  BY LeavesFacts
<1>3. StoreOK' /\ RequestTypes'
  BY <1>1, <1>2 DEF StoreOK, RequestTypes, vars, requests
<1>4. WaitTypes'
  BY <1>1, <1>2 DEF WaitTypes
<1>5. LookupTypes'
  <2>1. DOMAIN <<>> = {}
    OBVIOUS
  <2>2. undecoded' \subseteq Accounts /\ DOMAIN reader_ctxt' \subseteq Accounts
    BY <1>1, <1>2, <2>1 DEF LookupTypes
  <2> QED BY <1>1, <1>2, <2>2 DEF LookupTypes, lookup
<1> QED BY <1>3, <1>4, <1>5, TypeParts, PTL

LEMMA TypeInit == IInit => TypeInv
<1> SUFFICES ASSUME IInit PROVE TypeInv OBVIOUS
<1>1. StoreOK
  BY RequestInit, RequestStore
<1>2. RequestTypes
  <2>1. request \in Ranges
    BY AccountsAssumption, RequestsAssumption DEF IInit, NothingAsked, Ranges
  <2>2. <<>> \in Seq(Requests)
    OBVIOUS
  <2> QED BY <2>1, <2>2 DEF IInit, RequestTypes
<1>3. LookupTypes
  <2>1. Cardinality({}) = 0 /\ DOMAIN <<>> = {}
    BY FS_EmptySet
  <2> QED BY <2>1, AccountsAssumption DEF IInit, LookupTypes
<1>4. WaitTypes
  BY DEF IInit, WaitTypes
<1> QED BY <1>1, <1>2, <1>3, <1>4, TypeParts

\* The members of the interactive process keep their types, and at most one row
\* is found and not used, one that is still looked for: whatever is asked for.
THEOREM InteractiveTypeCorrect == ISpec => []InteractiveTypeOK
<1>1. TypeInv /\ [INext]_ivars => TypeInv'
  <2> SUFFICES ASSUME TypeInv, [INext]_ivars PROVE TypeInv' OBVIOUS
  <2>1. ASSUME NEW r \in Asked, on_block_req(r) PROVE TypeInv'
    BY <2>1, AcceptTypes
  <2>2. CASE ReadAbi
    BY <2>2, AbiTypes
  <2>3. CASE Received
    BY <2>3, ResultTypes
  <2>4. CASE Lookups
    BY <2>4, FindTypes, UseTypes DEF Lookups
  <2>5. CASE PauseTimer \/ Decodes \/ SlowDown \/ SpeedUp \/ UNCHANGED ivars
    BY <2>5, OtherTypes
  <2>6. CASE Forks \/ ScannerGrows \/ ScannerStarts \/ ScannerStops \/ ScannerLearns
    <3>1. /\ StoreOK' /\ request' \in Ranges
          /\ UNCHANGED <<requests, reader, lookup>>
      BY <2>6, ScannerTypes
    <3>2. RequestTypes' /\ LookupTypes' /\ WaitTypes'
      BY <3>1, TypeParts DEF RequestTypes, LookupTypes, WaitTypes, requests, reader, lookup
    <3> QED BY <3>1, <3>2, TypeParts, PTL
  <2>7. CASE Leaves
    BY <2>7, LeavesTypes
  <2> QED BY <2>1, <2>2, <2>3, <2>4, <2>5, <2>6, <2>7, ReceivedSome DEF INext, Failures, Leaves
<1> QED BY <1>1, TypeInit, PTL DEF ISpec, TypeInv

(* ----------------------- sequences of sequences -------------------------- *)

\* Induction, over a set: the provers cannot instantiate an operator.
LEMMA SetInduction ==
  ASSUME NEW S \in SUBSET Nat, 0 \in S, \A n \in S : n + 1 \in S
  PROVE  S = Nat
<1> SUFFICES ASSUME Nat \ S # {} PROVE FALSE
  OBVIOUS
<1> DEFINE Less == OpToRel(<, Nat)
<1>1. IsWellFoundedOn(Less, Nat)
  BY NatLessThanWellFounded
<1>2. \A k, m \in Nat : k < m => <<k, m>> \in Less
  BY DEF OpToRel
<1> HIDE DEF Less
<1>3. PICK m \in Nat \ S : \A k \in Nat \ S : ~(<<k, m>> \in Less)
  BY <1>1, WFMin
<1>4. m # 0 /\ m - 1 \in Nat /\ m - 1 < m
  BY <1>3
<1>5. m - 1 \in S
  BY <1>2, <1>3, <1>4
<1>6. (m - 1) + 1 = m
  BY <1>3
<1> QED BY <1>3, <1>5, <1>6

\* f is the recursive function in FlattenSeq, for the first n elements of s.
Lists == Seq(Seq(Int))
Flattens(f, s, n) == f = [i \in 1..n |-> IF i = 1 THEN s[i] ELSE f[i - 1] \o s[i]]

LEMMA FlattensAt ==
  ASSUME NEW s, NEW n \in Nat, NEW f, Flattens(f, s, n), NEW k \in Nat, k + 1 \in 1..n
  PROVE  f[k + 1] = IF k = 0 THEN s[k + 1] ELSE f[k] \o s[k + 1]
<1> DEFINE r == [i \in 1..n |-> IF i = 1 THEN s[i] ELSE f[i - 1] \o s[i]]
<1>1. f = r
  BY Zenon DEF Flattens
<1>2. \A i \in 1..n : r[i] = IF i = 1 THEN s[i] ELSE f[i - 1] \o s[i]
  BY Zenon
<1> HIDE DEF r
<1>3. (k + 1 = 1 <=> k = 0) /\ k + 1 - 1 = k
  OBVIOUS
<1> QED BY <1>1, <1>2, <1>3

LEMMA FlattensType ==
  ASSUME NEW s \in Lists, NEW n \in 0 .. Len(s), NEW f, Flattens(f, s, n)
  PROVE  \A i \in 1..n : f[i] \in Seq(Int)
<1> DEFINE S == {k \in Nat : k \in 1..n => f[k] \in Seq(Int)}
<1>1. \A i \in 1 .. Len(s) : s[i] \in Seq(Int)
  BY ElementOfSeq DEF Lists
<1>2. Len(s) \in Nat /\ n \in Nat /\ n <= Len(s)
  BY LenProperties DEF Lists
<1>3. 0 \in S
  OBVIOUS
<1>4. ASSUME NEW k \in S PROVE k + 1 \in S
  <2> SUFFICES ASSUME k + 1 \in 1..n PROVE f[k + 1] \in Seq(Int)
    OBVIOUS
  <2>1. f[k + 1] = IF k = 0 THEN s[k + 1] ELSE f[k] \o s[k + 1]
    BY <1>2, FlattensAt
  <2>2. k + 1 \in 1 .. Len(s) /\ (k # 0 => k \in 1..n)
    BY <1>2
  <2> QED BY <1>1, <2>1, <2>2, ConcatProperties
<1> HIDE DEF S
<1>5. S = Nat
  BY <1>3, <1>4, SetInduction DEF S
<1> QED BY <1>5 DEF S

\* There is such a function.
LEMMA FlattensExists ==
  ASSUME NEW s \in Lists
  PROVE  \E f : Flattens(f, s, Len(s))
<1> DEFINE S == {n \in Nat : \E f : Flattens(f, s, n)}
<1>1. 0 \in S
  <2> DEFINE f == [i \in 1..0 |-> s]
  <2>1. Flattens(f, s, 0)
    BY DEF Flattens
  <2> QED BY <2>1
<1>2. ASSUME NEW n \in S PROVE n + 1 \in S
  <2>1. PICK f : Flattens(f, s, n)
    OBVIOUS
  <2> DEFINE g == [i \in 1 .. n + 1 |-> IF i = 1 THEN s[i] ELSE f[i - 1] \o s[i]]
  <2>2. ASSUME NEW k \in Nat, k + 1 \in 1..n PROVE g[k + 1] = f[k + 1]
    <3>1. \A i \in 1 .. n + 1 : g[i] = IF i = 1 THEN s[i] ELSE f[i - 1] \o s[i]
      BY Zenon
    <3> HIDE DEF g
    <3>2. (k + 1 = 1 <=> k = 0) /\ k + 1 - 1 = k /\ k + 1 \in 1 .. n + 1
      BY <2>2
    <3> QED BY <2>1, <2>2, <3>1, <3>2, FlattensAt
  <2>3. \A i \in 1 .. n + 1 : i # 1 => f[i - 1] = g[i - 1]
    <3> SUFFICES ASSUME NEW i \in 1 .. n + 1, i # 1 PROVE f[i - 1] = g[i - 1]
      OBVIOUS
    <3>1. i - 2 \in Nat /\ (i - 2) + 1 = i - 1 /\ i - 1 \in 1..n
      OBVIOUS
    <3> HIDE DEF g
    <3> QED BY <2>2, <3>1
  <2>4. Flattens(g, s, n + 1)
    BY <2>3 DEF Flattens
  <2> QED BY <2>4
<1> HIDE DEF S
<1>3. S = Nat
  BY <1>1, <1>2, SetInduction DEF S
<1>4. Len(s) \in Nat
  BY LenProperties DEF Lists
<1> QED BY <1>3, <1>4 DEF S

\* What it is at k depends on the first k elements only.
LEMMA FlattensUnique ==
  ASSUME NEW s \in Lists, NEW t \in Lists, NEW n \in 0 .. Len(s), NEW m \in 0 .. Len(t),
         NEW f, NEW g, Flattens(f, s, n), Flattens(g, t, m),
         n <= m, \A i \in 1..n : s[i] = t[i]
  PROVE  \A i \in 1..n : f[i] = g[i]
<1> DEFINE S == {k \in Nat : k \in 1..n => f[k] = g[k]}
<1>1. n \in Nat /\ m \in Nat
  BY LenProperties DEF Lists
<1>2. 0 \in S
  OBVIOUS
<1>3. ASSUME NEW k \in S PROVE k + 1 \in S
  <2> SUFFICES ASSUME k + 1 \in 1..n PROVE f[k + 1] = g[k + 1]
    OBVIOUS
  <2>1. f[k + 1] = IF k = 0 THEN s[k + 1] ELSE f[k] \o s[k + 1]
    BY <1>1, FlattensAt
  <2>2. k + 1 \in 1..m
    BY <1>1
  <2>3. g[k + 1] = IF k = 0 THEN t[k + 1] ELSE g[k] \o t[k + 1]
    BY <1>1, <2>2, FlattensAt
  <2>4. k # 0 => f[k] = g[k]
    BY <1>1
  <2> QED BY <2>1, <2>3, <2>4
<1> HIDE DEF S
<1>4. S = Nat
  BY <1>2, <1>3, SetInduction DEF S
<1> QED BY <1>4 DEF S

\* FlattenSeq takes its last value.
LEMMA FlattenValue ==
  ASSUME NEW s \in Lists, Len(s) # 0, NEW f, Flattens(f, s, Len(s))
  PROVE  FlattenSeq(s) = f[Len(s)]
<1> DEFINE h == CHOOSE g : g = [i \in 1 .. Len(s) |-> IF i = 1 THEN s[i] ELSE g[i - 1] \o s[i]]
<1>1. FlattenSeq(s) = h[Len(s)]
  BY DEF FlattenSeq
<1>2. Flattens(h, s, Len(s))
  BY DEF Flattens
<1> HIDE DEF h
<1>3. Len(s) \in Nat
  BY LenProperties DEF Lists
<1>4. \A i \in 1 .. Len(s) : f[i] = h[i]
  BY <1>2, <1>3, FlattensUnique
<1> QED BY <1>1, <1>3, <1>4

\* FlattenSeq of nothing, and of a sequence with an element more at its end.
LEMMA FlattenEmpty == FlattenSeq(<<>>) = <<>>
<1>1. Len(<<>>) = 0
  BY EmptySeq
<1> QED BY <1>1 DEF FlattenSeq

LEMMA FlattenType == ASSUME NEW s \in Lists PROVE FlattenSeq(s) \in Seq(Int)
<1>1. Len(s) \in Nat
  BY LenProperties DEF Lists
<1>2. CASE Len(s) = 0
  <2>1. s = <<>>
    BY <1>2, EmptySeq DEF Lists
  <2> QED BY <2>1, FlattenEmpty, EmptySeq
<1>3. CASE Len(s) # 0
  <2>1. PICK f : Flattens(f, s, Len(s))
    BY FlattensExists
  <2>2. Len(s) \in 1 .. Len(s) /\ Len(s) \in 0 .. Len(s)
    BY <1>1, <1>3
  <2>3. f[Len(s)] \in Seq(Int)
    BY <2>1, <2>2, FlattensType
  <2> QED BY <1>3, <2>1, <2>3, FlattenValue
<1> QED BY <1>2, <1>3

LEMMA FlattenAppend ==
  ASSUME NEW s \in Lists, NEW x \in Seq(Int)
  PROVE  FlattenSeq(Append(s, x)) = FlattenSeq(s) \o x
<1> DEFINE t == Append(s, x)
           n == Len(s)
<1>1. /\ t \in Lists /\ n \in Nat /\ Len(t) = n + 1 /\ t[n + 1] = x
      /\ \A i \in 1..n : t[i] = s[i]
  BY AppendProperties, LenProperties DEF Lists
<1> HIDE DEF t
<1>2. PICK g : Flattens(g, t, n + 1)
  BY <1>1, FlattensExists
<1>3. FlattenSeq(t) = g[n + 1]
  BY <1>1, <1>2, FlattenValue
<1>4. g[n + 1] = IF n = 0 THEN x ELSE g[n] \o x
  <2>1. n + 1 \in Nat /\ n + 1 \in 1 .. n + 1
    BY <1>1
  <2>2. g[n + 1] = IF n = 0 THEN t[n + 1] ELSE g[n] \o t[n + 1]
    BY <1>1, <1>2, <2>1, FlattensAt
  <2> QED BY <1>1, <2>2
<1>5. CASE n = 0
  <2>1. s = <<>>
    BY <1>5, EmptySeq DEF Lists
  <2> QED BY <1>3, <1>4, <1>5, <2>1, FlattenEmpty, ConcatEmptySeq DEF t
<1>6. CASE n # 0
  <2>1. PICK f : Flattens(f, s, n)
    BY FlattensExists
  <2>2. f[n] = g[n]
    <3>1. n \in 0 .. Len(s) /\ n + 1 \in 0 .. Len(t) /\ n <= n + 1 /\ n \in 1..n
      BY <1>1, <1>6
    <3> HIDE DEF n
    <3> QED BY <1>1, <1>2, <2>1, <3>1, FlattensUnique
  <2>3. FlattenSeq(s) = f[n]
    BY <1>6, <2>1, FlattenValue
  <2> QED BY <1>3, <1>4, <1>6, <2>2, <2>3 DEF t
<1> QED BY <1>5, <1>6

LEMMA IntsAssociative ==
  ASSUME NEW a \in Seq(Int), NEW b \in Seq(Int), NEW c \in Seq(Int)
  PROVE  (a \o b) \o c = a \o (b \o c)
OBVIOUS

\* And with one more at its front.
LEMMA FlattenCons ==
  ASSUME NEW x \in Seq(Int), NEW s \in Lists
  PROVE  FlattenSeq(<<x>> \o s) = x \o FlattenSeq(s)
<1> DEFINE t == <<x>> \o s
           n == Len(s)
<1>1. /\ t \in Lists /\ n \in Nat /\ Len(t) = n + 1 /\ t[1] = x
      /\ \A i \in 1..n : t[i + 1] = s[i]
  <2>1. <<x>> \in Lists /\ Len(<<x>>) = 1 /\ <<x>>[1] = x /\ n \in Nat
    BY LenProperties DEF Lists
  <2> HIDE DEF n
  <2>2. t \in Lists /\ Len(t) = 1 + Len(s) /\ t[1] = x /\ \A i \in 1 .. Len(s) : t[i + 1] = s[i]
    BY <2>1, ConcatProperties DEF Lists, n
  <2> QED BY <2>1, <2>2 DEF n
<1> HIDE DEF t
<1>2. PICK g : Flattens(g, t, n + 1)
  BY <1>1, FlattensExists
<1>3. FlattenSeq(t) = g[n + 1]
  BY <1>1, <1>2, FlattenValue
<1>4. g[1] = x
  <2>1. g[0 + 1] = IF 0 = 0 THEN t[0 + 1] ELSE g[0] \o t[0 + 1]
    <3>1. 0 \in Nat /\ n + 1 \in Nat /\ 0 + 1 \in 1 .. n + 1
      BY <1>1
    <3> QED BY <1>2, <3>1, FlattensAt
  <2> QED BY <1>1, <2>1
<1>5. CASE n = 0
  <2>1. s = <<>>
    BY <1>5, EmptySeq DEF Lists
  <2> QED BY <1>3, <1>4, <1>5, <2>1, FlattenEmpty, ConcatEmptySeq DEF t
<1>6. CASE n # 0
  <2>1. PICK f : Flattens(f, s, n)
    BY FlattensExists
  <2> DEFINE S == {k \in Nat : k + 1 \in 1..n => g[k + 2] = x \o f[k + 1]}
  <2>2. \A i \in 1..n : f[i] \in Seq(Int) /\ s[i] \in Seq(Int)
    <3>1. n \in 0 .. Len(s)
      BY <1>1
    <3>2. \A i \in 1..n : f[i] \in Seq(Int)
      BY <2>1, <3>1, FlattensType
    <3> QED BY <3>2, ElementOfSeq DEF Lists
  <2>3. ASSUME NEW k \in Nat, k + 1 \in 1..n
        PROVE  /\ f[k + 1] = IF k = 0 THEN s[k + 1] ELSE f[k] \o s[k + 1]
               /\ g[k + 2] = g[k + 1] \o s[k + 1]
    <3>1. f[k + 1] = IF k = 0 THEN s[k + 1] ELSE f[k] \o s[k + 1]
      BY <1>1, <2>1, <2>3, FlattensAt
    <3>2. g[(k + 1) + 1] = IF k + 1 = 0 THEN t[(k + 1) + 1] ELSE g[k + 1] \o t[(k + 1) + 1]
      <4>1. k + 1 \in Nat /\ n + 1 \in Nat /\ (k + 1) + 1 \in 1 .. n + 1
        BY <1>1, <2>3
      <4> QED BY <1>2, <4>1, FlattensAt
    <3>3. (k + 1) + 1 = k + 2 /\ k + 1 # 0
      OBVIOUS
    <3>4. t[(k + 1) + 1] = s[k + 1]
      BY <1>1, <2>3
    <3> QED BY <3>1, <3>2, <3>3, <3>4
  <2>4. 0 \in S
    <3> SUFFICES ASSUME NEW k \in Nat, k = 0, k + 1 \in 1..n
                 PROVE  g[k + 2] = x \o f[k + 1]
      OBVIOUS
    <3>1. f[k + 1] = s[k + 1] /\ g[k + 2] = g[k + 1] \o s[k + 1]
      BY <2>3
    <3>2. k + 1 = 1
      OBVIOUS
    <3> QED BY <1>4, <3>1, <3>2
  <2>5. ASSUME NEW k \in S PROVE k + 1 \in S
    <3> SUFFICES ASSUME NEW m \in Nat, m = k + 1, m + 1 \in 1..n
                 PROVE  g[m + 2] = x \o f[m + 1]
      OBVIOUS
    <3>1. m # 0 /\ m \in 1..n /\ k + 1 \in 1..n /\ k \in Nat
      BY <1>1
    <3>2. f[m + 1] = f[m] \o s[m + 1] /\ g[m + 2] = g[m + 1] \o s[m + 1]
      BY <2>3, <3>1
    <3>3. g[k + 2] = x \o f[k + 1]
      BY <3>1
    <3>4. k + 2 = m + 1
      OBVIOUS
    <3>5. g[m + 2] = (x \o f[m]) \o s[m + 1]
      BY <3>2, <3>3, <3>4
    <3>6. f[m] \in Seq(Int) /\ s[m + 1] \in Seq(Int)
      BY <2>2, <3>1
    <3>7. (x \o f[m]) \o s[m + 1] = x \o (f[m] \o s[m + 1])
      BY <3>6, IntsAssociative
    <3> QED BY <3>2, <3>5, <3>7
  <2> HIDE DEF S
  <2>6. S = Nat
    BY <2>4, <2>5, SetInduction DEF S
  <2>7. g[n + 1] = x \o f[n]
    <3>1. n - 1 \in Nat /\ (n - 1) + 1 = n /\ (n - 1) + 2 = n + 1 /\ (n - 1) + 1 \in 1..n
      BY <1>1, <1>6
    <3>2. g[(n - 1) + 2] = x \o f[(n - 1) + 1]
      BY <2>6, <3>1 DEF S
    <3> QED BY <3>1, <3>2
  <2>8. FlattenSeq(s) = f[n]
    BY <1>6, <2>1, FlattenValue
  <2> QED BY <1>3, <2>7, <2>8 DEF t
<1> QED BY <1>5, <1>6

(* ----------------------- the blocks of requests -------------------------- *)

\* What ServedInOrder says of a queue, and of what is left to serve.
BlocksOfAll(queue) == [i \in DOMAIN queue |-> BlocksOf(queue[i])]
ToServe(rest, queue) == BlocksOf(rest) \o FlattenSeq(BlocksOfAll(queue))

LEMMA BlocksOfType ==
  ASSUME NEW r \in Pairs, r.start <= r.end
  PROVE  /\ BlocksOf(r) \in Seq(Int) /\ Len(BlocksOf(r)) = r.end - r.start
         /\ \A i \in 1 .. r.end - r.start : BlocksOf(r)[i] = r.start + i - 1
<1>1. r.start \in Int /\ r.end - r.start \in Nat
  BY DEF Pairs
<1> DEFINE n == r.end - r.start
<1> HIDE DEF n
<1>2. \A i \in 1..n : r.start + i - 1 \in Int
  BY <1>1 DEF n
<1>3. BlocksOf(r) = [i \in 1..n |-> r.start + i - 1]
  BY DEF BlocksOf, n
<1>4. n \in Nat
  BY <1>1 DEF n
<1>5. BlocksOf(r) \in [1..n -> Int]
  BY <1>2, <1>3
<1>6. BlocksOf(r) \in Seq(Int) /\ Len(BlocksOf(r)) = n
  BY <1>4, <1>5
<1> QED BY <1>3, <1>6 DEF n

\* A block that is delivered is the first one of its request.
LEMMA BlocksOfEmpty ==
  ASSUME NEW r \in Pairs, r.start <= r.end, ~(r.start < r.end)
  PROVE  BlocksOf(r) = <<>>
<1>1. r.end - r.start = 0
  BY DEF Pairs
<1> QED BY <1>1, BlocksOfType, EmptySeq

LEMMA BlocksOfCons ==
  ASSUME NEW r \in Pairs, r.start < r.end,
         NEW rest, rest = [start |-> r.start + 1, end |-> r.end]
  PROVE  BlocksOf(r) = <<r.start>> \o BlocksOf(rest)
<1>1. /\ rest \in Pairs /\ rest.start = r.start + 1 /\ rest.end = r.end
      /\ rest.start <= rest.end /\ r.start <= r.end /\ r.start \in Int /\ r.end \in Int
  BY DEF Pairs
<1> DEFINE n == r.end - r.start
           a == BlocksOf(r)
           b == BlocksOf(rest)
           h == <<r.start>>
<1>2. n \in Nat /\ n >= 1 /\ rest.end - rest.start = n - 1
  BY <1>1
<1>3. a \in Seq(Int) /\ Len(a) = n /\ \A i \in 1..n : a[i] = r.start + i - 1
  BY <1>1, BlocksOfType
<1>4. b \in Seq(Int) /\ Len(b) = n - 1 /\ \A i \in 1 .. n - 1 : b[i] = r.start + i
  <2>1. b \in Seq(Int) /\ Len(b) = n - 1 /\ \A i \in 1 .. n - 1 : b[i] = r.start + 1 + i - 1
    BY <1>1, <1>2, BlocksOfType
  <2> QED BY <1>1, <1>2, <2>1
<1>5. h \in Seq(Int) /\ Len(h) = 1 /\ h[1] = r.start
  BY <1>1
<1> HIDE DEF n, a, b, h
<1>6. /\ h \o b \in Seq(Int) /\ Len(h \o b) = 1 + (n - 1)
      /\ \A i \in 1 .. 1 + (n - 1) : (h \o b)[i] = IF i <= 1 THEN h[i] ELSE b[i - 1]
  <2>1. /\ h \o b \in Seq(Int) /\ Len(h \o b) = Len(h) + Len(b)
        /\ \A i \in 1 .. Len(h) + Len(b) :
             (h \o b)[i] = IF i <= Len(h) THEN h[i] ELSE b[i - Len(h)]
    BY <1>4, <1>5, ConcatProperties
  <2> QED BY <1>4, <1>5, <2>1
<1>7. ASSUME NEW i \in 1..n PROVE a[i] = (h \o b)[i]
  <2>1. (h \o b)[i] = IF i <= 1 THEN h[i] ELSE b[i - 1]
    BY <1>2, <1>6
  <2>2. i = 1 \/ i - 1 \in 1 .. n - 1
    BY <1>2
  <2>3. a[i] = r.start + i - 1
    BY <1>3
  <2>4. i - 1 \in 1 .. n - 1 => b[i - 1] = r.start + (i - 1)
    BY <1>4
  <2> QED BY <1>1, <1>2, <1>5, <2>1, <2>2, <2>3, <2>4
<1>8. Len(h \o b) = n
  BY <1>2, <1>6
<1> QED BY <1>3, <1>6, <1>7, <1>8, SeqEqual DEF a, b, h

\* The queue's blocks, as it grows and shrinks.
LEMMA BlocksOfAllType ==
  ASSUME NEW queue \in Seq(Requests)
  PROVE  /\ BlocksOfAll(queue) \in Lists /\ Len(BlocksOfAll(queue)) = Len(queue)
         /\ \A i \in 1 .. Len(queue) : BlocksOfAll(queue)[i] = BlocksOf(queue[i])
<1>1. DOMAIN queue = 1 .. Len(queue) /\ Len(queue) \in Nat
  BY LenProperties
<1>2. ASSUME NEW i \in 1 .. Len(queue) PROVE BlocksOf(queue[i]) \in Seq(Int)
  <2>1. queue[i] \in Requests
    BY ElementOfSeq
  <2>2. queue[i] \in Pairs /\ queue[i].start < queue[i].end
    BY <2>1, RequestsArePairs
  <2>3. queue[i].start <= queue[i].end
    BY <2>2 DEF Pairs
  <2> QED BY <2>2, <2>3, BlocksOfType
<1> DEFINE n == Len(queue)
           all == BlocksOfAll(queue)
<1>3. all = [i \in 1..n |-> BlocksOf(queue[i])]
  BY <1>1 DEF BlocksOfAll
<1>4. all \in [1..n -> Seq(Int)]
  BY <1>2, <1>3
<1> HIDE DEF all
<1>5. all \in Seq(Seq(Int)) /\ Len(all) = n
  BY <1>1, <1>4
<1> QED BY <1>3, <1>5 DEF all, Lists

LEMMA BlocksOfAllAppend ==
  ASSUME NEW queue \in Seq(Requests), NEW r \in Requests
  PROVE  BlocksOfAll(Append(queue, r)) = Append(BlocksOfAll(queue), BlocksOf(r))
<1> DEFINE q == Append(queue, r)
           a == BlocksOfAll(q)
           b == BlocksOfAll(queue)
           c == Append(b, BlocksOf(r))
           n == Len(queue)
<1>1. /\ q \in Seq(Requests) /\ Len(q) = n + 1 /\ q[n + 1] = r /\ n \in Nat
      /\ \A i \in 1..n : q[i] = queue[i]
  BY AppendProperties, LenProperties
<1> HIDE DEF q
<1>2. a \in Lists /\ Len(a) = n + 1 /\ \A i \in 1 .. n + 1 : a[i] = BlocksOf(q[i])
  BY <1>1, BlocksOfAllType
<1>3. b \in Lists /\ Len(b) = n /\ \A i \in 1..n : b[i] = BlocksOf(queue[i])
  BY BlocksOfAllType
<1>4. BlocksOf(r) \in Seq(Int)
  <2>1. r \in Pairs /\ r.start <= r.end
    BY RequestsArePairs DEF Pairs
  <2> QED BY <2>1, BlocksOfType
<1> HIDE DEF a, b, n
<1>5. /\ c \in Lists /\ Len(c) = n + 1 /\ c[n + 1] = BlocksOf(r)
      /\ \A i \in 1..n : c[i] = b[i]
  BY <1>3, <1>4, AppendProperties DEF Lists
<1> HIDE DEF c
<1>6. ASSUME NEW i \in 1 .. n + 1 PROVE a[i] = c[i]
  <2>1. i \in 1..n \/ i = n + 1
    BY <1>1
  <2> QED BY <1>1, <1>2, <1>3, <1>5, <2>1
<1>7. a = c
  BY <1>2, <1>5, <1>6, SeqEqual DEF Lists
<1> QED BY <1>7 DEF a, b, c, q

LEMMA BlocksOfAllCons ==
  ASSUME NEW queue \in Seq(Requests), queue # <<>>
  PROVE  BlocksOfAll(queue) = <<BlocksOf(Head(queue))>> \o BlocksOfAll(Tail(queue))
<1> DEFINE a == BlocksOfAll(queue)
           t == Tail(queue)
           b == BlocksOfAll(t)
           h == <<BlocksOf(Head(queue))>>
           n == Len(queue)
<1>1. /\ t \in Seq(Requests) /\ Len(t) = n - 1 /\ n \in Nat /\ n >= 1
      /\ Head(queue) = queue[1] /\ \A i \in 1 .. n - 1 : t[i] = queue[i + 1]
  <2>1. n \in Nat \ {0}
    BY EmptySeq
  <2>2. /\ t \in Seq(Requests) /\ Len(t) = n - 1 /\ Head(queue) = queue[1]
        /\ \A i \in 1 .. Len(t) : t[i] = queue[i + 1]
    BY HeadTailProperties
  <2> QED BY <2>1, <2>2
<1> HIDE DEF t
<1>2. a \in Lists /\ Len(a) = n /\ \A i \in 1..n : a[i] = BlocksOf(queue[i])
  BY BlocksOfAllType
<1>3. b \in Lists /\ Len(b) = n - 1 /\ \A i \in 1 .. n - 1 : b[i] = BlocksOf(t[i])
  BY <1>1, BlocksOfAllType
<1>4. h \in Lists /\ Len(h) = 1 /\ h[1] = a[1]
  <2>1. 1 \in 1..n
    BY <1>1
  <2>2. a[1] \in Seq(Int) /\ a[1] = BlocksOf(Head(queue))
    BY <1>1, <1>2, <2>1, ElementOfSeq DEF Lists
  <2> HIDE DEF a
  <2> QED BY <2>2 DEF Lists
<1> HIDE DEF a, b, h, n
<1>5. /\ h \o b \in Lists /\ Len(h \o b) = 1 + (n - 1)
      /\ \A i \in 1 .. 1 + (n - 1) : (h \o b)[i] = IF i <= 1 THEN h[i] ELSE b[i - 1]
  <2>1. /\ h \o b \in Lists /\ Len(h \o b) = Len(h) + Len(b)
        /\ \A i \in 1 .. Len(h) + Len(b) :
             (h \o b)[i] = IF i <= Len(h) THEN h[i] ELSE b[i - Len(h)]
    BY <1>3, <1>4, ConcatProperties DEF Lists
  <2> QED BY <1>3, <1>4, <2>1
<1>6. ASSUME NEW i \in 1..n PROVE a[i] = (h \o b)[i]
  <2>1. (h \o b)[i] = IF i <= 1 THEN h[i] ELSE b[i - 1]
    BY <1>1, <1>5
  <2>2. CASE i = 1
    BY <1>4, <2>1, <2>2
  <2>3. CASE i # 1
    <3>1. i - 1 \in 1 .. n - 1 /\ (i - 1) + 1 = i /\ ~(i <= 1)
      BY <1>1, <2>3
    <3>2. b[i - 1] = BlocksOf(t[i - 1]) /\ t[i - 1] = queue[(i - 1) + 1]
      BY <1>1, <1>3, <3>1
    <3> QED BY <1>2, <2>1, <3>1, <3>2
  <2> QED BY <2>2, <2>3
<1>7. Len(h \o b) = n
  BY <1>1, <1>5
<1>8. a = h \o b
  BY <1>2, <1>5, <1>6, <1>7, SeqEqual DEF Lists
<1> QED BY <1>8 DEF a, b, h, t

LEMMA ToServeType ==
  ASSUME NEW rest \in Pairs, rest.start <= rest.end, NEW queue \in Seq(Requests)
  PROVE  /\ BlocksOf(rest) \in Seq(Int) /\ FlattenSeq(BlocksOfAll(queue)) \in Seq(Int)
         /\ ToServe(rest, queue) \in Seq(Int)
<1>1. BlocksOf(rest) \in Seq(Int)
  BY BlocksOfType
<1>2. FlattenSeq(BlocksOfAll(queue)) \in Seq(Int)
  BY BlocksOfAllType, FlattenType
<1> QED BY <1>1, <1>2, ConcatProperties DEF ToServe

\* Sending the next request changes nothing in the blocks to serve.
LEMMA SendsToServe ==
  ASSUME NEW ready \in BOOLEAN, NEW isPending, NEW queue, NEW rest,
         RequestsOK(rest, isPending, end_block_num, queue, irreversible),
         process_interactive_reqs(ready, isPending, queue, rest)
  PROVE  ToServe(request', interactive_req_queue') = ToServe(rest, queue)
<1>1. CASE ~MaySend(ready, isPending, queue)
  BY <1>1 DEF process_interactive_reqs
<1>2. CASE MaySend(ready, isPending, queue)
  <2>1. /\ queue \in Seq(Requests) /\ queue # <<>> /\ ~(rest.start < rest.end)
        /\ rest \in Pairs /\ rest.start <= rest.end
    BY <1>2 DEF MaySend, RequestsOK
  <2>2. interactive_req_queue' = Tail(queue) /\ request' = Head(queue)
    BY <1>2 DEF process_interactive_reqs
  <2>3. Head(queue) \in Pairs /\ Head(queue).start <= Head(queue).end
    <3>1. Head(queue) \in Requests
      BY <2>1, HeadTailProperties
    <3> QED BY <3>1, RequestsArePairs DEF Pairs
  <2>4. BlocksOf(rest) = <<>>
    BY <2>1, BlocksOfEmpty
  <2>5. ToServe(rest, queue) = FlattenSeq(BlocksOfAll(queue))
    BY <2>1, <2>4, ToServeType, ConcatEmptySeq DEF ToServe
  <2>6. BlocksOfAll(queue) = <<BlocksOf(Head(queue))>> \o BlocksOfAll(Tail(queue))
    BY <2>1, BlocksOfAllCons
  <2>7. BlocksOf(Head(queue)) \in Seq(Int) /\ BlocksOfAll(Tail(queue)) \in Lists
    BY <2>1, <2>3, BlocksOfType, BlocksOfAllType, HeadTailProperties
  <2>8. FlattenSeq(BlocksOfAll(queue)) = ToServe(Head(queue), Tail(queue))
    BY <2>6, <2>7, FlattenCons DEF ToServe
  <2> QED BY <2>2, <2>5, <2>8
<1> QED BY <1>1, <1>2

\* What was served and what is left are all that was accepted.
OrderInv ==
  /\ RequestInv /\ served \in Seq(Int) /\ accepted \in Seq(Requests)
  /\ served \o ToServe(request, interactive_req_queue) = FlattenSeq(BlocksOfAll(accepted))

LEMMA OrderAfterAccept ==
  ASSUME OrderInv, OnlyIrreversible, NEW r \in Asked, on_block_req(r)
  PROVE  OrderInv'
<1> DEFINE queue == Append(interactive_req_queue, r)
           ready == waits \notin {"abi", "refused"}
           block == BlocksOf(request)
           all   == FlattenSeq(BlocksOfAll(interactive_req_queue))
           more  == BlocksOf(r)
<1>1. /\ process_interactive_reqs(ready, interactive_req_pending, queue, request)
      /\ served' = served /\ accepted' = Append(accepted, r)
  BY DEF on_block_req
<1>2. /\ RequestsOK(request, interactive_req_pending, end_block_num, queue, irreversible)
      /\ r \in Requests
  BY AcceptFacts DEF OrderInv
<1>3. RequestInv'
  BY AcceptStep DEF OrderInv
<1>4. /\ request \in Pairs /\ request.start <= request.end
      /\ interactive_req_queue \in Seq(Requests)
      /\ served \in Seq(Int) /\ accepted \in Seq(Requests)
  BY DEF OrderInv, RequestInv, RequestsOK
<1>5. block \in Seq(Int) /\ all \in Seq(Int)
  BY <1>4, ToServeType
<1>6. more \in Seq(Int)
  <2>1. r \in Pairs /\ r.start <= r.end
    BY <1>2, RequestsArePairs DEF Pairs
  <2> QED BY <2>1, BlocksOfType
<1>7. FlattenSeq(BlocksOfAll(queue)) = all \o more
  BY <1>2, <1>4, <1>6, BlocksOfAllAppend, BlocksOfAllType, FlattenAppend
<1>8. FlattenSeq(BlocksOfAll(accepted')) = FlattenSeq(BlocksOfAll(accepted)) \o more
  BY <1>1, <1>2, <1>4, <1>6, BlocksOfAllAppend, BlocksOfAllType, FlattenAppend
<1>9. ToServe(request', interactive_req_queue') = block \o (all \o more)
  <2>1. ready \in BOOLEAN
    OBVIOUS
  <2> HIDE DEF queue, ready
  <2>2. ToServe(request', interactive_req_queue') = ToServe(request, queue)
    BY <1>1, <1>2, <2>1, SendsToServe
  <2> QED BY <1>7, <2>2 DEF ToServe
<1>10. served \o (block \o all) = FlattenSeq(BlocksOfAll(accepted))
  BY DEF OrderInv, ToServe
<1> HIDE DEF block, all, more, queue
<1>11. served \o (block \o (all \o more)) = (served \o (block \o all)) \o more
  <2>1. (block \o all) \o more = block \o (all \o more) /\ block \o all \in Seq(Int)
    BY <1>5, <1>6, IntsAssociative, ConcatProperties
  <2>2. (served \o (block \o all)) \o more = served \o ((block \o all) \o more)
    BY <1>4, <1>6, <2>1, IntsAssociative
  <2> QED BY <2>1, <2>2
<1>12. accepted' \in Seq(Requests)
  BY <1>1, <1>2, <1>4, AppendProperties
<1> QED BY <1>1, <1>3, <1>4, <1>8, <1>9, <1>10, <1>11, <1>12 DEF OrderInv

LEMMA OrderAfterAbi ==
  ASSUME OrderInv, ReadAbi
  PROVE  OrderInv'
<1>1. /\ process_interactive_reqs(TRUE, interactive_req_pending, interactive_req_queue, request)
      /\ UNCHANGED <<served, accepted>>
  BY DEF ReadAbi
<1>2. RequestsOK(request, interactive_req_pending, end_block_num, interactive_req_queue,
                 irreversible)
  BY DEF OrderInv, RequestInv
<1>3. ToServe(request', interactive_req_queue') = ToServe(request, interactive_req_queue)
  BY <1>1, <1>2, SendsToServe
<1>4. RequestInv'
  BY AbiStep DEF OrderInv
<1> QED BY <1>1, <1>3, <1>4 DEF OrderInv

LEMMA OrderAfterResult ==
  ASSUME OrderInv, NEW rows, NEW actions, BlockReceived(rows, actions)
  PROVE  OrderInv'
<1> DEFINE b         == request.start
           isPending == interactive_req_pending /\ ~EndsRequest(b)
           mayGoOn   == EndsRequest(b)
           rest      == [start |-> b + 1, end |-> request.end]
           all       == FlattenSeq(BlocksOfAll(interactive_req_queue))
<1>1. /\ b \in Int /\ b <= request.end - 1
      /\ rest = [request EXCEPT !.start = b + 1]
      /\ RequestsOK(rest, isPending, end_block_num, interactive_req_queue, irreversible)
  BY ResultFacts DEF OrderInv
<1>2. /\ process_interactive_reqs(mayGoOn, isPending, interactive_req_queue, rest)
      /\ UNCHANGED accepted
  BY <1>1 DEF BlockReceived
<1>3. RequestInv' /\ served' = Append(served, b) /\ b < request.end
  BY ResultStep DEF OrderInv
<1>4. /\ request \in Pairs /\ interactive_req_queue \in Seq(Requests)
      /\ served \in Seq(Int) /\ accepted \in Seq(Requests)
  BY DEF OrderInv, RequestInv, RequestsOK
<1>5. BlocksOf(request) = <<b>> \o BlocksOf(rest)
  BY <1>3, <1>4, BlocksOfCons
<1>6. mayGoOn \in BOOLEAN
  BY DEF EndsRequest
<1>7. rest \in Pairs /\ rest.start <= rest.end
  BY <1>1 DEF RequestsOK
<1> HIDE DEF rest, isPending, mayGoOn
<1>8. ToServe(request', interactive_req_queue') = ToServe(rest, interactive_req_queue)
  BY <1>1, <1>2, <1>6, SendsToServe
<1>9. BlocksOf(rest) \in Seq(Int) /\ all \in Seq(Int)
  BY <1>4, <1>7, ToServeType
<1>10. served' = served \o <<b>> /\ <<b>> \in Seq(Int) /\ served' \in Seq(Int)
  BY <1>1, <1>3, <1>4, AppendIsConcat, AppendProperties
<1>11. served \o ((<<b>> \o BlocksOf(rest)) \o all) = FlattenSeq(BlocksOfAll(accepted))
  BY <1>5 DEF OrderInv, ToServe
<1> DEFINE h == <<b>>
           t == BlocksOf(rest)
<1> HIDE DEF h, t, all
<1>12. (served \o h) \o (t \o all) = served \o ((h \o t) \o all)
  <2>1. h \in Seq(Int) /\ t \in Seq(Int) /\ t \o all \in Seq(Int)
    BY <1>9, <1>10, ConcatProperties DEF h, t
  <2>2. (h \o t) \o all = h \o (t \o all)
    BY <1>9, <2>1, IntsAssociative
  <2>3. (served \o h) \o (t \o all) = served \o (h \o (t \o all))
    BY <1>4, <2>1, IntsAssociative
  <2> QED BY <2>2, <2>3
<1>13. served' \o ToServe(request', interactive_req_queue') = FlattenSeq(BlocksOfAll(accepted))
  <2>1. ToServe(rest, interactive_req_queue) = t \o all
    BY DEF ToServe, t, all
  <2> QED BY <1>8, <1>10, <1>11, <1>12, <2>1 DEF h, t
<1> QED BY <1>2, <1>3, <1>4, <1>10, <1>13 DEF OrderInv

LEMMA OrderInit == IInit => OrderInv
<1> SUFFICES ASSUME IInit PROVE OrderInv OBVIOUS
<1>1. RequestInv
  BY RequestInit
<1>2. /\ request = [start |-> 1, end |-> 1] /\ interactive_req_queue = <<>>
      /\ accepted = <<>> /\ served = <<>>
  BY DEF IInit, NothingAsked
<1>3. /\ request \in Pairs /\ request.start <= request.end /\ ~(request.start < request.end)
      /\ interactive_req_queue \in Seq(Requests) /\ accepted \in Seq(Requests)
      /\ served \in Seq(Int)
  <2>1. request \in Pairs /\ request.start = 1 /\ request.end = 1
    BY <1>2 DEF Pairs
  <2> QED BY <1>2, <2>1, EmptySeq
<1>4. BlocksOfAll(<<>>) = <<>>
  <2>1. <<>> \in Seq(Requests) /\ Len(<<>>) = 0
    BY EmptySeq
  <2>2. BlocksOfAll(<<>>) \in Lists /\ Len(BlocksOfAll(<<>>)) = 0
    BY <2>1, BlocksOfAllType
  <2> QED BY <2>2, EmptySeq DEF Lists
<1>5. BlocksOf(request) = <<>>
  BY <1>3, BlocksOfEmpty
<1>6. served \o ToServe(request, interactive_req_queue) = <<>>
  <2>1. <<>> \o <<>> = <<>>
    OBVIOUS
  <2> QED BY <1>2, <1>4, <1>5, <2>1, FlattenEmpty DEF ToServe
<1> QED BY <1>1, <1>2, <1>3, <1>4, <1>6, FlattenEmpty DEF OrderInv

LEMMA OrderStep ==
  ASSUME OrderInv, OnlyIrreversible, [INext]_ivars
  PROVE  OrderInv'
<1>1. ASSUME NEW r \in Asked, on_block_req(r) PROVE OrderInv'
  BY <1>1, OrderAfterAccept
<1>2. CASE ReadAbi
  BY <1>2, OrderAfterAbi
<1>3. CASE Received
  BY <1>3, OrderAfterResult DEF Received
<1>4. CASE \/ Forks \/ ScannerGrows \/ ScannerStarts \/ ScannerStops \/ ScannerLearns
           \/ PauseTimer \/ Decodes \/ Lookups \/ SlowDown \/ SpeedUp \/ Leaves
           \/ UNCHANGED ivars
  <2>1. RequestInv'
    BY RequestStep DEF OrderInv
  <2>2. UNCHANGED <<requests, request, served>>
    BY <1>4, ScannerKeepsRequests, OtherStepsFacts DEF OrderInv, reader
  <2> QED BY <2>1, <2>2 DEF OrderInv, requests
<1> QED BY <1>1, <1>2, <1>3, <1>4, ReceivedSome DEF INext, Failures, Leaves

\* The blocks that were served, those the node still has to send and those of the
\* queue are the blocks of all accepted requests, in their order.
THEOREM AlwaysServedInOrder == ASSUME OnlyIrreversible PROVE ISpec => []ServedInOrder
<1>1. OrderInv => ServedInOrder
  <2> SUFFICES ASSUME OrderInv PROVE ServedInOrder OBVIOUS
  <2> DEFINE block == BlocksOf(request)
             all   == FlattenSeq(BlocksOfAll(interactive_req_queue))
  <2>1. /\ request \in Pairs /\ request.start <= request.end
        /\ interactive_req_queue \in Seq(Requests) /\ served \in Seq(Int)
    BY DEF OrderInv, RequestInv, RequestsOK
  <2>2. block \in Seq(Int) /\ all \in Seq(Int)
    BY <2>1, ToServeType
  <2>3. served \o (block \o all) = FlattenSeq(BlocksOfAll(accepted))
    BY DEF OrderInv, ToServe
  <2> HIDE DEF block, all
  <2>4. (served \o block) \o all = FlattenSeq(BlocksOfAll(accepted))
    BY <2>1, <2>2, <2>3, IntsAssociative
  <2> QED BY <2>4 DEF ServedInOrder, BlocksOfAll, block, all
<1>2. OrderInv /\ [INext]_ivars => OrderInv'
  BY OrderStep
<1> QED BY <1>1, <1>2, OrderInit, PTL DEF ISpec
=============================================================================
