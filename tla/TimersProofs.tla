----------------------------- MODULE TimersProofs -----------------------------
(***************************************************************************)
(* Theorems about ReaderTimers, for every length of the timers, every      *)
(* number of blocks and every capacity of the queues.                      *)
(***************************************************************************)
EXTENDS ReaderTimers, SequenceTheorems, TLAPS

(* ---------------------------- the invariants ---------------------------- *)

\* All plugins are started when the receiver is launched, and before that nothing
\* is posted.
StartInv ==
  /\ state \in {"starting", "connecting", "abi", "up", "quit"}
  /\ state \in {"connecting", "abi", "up"} => Plugins \subseteq started
  /\ state = "starting" => app_queue = <<>>

\* One read or one pause, from the moment the stream is open.
ReaderInv ==
  /\ reads \in Nat /\ pause_timer \in Nat \cup {Off} /\ pause_time \in Nat
  /\ state \in {"starting", "connecting"} => reads = 0 /\ ~aborting
  /\ state = "connecting" => pause_timer = Off
  /\ OneReader
  /\ Alive /\ aborting => pause_timer = Off

\* One write or one wait, from the moment the exporter is started; it waits
\* exactly when send_pause is not 0.
SenderInv ==
  /\ {writes, async_queue, send_pause} \subseteq Nat /\ mytimer \in Nat \cup {Off}
  /\ "exporter" \notin started =>
       writes = 0 /\ mytimer = Off /\ send_pause = 0 /\ async_queue = 0
  /\ OneSender
  /\ state # "quit" => (send_pause = 0 <=> mytimer = Off)
  /\ NoMessageWaits

\* The queue of appbase is k events of the receiver and then the messages of the
\* event before them; the messages come next after last_msg, and then the events.
LineOK(k) ==
  LET n == Len(app_queue)
  IN /\ \A i \in 1..n : app_queue[i].priority = IF i <= k THEN ReceiverPriority ELSE DecoderPriority
     /\ \A i \in 1..k : app_queue[i].type # "ERR"
     /\ \A i \in 1 .. n-1 : i # k => InOrder(app_queue[i], app_queue[i + 1])
     /\ k < n => InOrder(last_msg, app_queue[k + 1])
     /\ k > 0 => InOrder(IF k < n THEN app_queue[n] ELSE last_msg, app_queue[1])

\* Handlers of the stream leave complete blocks behind.
Boundary == {"NONE", "FORK", "PAUSE", "COMPLETED"}
LastOfLine(k) ==
  LET n == Len(app_queue)
  IN IF k > 0 THEN app_queue[k] ELSE IF n > 0 THEN app_queue[n] ELSE last_msg
LineInv ==
  \E k \in 0 .. Len(app_queue) : LineOK(k) /\ (~aborting => LastOfLine(k).type \in Boundary)

Inv == TypeOK /\ StartInv /\ ReaderInv /\ SenderInv /\ LineInv

(* ------------------------------- events --------------------------------- *)

\* Events that may be posted together: each may follow the one before it.
IsBatch(s) ==
  /\ s \in Seq(Posted)
  /\ \A i \in 1 .. Len(s) : s[i].priority = ReceiverPriority /\ s[i].type # "ERR"
  /\ \A i \in 1 .. Len(s) - 1 : InOrder(s[i], s[i + 1])

\* The cases of InOrder.
LEMMA OrderFacts ==
  ASSUME NEW l, NEW m
  PROVE  /\ m.type \in {"FORK", "BLOCK", "PAUSE"} => (InOrder(l, m) <=> l.type \in Boundary)
         /\ m.type \in {"DATA", "COMPLETED"} =>
              (InOrder(l, m) <=> l.type \in {"BLOCK", "DATA", "ERR"} /\ l.block = m.block)
         /\ m.type = "ERR" => (InOrder(l, m) <=> l.type = "DATA" /\ l.block = m.block)
<1>1. CASE m.type \in {"FORK", "BLOCK", "PAUSE"}
  BY <1>1 DEF InOrder, Boundary
<1>2. CASE m.type \in {"DATA", "COMPLETED"}
  BY <1>2 DEF InOrder
<1>3. CASE m.type = "ERR"
  BY <1>3 DEF InOrder
<1> QED BY <1>1, <1>2, <1>3

LEMMA EventFacts ==
  ASSUME NEW type \in Types \ {"ERR"}, NEW n \in Nat
  PROVE  /\ Event(type, n) \in Posted /\ Event(type, n).type = type /\ Event(type, n).block = n
         /\ IsBatch(<<Event(type, n)>>)
<1>1. /\ Event(type, n) \in Posted /\ Event(type, n).type = type /\ Event(type, n).block = n
      /\ Event(type, n).priority = ReceiverPriority
  BY DEF Event, Posted
<1> DEFINE e == Event(type, n)
<1> HIDE DEF e
<1>2. <<e>> \in Seq(Posted) /\ Len(<<e>>) = 1 /\ <<e>>[1] = e
  BY <1>1 DEF e
<1> QED BY <1>1, <1>2 DEF IsBatch, e

LEMMA BatchConcat ==
  ASSUME NEW s, NEW t, IsBatch(s), IsBatch(t),
         s # <<>> /\ t # <<>> => InOrder(s[Len(s)], t[1])
  PROVE  IsBatch(s \o t)
<1>1. /\ s \o t \in Seq(Posted) /\ Len(s \o t) = Len(s) + Len(t)
      /\ Len(s) \in Nat /\ Len(t) \in Nat
      /\ \A i \in 1 .. Len(s) + Len(t) :
           (s \o t)[i] = IF i <= Len(s) THEN s[i] ELSE t[i - Len(s)]
  BY ConcatProperties, LenProperties DEF IsBatch
<1> DEFINE u == s \o t
<1> HIDE DEF u
<1>2. ASSUME NEW i \in 1 .. Len(u)
      PROVE  u[i].priority = ReceiverPriority /\ u[i].type # "ERR"
  <2>1. CASE i <= Len(s)
    BY <1>1, <2>1 DEF IsBatch, u
  <2>2. CASE ~(i <= Len(s))
    <3>1. i - Len(s) \in 1 .. Len(t)
      BY <1>1, <2>2 DEF u
    <3> QED BY <1>1, <2>2, <3>1 DEF IsBatch, u
  <2> QED BY <2>1, <2>2
<1>3. ASSUME NEW i \in 1 .. Len(u) - 1
      PROVE  InOrder(u[i], u[i + 1])
  <2>1. CASE i + 1 <= Len(s)
    <3>1. i \in 1 .. Len(s) - 1 /\ u[i] = s[i] /\ u[i + 1] = s[i + 1]
      BY <1>1, <2>1 DEF u
    <3> QED BY <3>1 DEF IsBatch
  <2>2. CASE i = Len(s)
    <3>1. u[i] = s[Len(s)] /\ u[i + 1] = t[1] /\ s # <<>> /\ t # <<>>
      BY <1>1, <2>2 DEF u
    <3> QED BY <3>1
  <2>3. CASE i > Len(s)
    <3>1. /\ i - Len(s) \in 1 .. Len(t) - 1 /\ i + 1 - Len(s) = (i - Len(s)) + 1
          /\ u[i] = t[i - Len(s)] /\ u[i + 1] = t[(i - Len(s)) + 1]
      BY <1>1, <2>3 DEF u
    <3> QED BY <3>1 DEF IsBatch
  <2> QED BY <1>1, <2>1, <2>2, <2>3 DEF u
<1> QED BY <1>1, <1>2, <1>3 DEF IsBatch, u

\* receive_result posts a whole block, in order.
LEMMA BlockEventsFacts ==
  ASSUME NEW n \in Nat, NEW data \in Nat
  PROVE  LET s == BlockEvents(n, data)
         IN IsBatch(s) /\ s # <<>> /\ s[1].type = "BLOCK" /\ s[Len(s)].type = "COMPLETED"
<1> DEFINE b == <<Event("BLOCK", n)>>
           d == [i \in 1..data |-> Event("DATA", n)]
           c == <<Event("COMPLETED", n)>>
<1>1. /\ IsBatch(b) /\ b # <<>> /\ Len(b) = 1 /\ b[1].type = "BLOCK" /\ b[1].block = n
      /\ IsBatch(c) /\ c # <<>> /\ Len(c) = 1 /\ c[1].type = "COMPLETED" /\ c[1].block = n
  <2>1. {"BLOCK", "COMPLETED"} \subseteq Types \ {"ERR"}
    BY DEF Types
  <2> QED BY <2>1, EventFacts
<1>2. IsBatch(d) /\ Len(d) = data /\ \A i \in 1..data : d[i].type = "DATA" /\ d[i].block = n
  <2>1. Event("DATA", n) \in Posted
    BY DEF Event, Posted, Types
  <2>2. d \in Seq(Posted) /\ Len(d) = data
    BY <2>1
  <2>3. \A i \in 1..data : /\ d[i].type = "DATA" /\ d[i].block = n
                           /\ d[i].priority = ReceiverPriority
    BY DEF Event
  <2> HIDE DEF d
  <2>4. \A i \in 1 .. data - 1 : InOrder(d[i], d[i + 1])
    <3> SUFFICES ASSUME NEW i \in 1 .. data - 1 PROVE InOrder(d[i], d[i + 1])
      OBVIOUS
    <3>1. i \in 1..data /\ i + 1 \in 1..data
      OBVIOUS
    <3> QED BY <2>3, <3>1, OrderFacts
  <2> QED BY <2>2, <2>3, <2>4 DEF IsBatch
<1> HIDE DEF b, c, d
<1>3. d # <<>> => Len(d) \in 1..data /\ 1 \in 1..data
  BY <1>2, EmptySeq DEF IsBatch
<1>4. IsBatch(b \o d)
  <2>1. d # <<>> => InOrder(b[1], d[1])
    BY <1>1, <1>2, <1>3, OrderFacts
  <2> QED BY <1>1, <1>2, <2>1, BatchConcat
<1>5. /\ Len(b \o d) = 1 + data /\ (b \o d)[1] = b[1] /\ b \o d # <<>>
      /\ (b \o d)[1 + data] = IF data = 0 THEN b[1] ELSE d[data]
  <2>1. /\ b \in Seq(Posted) /\ d \in Seq(Posted) /\ (data \in 1..data \/ data = 0)
    BY <1>1, <1>2 DEF IsBatch
  <2>2. /\ Len(b \o d) = 1 + data
        /\ \A i \in 1 .. 1 + data : (b \o d)[i] = IF i <= 1 THEN b[i] ELSE d[i - 1]
    <3>1. /\ Len(b \o d) = Len(b) + Len(d)
          /\ \A i \in 1 .. Len(b) + Len(d) :
               (b \o d)[i] = IF i <= Len(b) THEN b[i] ELSE d[i - Len(b)]
      BY <2>1, ConcatProperties
    <3> QED BY <1>1, <1>2, <3>1
  <2> QED BY <2>2
<1> DEFINE bd == b \o d
<1> HIDE DEF bd
<1>6. IsBatch(bd \o c)
  <2>1. InOrder(bd[Len(bd)], c[1])
    <3>1. bd[Len(bd)].type \in {"BLOCK", "DATA"} /\ bd[Len(bd)].block = n
      <4>1. data = 0 \/ data \in 1..data
        OBVIOUS
      <4> QED BY <1>1, <1>2, <1>5, <4>1 DEF bd
    <3> QED BY <1>1, <3>1, OrderFacts
  <2> QED BY <1>1, <1>4, <2>1, BatchConcat DEF bd
<1>7. bd \o c # <<>> /\ (bd \o c)[1] = bd[1] /\ (bd \o c)[Len(bd \o c)] = c[1]
  <2>1. bd \in Seq(Posted) /\ c \in Seq(Posted) /\ Len(bd) = 1 + data
    BY <1>1, <1>4, <1>5 DEF IsBatch, bd
  <2>2. /\ Len(bd \o c) = 2 + data
        /\ \A i \in 1 .. 2 + data : (bd \o c)[i] = IF i <= 1 + data THEN bd[i] ELSE c[i - (1 + data)]
    <3>1. /\ Len(bd \o c) = Len(bd) + Len(c)
          /\ \A i \in 1 .. Len(bd) + Len(c) :
               (bd \o c)[i] = IF i <= Len(bd) THEN bd[i] ELSE c[i - Len(bd)]
      BY <2>1, ConcatProperties
    <3> QED BY <1>1, <2>1, <3>1
  <2>3. bd \o c # <<>>
    BY <2>2
  <2> QED BY <2>2, <2>3
<1> QED BY <1>1, <1>5, <1>6, <1>7 DEF BlockEvents, bd, b, c, d

LEMMA ForkEventsFacts ==
  ASSUME NEW n \in Nat, NEW isFork \in BOOLEAN
  PROVE  LET f == ForkEvents(n, isFork)
         IN IsBatch(f) /\ (f # <<>> => Len(f) = 1 /\ f[1].type = "FORK")
<1>1. "FORK" \in Types \ {"ERR"}
  BY DEF Types
<1>2. IsBatch(<<Event("FORK", n)>>) /\ Event("FORK", n).type = "FORK"
  BY <1>1, EventFacts
<1>3. IsBatch(<<>>)
  BY DEF IsBatch
<1> QED BY <1>2, <1>3 DEF ForkEvents

\* receive_result may announce a fork before the block.
LEMMA ResultEventsFacts ==
  ASSUME NEW n \in Nat, NEW data \in Nat, NEW isFork \in BOOLEAN
  PROVE  LET s == ForkEvents(n, isFork) \o BlockEvents(n, data)
         IN /\ IsBatch(s) /\ s # <<>>
            /\ s[1].type \in {"FORK", "BLOCK"} /\ s[Len(s)].type \in Boundary
<1> DEFINE f == ForkEvents(n, isFork)
           b == BlockEvents(n, data)
<1>1. IsBatch(b) /\ b # <<>> /\ b[1].type = "BLOCK" /\ b[Len(b)].type = "COMPLETED"
  BY BlockEventsFacts
<1>2. IsBatch(f) /\ (f # <<>> => Len(f) = 1 /\ f[1].type = "FORK")
  BY ForkEventsFacts
<1> HIDE DEF f, b
<1>3. IsBatch(f \o b)
  <2>1. f # <<>> => InOrder(f[Len(f)], b[1])
    BY <1>1, <1>2, OrderFacts DEF Boundary
  <2> QED BY <1>1, <1>2, <2>1, BatchConcat
<1>4. /\ f \o b # <<>> /\ (f \o b)[Len(f \o b)] = b[Len(b)]
      /\ (f \o b)[1] = IF f = <<>> THEN b[1] ELSE f[1]
  <2>1. /\ f \in Seq(Posted) /\ b \in Seq(Posted) /\ Len(f) \in Nat /\ Len(b) \in Nat
        /\ Len(b) # 0 /\ (f = <<>> <=> Len(f) = 0)
    BY <1>1, <1>2, EmptySeq, LenProperties DEF IsBatch
  <2>2. /\ Len(f \o b) = Len(f) + Len(b)
        /\ \A i \in 1 .. Len(f) + Len(b) :
             (f \o b)[i] = IF i <= Len(f) THEN f[i] ELSE b[i - Len(f)]
    BY <2>1, ConcatProperties
  <2>3. f \o b # <<>> /\ (f \o b)[Len(f) + Len(b)] = b[Len(b)]
    BY <2>1, <2>2
  <2>4. CASE f = <<>>
    BY <2>1, <2>2, <2>3, <2>4
  <2>5. CASE f # <<>>
    BY <2>1, <2>2, <2>3, <2>5
  <2> QED BY <2>4, <2>5
<1> QED BY <1>1, <1>2, <1>3, <1>4 DEF Boundary, f, b

(* ------------------------- the receiver's handlers ---------------------- *)

\* A handler of the stream runs when everything it posted before is delivered.
LEMMA StreamIsAlone ==
  ASSUME TypeOK, StreamMayRun
  PROVE  app_queue = <<>>
<1>1. app_queue \in Seq(Posted)
  BY DEF TypeOK, LoopOK
<1>2. ASSUME NEW i \in 1 .. Len(app_queue) PROVE FALSE
  <2>1. app_queue[i] \in Posted /\ i \in DOMAIN app_queue
    BY <1>1
  <2>2. app_queue[i].priority \in {50, 55}
    BY <2>1 DEF Posted, ReceiverPriority, DecoderPriority
  <2>3. app_queue[i].priority < 40
    BY <2>1 DEF StreamMayRun, StreamPriority
  <2> QED BY <2>2, <2>3
<1> QED BY <1>1, <1>2, EmptySeq, LenProperties

\* continue_read posts what it is given and perhaps a pause, and reads, waits or ends
\* the process.
LEMMA ContinueFacts ==
  ASSUME TypeOK, StreamMayRun, NEW outstanding \in Nat, NEW isBlocked \in BOOLEAN,
         NEW events, IsBatch(events), head' \in 0..LastBlock,
         events # <<>> => events[Len(events)].type \in Boundary,
         continue_read(outstanding, isBlocked, events)
  PROVE  /\ blocked' = isBlocked /\ UNCHANGED <<started, last_msg, told>>
         /\ pause_time' \in 0..PauseMax
         /\ \/ /\ state' = "up" /\ UNCHANGED aborting
               /\ reads' = outstanding + 1 /\ pause_timer' = Off
            \/ /\ state' = "up" /\ UNCHANGED aborting
               /\ reads' = outstanding /\ pause_timer' \in 0..PauseMax
            \/ /\ state' = "quit" /\ aborting' = TRUE
               /\ reads' = outstanding /\ pause_timer' = Off
         /\ IsBatch(app_queue')
         /\ app_queue' # <<>> =>
              /\ app_queue'[Len(app_queue')].type \in Boundary
              /\ events = <<>> => app_queue'[1].type = "PAUSE"
              /\ events # <<>> => app_queue'[1] = events[1]
<1>1. app_queue = <<>> /\ events \in Seq(Posted)
  BY StreamIsAlone DEF IsBatch
<1>2. app_queue \o events = events /\ <<>> \o events \o <<>> = events
  BY <1>1
<1>3. pause_time \in 0..PauseMax /\ PauseMax \in Nat \ {0}
  BY TimesAssumption DEF TypeOK
<1>4. CASE ~Pauses(isBlocked, events) \/ Finished
  <2>1. /\ app_queue' = events /\ pause_timer' = Off /\ pause_time' \in {0, pause_time}
        /\ \/ reads' = outstanding + 1 /\ state' = "up" /\ UNCHANGED aborting
           \/ reads' = outstanding /\ state' = "quit" /\ aborting' = TRUE
    BY <1>2, <1>4 DEF continue_read, PauseTimeRead
  <2> QED BY <1>3, <2>1 DEF continue_read
<1>5. CASE Pauses(isBlocked, events) /\ ~Finished
  <2> DEFINE pause == <<Event("PAUSE", head')>>
  <2>1. /\ app_queue' = events \o pause /\ reads' = outstanding
        /\ state' = "up" /\ UNCHANGED aborting
    BY <1>2, <1>5 DEF continue_read, ReadsInPause
  <2>2. pause_time' \in 0..PauseMax /\ pause_timer' = pause_time'
    BY <1>3, <1>5 DEF continue_read, PauseAfter
  <2>3. IsBatch(pause) /\ Len(pause) = 1 /\ pause # <<>> /\ pause[1].type = "PAUSE"
    <3>1. "PAUSE" \in Types \ {"ERR"} /\ head' \in Nat
      BY TimesAssumption DEF Types
    <3> QED BY <3>1, EventFacts
  <2> HIDE DEF pause
  <2>4. IsBatch(events \o pause)
    <3>1. events # <<>> => InOrder(events[Len(events)], pause[1])
      BY <2>3, OrderFacts
    <3> QED BY <2>3, <3>1, BatchConcat
  <2>5. /\ (events \o pause)[Len(events \o pause)] = pause[1]
        /\ (events \o pause)[1] = IF events = <<>> THEN pause[1] ELSE events[1]
    <3>1. /\ events \in Seq(Posted) /\ pause \in Seq(Posted) /\ Len(events) \in Nat
          /\ (events = <<>> <=> Len(events) = 0)
      BY <2>3, EmptySeq, LenProperties DEF IsBatch
    <3>2. /\ Len(events \o pause) = Len(events) + Len(pause)
          /\ \A i \in 1 .. Len(events) + Len(pause) :
               (events \o pause)[i] = IF i <= Len(events) THEN events[i] ELSE pause[i - Len(events)]
      BY <3>1, ConcatProperties
    <3>3. (events \o pause)[Len(events) + 1] = pause[1]
      BY <2>3, <3>1, <3>2
    <3>4. CASE events = <<>>
      BY <2>3, <3>1, <3>2, <3>3, <3>4
    <3>5. CASE events # <<>>
      BY <2>3, <3>1, <3>2, <3>3, <3>5
    <3> QED BY <3>4, <3>5
  <2> QED BY <2>1, <2>2, <2>3, <2>4, <2>5 DEF continue_read, Boundary
<1> QED BY <1>4, <1>5

(* -------------------------------- types --------------------------------- *)

LEMMA TypeInit == Init => TypeOK
<1> SUFFICES ASSUME Init PROVE TypeOK OBVIOUS
<1>1. LoopOK
  <2>1. app_queue = <<>> /\ started = {} /\ told = FALSE /\ last_msg = NoMessage
    BY DEF Init, LoopInit
  <2>2. <<>> \in Seq(Posted)
    OBVIOUS
  <2> QED BY <2>1, <2>2 DEF LoopOK
<1>2. /\ state = "starting"
      /\ {node_gone, aborting, received, final, confirmed, blocked, slow} \subseteq BOOLEAN
      /\ {reads, writes, async_queue} \subseteq Nat
  <2>1. /\ node_gone \in BOOLEAN /\ aborting \in BOOLEAN /\ received \in BOOLEAN
        /\ blocked \in BOOLEAN /\ slow \in BOOLEAN /\ state = "starting"
        /\ final \in BOOLEAN /\ confirmed \in BOOLEAN
    BY Zenon DEF Init
  <2>2. reads = 0 /\ writes = 0 /\ async_queue = 0
    BY DEF Init
  <2> QED BY <2>1, <2>2
<1>3. /\ {PauseMax, Deadline, SendPauseMax, WriteMax, LastBlock} \subseteq Nat
      /\ pause_timer = -1 /\ stale_check_timer = -1 /\ mytimer = -1 /\ write_left = -1
      /\ pause_time = 0 /\ send_pause = 0 /\ quiet = 0 /\ head = 0 /\ stale_check_last_head = 0
  BY TimesAssumption DEF Init, Off
<1>4. /\ pause_timer \in Off..PauseMax /\ pause_time \in 0..PauseMax
      /\ stale_check_timer \in Off..Deadline /\ {head, stale_check_last_head} \subseteq 0..LastBlock
      /\ mytimer \in Off .. 2 * SendPauseMax /\ send_pause \in 0 .. 2 * SendPauseMax
      /\ write_left \in Off..WriteMax /\ quiet \in 0..Deadline
  BY <1>3 DEF Off
<1> QED BY <1>1, <1>2, <1>4 DEF TypeOK

\* The reader's handlers that end in continue_read.
LEMMA ContinueType ==
  ASSUME TypeOK, StreamMayRun, NEW outstanding \in Nat, NEW isBlocked \in BOOLEAN,
         NEW events, IsBatch(events), {head'} \subseteq 0..LastBlock,
         {received', final', confirmed'} \subseteq BOOLEAN,
         events # <<>> => events[Len(events)].type \in Boundary,
         continue_read(outstanding, isBlocked, events),
         quiet' \in 0..Deadline, UNCHANGED <<node_gone, stale, exporter>>
  PROVE  TypeOK'
<1>1. /\ blocked' = isBlocked /\ UNCHANGED <<started, last_msg, told>>
      /\ pause_time' \in 0..PauseMax /\ reads' \in Nat /\ pause_timer' \in Off..PauseMax
      /\ state' \in {"up", "quit"} /\ aborting' \in {aborting, TRUE} /\ IsBatch(app_queue')
  <2>1. PauseMax \in Nat /\ head' \in 0..LastBlock
    BY TimesAssumption
  <2>2. /\ blocked' = isBlocked /\ UNCHANGED <<started, last_msg, told>>
        /\ pause_time' \in 0..PauseMax /\ IsBatch(app_queue')
        /\ \/ /\ state' = "up" /\ UNCHANGED aborting
              /\ reads' = outstanding + 1 /\ pause_timer' = Off
           \/ /\ state' = "up" /\ UNCHANGED aborting
              /\ reads' = outstanding /\ pause_timer' \in 0..PauseMax
           \/ /\ state' = "quit" /\ aborting' = TRUE
              /\ reads' = outstanding /\ pause_timer' = Off
    BY <2>1, ContinueFacts, Zenon
  <2>3. reads' \in Nat /\ pause_timer' \in Off..PauseMax
    BY <2>1, <2>2 DEF Off
  <2>4. state' \in {"up", "quit"} /\ aborting' \in {aborting, TRUE}
    BY <2>2, Zenon
  <2> QED BY <2>2, <2>3, <2>4
<1>2. LoopOK'
  BY <1>1 DEF TypeOK, LoopOK, IsBatch
<1> QED BY <1>1, <1>2 DEF TypeOK, stale, exporter

\* A block that is taken over, by a handler that returns or throws.
LEMMA TakesFacts ==
  ASSUME TypeOK, NEW n \in 1..LastBlock, NEW isBlocked \in BOOLEAN, TakesBlock(n, isBlocked)
  PROVE  /\ HasRead("up") /\ StreamMayRun /\ reads > 0 /\ reads - 1 \in Nat
         /\ n \in Nat /\ (n <= head) \in BOOLEAN /\ head' = n /\ head' \in 0..LastBlock
         /\ {received', final', confirmed'} \subseteq BOOLEAN
<1>1. head \in 0..LastBlock /\ LastBlock \in Nat /\ reads \in Nat
  BY TimesAssumption DEF TypeOK
<1>2. /\ HasRead("up") /\ head' = n /\ received' = TRUE /\ confirmed' = FALSE
      /\ final' = FALSE \/ final' = (n > head)
  BY DEF TakesBlock
<1>3. (n > head) \in BOOLEAN /\ (n <= head) \in BOOLEAN /\ n \in Nat
  BY <1>1
<1>4. final' \in BOOLEAN
  BY <1>2, <1>3
<1>5. StreamMayRun /\ reads > 0
  BY <1>2 DEF HasRead, NoHandlerBefore
<1>6. reads - 1 \in Nat /\ n \in 0..LastBlock
  BY <1>1, <1>5
<1>7. head' = n /\ head' \in 0..LastBlock /\ {received', final', confirmed'} \subseteq BOOLEAN
  BY <1>2, <1>4, <1>6
<1> QED BY <1>2, <1>3, <1>5, <1>6, <1>7

\* An exception comes from a handler that had data to read.
LEMMA ThrowReads ==
  ASSUME ReadThrows
  PROVE  /\ HasRead("abi") \/ HasRead("up")
         /\ reads > 0 /\ ~aborting /\ StreamMayRun /\ state # "quit"
         /\ reads' = reads - 1 /\ aborting' = TRUE
         /\ UNCHANGED <<state, node_gone, pause_timer, pause_time, stale, started,
                        last_msg, told, exporter, quiet>>
<1>1. HasRead("abi") \/ HasRead("up")
  <2>1. \A n, isBlocked : TakesBlock(n, isBlocked) => HasRead("up")
    BY DEF TakesBlock
  <2> QED BY <2>1, Zenon DEF ReadThrows
<1>2. /\ reads' = reads - 1 /\ aborting' = TRUE
      /\ UNCHANGED <<state, node_gone, pause_timer, pause_time, stale, started,
                     last_msg, told, exporter, quiet>>
  BY Zenon DEF ReadThrows
<1> QED BY <1>1, <1>2 DEF HasRead, NoHandlerBefore

LEMMA ReaderTypes ==
  ASSUME TypeOK
  PROVE  /\ AbiRead => TypeOK'
         /\ Results => TypeOK'
         /\ EmptyRead => TypeOK'
         /\ PauseExpires => TypeOK'
<1>1. IsBatch(<<>>)
  BY DEF IsBatch
<1>2. /\ reads \in Nat /\ head \in 0..LastBlock /\ blocked \in BOOLEAN
      /\ {received, final, confirmed} \subseteq BOOLEAN
      /\ quiet \in 0..Deadline /\ LastBlock \in Nat /\ 0 \in 0..Deadline
  BY TimesAssumption DEF TypeOK
<1>3. ASSUME AbiRead PROVE TypeOK'
  <2>1. /\ StreamMayRun /\ reads - 1 \in Nat /\ UNCHANGED position
        /\ continue_read(reads - 1, blocked, <<>>) /\ quiet' = 0
        /\ UNCHANGED <<node_gone, stale, exporter>>
    BY <1>2, <1>3 DEF AbiRead, HasRead, NoHandlerBefore
  <2> QED BY <1>1, <1>2, <2>1, ContinueType DEF position
<1>4. ASSUME Results PROVE TypeOK'
  <2>1. PICK n \in 1..LastBlock, data \in 0..1, isBlocked \in BOOLEAN :
          ResultRead(n, data, isBlocked)
    BY <1>4 DEF Results
  <2> DEFINE events == ForkEvents(n, n <= head) \o BlockEvents(n, data)
  <2>2. IsBatch(events) /\ events # <<>> /\ events[Len(events)].type \in Boundary
    <3>1. n \in Nat /\ data \in Nat /\ (n <= head) \in BOOLEAN
      BY <1>2
    <3> QED BY <3>1, ResultEventsFacts
  <2>3. /\ StreamMayRun /\ reads - 1 \in Nat /\ head' = n
        /\ {received', final', confirmed'} \subseteq BOOLEAN
    BY <2>1, TakesFacts DEF ResultRead
  <2>4. /\ continue_read(reads - 1, isBlocked, events) /\ quiet' = 0
        /\ UNCHANGED <<node_gone, stale, exporter>>
    BY <2>1 DEF ResultRead
  <2> HIDE DEF events
  <2> QED BY <1>2, <2>2, <2>3, <2>4, ContinueType
<1>5. ASSUME EmptyRead PROVE TypeOK'
  <2>1. /\ StreamMayRun /\ reads - 1 \in Nat /\ UNCHANGED position
        /\ continue_read(reads - 1, blocked, <<>>) /\ UNCHANGED quiet
        /\ UNCHANGED <<node_gone, stale, exporter>>
    BY <1>2, <1>5 DEF EmptyRead, HasRead, NoHandlerBefore
  <2> QED BY <1>1, <1>2, <2>1, ContinueType DEF position
<1>6. ASSUME PauseExpires PROVE TypeOK'
  <2>1. /\ StreamMayRun /\ UNCHANGED position
        /\ continue_read(reads, blocked, <<>>) /\ quiet' \in 0..Deadline
        /\ UNCHANGED <<node_gone, stale, exporter>>
    BY <1>2, <1>6 DEF PauseExpires, NoHandlerBefore, Alive
  <2> QED BY <1>1, <1>2, <2>1, ContinueType DEF position
<1> QED BY <1>3, <1>4, <1>5, <1>6

\* Part of the events of a block.
LEMMA PartFacts ==
  ASSUME NEW n \in Nat, NEW posted \in Nat
  PROVE  LET part == SubSeq(BlockEvents(n, 1), 1, posted)
         IN posted <= 3 => IsBatch(part) /\ (part # <<>> => part[1].type = "BLOCK")
<1> DEFINE b == BlockEvents(n, 1)
           part == SubSeq(b, 1, posted)
<1> SUFFICES ASSUME posted <= 3
             PROVE  IsBatch(part) /\ (part # <<>> => part[1].type = "BLOCK")
  OBVIOUS
<1>1. IsBatch(b) /\ b[1].type = "BLOCK" /\ b # <<>>
  BY BlockEventsFacts
<1>2. b \in Seq(Posted) /\ Len(b) = 3
  <2>1. b \in Seq(Posted)
    BY <1>1 DEF IsBatch
  <2> QED BY <2>1 DEF BlockEvents
<1> HIDE DEF b
<1>3. part \in Seq(Posted) /\ Len(part) = posted /\ \A i \in 1..posted : part[i] = b[i]
  BY <1>2
<1> HIDE DEF part
<1>4. /\ \A i \in 1..posted : b[i].priority = ReceiverPriority /\ b[i].type # "ERR"
      /\ \A i \in 1 .. posted - 1 : InOrder(b[i], b[i + 1])
  BY <1>1, <1>2 DEF IsBatch
<1>5. IsBatch(part)
  <2>1. \A i \in 1 .. posted - 1 : i \in 1..posted /\ i + 1 \in 1..posted
    OBVIOUS
  <2>2. \A i \in 1 .. posted - 1 : InOrder(part[i], part[i + 1])
    BY <1>3, <1>4, <2>1
  <2> QED BY <1>3, <1>4, <2>2 DEF IsBatch
<1>6. part # <<>> => part[1] = b[1]
  BY <1>3
<1> QED BY <1>1, <1>5, <1>6

\* What an exception leaves in the queue.
LEMMA PartOfBlockFacts ==
  ASSUME NEW n \in Nat, NEW isFork \in BOOLEAN, NEW posted \in 0..2
  PROVE  LET part == PartOfBlock(n, isFork, posted)
         IN IsBatch(part) /\ (part # <<>> => part[1].type \in {"FORK", "BLOCK"})
<1> DEFINE f == ForkEvents(n, isFork)
           b == SubSeq(BlockEvents(n, 1), 1, posted)
<1>1. IsBatch(b) /\ (b # <<>> => b[1].type = "BLOCK")
  <2>1. posted \in Nat /\ posted <= 3
    OBVIOUS
  <2> QED BY <2>1, PartFacts
<1>2. IsBatch(f) /\ (f # <<>> => Len(f) = 1 /\ f[1].type = "FORK")
  BY ForkEventsFacts
<1> HIDE DEF f, b
<1>3. IsBatch(f \o b)
  <2>1. f # <<>> /\ b # <<>> => InOrder(f[Len(f)], b[1])
    BY <1>1, <1>2, OrderFacts DEF Boundary
  <2> QED BY <1>1, <1>2, <2>1, BatchConcat
<1>4. f \o b # <<>> => (f \o b)[1].type \in {"FORK", "BLOCK"}
  <2>1. /\ f \in Seq(Posted) /\ b \in Seq(Posted) /\ Len(f) \in Nat /\ Len(b) \in Nat
        /\ (f = <<>> <=> Len(f) = 0) /\ (b = <<>> <=> Len(b) = 0)
    BY <1>1, <1>2, EmptySeq, LenProperties DEF IsBatch
  <2>2. CASE f = <<>>
    <3>1. f \o b = b
      BY <2>1, <2>2
    <3> QED BY <1>1, <3>1
  <2>3. CASE f # <<>>
    <3>1. \A i \in 1 .. Len(f) + Len(b) :
            (f \o b)[i] = IF i <= Len(f) THEN f[i] ELSE b[i - Len(f)]
      BY <2>1, ConcatProperties
    <3>2. (f \o b)[1] = f[1]
      BY <1>2, <2>1, <2>3, <3>1
    <3> QED BY <1>2, <2>3, <3>2
  <2> QED BY <2>2, <2>3
<1> QED BY <1>3, <1>4 DEF PartOfBlock, f, b

LEMMA StartTypes ==
  ASSUME TypeOK
  PROVE  /\ \A p \in Plugins : PluginStarts(p) => TypeOK'
         /\ DependenciesTimer => TypeOK'
         /\ StartRead => TypeOK'
<1>1. ASSUME NEW plugins, Launched(plugins)
      PROVE  app_queue' \in Seq(Posted) /\ blocked' \in BOOLEAN
  <2>1. app_queue \in Seq(Posted) /\ head \in Nat
    BY TimesAssumption DEF TypeOK, LoopOK
  <2>2. Event("FORK", head) \in Posted
    BY <2>1 DEF Event, Posted, Types
  <2>3. \A isFork \in BOOLEAN : LoadStateEvents(plugins, head, isFork) \in Seq(Posted)
    <3>1. <<>> \in Seq(Posted) /\ <<Event("FORK", head)>> \in Seq(Posted)
      BY <2>2
    <3> QED BY <3>1 DEF LoadStateEvents, ForkEvents
  <2> QED BY <1>1, <2>1, <2>3 DEF Launched
<1>2. ASSUME NEW plugins, start_after_dependencies(plugins)
      PROVE  /\ state' \in {state, "connecting"} /\ app_queue' \in Seq(Posted)
             /\ blocked' \in BOOLEAN /\ pause_timer' \in Off..PauseMax
  <2>1. 1 \in Off..PauseMax /\ Off \in Off..PauseMax
    BY TimesAssumption DEF Off
  <2>2. CASE DependenciesStarted(plugins)
    BY <1>1, <1>2, <2>1, <2>2 DEF start_after_dependencies
  <2>3. CASE ~DependenciesStarted(plugins)
    <3>1. pause_timer' = 1 /\ UNCHANGED <<state, blocked, app_queue>>
      BY <1>2, <2>3 DEF start_after_dependencies
    <3> QED BY <2>1, <3>1 DEF TypeOK, LoopOK
  <2> QED BY <2>2, <2>3
<1>3. 1 \in Off .. 2 * SendPauseMax /\ 1 \in 0 .. 2 * SendPauseMax
  BY TimesAssumption DEF Off
<1>4. ASSUME NEW p \in Plugins, PluginStarts(p)
      PROVE  TypeOK'
  <2>1. /\ state' \in {state, "connecting"} /\ app_queue' \in Seq(Posted)
        /\ blocked' \in BOOLEAN /\ pause_timer' \in Off..PauseMax
    <3>1. CASE p = "receiver"
      BY <1>2, <1>4, <3>1 DEF PluginStarts
    <3>2. CASE p # "receiver"
      BY <1>4, <3>2 DEF PluginStarts, TypeOK, LoopOK
    <3> QED BY <3>1, <3>2
  <2>2. mytimer' \in Off .. 2 * SendPauseMax /\ send_pause' \in 0 .. 2 * SendPauseMax
    BY <1>3, <1>4 DEF PluginStarts, TypeOK
  <2>3. started' \subseteq Plugins /\ UNCHANGED <<last_msg, told>>
    BY <1>4 DEF PluginStarts, TypeOK, LoopOK
  <2>4. LoopOK'
    BY <2>1, <2>3 DEF TypeOK, LoopOK
  <2>5. UNCHANGED <<node_gone, aborting, reads, pause_time, stale, position,
                    async_queue, writes, write_left, slow, quiet>>
    BY <1>4 DEF PluginStarts
  <2> QED BY <2>1, <2>2, <2>4, <2>5 DEF TypeOK, stale, position
<1>5. ASSUME DependenciesTimer PROVE TypeOK'
  <2>1. /\ start_after_dependencies(started)
        /\ UNCHANGED <<started, last_msg, told, node_gone, aborting, reads, pause_time, stale,
                       position, exporter, quiet>>
    BY <1>5 DEF DependenciesTimer
  <2>2. LoopOK'
    BY <1>2, <2>1 DEF TypeOK, LoopOK
  <2> QED BY <1>2, <2>1, <2>2 DEF TypeOK, stale, position, exporter
<1>6. ASSUME StartRead PROVE TypeOK'
  <2>1. Deadline \in Off..Deadline
    BY TimesAssumption DEF Off
  <2> QED BY <1>6, <2>1 DEF StartRead, TypeOK, LoopOK, position, exporter, loop
<1> QED BY <1>4, <1>5, <1>6

\* The ways out of an exception: with the queue as it was, or with part of a block.
LEMMA ThrowFacts ==
  ASSUME TypeOK, ReadThrows
  PROVE  /\ head' \in 0..LastBlock /\ {received', final', confirmed', blocked'} \subseteq BOOLEAN
         /\ \/ UNCHANGED app_queue
            \/ \E part : /\ IsBatch(part) /\ (part # <<>> => part[1].type \in {"FORK", "BLOCK"})
                         /\ app_queue' = app_queue \o part
<1>1. /\ head \in 0..LastBlock /\ LastBlock \in Nat
      /\ {received, final, confirmed, blocked} \subseteq BOOLEAN
  BY TimesAssumption DEF TypeOK
<1>2. \/ UNCHANGED <<position, blocked, app_queue>>
      \/ received' = TRUE /\ UNCHANGED <<head, final, confirmed, blocked, app_queue>>
      \/ \E n \in 1..LastBlock, isBlocked \in BOOLEAN, posted \in 0..2 :
           /\ TakesBlock(n, isBlocked) /\ blocked' = isBlocked
           /\ app_queue' = app_queue \o PartOfBlock(n, n <= head, posted)
  BY Zenon DEF ReadThrows
<1>3. CASE UNCHANGED <<position, blocked, app_queue>>
  BY <1>1, <1>3 DEF position
<1>4. CASE received' = TRUE /\ UNCHANGED <<head, final, confirmed, blocked, app_queue>>
  BY <1>1, <1>4
<1>5. ASSUME NEW n \in 1..LastBlock, NEW isBlocked \in BOOLEAN, NEW posted \in 0..2,
             TakesBlock(n, isBlocked), blocked' = isBlocked,
             app_queue' = app_queue \o PartOfBlock(n, n <= head, posted)
      PROVE  /\ head' \in 0..LastBlock
             /\ {received', final', confirmed', blocked'} \subseteq BOOLEAN
             /\ \E part : /\ IsBatch(part) /\ (part # <<>> => part[1].type \in {"FORK", "BLOCK"})
                          /\ app_queue' = app_queue \o part
  <2>1. n \in Nat /\ (n <= head) \in BOOLEAN
    BY <1>5, TakesFacts
  <2>2. head' \in 0..LastBlock /\ {received', final', confirmed', blocked'} \subseteq BOOLEAN
    BY <1>5, TakesFacts
  <2> QED BY <1>5, <2>1, <2>2, PartOfBlockFacts
<1> QED BY <1>2, <1>3, <1>4, <1>5

LEMMA ThrowType == ASSUME TypeOK, ReadThrows PROVE TypeOK'
<1>1. /\ head' \in 0..LastBlock /\ {received', final', confirmed', blocked'} \subseteq BOOLEAN
      /\ app_queue' \in Seq(Posted)
  <2>1. app_queue \in Seq(Posted)
    BY DEF TypeOK, LoopOK
  <2>2. ASSUME NEW part, IsBatch(part), app_queue' = app_queue \o part
        PROVE  app_queue' \in Seq(Posted)
    BY <2>1, <2>2 DEF IsBatch
  <2> QED BY <2>1, <2>2, ThrowFacts
<1>2. reads' \in Nat /\ aborting' = TRUE
  BY ThrowReads DEF TypeOK
<1>3. UNCHANGED <<state, node_gone, pause_timer, pause_time, stale, started,
                  last_msg, told, exporter, quiet>>
  BY ThrowReads
<1>4. LoopOK'
  BY <1>1, <1>3 DEF TypeOK, LoopOK
<1> QED BY <1>1, <1>2, <1>3, <1>4 DEF TypeOK, stale, exporter

(* ------------------------ decoder and exporter -------------------------- *)

LEMMA RemoveAtFacts ==
  ASSUME NEW S, NEW s \in Seq(S), NEW i \in 1 .. Len(s)
  PROVE  /\ RemoveAt(s, i) \in Seq(S) /\ Len(RemoveAt(s, i)) = Len(s) - 1
         /\ \A j \in 1 .. Len(s) - 1 :
              RemoveAt(s, i)[j] = IF j < i THEN s[j] ELSE s[j + 1]
<1> DEFINE t == SubSeq(s, 1, i - 1)
           u == SubSeq(s, i + 1, Len(s))
<1>1. Len(s) \in Nat
  BY LenProperties
<1>2. t \in Seq(S) /\ Len(t) = i - 1 /\ \A j \in 1 .. i - 1 : t[j] = s[j]
  BY <1>1
<1>3. u \in Seq(S) /\ Len(u) = Len(s) - i /\ \A j \in 1 .. Len(s) - i : u[j] = s[i + j]
  BY <1>1
<1> HIDE DEF t, u
<1>4. /\ t \o u \in Seq(S) /\ Len(t \o u) = Len(t) + Len(u)
      /\ \A j \in 1 .. Len(t) + Len(u) :
           (t \o u)[j] = IF j <= Len(t) THEN t[j] ELSE u[j - Len(t)]
  BY <1>2, <1>3, ConcatProperties
<1>5. Len(t) + Len(u) = Len(s) - 1
  BY <1>1, <1>2, <1>3
<1>6. ASSUME NEW j \in 1 .. Len(s) - 1
      PROVE  (t \o u)[j] = IF j < i THEN s[j] ELSE s[j + 1]
  <2>1. (t \o u)[j] = IF j <= Len(t) THEN t[j] ELSE u[j - Len(t)]
    BY <1>4, <1>5
  <2>2. CASE j < i
    <3>1. j \in 1 .. i - 1 /\ j <= Len(t)
      BY <1>1, <1>2, <2>2
    <3> QED BY <1>2, <2>1, <2>2, <3>1
  <2>3. CASE ~(j < i)
    <3>1. j - (i - 1) \in 1 .. Len(s) - i /\ i + (j - (i - 1)) = j + 1 /\ ~(j <= Len(t))
      BY <1>1, <1>2, <2>3
    <3>2. u[j - (i - 1)] = s[i + (j - (i - 1))]
      BY <1>3, <3>1
    <3> QED BY <1>2, <2>1, <2>3, <3>1, <3>2
  <2> QED BY <2>2, <2>3
<1>7. RemoveAt(s, i) = t \o u
  BY DEF RemoveAt, t, u
<1> QED BY <1>4, <1>5, <1>6, <1>7

\* The decoder takes the oldest event when no message is left.
LEMMA DecodeFacts ==
  ASSUME TypeOK, NEW i \in DOMAIN app_queue, Decode(i)
  PROVE  \E failed \in BOOLEAN :
           LET e == app_queue[i]
               m == <<Message(e.type, e.block)>> \o Errors(e.block, failed)
           IN /\ failed => e.type = "DATA"
              /\ e \in Posted /\ e.priority = ReceiverPriority
              /\ m \in Seq(Posted) /\ Len(m) = (IF failed THEN 2 ELSE 1)
              /\ m[1] = Message(e.type, e.block) /\ (failed => m[2] = Message("ERR", e.block))
              /\ app_queue' = RemoveAt(app_queue, i) \o m
              /\ UNCHANGED <<started, last_msg, told>>
<1>1. app_queue \in Seq(Posted) /\ app_queue[i] \in Posted /\ i \in 1 .. Len(app_queue)
  BY DEF TypeOK, LoopOK
<1> DEFINE e == app_queue[i]
           first == <<Message(e.type, e.block)>>
<1>2. PICK failed \in BOOLEAN :
        /\ failed => e.type = "DATA"
        /\ app_queue' = RemoveAt(app_queue, i) \o first \o Errors(e.block, failed)
        /\ UNCHANGED <<started, last_msg, told>>
        /\ e.priority = ReceiverPriority
  BY DEF Decode, HasTurn, Decoded
<1>3. Message(e.type, e.block) \in Posted /\ Message("ERR", e.block) \in Posted
  BY <1>1 DEF Message, Posted, Types
<1>4. /\ first \in Seq(Posted) /\ Len(first) = 1 /\ first[1] = Message(e.type, e.block)
      /\ RemoveAt(app_queue, i) \in Seq(Posted)
  BY <1>1, <1>3, RemoveAtFacts
<1> HIDE DEF e, first
<1>5. CASE failed
  <2> DEFINE err == <<Message("ERR", e.block)>>
  <2>1. /\ Errors(e.block, failed) = err /\ err \in Seq(Posted) /\ Len(err) = 1
        /\ err[1] = Message("ERR", e.block)
    BY <1>3, <1>5 DEF Errors
  <2> HIDE DEF err
  <2>2. /\ first \o err \in Seq(Posted) /\ Len(first \o err) = Len(first) + Len(err)
        /\ \A j \in 1 .. Len(first) + Len(err) :
             (first \o err)[j] = IF j <= Len(first) THEN first[j] ELSE err[j - Len(first)]
    BY <1>4, <2>1, ConcatProperties
  <2>3. Len(first \o err) = 2 /\ (first \o err)[1] = first[1] /\ (first \o err)[2] = err[1]
    BY <1>4, <2>1, <2>2
  <2>4. app_queue' = RemoveAt(app_queue, i) \o (first \o err)
    BY <1>2, <1>4, <2>1, ConcatAssociative
  <2> QED BY <1>1, <1>2, <1>4, <1>5, <2>1, <2>2, <2>3, <2>4 DEF e, first
<1>6. CASE ~failed
  <2>1. Errors(e.block, failed) = <<>>
    BY <1>6 DEF Errors
  <2>2. first \o <<>> = first /\ RemoveAt(app_queue, i) \o first \in Seq(Posted)
    BY <1>4
  <2>3. app_queue' = RemoveAt(app_queue, i) \o (first \o <<>>)
    BY <1>2, <1>4, <2>1, <2>2, ConcatEmptySeq
  <2> QED BY <1>1, <1>2, <1>4, <1>6, <2>1, <2>2, <2>3 DEF e, first
<1> QED BY <1>5, <1>6

\* async_send_events waits when the queue is empty, and writes otherwise.
LEMMA SendFacts ==
  ASSUME TypeOK, NEW outstanding \in Nat, async_send_events(outstanding)
  PROVE  /\ \/ /\ async_queue = 0 /\ async_queue' = 0 /\ writes' = outstanding
               /\ send_pause' \in 1 .. 2 * SendPauseMax /\ mytimer' = send_pause'
            \/ /\ async_queue # 0 /\ async_queue' = async_queue - 1 /\ writes' = outstanding + 1
               /\ send_pause' = 0 /\ mytimer' = Off
         /\ write_left' \in Off..WriteMax /\ slow' \in BOOLEAN
<1>1. /\ send_pause \in 0 .. 2 * SendPauseMax /\ async_queue \in Nat /\ slow \in BOOLEAN
      /\ SendPauseMax \in Nat \ {0} /\ WriteMax \in Nat \ {0}
  BY TimesAssumption DEF TypeOK
<1>2. CASE async_queue = 0
  <2>1. SendPauseAfter \in 1 .. 2 * SendPauseMax
    BY <1>1 DEF SendPauseAfter
  <2> QED BY <1>1, <1>2, <2>1 DEF async_send_events, Off
<1>3. CASE async_queue # 0
  <2>1. slow' \in BOOLEAN
    BY <1>3 DEF async_send_events, SlowAfter
  <2> QED BY <1>1, <1>3, <2>1 DEF async_send_events, Off
<1> QED BY <1>2, <1>3

LEMMA ExporterTypes ==
  ASSUME TypeOK
  PROVE  /\ SendTimer => TypeOK'
         /\ WriteDone => TypeOK'
         /\ DecoderStep => TypeOK'
         /\ push_msg => TypeOK'
<1>1. /\ writes \in Nat /\ SendPauseMax \in Nat /\ async_queue \in Nat
      /\ mytimer \in Off .. 2 * SendPauseMax
  BY TimesAssumption DEF TypeOK
<1>2. ASSUME NEW outstanding \in Nat, async_send_events(outstanding),
             UNCHANGED <<state, node_gone, aborting, reading, stale, position, blocked, loop, quiet>>
      PROVE  TypeOK'
  <2>1. /\ writes' \in Nat /\ async_queue' \in Nat
        /\ mytimer' \in Off .. 2 * SendPauseMax /\ send_pause' \in 0 .. 2 * SendPauseMax
        /\ write_left' \in Off..WriteMax /\ slow' \in BOOLEAN
    <3>1. Off \in Off .. 2 * SendPauseMax /\ 1 .. 2 * SendPauseMax \subseteq Off .. 2 * SendPauseMax
          /\ 1 .. 2 * SendPauseMax \subseteq 0 .. 2 * SendPauseMax /\ 0 \in 0 .. 2 * SendPauseMax
      BY <1>1 DEF Off
    <3> QED BY <1>1, <1>2, <3>1, SendFacts
  <2>2. LoopOK'
    BY <1>2 DEF TypeOK, LoopOK, loop
  <2> QED BY <1>2, <2>1, <2>2 DEF TypeOK, reading, stale, position
<1>3. SendTimer => TypeOK'
  BY <1>1, <1>2 DEF SendTimer
<1>4. ASSUME WriteDone PROVE TypeOK'
  <2>1. writes - 1 \in Nat
    BY <1>1, <1>4 DEF WriteDone
  <2> QED BY <1>2, <1>4, <2>1 DEF WriteDone
<1>5. ASSUME DecoderStep PROVE TypeOK'
  <2>1. PICK i \in DOMAIN app_queue : Decode(i)
    BY <1>5 DEF DecoderStep
  <2>2. PICK m \in Seq(Posted) : /\ app_queue' = RemoveAt(app_queue, i) \o m
                                 /\ UNCHANGED <<started, last_msg, told>>
    BY <2>1, DecodeFacts
  <2>3. app_queue \in Seq(Posted) /\ i \in 1 .. Len(app_queue)
    BY DEF TypeOK, LoopOK
  <2>4. RemoveAt(app_queue, i) \in Seq(Posted)
    BY <2>3, RemoveAtFacts
  <2>5. app_queue' \in Seq(Posted)
    BY <2>2, <2>4, ConcatProperties
  <2>6. LoopOK'
    BY <2>2, <2>5 DEF TypeOK, LoopOK
  <2> QED BY <1>5, <2>6 DEF DecoderStep, TypeOK, reading, stale, position, exporter
<1>6. ASSUME push_msg PROVE TypeOK'
  <2>1. PICK i \in DOMAIN app_queue : TakeMessage(i)
    BY <1>6 DEF push_msg
  <2>2. app_queue \in Seq(Posted) /\ i \in 1 .. Len(app_queue) /\ app_queue[i] \in Posted
    BY DEF TypeOK, LoopOK
  <2>3. /\ app_queue' \in Seq(Posted) /\ last_msg' \in Posted /\ UNCHANGED started
        /\ told' \in BOOLEAN
    BY <2>1, <2>2, RemoveAtFacts DEF TakeMessage, TypeOK, LoopOK
  <2>4. LoopOK'
    BY <2>3 DEF TypeOK, LoopOK
  <2>5. mytimer' \in Off .. 2 * SendPauseMax /\ async_queue' \in Nat
    BY <1>1, <1>6 DEF push_msg, Cancelled, Off
  <2> QED BY <1>6, <2>4, <2>5 DEF push_msg, TypeOK, reading, stale, position
<1> QED BY <1>3, <1>4, <1>5, <1>6

LEMMA OtherTypes ==
  ASSUME TypeOK
  PROVE  /\ ConnectFails \/ ReadFails \/ StaleExpires => TypeOK'
         /\ Acks \/ ConsumerGone \/ NodeGone => TypeOK'
         /\ Tick => TypeOK'
         /\ UNCHANGED vars => TypeOK'
<1>1. ASSUME UNCHANGED loop PROVE LoopOK'
  BY <1>1 DEF TypeOK, LoopOK, loop
<1>2. ConnectFails => TypeOK'
  BY <1>1 DEF ConnectFails, TypeOK, reading, stale, position, exporter
<1>3. ASSUME ReadFails PROVE TypeOK'
  <2>1. reads' \in Nat
    BY <1>3 DEF ReadFails, ReadHasFailed, TypeOK
  <2> QED BY <1>1, <1>3, <2>1 DEF ReadFails, StateOnFail, TypeOK, stale, position, exporter
<1>4. ASSUME StaleExpires PROVE TypeOK'
  <2>1. Deadline \in Off..Deadline
    BY TimesAssumption DEF Off
  <2>2. /\ stale_check_timer' \in Off..Deadline /\ stale_check_last_head' \in 0..LastBlock
        /\ state' \in {state, "quit"} /\ aborting' \in BOOLEAN
    BY <1>4, <2>1 DEF StaleExpires, stale, TypeOK
  <2> QED BY <1>1, <1>4, <2>2 DEF StaleExpires, TypeOK, reading, position, exporter
<1>5. Acks => TypeOK'
  BY <1>1 DEF Acks, Acknowledged, TypeOK, reading, stale, position, exporter
<1>6. ConsumerGone => TypeOK'
  BY <1>1 DEF ConsumerGone, TypeOK, reading, stale, position, exporter
<1>7. NodeGone => TypeOK'
  BY <1>1 DEF NodeGone, TypeOK, reading, stale, position, exporter
<1>8. ASSUME Tick PROVE TypeOK'
  <2>1. ASSUME NEW t, NEW max \in Int, t \in Off..max PROVE Left(t) \in Off..max
    BY <2>1 DEF Left, Off
  <2>2. 2 * SendPauseMax \in Int /\ {PauseMax, Deadline, WriteMax} \subseteq Int /\ Deadline \in Nat
    BY TimesAssumption
  <2>3. /\ pause_timer' \in Off..PauseMax /\ stale_check_timer' \in Off..Deadline
        /\ mytimer' \in Off .. 2 * SendPauseMax /\ write_left' \in Off..WriteMax
    BY <1>8, <2>1, <2>2 DEF Tick, TypeOK
  <2>4. quiet' \in 0..Deadline
    BY <1>8, <2>2 DEF Tick, TypeOK
  <2> QED BY <1>1, <1>8, <2>3, <2>4 DEF Tick, TypeOK, position
<1>9. ASSUME UNCHANGED vars PROVE TypeOK'
  BY <1>1, <1>9 DEF vars, TypeOK, reading, stale, position, exporter
<1> QED BY <1>2, <1>3, <1>4, <1>5, <1>6, <1>7, <1>8, <1>9

LEMMA TypeStep == TypeOK /\ [Next]_vars => TypeOK'
BY StartTypes, ReaderTypes, ThrowType, ExporterTypes, OtherTypes
   DEF Next, Startup, Reader, Sender

\* The variables of receiver, exporter and event loop keep their types, whatever the
\* handlers, the node and the consumer do.
THEOREM TimersTypeCorrect == Spec => []TypeOK
BY TypeInit, TypeStep, PTL DEF Spec

(* ------------------------------- start-up ------------------------------- *)

LEMMA StartInit == Init => StartInv
BY DEF Init, LoopInit, StartInv

\* Only the two steps of the start-up launch the receiver.
LEMMA StartupFacts ==
  ASSUME StartInv, state = "starting", NEW plugins, plugins \subseteq started', "receiver" \in started',
         start_after_dependencies(plugins)
  PROVE  StartInv'
<1>1. CASE DependenciesStarted(plugins)
  <2>1. state' = "connecting" /\ {"decoder", "exporter"} \subseteq plugins
    BY <1>1 DEF start_after_dependencies, DependenciesStarted
  <2>2. Plugins \subseteq started'
    BY <2>1 DEF Plugins
  <2> QED BY <2>1, <2>2 DEF StartInv
<1>2. CASE ~DependenciesStarted(plugins)
  BY <1>2 DEF start_after_dependencies, StartInv
<1> QED BY <1>1, <1>2

\* The other steps start no plugin.
LEMMA OthersKeepStart ==
  ASSUME StartInv,
         \/ StartRead \/ ConnectFails \/ AbiRead \/ Results \/ EmptyRead \/ ReadThrows
         \/ ReadFails \/ PauseExpires \/ StaleExpires \/ Sender
         \/ Acks \/ ConsumerGone \/ NodeGone \/ Tick \/ UNCHANGED vars
  PROVE  /\ UNCHANGED started
         /\ \/ state' = state
            \/ state' = "quit"
            \/ state = "connecting" /\ state' = "abi"
            \/ state = "abi" /\ state' = "up"
         /\ app_queue = <<>> /\ state = "starting" => app_queue' = app_queue
<1>1. StartRead \/ ConnectFails \/ ReadFails \/ StaleExpires \/ Acks \/ ConsumerGone
        \/ NodeGone \/ Tick \/ UNCHANGED vars => UNCHANGED loop
  BY DEF StartRead, ConnectFails, ReadFails, StaleExpires, Acks, Acknowledged, ConsumerGone, NodeGone,
         Tick, vars
<1>2. CASE StartRead \/ ConnectFails \/ ReadFails \/ StaleExpires
  BY <1>1, <1>2 DEF StartRead, ConnectFails, ReadFails, StateOnFail, StaleExpires, loop
<1>3. CASE Acks \/ ConsumerGone \/ NodeGone \/ Tick \/ UNCHANGED vars
  BY <1>1, <1>3 DEF Acks, Acknowledged, ConsumerGone, NodeGone, Tick, vars, loop
<1>4. CASE AbiRead \/ Results \/ EmptyRead \/ PauseExpires
  BY <1>4 DEF AbiRead, Results, ResultRead, TakesBlock, EmptyRead, PauseExpires, HasRead, Alive,
              continue_read
<1>5. CASE ReadThrows
  BY <1>5, ThrowReads DEF HasRead
<1>6. CASE SendTimer \/ WriteDone
  BY <1>6 DEF SendTimer, WriteDone, loop
<1>7. CASE DecoderStep \/ push_msg
  <2>1. /\ UNCHANGED started /\ state' = state /\ \E i \in DOMAIN app_queue : TRUE
    BY <1>7 DEF DecoderStep, Decode, push_msg, TakeMessage
  <2>2. app_queue # <<>>
    BY <2>1
  <2> QED BY <2>1, <2>2
<1> QED BY <1>2, <1>3, <1>4, <1>5, <1>6, <1>7 DEF Sender

LEMMA StartStep == TypeOK /\ StartInv /\ [Next]_vars => StartInv'
<1> SUFFICES ASSUME TypeOK, StartInv, [Next]_vars PROVE StartInv' OBVIOUS
<1>1. ASSUME NEW p \in Plugins, PluginStarts(p) PROVE StartInv'
  <2>1. started \subseteq started' /\ state # "quit"
    BY <1>1 DEF PluginStarts
  <2>2. CASE p = "receiver"
    <3>1. start_after_dependencies(started) /\ "receiver" \in started' /\ "receiver" \notin started
      BY <1>1, <2>2 DEF PluginStarts
    <3>2. state = "starting"
      BY <2>1, <3>1 DEF StartInv, Plugins
    <3> QED BY <2>1, <3>1, <3>2, StartupFacts
  <2>3. CASE p # "receiver"
    BY <1>1, <2>1, <2>3 DEF PluginStarts, StartInv
  <2> QED BY <2>2, <2>3
<1>2. ASSUME DependenciesTimer PROVE StartInv'
  BY <1>2, StartupFacts DEF DependenciesTimer, Plugins
<1>3. ASSUME \/ StartRead \/ ConnectFails \/ AbiRead \/ Results \/ EmptyRead \/ ReadThrows
             \/ ReadFails \/ PauseExpires \/ StaleExpires \/ Sender
             \/ Acks \/ ConsumerGone \/ NodeGone \/ Tick \/ UNCHANGED vars
      PROVE  StartInv'
  <2>1. /\ UNCHANGED started
        /\ \/ state' = state
           \/ state' = "quit"
           \/ state = "connecting" /\ state' = "abi"
           \/ state = "abi" /\ state' = "up"
        /\ app_queue = <<>> /\ state = "starting" => app_queue' = app_queue
    BY <1>3, OthersKeepStart
  <2> QED BY <2>1 DEF StartInv
<1> QED BY <1>1, <1>2, <1>3 DEF Next, Startup, Reader

(* -------------------------------- reader -------------------------------- *)

LEMMA ReaderInit == Init => ReaderInv
BY DEF Init, ReaderInv, OneReader, Alive, Off

\* Handlers that leave the reader's variables alone.
LEMMA ReaderKept ==
  ASSUME ReaderInv, UNCHANGED <<state, aborting, reads, pause_timer, pause_time>>
  PROVE  ReaderInv'
BY DEF ReaderInv, OneReader, Alive

\* continue_read takes over the read or the pause of the handler that calls it.
LEMMA ContinueReader ==
  ASSUME ReaderInv, Alive, ~aborting,
         NEW outstanding \in Nat, outstanding = 0, pause_time' \in Nat,
         \/ state' = "up" /\ UNCHANGED aborting /\ reads' = outstanding + 1 /\ pause_timer' = Off
         \/ state' = "up" /\ UNCHANGED aborting /\ reads' = outstanding /\ pause_timer' \in Nat
         \/ state' = "quit" /\ reads' = outstanding /\ pause_timer' = Off
  PROVE  ReaderInv'
BY DEF ReaderInv, OneReader, Alive, Off

LEMMA ReaderStep == TypeOK /\ StartInv /\ ReaderInv /\ [Next]_vars => ReaderInv'
<1> SUFFICES ASSUME TypeOK, StartInv, ReaderInv, [Next]_vars PROVE ReaderInv' OBVIOUS
<1>1. /\ reads \in Nat /\ pause_timer \in Nat \cup {Off} /\ pause_time \in Nat
      /\ head \in 0..LastBlock /\ blocked \in BOOLEAN /\ Off = -1
      /\ \A m \in 0..PauseMax : m \in Nat
  BY TimesAssumption DEF ReaderInv, TypeOK, Off
<1>2. IsBatch(<<>>)
  BY DEF IsBatch
<1>3. ASSUME HasRead("abi") \/ HasRead("up") \/ (Alive /\ pause_timer = 0)
      PROVE  /\ Alive /\ ~aborting
             /\ HasRead("abi") \/ HasRead("up") => reads = 1 /\ pause_timer = Off
             /\ pause_timer = 0 => reads = 0
  BY <1>1, <1>3 DEF ReaderInv, OneReader, HasRead, Alive
<1>4. ASSUME NEW plugins, start_after_dependencies(plugins), state = "starting",
             UNCHANGED <<aborting, reads, pause_time>>
      PROVE  ReaderInv'
  BY <1>1, <1>4 DEF start_after_dependencies, ReaderInv, OneReader, Alive
<1>5. ASSUME NEW p \in Plugins, PluginStarts(p) PROVE ReaderInv'
  <2>1. UNCHANGED <<aborting, reads, pause_time>>
    BY <1>5 DEF PluginStarts
  <2>2. CASE p = "receiver"
    <3>1. state = "starting" /\ start_after_dependencies(started)
      BY <1>5, <2>2 DEF PluginStarts, StartInv, Plugins
    <3> QED BY <1>4, <2>1, <3>1
  <2>3. CASE p # "receiver"
    <3>1. UNCHANGED <<state, pause_timer>>
      BY <1>5, <2>3 DEF PluginStarts
    <3> QED BY <2>1, <3>1, ReaderKept
  <2> QED BY <2>2, <2>3
<1>6. ASSUME DependenciesTimer PROVE ReaderInv'
  BY <1>4, <1>6 DEF DependenciesTimer
<1>7. ASSUME StartRead PROVE ReaderInv'
  <2>1. /\ state = "connecting" /\ state' = "abi" /\ reads' = 1
        /\ UNCHANGED <<aborting, pause_timer, pause_time>>
    BY <1>7 DEF StartRead
  <2> QED BY <1>1, <2>1 DEF ReaderInv, OneReader, Alive
<1>8. ASSUME ConnectFails \/ ConsumerGone PROVE ReaderInv'
  <2>1. state' = "quit" /\ UNCHANGED <<reads, pause_timer, pause_time>>
    BY <1>8 DEF ConnectFails, ConsumerGone, reading
  <2> QED BY <1>1, <2>1 DEF ReaderInv, OneReader, Alive
<1>9. ASSUME AbiRead PROVE ReaderInv'
  <2>1. /\ HasRead("abi") /\ StreamMayRun /\ UNCHANGED head
        /\ continue_read(reads - 1, blocked, <<>>)
    BY <1>9 DEF AbiRead, HasRead, NoHandlerBefore, position
  <2>2. reads - 1 = 0 /\ reads - 1 \in Nat
    BY <1>1, <1>3, <2>1
  <2> QED BY <1>1, <1>2, <1>3, <2>1, <2>2, ContinueFacts, ContinueReader
<1>10. ASSUME Results PROVE ReaderInv'
  <2>1. PICK n \in 1..LastBlock, data \in 0..1, isBlocked \in BOOLEAN :
          ResultRead(n, data, isBlocked)
    BY <1>10 DEF Results
  <2> DEFINE events == ForkEvents(n, n <= head) \o BlockEvents(n, data)
  <2>2. IsBatch(events) /\ events # <<>> /\ events[Len(events)].type \in Boundary
    <3>1. n \in Nat /\ data \in Nat /\ (n <= head) \in BOOLEAN /\ LastBlock \in Nat
      BY <1>1, TimesAssumption
    <3> QED BY <3>1, ResultEventsFacts
  <2>3. /\ HasRead("up") /\ StreamMayRun /\ head' \in 0..LastBlock
        /\ continue_read(reads - 1, isBlocked, events)
    BY <2>1 DEF ResultRead, TakesBlock, HasRead, NoHandlerBefore
  <2>4. reads - 1 = 0 /\ reads - 1 \in Nat
    BY <1>1, <1>3, <2>3
  <2> HIDE DEF events
  <2> QED BY <1>1, <1>3, <2>2, <2>3, <2>4, ContinueFacts, ContinueReader
<1>11. ASSUME EmptyRead PROVE ReaderInv'
  <2>1. /\ HasRead("up") /\ StreamMayRun /\ UNCHANGED head
        /\ continue_read(reads - 1, blocked, <<>>)
    BY <1>11 DEF EmptyRead, HasRead, NoHandlerBefore, position
  <2>2. reads - 1 = 0 /\ reads - 1 \in Nat
    BY <1>1, <1>3, <2>1
  <2> QED BY <1>1, <1>2, <1>3, <2>1, <2>2, ContinueFacts, ContinueReader
<1>12. ASSUME PauseExpires PROVE ReaderInv'
  <2>1. /\ Alive /\ pause_timer = 0 /\ StreamMayRun
        /\ UNCHANGED head /\ continue_read(reads, blocked, <<>>)
    BY <1>12 DEF PauseExpires, NoHandlerBefore, Alive, position
  <2> QED BY <1>1, <1>2, <1>3, <2>1, ContinueFacts, ContinueReader
<1>13. ASSUME ReadThrows PROVE ReaderInv'
  <2>1. /\ HasRead("abi") \/ HasRead("up")
        /\ reads' = reads - 1 /\ aborting' = TRUE /\ UNCHANGED <<state, pause_timer, pause_time>>
    BY <1>13, ThrowReads
  <2> QED BY <1>1, <1>3, <2>1 DEF ReaderInv, OneReader, Alive
<1>14. ASSUME ReadFails PROVE ReaderInv'
  <2>1. /\ reads > 0 /\ reads' = reads - 1 /\ state' = "quit"
        /\ UNCHANGED <<pause_timer, pause_time>>
    BY <1>14 DEF ReadFails, ReadHasFailed, StateOnFail
  <2> QED BY <1>1, <2>1 DEF ReaderInv, OneReader, Alive
<1>15. ASSUME StaleExpires PROVE ReaderInv'
  <2>1. /\ state' = "quit" \/ UNCHANGED <<state, aborting>>
        /\ UNCHANGED <<reads, pause_timer, pause_time>>
    BY <1>15 DEF StaleExpires, reading
  <2> QED BY <1>1, <2>1 DEF ReaderInv, OneReader, Alive
<1>16. ASSUME Sender \/ Acks \/ NodeGone \/ UNCHANGED vars PROVE ReaderInv'
  <2>1. UNCHANGED <<state, aborting, reads, pause_timer, pause_time>>
    BY <1>16 DEF Sender, SendTimer, WriteDone, DecoderStep, push_msg, Acks, Acknowledged, NodeGone, vars,
                 reading
  <2> QED BY <2>1, ReaderKept
<1>17. ASSUME Tick PROVE ReaderInv'
  <2>1. /\ pause_timer # 0 /\ pause_timer' = Left(pause_timer)
        /\ UNCHANGED <<state, aborting, reads, pause_time>>
    BY <1>17 DEF Tick
  <2>2. pause_timer' \in Nat \cup {Off} /\ (pause_timer' = Off <=> pause_timer = Off)
    BY <1>1, <2>1 DEF Left
  <2> QED BY <1>1, <2>1, <2>2 DEF ReaderInv, OneReader, Alive
<1> QED BY <1>5, <1>6, <1>7, <1>8, <1>9, <1>10, <1>11, <1>12, <1>13, <1>14, <1>15, <1>16, <1>17
        DEF Next, Startup, Reader

\* While the stream is in order there is one read or one pause, never both and never
\* neither, through start-up, pauses, forks and exceptions.
THEOREM OneReaderAlways == Spec => []OneReader
<1>1. ReaderInv => OneReader
  BY DEF ReaderInv
<1> QED BY <1>1, TypeInit, TypeStep, StartInit, StartStep, ReaderInit, ReaderStep, PTL DEF Spec

(* ------------------------------- exporter ------------------------------- *)

LEMMA SenderInit == Init => SenderInv
BY DEF Init, LoopInit, SenderInv, OneSender, NoMessageWaits, Off

\* Handlers that leave the exporter alone, or end the process.
LEMMA SenderKept ==
  ASSUME SenderInv, state' \in {state, "quit"} \/ state # "quit",
         UNCHANGED <<started, writes, async_queue, send_pause, mytimer>>
  PROVE  SenderInv'
BY DEF SenderInv, OneSender, NoMessageWaits

\* async_send_events takes over the write or the wait of the handler that calls it.
LEMMA SendStep ==
  ASSUME TypeOK, SenderInv, state # "quit", "exporter" \in started,
         NEW outstanding \in Nat, outstanding = 0, async_send_events(outstanding),
         UNCHANGED <<state, started>>
  PROVE  SenderInv'
<1>1. /\ async_queue \in Nat /\ \A m \in 1 .. 2 * SendPauseMax : m \in Nat /\ m # 0 /\ m # Off
      /\ Off = -1
  BY TimesAssumption DEF SenderInv, Off
<1>2. CASE /\ async_queue' = 0 /\ writes' = outstanding
           /\ send_pause' \in 1 .. 2 * SendPauseMax /\ mytimer' = send_pause'
  BY <1>1, <1>2 DEF SenderInv, OneSender, NoMessageWaits
<1>3. CASE /\ async_queue # 0 /\ async_queue' = async_queue - 1 /\ writes' = outstanding + 1
           /\ send_pause' = 0 /\ mytimer' = Off
  BY <1>1, <1>3 DEF SenderInv, OneSender, NoMessageWaits
<1> QED BY <1>2, <1>3, SendFacts

LEMMA SenderStep == TypeOK /\ StartInv /\ SenderInv /\ [Next]_vars => SenderInv'
<1> SUFFICES ASSUME TypeOK, StartInv, SenderInv, [Next]_vars PROVE SenderInv' OBVIOUS
<1>1. /\ writes \in Nat /\ async_queue \in Nat /\ send_pause \in Nat
      /\ mytimer \in Nat \cup {Off} /\ Off = -1
  BY DEF SenderInv, Off
<1>2. ASSUME NEW p \in Plugins, PluginStarts(p) PROVE SenderInv'
  <2>1. state # "quit" /\ started' = started \cup {p} /\ p \notin started
        /\ UNCHANGED <<writes, async_queue>>
    BY <1>2 DEF PluginStarts
  <2>2. CASE p = "exporter"
    <3>1. mytimer' = 1 /\ send_pause' = 1 /\ writes = 0 /\ async_queue = 0
      BY <1>2, <2>1, <2>2 DEF PluginStarts, SenderInv
    <3> QED BY <1>1, <2>1, <2>2, <3>1 DEF SenderInv, OneSender, NoMessageWaits
  <2>3. CASE p # "exporter"
    <3>1. UNCHANGED <<mytimer, send_pause>> /\ ("exporter" \in started' <=> "exporter" \in started)
      BY <1>2, <2>1, <2>3 DEF PluginStarts
    <3> QED BY <2>1, <3>1 DEF SenderInv, OneSender, NoMessageWaits
  <2> QED BY <2>2, <2>3
<1>3. ASSUME DependenciesTimer PROVE SenderInv'
  <2>1. state = "starting" /\ UNCHANGED <<started, exporter>>
    BY <1>3 DEF DependenciesTimer
  <2> QED BY <2>1, SenderKept DEF exporter
<1>4. ASSUME \/ StartRead \/ ConnectFails \/ ReadFails \/ StaleExpires
             \/ Acks \/ ConsumerGone \/ NodeGone \/ UNCHANGED vars
      PROVE  SenderInv'
  <2>1. UNCHANGED <<loop, exporter>> /\ (state # "quit" \/ state' = state)
    BY <1>4 DEF StartRead, ConnectFails, ReadFails, ReadHasFailed, StaleExpires, Acks,
                Acknowledged, ConsumerGone, NodeGone, Alive, vars
  <2> QED BY <2>1, SenderKept DEF loop, exporter
<1>5. ASSUME AbiRead \/ Results \/ EmptyRead \/ ReadThrows \/ PauseExpires
      PROVE  SenderInv'
  <2>1. UNCHANGED <<started, exporter>> /\ state # "quit"
    BY <1>5, ThrowReads DEF AbiRead, Results, ResultRead, TakesBlock, EmptyRead, PauseExpires,
                            HasRead, Alive, continue_read
  <2> QED BY <2>1, SenderKept DEF exporter
<1>6. ASSUME SendTimer \/ WriteDone
      PROVE  SenderInv'
  <2>1. /\ state # "quit" /\ UNCHANGED <<state, started>>
        /\ \/ mytimer = 0 /\ async_send_events(writes)
           \/ writes > 0 /\ async_send_events(writes - 1)
    BY <1>6 DEF SendTimer, WriteDone, loop
  <2>2. "exporter" \in started
    BY <1>1, <2>1 DEF SenderInv
  <2>3. writes + (IF mytimer = Off THEN 0 ELSE 1) = 1
    BY <2>1, <2>2 DEF SenderInv, OneSender
  <2>4. CASE mytimer = 0 /\ async_send_events(writes)
    <3>1. writes = 0
      BY <1>1, <2>3, <2>4
    <3> QED BY <1>1, <2>1, <2>2, <2>4, <3>1, SendStep
  <2>5. CASE writes > 0 /\ async_send_events(writes - 1)
    <3>1. writes - 1 = 0 /\ writes - 1 \in Nat
      BY <1>1, <2>3, <2>5
    <3> QED BY <2>1, <2>2, <2>5, <3>1, SendStep
  <2> QED BY <2>1, <2>4, <2>5
<1>7. ASSUME DecoderStep PROVE SenderInv'
  <2>1. UNCHANGED <<started, state, exporter>>
    BY <1>7 DEF DecoderStep, Decode
  <2> QED BY <2>1, SenderKept DEF exporter
<1>8. ASSUME push_msg PROVE SenderInv'
  <2>1. /\ state # "quit" /\ async_queue' = async_queue + 1
        /\ mytimer' = (IF send_pause > 0 THEN 0 ELSE mytimer)
        /\ UNCHANGED <<state, started, writes, send_pause>> /\ app_queue # <<>>
    <3>1. PICK i \in DOMAIN app_queue : TakeMessage(i)
      BY <1>8 DEF push_msg
    <3> QED BY <1>8, <3>1 DEF push_msg, TakeMessage, Cancelled
  <2>2. "exporter" \in started
    BY <2>1 DEF StartInv, Plugins
  <2>3. /\ writes + (IF mytimer = Off THEN 0 ELSE 1) = 1
        /\ send_pause = 0 <=> mytimer = Off
    BY <2>1, <2>2 DEF SenderInv, OneSender
  <2>4. CASE send_pause = 0
    <3>1. mytimer' = Off /\ mytimer = Off /\ writes = 1
      BY <1>1, <2>1, <2>3, <2>4
    <3> QED BY <1>1, <2>1, <2>2, <2>4, <3>1 DEF SenderInv, OneSender, NoMessageWaits
  <2>5. CASE send_pause # 0
    <3>1. mytimer' = 0 /\ mytimer # Off /\ writes = 0
      BY <1>1, <2>1, <2>3, <2>5
    <3> QED BY <1>1, <2>1, <2>2, <2>5, <3>1 DEF SenderInv, OneSender, NoMessageWaits
  <2> QED BY <2>4, <2>5
<1>9. ASSUME Tick PROVE SenderInv'
  <2>1. /\ mytimer # 0 /\ mytimer' = Left(mytimer)
        /\ UNCHANGED <<state, loop, async_queue, writes, send_pause>>
    BY <1>9 DEF Tick, NoHandlerBefore
  <2>2. mytimer' \in Nat \cup {Off} /\ (mytimer' = Off <=> mytimer = Off)
    BY <1>1, <2>1 DEF Left
  <2> QED BY <1>1, <2>1, <2>2 DEF SenderInv, OneSender, NoMessageWaits, loop
<1> QED BY <1>2, <1>3, <1>4, <1>5, <1>6, <1>7, <1>8, <1>9
        DEF Next, Startup, Reader, Sender

\* The exporter has one write or one wait outstanding as long as it runs.
THEOREM OneSenderAlways == Spec => []OneSender
<1>1. SenderInv => OneSender
  BY DEF SenderInv
<1> QED BY <1>1, TypeInit, TypeStep, StartInit, StartStep, SenderInit, SenderStep, PTL DEF Spec

\* A message never waits for the exporter's timer.
THEOREM NoMessageEverWaits == Spec => []NoMessageWaits
<1>1. SenderInv => NoMessageWaits
  BY DEF SenderInv
<1> QED BY <1>1, TypeInit, TypeStep, StartInit, StartStep, SenderInit, SenderStep, PTL DEF Spec

(* ------------------------- the order of messages ------------------------ *)

LEMMA LineInit == Init => LineInv
<1> SUFFICES ASSUME Init PROVE LineInv OBVIOUS
<1>1. app_queue = <<>> /\ last_msg.type = "NONE" /\ Len(app_queue) = 0
  BY DEF Init, LoopInit, NoMessage
<1>2. LineOK(0) /\ LastOfLine(0).type \in Boundary
  BY <1>1 DEF LineOK, LastOfLine, Boundary
<1> QED BY <1>1, <1>2 DEF LineInv

\* Handlers that post nothing.
LEMMA LineKept ==
  ASSUME LineInv, UNCHANGED <<app_queue, last_msg>>, ~aborting' => ~aborting
  PROVE  LineInv'
BY DEF LineInv, LineOK, LastOfLine

\* Handlers of the stream find nothing posted, and complete blocks behind them.
LEMMA LineBefore ==
  ASSUME LineInv, app_queue = <<>>, ~aborting
  PROVE  last_msg.type \in Boundary
<1>1. Len(app_queue) = 0
  OBVIOUS
<1> QED BY <1>1 DEF LineInv, LastOfLine

LEMMA LinePosted ==
  ASSUME IsBatch(app_queue'), UNCHANGED last_msg,
         app_queue' # <<>> => InOrder(last_msg, app_queue'[1]),
         ~aborting' => IF app_queue' = <<>> THEN last_msg.type \in Boundary
                       ELSE app_queue'[Len(app_queue')].type \in Boundary
  PROVE  LineInv'
<1> PICK n \in Nat : n = Len(app_queue')
  BY LenProperties DEF IsBatch
<1>1. app_queue' \in Seq(Posted) /\ (app_queue' = <<>> <=> n = 0)
  BY EmptySeq, LenProperties DEF IsBatch
<1>2. LineOK(n)'
  BY <1>1 DEF LineOK, IsBatch
<1>3. ~aborting' => (LastOfLine(n).type \in Boundary)'
  BY <1>1 DEF LastOfLine
<1> QED BY <1>2, <1>3 DEF LineInv

\* A handler that ends in continue_read posts in order.
LEMMA LineContinued ==
  ASSUME TypeOK, LineInv, StreamMayRun, ~aborting, NEW outstanding \in Nat,
         NEW isBlocked \in BOOLEAN, NEW events, IsBatch(events), head' \in 0..LastBlock,
         events # <<>> => /\ events[1].type \in {"FORK", "BLOCK"}
                          /\ events[Len(events)].type \in Boundary,
         continue_read(outstanding, isBlocked, events)
  PROVE  LineInv'
<1>1. last_msg.type \in Boundary
  BY StreamIsAlone, LineBefore
<1>2. /\ UNCHANGED last_msg /\ IsBatch(app_queue')
      /\ app_queue' # <<>> => /\ app_queue'[Len(app_queue')].type \in Boundary
                              /\ events = <<>> => app_queue'[1].type = "PAUSE"
                              /\ events # <<>> => app_queue'[1] = events[1]
  BY ContinueFacts
<1>3. app_queue' # <<>> => InOrder(last_msg, app_queue'[1])
  BY <1>1, <1>2, OrderFacts
<1> QED BY <1>1, <1>2, <1>3, LinePosted

\* The last event of a priority: the one whose turn it is.
LEMMA TurnFacts ==
  ASSUME NEW k \in 0 .. Len(app_queue), LineOK(k), app_queue \in Seq(Posted), NEW i
  PROVE  /\ HasTurn(i, ReceiverPriority) => i = 1 /\ k = Len(app_queue) /\ k > 0
         /\ HasTurn(i, DecoderPriority) => i = k + 1 /\ k < Len(app_queue)
<1> DEFINE n == Len(app_queue)
<1>1. n \in Nat /\ DOMAIN app_queue = 1..n
  BY LenProperties
<1>2. \A j \in 1..n : app_queue[j].priority = IF j <= k THEN 50 ELSE 55
  BY DEF LineOK, ReceiverPriority, DecoderPriority
<1>3. ASSUME HasTurn(i, ReceiverPriority)
      PROVE  i = 1 /\ k = n /\ k > 0
  <2>1. /\ i \in 1..n /\ app_queue[i].priority = 50
        /\ \A j \in 1..n : \/ app_queue[j].priority < 50
                           \/ app_queue[j].priority = 50 /\ i <= j
    BY <1>1, <1>3 DEF HasTurn, IsFirst, ReceiverPriority
  <2>2. n \in 1..n /\ 1 \in 1..n
    BY <1>1, <2>1
  <2>3. ~(app_queue[n].priority = 55)
    BY <2>1, <2>2
  <2>4. n <= k /\ k \in Nat
    BY <1>1, <1>2, <2>2, <2>3
  <2>5. app_queue[1].priority = 50
    BY <1>1, <1>2, <2>2, <2>4
  <2>6. i <= 1
    BY <2>1, <2>2, <2>5
  <2>7. k \in Nat /\ k <= n
    BY <1>1
  <2> HIDE DEF n
  <2> QED BY <1>1, <2>1, <2>2, <2>4, <2>6, <2>7
<1>4. ASSUME HasTurn(i, DecoderPriority)
      PROVE  i = k + 1 /\ k < n
  <2>1. /\ i \in 1..n /\ app_queue[i].priority = 55
        /\ \A j \in 1..n : \/ app_queue[j].priority < 55
                           \/ app_queue[j].priority = 55 /\ i <= j
    BY <1>1, <1>4 DEF HasTurn, IsFirst, DecoderPriority
  <2>2. ~(i <= k)
    BY <1>2, <2>1
  <2>3. k + 1 \in 1..n /\ app_queue[k + 1].priority = 55
    BY <1>1, <1>2, <2>1, <2>2
  <2> QED BY <1>1, <2>1, <2>2, <2>3
<1> QED BY <1>3, <1>4

\* The exporter's handler takes the oldest message, and that may follow the last.
LEMMA LineTaken ==
  ASSUME TypeOK, LineInv, NEW i \in DOMAIN app_queue, TakeMessage(i), UNCHANGED aborting
  PROVE  LineInv' /\ InOrder(last_msg, last_msg')
<1>1. PICK k \in 0 .. Len(app_queue) : LineOK(k) /\ (~aborting => LastOfLine(k).type \in Boundary)
  BY DEF LineInv
<1> DEFINE q == app_queue
           n == Len(app_queue)
           r == app_queue'
<1>2. q \in Seq(Posted) /\ n \in Nat /\ k \in Nat
  BY LenProperties DEF TypeOK, LoopOK
<1>3. i = k + 1 /\ k < n
  BY <1>1, <1>2, TurnFacts DEF TakeMessage
<1>4. last_msg' = q[k + 1] /\ r = RemoveAt(q, k + 1)
  BY <1>3 DEF TakeMessage
<1>5. /\ Len(r) = n - 1
      /\ \A j \in 1 .. n-1 : r[j] = IF j < k + 1 THEN q[j] ELSE q[j + 1]
  <2>1. k + 1 \in 1 .. Len(q)
    BY <1>2, <1>3
  <2> QED BY <1>2, <1>4, <2>1, RemoveAtFacts
<1>6. /\ \A j \in 1..n : q[j].priority = IF j <= k THEN ReceiverPriority ELSE DecoderPriority
      /\ \A j \in 1..k : q[j].type # "ERR"
      /\ \A j \in 1 .. n-1 : j # k => InOrder(q[j], q[j + 1])
      /\ InOrder(last_msg, q[k + 1])
      /\ k > 0 => InOrder(q[n], q[1])
  BY <1>1, <1>3 DEF LineOK
<1> HIDE DEF q, r
<1>7. \A j \in 1 .. n-1 : r[j].priority = IF j <= k THEN ReceiverPriority ELSE DecoderPriority
  BY <1>2, <1>3, <1>5, <1>6
<1>8. \A j \in 1..k : r[j].type # "ERR"
  BY <1>2, <1>3, <1>5, <1>6
<1>9. ASSUME NEW j \in 1 .. n-2, j # k
      PROVE  InOrder(r[j], r[j + 1])
  <2>1. CASE j < k
    <3>1. r[j] = q[j] /\ r[j + 1] = q[j + 1]
      BY <1>2, <1>3, <1>5, <2>1
    <3> QED BY <1>2, <1>6, <1>9, <3>1
  <2>2. CASE j > k
    <3>1. r[j] = q[j + 1] /\ r[j + 1] = q[(j + 1) + 1] /\ j + 1 \in 1 .. n-1 /\ j + 1 # k
      BY <1>2, <1>3, <1>5, <2>2
    <3> QED BY <1>6, <3>1
  <2> QED BY <1>2, <1>9, <2>1, <2>2
<1>10. k < n - 1 => InOrder(q[k + 1], r[k + 1])
  <2> SUFFICES ASSUME k < n - 1 PROVE InOrder(q[k + 1], r[k + 1]) OBVIOUS
  <2>1. r[k + 1] = q[(k + 1) + 1] /\ k + 1 \in 1 .. n-1 /\ k + 1 # k
    BY <1>2, <1>5
  <2> QED BY <1>6, <2>1
<1>11. /\ k > 0 => r[1] = q[1] /\ r[k] = q[k]
       /\ n - 1 > 0 /\ k < n - 1 => r[n - 1] = q[n]
       /\ k = n - 1 => q[k + 1] = q[n]
  BY <1>2, <1>3, <1>5
<1>12. LineOK(k)'
  <2>1. k > 0 => InOrder(IF k < n - 1 THEN r[n - 1] ELSE q[k + 1], r[1])
    BY <1>2, <1>3, <1>6, <1>11
  <2> QED BY <1>2, <1>4, <1>5, <1>7, <1>8, <1>9, <1>10, <2>1 DEF LineOK, q, r
<1>13. ~aborting' => (LastOfLine(k).type \in Boundary)'
  <2>1. LastOfLine(k) = IF k > 0 THEN q[k] ELSE q[n]
    BY <1>2, <1>3 DEF LastOfLine, q
  <2>2. LastOfLine(k)' = IF k > 0 THEN r[k] ELSE IF n - 1 > 0 THEN r[n - 1] ELSE q[k + 1]
    BY <1>2, <1>4, <1>5 DEF LastOfLine, q, r
  <2>3. LastOfLine(k)' = LastOfLine(k)
    BY <1>2, <1>3, <1>11, <2>1, <2>2
  <2> QED BY <1>1, <2>3
<1>14. k \in 0 .. Len(r)
  BY <1>2, <1>3, <1>5
<1> QED BY <1>4, <1>6, <1>12, <1>13, <1>14 DEF LineInv, r

\* The decoder's messages take the place of their event.
LEMMA LineDecoded ==
  ASSUME TypeOK, LineInv, NEW i \in DOMAIN app_queue, Decode(i), UNCHANGED aborting
  PROVE  LineInv'
<1>1. PICK k \in 0 .. Len(app_queue) : LineOK(k) /\ (~aborting => LastOfLine(k).type \in Boundary)
  BY DEF LineInv
<1> DEFINE q == app_queue
           r == app_queue'
<1> PICK n \in Nat : n = Len(app_queue)
  BY LenProperties DEF TypeOK, LoopOK
<1>2. q \in Seq(Posted)
  BY DEF TypeOK, LoopOK
<1>3. i = 1 /\ k = n /\ n > 0
  BY <1>1, <1>2, TurnFacts DEF Decode
<1>4. PICK m \in Seq(Posted) :
        /\ Len(m) \in {1, 2} /\ m[1] = Message(q[1].type, q[1].block)
        /\ Len(m) = 2 => q[1].type = "DATA" /\ m[2] = Message("ERR", q[1].block)
        /\ r = RemoveAt(q, 1) \o m /\ UNCHANGED last_msg
  <2>1. PICK failed \in BOOLEAN, m \in Seq(Posted) :
          /\ failed => q[1].type = "DATA"
          /\ Len(m) = (IF failed THEN 2 ELSE 1) /\ m[1] = Message(q[1].type, q[1].block)
          /\ failed => m[2] = Message("ERR", q[1].block)
          /\ r = RemoveAt(q, 1) \o m /\ UNCHANGED last_msg
    BY <1>3, DecodeFacts
  <2>2. Len(m) \in {1, 2} /\ (Len(m) = 2 => failed)
    BY <2>1
  <2> QED BY <2>1, <2>2
<1>5. /\ m[1].type = q[1].type /\ m[1].block = q[1].block /\ m[1].priority = DecoderPriority
      /\ Len(m) = 2 => m[2].type = "ERR" /\ m[2].block = q[1].block /\ m[2].priority = DecoderPriority
  BY <1>4 DEF Message
<1>6. /\ RemoveAt(q, 1) \in Seq(Posted) /\ Len(RemoveAt(q, 1)) = n - 1
      /\ \A j \in 1 .. n-1 : RemoveAt(q, 1)[j] = q[j + 1]
  <2>1. 1 \in 1 .. Len(q)
    BY <1>3
  <2>2. \A j \in 1 .. n-1 : ~(j < 1)
    OBVIOUS
  <2> QED BY <1>2, <2>1, <2>2, RemoveAtFacts
<1>7. /\ Len(r) = n - 1 + Len(m)
      /\ \A j \in 1 .. n-1 : r[j] = q[j + 1]
      /\ r[n] = m[1] /\ (Len(m) = 2 => r[n + 1] = m[2])
  <2>1. /\ Len(RemoveAt(q, 1) \o m) = Len(RemoveAt(q, 1)) + Len(m)
        /\ \A j \in 1 .. Len(RemoveAt(q, 1)) + Len(m) :
             (RemoveAt(q, 1) \o m)[j] = IF j <= Len(RemoveAt(q, 1)) THEN RemoveAt(q, 1)[j]
                                        ELSE m[j - Len(RemoveAt(q, 1))]
    BY <1>6, ConcatProperties
  <2>2. /\ Len(r) = n - 1 + Len(m)
        /\ \A j \in 1 .. n - 1 + Len(m) :
             r[j] = IF j <= n - 1 THEN RemoveAt(q, 1)[j] ELSE m[j - (n - 1)]
    BY <1>4, <1>6, <2>1
  <2>3. n \in 1 .. n - 1 + Len(m) /\ n - (n - 1) = 1 /\ ~(n <= n - 1)
    BY <1>3, <1>4
  <2>4. Len(m) = 2 => n + 1 \in 1 .. n - 1 + Len(m) /\ n + 1 - (n - 1) = 2 /\ ~(n + 1 <= n - 1)
    BY <1>3, <1>4
  <2>5. \A j \in 1 .. n-1 : j \in 1 .. n - 1 + Len(m) /\ j <= n - 1
    BY <1>4
  <2>6. r[n] = m[1]
    BY <2>2, <2>3
  <2>7. Len(m) = 2 => r[n + 1] = m[2]
    BY <2>2, <2>4
  <2>8. \A j \in 1 .. n-1 : r[j] = q[j + 1]
    <3>1. \A j \in 1 .. n-1 : r[j] = RemoveAt(q, 1)[j]
      BY <2>2, <2>5
    <3> QED BY <1>6, <3>1
  <2> QED BY <2>2, <2>6, <2>7, <2>8
<1>8. /\ \A j \in 1..n : q[j].priority = ReceiverPriority /\ q[j].type # "ERR"
      /\ \A j \in 1 .. n-1 : InOrder(q[j], q[j + 1])
      /\ InOrder(last_msg, q[1])
  <2>1. \A j \in 1 .. n-1 : j # k
    BY <1>3
  <2> QED BY <1>1, <1>3, <2>1 DEF LineOK
<1>9. \A j \in 1..n : q[j].type \in Types \ {"ERR"}
  <2>1. \A j \in 1..n : q[j] \in Posted
    BY <1>2
  <2> QED BY <1>8, <2>1 DEF Posted
<1> HIDE DEF q, r
<1> DEFINE l == Len(r)
<1>10. l = n - 1 + Len(m) /\ (l = n \/ (Len(m) = 2 /\ l = n + 1))
  <2>1. Len(m) = 1 \/ Len(m) = 2
    BY <1>4
  <2>2. l = n - 1 + Len(m)
    BY <1>7
  <2>3. CASE Len(m) = 1
    BY <2>2, <2>3
  <2>4. CASE Len(m) = 2
    <3>1. n - 1 + 2 = n + 1
      OBVIOUS
    <3> QED BY <2>2, <2>4, <3>1
  <2> QED BY <2>1, <2>3, <2>4
<1> HIDE DEF l
<1>11. ASSUME NEW j \in 1..l
       PROVE  r[j].priority = IF j <= n - 1 THEN ReceiverPriority ELSE DecoderPriority
  <2>1. CASE j <= n - 1
    BY <1>7, <1>8, <2>1
  <2>2. CASE ~(j <= n - 1)
    <3>1. j = n \/ (Len(m) = 2 /\ j = n + 1)
      BY <1>10, <2>2
    <3> QED BY <1>5, <1>7, <2>2, <3>1
  <2> QED BY <2>1, <2>2
<1>12. \A j \in 1 .. n-1 : r[j].type # "ERR"
  BY <1>7, <1>8
<1>13. ASSUME NEW j \in 1 .. l-1, j # n - 1
       PROVE  InOrder(r[j], r[j + 1])
  <2>1. CASE j < n - 1
    <3>1. r[j] = q[j + 1] /\ r[j + 1] = q[(j + 1) + 1] /\ j + 1 \in 1 .. n-1
      BY <1>7, <2>1
    <3> QED BY <1>8, <3>1
  <2>2. CASE j > n - 1
    <3>1. Len(m) = 2 /\ j = n
      BY <1>4, <1>10, <1>13, <2>2
    <3>2. m[1].type = "DATA" /\ m[2].type = "ERR" /\ m[2].block = m[1].block
      BY <1>4, <1>5, <3>1
    <3> QED BY <1>7, <3>1, <3>2, OrderFacts
  <2> QED BY <1>13, <2>1, <2>2
<1>14. InOrder(last_msg, r[n])
  <2>1. q[1].type \in {"FORK", "BLOCK", "PAUSE", "DATA", "COMPLETED"}
    BY <1>3, <1>9 DEF Types
  <2>2. r[n].type = q[1].type /\ r[n].block = q[1].block
    BY <1>5, <1>7
  <2> QED BY <1>8, <2>1, <2>2, OrderFacts
<1>15. n > 1 => InOrder(r[l], r[1])
  <2> SUFFICES ASSUME n > 1 PROVE InOrder(r[l], r[1]) OBVIOUS
  <2>1. r[1] = q[2] /\ InOrder(q[1], q[2]) /\ q[2].type \in Types \ {"ERR"}
    BY <1>7, <1>8, <1>9
  <2>2. CASE Len(m) = 2
    <3>1. r[l].type = "ERR" /\ r[l].block = q[1].block /\ q[1].type = "DATA"
      BY <1>4, <1>5, <1>7, <1>10, <2>2
    <3>2. q[2].type \in {"DATA", "COMPLETED"} /\ q[1].block = q[2].block
      BY <2>1, <3>1, OrderFacts DEF Types, Boundary
    <3> QED BY <2>1, <3>1, <3>2, OrderFacts
  <2>3. CASE Len(m) = 1
    <3>1. r[l].type = q[1].type /\ r[l].block = q[1].block
      BY <1>5, <1>7, <1>10, <2>3
    <3>2. q[2].type \in {"FORK", "BLOCK", "PAUSE", "DATA", "COMPLETED"}
      BY <2>1 DEF Types
    <3> QED BY <2>1, <3>1, <3>2, OrderFacts
  <2> QED BY <1>4, <2>2, <2>3
<1>16. LineOK(n - 1)'
  <2>1. l = Len(app_queue') /\ n - 1 < l /\ (n - 1) + 1 = n
    BY <1>4, <1>10 DEF l, r
  <2>2. n - 1 > 0 => InOrder(r[l], r[1])
    BY <1>15
  <2> QED BY <1>4, <1>11, <1>12, <1>13, <1>14, <2>1, <2>2 DEF LineOK, r
<1>17. ~aborting' => (LastOfLine(n - 1).type \in Boundary)'
  <2> SUFFICES ASSUME ~aborting PROVE (LastOfLine(n - 1).type \in Boundary)' OBVIOUS
  <2>1. q[n].type \in Boundary
    BY <1>1, <1>3 DEF LastOfLine, q
  <2>2. LastOfLine(n - 1)' = IF n - 1 > 0 THEN r[n - 1] ELSE r[l]
    BY <1>3, <1>4, <1>10 DEF LastOfLine, r, l
  <2>3. CASE n > 1
    <3>1. r[n - 1] = q[(n - 1) + 1]
      BY <1>7, <2>3
    <3> QED BY <2>1, <2>2, <2>3, <3>1
  <2>4. CASE n = 1
    <3>1. Len(m) = 1
      BY <1>4, <2>1, <2>4 DEF Boundary
    <3>2. r[l].type = q[n].type
      BY <1>5, <1>7, <1>10, <2>4, <3>1
    <3> QED BY <2>1, <2>2, <2>4, <3>2
  <2> QED BY <1>3, <2>3, <2>4
<1>18. n - 1 \in 0 .. Len(app_queue')
  BY <1>3, <1>4, <1>10 DEF l, r
<1> QED BY <1>16, <1>17, <1>18 DEF LineInv

LEMMA LineStep == TypeOK /\ StartInv /\ ReaderInv /\ LineInv /\ [Next]_vars => LineInv'
<1> SUFFICES ASSUME TypeOK, StartInv, ReaderInv, LineInv, [Next]_vars PROVE LineInv' OBVIOUS
<1>1. /\ reads \in Nat /\ pause_timer \in Nat \cup {Off} /\ Off = -1
      /\ head \in 0..LastBlock /\ blocked \in BOOLEAN /\ LastBlock \in Nat
  BY TimesAssumption DEF ReaderInv, TypeOK, Off
<1>2. IsBatch(<<>>)
  BY DEF IsBatch
<1>3. ASSUME NEW plugins, start_after_dependencies(plugins), state = "starting",
             UNCHANGED <<last_msg, aborting>>
      PROVE  LineInv'
  <2>1. app_queue = <<>> /\ ~aborting
    BY <1>3 DEF StartInv, ReaderInv
  <2>2. last_msg.type \in Boundary
    BY <2>1, LineBefore
  <2>3. ASSUME Launched(plugins) PROVE LineInv'
    <3> DEFINE fork == <<Event("FORK", head)>>
    <3>1. IsBatch(fork) /\ fork # <<>> /\ Len(fork) = 1 /\ fork[1].type = "FORK"
      <4>1. "FORK" \in Types \ {"ERR"} /\ head \in Nat
        BY <1>1 DEF Types
      <4> QED BY <4>1, EventFacts
    <3> HIDE DEF fork
    <3>2. app_queue' = <<>> \/ app_queue' = fork
      <4>1. <<>> \o <<>> = <<>> /\ <<>> \o fork = fork
        BY <3>1 DEF IsBatch
      <4> QED BY <2>1, <2>3, <4>1 DEF Launched, LoadStateEvents, ForkEvents, fork
    <3>3. InOrder(last_msg, fork[1])
      BY <2>2, <3>1, OrderFacts
    <3>4. fork[1].type \in Boundary
      BY <3>1 DEF Boundary
    <3> QED BY <1>2, <1>3, <2>2, <3>1, <3>2, <3>3, <3>4, LinePosted
  <2> QED BY <1>3, <2>3, LineKept DEF start_after_dependencies
<1>4. ASSUME NEW p \in Plugins, PluginStarts(p) PROVE LineInv'
  <2>1. UNCHANGED <<last_msg, aborting>>
    BY <1>4 DEF PluginStarts
  <2>2. CASE p = "receiver"
    <3>1. state = "starting" /\ start_after_dependencies(started)
      BY <1>4, <2>2 DEF PluginStarts, StartInv, Plugins
    <3> QED BY <1>3, <2>1, <3>1
  <2>3. CASE p # "receiver"
    <3>1. UNCHANGED app_queue
      BY <1>4, <2>3 DEF PluginStarts
    <3> QED BY <2>1, <3>1, LineKept
  <2> QED BY <2>2, <2>3
<1>5. ASSUME DependenciesTimer PROVE LineInv'
  BY <1>3, <1>5 DEF DependenciesTimer
<1>6. ASSUME HasRead("abi") \/ HasRead("up") \/ (Alive /\ pause_timer = 0)
      PROVE  ~aborting
  BY <1>1, <1>6 DEF ReaderInv, OneReader, HasRead, Alive
<1>7. ASSUME AbiRead \/ EmptyRead \/ PauseExpires PROVE LineInv'
  <2>1. /\ HasRead("abi") \/ HasRead("up") \/ (Alive /\ pause_timer = 0)
        /\ StreamMayRun /\ UNCHANGED head
        /\ \/ continue_read(reads - 1, blocked, <<>>) /\ reads > 0
           \/ continue_read(reads, blocked, <<>>)
    BY <1>7 DEF AbiRead, EmptyRead, PauseExpires, HasRead, NoHandlerBefore, position
  <2>2. reads > 0 => reads - 1 \in Nat
    BY <1>1
  <2> QED BY <1>1, <1>2, <1>6, <2>1, <2>2, LineContinued
<1>8. ASSUME Results PROVE LineInv'
  <2>1. PICK n \in 1..LastBlock, data \in 0..1, isBlocked \in BOOLEAN :
          ResultRead(n, data, isBlocked)
    BY <1>8 DEF Results
  <2> DEFINE events == ForkEvents(n, n <= head) \o BlockEvents(n, data)
  <2>2. /\ IsBatch(events) /\ events[1].type \in {"FORK", "BLOCK"}
        /\ events[Len(events)].type \in Boundary
    <3>1. n \in Nat /\ data \in Nat /\ (n <= head) \in BOOLEAN
      BY <1>1
    <3> QED BY <3>1, ResultEventsFacts
  <2>3. /\ HasRead("up") /\ StreamMayRun /\ head' \in 0..LastBlock /\ reads > 0
        /\ continue_read(reads - 1, isBlocked, events)
    BY <1>1, <2>1 DEF ResultRead, TakesBlock, HasRead, NoHandlerBefore
  <2>4. reads - 1 \in Nat
    BY <1>1, <2>3
  <2> HIDE DEF events
  <2> QED BY <1>6, <2>2, <2>3, <2>4, LineContinued
<1>9. ASSUME ReadThrows PROVE LineInv'
  <2>1. ~aborting /\ aborting' = TRUE /\ UNCHANGED last_msg /\ StreamMayRun
    BY <1>9, ThrowReads
  <2>2. app_queue = <<>> /\ last_msg.type \in Boundary
    BY <2>1, StreamIsAlone, LineBefore
  <2>3. ASSUME NEW part, IsBatch(part), part # <<>> => part[1].type \in {"FORK", "BLOCK"},
               app_queue' = app_queue \o part
        PROVE  LineInv'
    <3>1. app_queue' = part
      <4>1. <<>> \o part = part
        BY <2>3 DEF IsBatch
      <4> QED BY <2>2, <2>3, <4>1
    <3>2. part # <<>> => InOrder(last_msg, part[1])
      BY <2>2, <2>3, OrderFacts
    <3> QED BY <2>1, <2>3, <3>1, <3>2, LinePosted
  <2> QED BY <1>9, <2>1, <2>3, LineKept, ThrowFacts
<1>10. ASSUME DecoderStep PROVE LineInv'
  BY <1>10, LineDecoded DEF DecoderStep
<1>11. ASSUME push_msg PROVE LineInv'
  BY <1>11, LineTaken DEF push_msg
<1>12. ASSUME \/ StartRead \/ ConnectFails \/ ReadFails \/ StaleExpires \/ SendTimer \/ WriteDone
              \/ Acks \/ ConsumerGone \/ NodeGone \/ Tick \/ UNCHANGED vars
       PROVE  LineInv'
  <2>1. UNCHANGED loop /\ (UNCHANGED aborting \/ aborting' = TRUE)
    BY <1>12 DEF StartRead, ConnectFails, ReadFails, StaleExpires, SendTimer, WriteDone,
                 Acks, Acknowledged, ConsumerGone, NodeGone, Tick, vars
  <2> QED BY <2>1, LineKept DEF loop
<1> QED BY <1>4, <1>5, <1>7, <1>8, <1>9, <1>10, <1>11, <1>12 DEF Next, Startup, Reader, Sender

LEMMA InvInit == Init => Inv
BY TypeInit, StartInit, ReaderInit, SenderInit, LineInit DEF Inv

LEMMA InvStep == Inv /\ [Next]_vars => Inv'
BY TypeStep, StartStep, ReaderStep, SenderStep, LineStep DEF Inv

\* The consumer gets the messages of a block together and in order, with errors next
\* to their data and forks and pauses between blocks.
THEOREM MessagesAlwaysInOrder == Spec => MessagesInOrder
<1>1. Inv /\ [Next]_vars => [push_msg => InOrder(last_msg, last_msg')]_vars
  <2> SUFFICES ASSUME Inv, push_msg PROVE InOrder(last_msg, last_msg') OBVIOUS
  <2>1. PICK i \in DOMAIN app_queue : TakeMessage(i)
    BY DEF push_msg
  <2>2. UNCHANGED aborting
    BY DEF push_msg
  <2> QED BY <2>1, <2>2, LineTaken DEF Inv
<1> QED BY <1>1, InvInit, InvStep, PTL DEF Spec, MessagesInOrder
=============================================================================
