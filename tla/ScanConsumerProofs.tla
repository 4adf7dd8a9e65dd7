------------------------- MODULE ScanConsumerProofs -------------------------
(***************************************************************************)
(* What the consumer holds, for every value of the constants: the blocks   *)
(* it is handed form one chain, and a restart resumes at a block it has    *)
(* processed.  The environment is that of the run ScanFollow: the exporter *)
(* acknowledges, a replaced block is sent, and its FORK event processed,   *)
(* before the block is final, a process that reverted revisions lives      *)
(* until its FORK event is delivered, and no exception hits the block that *)
(* replaces the one right above the undo stack.                            *)
(***************************************************************************)
EXTENDS ScanRefinementProofs

(* --------------------- what the queue will lead to ---------------------- *)

Events == ForkEvents \cup BlockEvents
IsForkEvent(x) == x.type = "FORK"
IsNetwork(x) == IsForkEvent(x) /\ x.reason = "network"
IsNotice(x) == IsForkEvent(x) /\ x.reason # "network"

\* Scanning starts after this block; no state is ever at or below it.
StartHead == InitialHead(StartBlock)

Kept(u, n) == SubSeq(u, 1, Min2(Len(u), n))

\* A consumer that holds u and processes event x holds t.
HoldsNext(u, x, t) ==
  IF IsForkEvent(x)
  THEN t = Kept(u, x.num - 1) /\ (x.num - 1 <= Len(u) \/ x.num - 1 <= StartHead)
  ELSE t = x.id /\ x.id # <<>> /\ (u = <<>> \/ u = Front(x.id))

Agree(u, e, m) == m <= Len(e) /\ SubSeq(u, 1, m) = SubSeq(e, 1, m)
Doomed(ev, i, m) == \E j \in i + 1 .. Len(ev) : IsForkEvent(ev[j]) /\ ev[j].num <= m

\* w is what the consumer holds before and after each of the events ev; what it
\* holds then is what it holds in the end, but for blocks a FORK event will drop.
Path(ev, v, e, w) ==
  /\ w[0] = v /\ w[Len(ev)] = e
  /\ \A i \in 1 .. Len(ev) : HoldsNext(w[i - 1], ev[i], w[i])
  /\ \A i \in 0 .. Len(ev) : \A m \in 1 .. Len(w[i]) : Doomed(ev, i, m) \/ Agree(w[i], e, m)

\* A consumer that holds v and processes the events ev ends up holding e.
Follows(ev, v, e) == \E w \in [0 .. Len(ev) -> Ids] : Path(ev, v, e, w)

LEMMA IdLen ==
  ASSUME NEW s \in Ids
  PROVE  Len(s) \in Nat /\ Len(s) <= MaxBlock /\ (s # <<>> => Len(s) > 0)
BY LenProperties, EmptySeq DEF Ids

LEMMA KeptId ==
  ASSUME NEW s \in Ids, NEW n \in Nat
  PROVE  /\ Kept(s, n) \in Ids /\ Len(Kept(s, n)) = Min2(Len(s), n)
         /\ Len(Kept(s, n)) <= Len(s) /\ Len(Kept(s, n)) <= n
         /\ \A m \in 1 .. Len(s) : m <= n => Agree(s, Kept(s, n), m)
         /\ Len(s) <= n => Kept(s, n) = s
<1> DEFINE k == Min2(Len(s), n)
<1>1. Len(s) \in Nat /\ k \in 0 .. Len(s) /\ k <= n
  BY IdLen DEF Min2
<1>2. Kept(s, n) = SubSeq(s, 1, k) /\ Kept(s, n) \in Ids /\ Len(Kept(s, n)) = k
  BY <1>1, IdPrefix DEF Kept
<1>3. ASSUME NEW m \in 1 .. Len(s), m <= n PROVE Agree(s, Kept(s, n), m)
  <2>1. m \in 0 .. k
    BY <1>1, <1>3 DEF Min2
  <2>2. SubSeq(SubSeq(s, 1, k), 1, m) = SubSeq(s, 1, m)
    BY <1>1, <2>1, PrefixOfPrefix
  <2>3. m <= k
    BY <1>1, <2>1
  <2> HIDE DEF k
  <2> QED BY <1>2, <2>2, <2>3 DEF Agree
<1>4. Len(s) <= n => Kept(s, n) = s
  BY <1>1, <1>2, WholeId DEF Min2
<1> QED BY <1>1, <1>2, <1>3, <1>4 DEF Min2

LEMMA AgreeSelf ==
  ASSUME NEW s \in Ids, NEW m \in 1 .. Len(s)
  PROVE  Agree(s, s, m)
BY IdLen DEF Agree

\* Agreeing goes through an id that is kept.
LEMMA AgreeOn ==
  ASSUME NEW u, NEW e, NEW t, NEW m, Agree(u, e, m), Agree(e, t, m)
  PROVE  Agree(u, t, m)
BY DEF Agree

LEMMA AppendEvent ==
  ASSUME NEW ev \in Seq(Events), NEW x \in Events
  PROVE  /\ ev \o <<x>> = Append(ev, x) /\ Append(ev, x) \in Seq(Events)
         /\ Len(ev) \in Nat /\ Len(Append(ev, x)) = Len(ev) + 1
         /\ \A i \in 1 .. Len(ev) : Append(ev, x)[i] = ev[i]
         /\ Append(ev, x)[Len(ev) + 1] = x
<1>1. Len(ev) \in Nat /\ Append(ev, x) \in Seq(Events) /\ Len(Append(ev, x)) = Len(ev) + 1
  BY LenProperties, AppendProperties
<1>2. /\ \A i \in 1 .. Len(ev) : Append(ev, x)[i] = ev[i]
      /\ Append(ev, x)[Len(ev) + 1] = x
  BY <1>1, AppendProperties
<1>3. ev \o <<x>> = Append(ev, x)
  BY AppendIsConcat
<1> QED BY <1>1, <1>2, <1>3

LEMMA FollowsNothing ==
  ASSUME NEW v \in Ids
  PROVE  Follows(<<>>, v, v)
<1> DEFINE w == [i \in 0 .. 0 |-> v]
<1>1. Len(<<>>) = 0
  BY EmptySeq
<1>2. w \in [0 .. Len(<<>>) -> Ids]
  BY <1>1
<1>3. Path(<<>>, v, v, w)
  BY <1>1, AgreeSelf DEF Path
<1> QED BY <1>2, <1>3 DEF Follows

\* One more event at the end of the queue.
LEMMA FollowsEvent ==
  ASSUME NEW ev \in Seq(Events), NEW x \in Events, NEW v \in Ids, NEW e \in Ids, NEW t \in Ids,
         Follows(ev, v, e), HoldsNext(e, x, t),
         \A m \in 1 .. Len(e) : (IsForkEvent(x) /\ x.num <= m) \/ Agree(e, t, m)
  PROVE  Follows(Append(ev, x), v, t)
<1> DEFINE all == Append(ev, x)
           n   == Len(ev)
<1>1. PICK w \in [0 .. n -> Ids] : Path(ev, v, e, w)
  BY DEF Follows
<1> DEFINE z == [i \in 0 .. n + 1 |-> IF i <= n THEN w[i] ELSE t]
<1>2. /\ n \in Nat /\ Len(all) = n + 1 /\ all[n + 1] = x
      /\ \A i \in 1 .. n : all[i] = ev[i]
  BY AppendEvent
<1> HIDE DEF all, n
<1>3. /\ z \in [0 .. Len(all) -> Ids] /\ z[Len(all)] = t
      /\ \A i \in 0 .. n : z[i] = w[i] /\ w[i] \in Ids
  BY <1>1, <1>2
<1> HIDE DEF z
<1>4. /\ w[0] = v /\ w[n] = e
      /\ \A i \in 1 .. n : HoldsNext(w[i - 1], ev[i], w[i])
      /\ \A i \in 0 .. n : \A m \in 1 .. Len(w[i]) : Doomed(ev, i, m) \/ Agree(w[i], e, m)
  BY <1>1 DEF Path, n
<1>5. z[0] = v
  BY <1>2, <1>3, <1>4
<1>6. ASSUME NEW i \in 1 .. Len(all) PROVE HoldsNext(z[i - 1], all[i], z[i])
  <2>1. CASE i <= n
    <3>1. i \in 1 .. n /\ i \in 0 .. n /\ i - 1 \in 0 .. n
      BY <1>2, <2>1
    <3> QED BY <1>2, <1>3, <1>4, <3>1
  <2>2. CASE i > n
    <3>1. i = n + 1 /\ i - 1 = n /\ n \in 0 .. n
      BY <1>2, <2>2
    <3> QED BY <1>2, <1>3, <1>4, <3>1
  <2> QED BY <1>2, <2>1, <2>2
<1>7. ASSUME NEW i \in 0 .. Len(all), NEW m \in 1 .. Len(z[i])
      PROVE  Doomed(all, i, m) \/ Agree(z[i], t, m)
  <2>1. CASE i = n + 1
    BY <1>2, <1>3, <2>1, AgreeSelf
  <2>2. CASE i # n + 1
    <3>1. i \in 0 .. n /\ z[i] = w[i] /\ m \in 1 .. Len(w[i])
      BY <1>2, <1>3, <2>2
    <3>2. CASE Doomed(ev, i, m)
      <4>1. PICK j \in i + 1 .. n : IsForkEvent(ev[j]) /\ ev[j].num <= m
        BY <3>2 DEF Doomed, n
      <4>2. j \in 1 .. n /\ j \in i + 1 .. Len(all)
        BY <1>2, <3>1
      <4> QED BY <1>2, <4>1, <4>2 DEF Doomed
    <3>3. CASE Agree(w[i], e, m)
      <4>1. m \in 1 .. Len(e)
        BY <3>3, IdLen DEF Agree
      <4>2. CASE Agree(e, t, m)
        BY <3>1, <3>3, <4>2, AgreeOn
      <4>3. CASE IsForkEvent(x) /\ x.num <= m
        <5>1. n + 1 \in i + 1 .. Len(all)
          BY <1>2, <3>1
        <5> QED BY <1>2, <4>3, <5>1 DEF Doomed
      <4> QED BY <4>1, <4>2, <4>3
    <3> QED BY <1>4, <3>1, <3>2, <3>3
  <2> QED BY <2>1, <2>2
<1>8. Path(all, v, t, z)
  BY <1>3, <1>5, <1>6, <1>7 DEF Path
<1> QED BY <1>3, <1>8 DEF Follows, all

\* A block that extends what the consumer will hold.
LEMMA FollowsBlock ==
  ASSUME NEW ev \in Seq(Events), NEW v \in Ids, NEW e \in Ids, NEW id \in Ids, id # <<>>,
         Follows(ev, v, e), e = <<>> \/ e = Front(id)
  PROVE  Follows(ev \o <<BlockEvent(id)>>, v, id)
<1> DEFINE x == BlockEvent(id)
<1>1. Len(id) \in Nat /\ Len(id) > 0 /\ Len(id) <= MaxBlock /\ Len(e) \in Nat
  BY IdLen
<1>2. x \in Events /\ ~IsForkEvent(x) /\ x.id = id
  BY <1>1 DEF BlockEvent, Events, BlockEvents, BlockNums, IsForkEvent
<1>3. ASSUME NEW m \in 1 .. Len(e) PROVE Agree(e, id, m)
  <2>1. e = SubSeq(id, 1, Len(id) - 1)
    BY <1>1, EmptySeq DEF Front
  <2>2. Len(id) - 1 \in 0 .. Len(id)
    BY <1>1
  <2>3. Len(e) = Len(id) - 1
    BY <2>1, <2>2, IdPrefix
  <2>4. m \in 0 .. Len(id) - 1
    BY <1>1, <2>3
  <2>5. SubSeq(e, 1, m) = SubSeq(id, 1, m)
    BY <2>1, <2>2, <2>4, PrefixOfPrefix
  <2> QED BY <1>1, <2>4, <2>5 DEF Agree
<1>4. HoldsNext(e, x, id)
  BY <1>2 DEF HoldsNext
<1> HIDE DEF x
<1>5. Follows(Append(ev, x), v, id)
  BY <1>2, <1>3, <1>4, FollowsEvent
<1> QED BY <1>2, <1>5, AppendEvent DEF x

\* A FORK event truncates what the consumer will hold.
LEMMA FollowsFork ==
  ASSUME NEW ev \in Seq(Events), NEW v \in Ids, NEW e \in Ids,
         NEW n \in 1 .. MaxBlock + 1, NEW why \in {"network", "restart", "resync"},
         Follows(ev, v, e), n - 1 <= Len(e) \/ n - 1 <= StartHead
  PROVE  Follows(ev \o <<ForkEvent(n, why)>>, v, Kept(e, n - 1))
<1> DEFINE x == ForkEvent(n, why)
<1>1. x \in Events /\ IsForkEvent(x) /\ x.num = n /\ n - 1 \in Nat
  BY NumbersAssumption DEF ForkEvent, Events, ForkEvents, IsForkEvent
<1>2. HoldsNext(e, x, Kept(e, n - 1))
  BY <1>1 DEF HoldsNext
<1>3. Kept(e, n - 1) \in Ids
  BY <1>1, KeptId
<1>4. \A m \in 1 .. Len(e) : (IsForkEvent(x) /\ x.num <= m) \/ Agree(e, Kept(e, n - 1), m)
  <2> TAKE m \in 1 .. Len(e)
  <2>1. CASE m <= n - 1
    BY <1>1, <2>1, KeptId
  <2>2. CASE ~(m <= n - 1)
    BY <1>1, <2>2, IdLen
  <2> QED BY <2>1, <2>2
<1> HIDE DEF x
<1>5. Follows(Append(ev, x), v, Kept(e, n - 1))
  BY <1>1, <1>2, <1>3, <1>4, FollowsEvent
<1> QED BY <1>1, <1>5, AppendEvent DEF x

\* The first event processed leaves the rest to process.
LEMMA FollowsTail ==
  ASSUME NEW ev \in Seq(Events), ev # <<>>, NEW v \in Ids, NEW e \in Ids, Follows(ev, v, e)
  PROVE  \E t \in Ids : HoldsNext(v, Head(ev), t) /\ Follows(Tail(ev), t, e)
<1> DEFINE n == Len(Tail(ev))
<1>1. PICK w \in [0 .. Len(ev) -> Ids] : Path(ev, v, e, w)
  BY DEF Follows
<1>2. /\ n \in Nat /\ Len(ev) = n + 1 /\ Head(ev) = ev[1]
      /\ \A i \in 1 .. n : Tail(ev)[i] = ev[i + 1]
  BY HeadTailProperties, LenProperties
<1> DEFINE z == [i \in 0 .. n |-> w[i + 1]]
<1> HIDE DEF n
<1>3. /\ z \in [0 .. n -> Ids] /\ \A i \in 0 .. n : z[i] = w[i + 1]
  BY <1>1, <1>2
<1> HIDE DEF z
<1>4. /\ w[0] = v /\ w[n + 1] = e
      /\ \A i \in 1 .. n + 1 : HoldsNext(w[i - 1], ev[i], w[i])
      /\ \A i \in 0 .. n + 1 : \A m \in 1 .. Len(w[i]) : Doomed(ev, i, m) \/ Agree(w[i], e, m)
  BY <1>1, <1>2 DEF Path
<1>5. HoldsNext(v, Head(ev), z[0])
  <2>1. 1 \in 1 .. n + 1 /\ 1 - 1 = 0 /\ 0 \in 0 .. n /\ 0 + 1 = 1
    BY <1>2
  <2> QED BY <1>2, <1>3, <1>4, <2>1
<1>6. z[n] = e
  BY <1>2, <1>3, <1>4
<1>7. ASSUME NEW i \in 1 .. n PROVE HoldsNext(z[i - 1], Tail(ev)[i], z[i])
  <2>1. i + 1 \in 1 .. n + 1 /\ (i + 1) - 1 = i /\ i - 1 \in 0 .. n /\ (i - 1) + 1 = i
        /\ i \in 0 .. n
    BY <1>2
  <2> QED BY <1>2, <1>3, <1>4, <2>1
<1>8. ASSUME NEW i \in 0 .. n, NEW m \in 1 .. Len(z[i])
      PROVE  Doomed(Tail(ev), i, m) \/ Agree(z[i], e, m)
  <2>1. i + 1 \in 0 .. n + 1 /\ z[i] = w[i + 1]
    BY <1>2, <1>3
  <2>2. CASE Doomed(ev, i + 1, m)
    <3>1. PICK j \in i + 2 .. n + 1 : IsForkEvent(ev[j]) /\ ev[j].num <= m
      BY <1>2, <2>2 DEF Doomed
    <3>2. j - 1 \in i + 1 .. n /\ j - 1 \in 1 .. n /\ (j - 1) + 1 = j
      BY <1>2, <3>1
    <3>3. Tail(ev)[j - 1] = ev[j]
      BY <1>2, <3>2
    <3> QED BY <3>1, <3>2, <3>3 DEF Doomed, n
  <2> QED BY <1>4, <2>1, <2>2
<1>9. Path(Tail(ev), z[0], e, z)
  BY <1>6, <1>7, <1>8 DEF Path, n
<1>10. z[0] \in Ids
  BY <1>2, <1>3
<1> QED BY <1>3, <1>5, <1>9, <1>10 DEF Follows, n

\* What no FORK event will drop is held in the end.
LEMMA FollowsKeeps ==
  ASSUME NEW ev \in Seq(Events), NEW v \in Ids, NEW e \in Ids, Follows(ev, v, e),
         NEW m \in 1 .. Len(v),
         \A i \in DOMAIN ev : IsForkEvent(ev[i]) => ~(ev[i].num <= m)
  PROVE  Agree(v, e, m)
<1>1. PICK w \in [0 .. Len(ev) -> Ids] : Path(ev, v, e, w)
  BY DEF Follows
<1>2. DOMAIN ev = 1 .. Len(ev) /\ Len(ev) \in Nat
  BY LenProperties
<1>3. ~Doomed(ev, 0, m)
  BY <1>2 DEF Doomed
<1>4. 0 \in 0 .. Len(ev) /\ w[0] = v
  BY <1>1, <1>2 DEF Path
<1> QED BY <1>1, <1>3, <1>4 DEF Path

\* Without FORK events, a consumer that holds as much as it will ever hold has
\* nothing left to process.
LEMMA FollowsDone ==
  ASSUME NEW ev \in Seq(Events), NEW v \in Ids, NEW e \in Ids, Follows(ev, v, e),
         Len(v) >= Len(e), \A i \in DOMAIN ev : ~IsForkEvent(ev[i])
  PROVE  v = e /\ ev = <<>>
<1>1. Len(v) \in Nat /\ Len(e) \in Nat
  BY IdLen
<1>2. v = e
  <2>1. CASE Len(v) = 0
    BY <1>1, <2>1, IdLen
  <2>2. CASE Len(v) > 0
    <3>1. Len(v) \in 1 .. Len(v)
      BY <1>1, <2>2
    <3>2. Agree(v, e, Len(v))
      BY <3>1, FollowsKeeps
    <3>3. Len(v) = Len(e)
      BY <1>1, <3>2 DEF Agree
    <3> QED BY <3>2, <3>3, WholeId DEF Agree
  <2> QED BY <1>1, <2>1, <2>2
<1>3. ev = <<>>
  <2> SUFFICES ASSUME ev # <<>> PROVE FALSE OBVIOUS
  <2>1. PICK t \in Ids : HoldsNext(v, Head(ev), t) /\ Follows(Tail(ev), t, e)
    BY FollowsTail
  <2>2. /\ Tail(ev) \in Seq(Events) /\ Len(ev) = Len(Tail(ev)) + 1 /\ Head(ev) = ev[1]
        /\ DOMAIN ev = 1 .. Len(ev) /\ Len(Tail(ev)) \in Nat
        /\ DOMAIN Tail(ev) = 1 .. Len(Tail(ev))
        /\ \A i \in 1 .. Len(Tail(ev)) : Tail(ev)[i] = ev[i + 1]
    BY HeadTailProperties, LenProperties
  <2>3. t # <<>> /\ (v = <<>> \/ v = Front(t))
    BY <2>1, <2>2 DEF HoldsNext
  <2>4. Len(t) \in Nat /\ Len(t) > 0
    BY <2>3, IdLen
  <2>5. Len(v) <= Len(t) - 1
    <3>1. Len(t) - 1 \in 0 .. Len(t)
      BY <2>4
    <3>2. Len(SubSeq(t, 1, Len(t) - 1)) = Len(t) - 1
      BY <3>1, IdPrefix
    <3> QED BY <2>3, <2>4, <3>2, EmptySeq DEF Front
  <2>6. \A i \in DOMAIN Tail(ev) : ~IsForkEvent(Tail(ev)[i])
    <3>1. \A i \in 1 .. Len(Tail(ev)) : i + 1 \in 1 .. Len(ev)
      BY <2>2
    <3> QED BY <2>2, <3>1
  <2>7. Len(t) \in 1 .. Len(t)
    BY <2>4
  <2>8. Agree(t, e, Len(t))
    BY <2>1, <2>2, <2>6, <2>7, FollowsKeeps
  <2> QED BY <1>1, <1>2, <2>4, <2>5, <2>8 DEF Agree
<1> QED BY <1>2, <1>3

\* Every FORK event of a replaced block is answered: its new block number comes
\* with it, or a deeper fork follows.
Answered(ev, e) ==
  \A j \in 1 .. Len(ev) :
    IsNetwork(ev[j]) => \E k \in j .. Len(ev) : IsNetwork(ev[k]) /\ ev[k].num <= Len(e)

LEMMA AnsweredEvent ==
  ASSUME NEW ev \in Seq(Events), NEW x \in Events, ~IsNetwork(x),
         NEW e \in Ids, NEW t \in Ids, Len(e) <= Len(t), Answered(ev, e)
  PROVE  Answered(ev \o <<x>>, t)
<1> DEFINE all == ev \o <<x>>
           n   == Len(ev)
<1>1. /\ n \in Nat /\ Len(all) = n + 1 /\ all[n + 1] = x
      /\ \A i \in 1 .. n : all[i] = ev[i]
  BY AppendEvent
<1> HIDE DEF all
<1>2. Len(e) \in Nat /\ Len(t) \in Nat
  BY IdLen
<1>3. ASSUME NEW j \in 1 .. n + 1, IsNetwork(all[j])
      PROVE  \E k \in j .. n + 1 : IsNetwork(all[k]) /\ all[k].num <= Len(t)
  <2>1. j \in 1 .. n /\ IsNetwork(ev[j])
    BY <1>1, <1>3
  <2>2. PICK k \in j .. n : IsNetwork(ev[k]) /\ ev[k].num <= Len(e)
    BY <2>1 DEF Answered
  <2>3. k \in j .. n + 1 /\ k \in 1 .. n /\ all[k] = ev[k]
    BY <1>1, <2>1
  <2>4. ev[k] \in Events
    BY <2>3, ElementOfSeq
  <2>5. ev[k].num \in Int
    BY <2>2, <2>4 DEF IsNetwork, IsForkEvent, Events, ForkEvents, BlockEvents
  <2> QED BY <1>2, <2>2, <2>3, <2>5
<1> QED BY <1>1, <1>3 DEF Answered, all

LEMMA AnsweredFork ==
  ASSUME NEW ev \in Seq(Events), NEW n \in 1 .. MaxBlock + 1, NEW e, n <= Len(e)
  PROVE  Answered(ev \o <<ForkEvent(n, "network")>>, e)
<1> DEFINE x == ForkEvent(n, "network")
           all == ev \o <<x>>
<1>1. x \in Events /\ IsNetwork(x) /\ x.num = n
  BY DEF ForkEvent, Events, ForkEvents, IsForkEvent, IsNetwork
<1> HIDE DEF x
<1>2. Len(ev) \in Nat /\ Len(all) = Len(ev) + 1 /\ all[Len(ev) + 1] = x
  BY <1>1, AppendEvent
<1> HIDE DEF all
<1>3. \A j \in 1 .. Len(all) : Len(all) \in j .. Len(all)
  BY <1>2
<1>4. IsNetwork(all[Len(all)]) /\ all[Len(all)].num <= Len(e)
  BY <1>1, <1>2
<1>5. Answered(all, e)
  BY <1>3, <1>4 DEF Answered
<1> QED BY <1>5 DEF all, x

LEMMA AnsweredTail ==
  ASSUME NEW ev \in Seq(Events), ev # <<>>, NEW e, Answered(ev, e)
  PROVE  Answered(Tail(ev), e)
<1> DEFINE rest == Tail(ev)
           n == Len(rest)
<1>1. /\ n \in Nat /\ Len(ev) = n + 1 /\ \A i \in 1 .. n : rest[i] = ev[i + 1]
  BY HeadTailProperties, LenProperties
<1> HIDE DEF rest
<1>2. ASSUME NEW j \in 1 .. n, IsNetwork(rest[j])
      PROVE  \E k \in j .. n : IsNetwork(rest[k]) /\ rest[k].num <= Len(e)
  <2>1. j + 1 \in 1 .. Len(ev) /\ IsNetwork(ev[j + 1])
    BY <1>1, <1>2
  <2>2. PICK k \in j + 1 .. Len(ev) : IsNetwork(ev[k]) /\ ev[k].num <= Len(e)
    BY <2>1 DEF Answered
  <2>3. k - 1 \in j .. n /\ k - 1 \in 1 .. n /\ (k - 1) + 1 = k
    BY <1>1, <2>1
  <2>4. rest[k - 1] = ev[k]
    BY <1>1, <2>3
  <2> QED BY <2>2, <2>3, <2>4
<1> QED BY <1>2 DEF Answered, rest

(* ----------------------- the inductive invariant ------------------------ *)

\* The consumer will hold the head of the database, unless an exception dropped
\* the block that a FORK event announced or kept a stored block from being
\* completed: then there is an undo session to revert.  Before the first block it
\* will hold nothing, or the blocks before the start block.
Pending(e) ==
  /\ Follows(events, view, e)
  /\ Following => Answered(events, e)
  /\ Alive /\ HasState(Current(db)) /\ (phase = "closed" => db.base = db.rev) => e = Tip(db)
  /\ ~HasState(Current(db)) /\ Following => e \in {<<>>, SubSeq(chain, 1, StartHead)}
QueueInv == \E e \in Ids : Pending(e)

\* No replaced block that the consumer still has to drop is final.
ForksInv == \A i \in DOMAIN events : IsNetwork(events[i]) => events[i].num > finalized

\* The FORK events of load_state are the first in the queue; they drop no block
\* that is permanent, and nothing they drop has been acknowledged.
NoticeFits(n) ==
  /\ Len(Stable(db)) <= n - 1 /\ StartHead <= n - 1
  /\ n < EndBlock \/ n = StartHead + 1
  /\ Alive => /\ exporter_acked_block <= n - 1
              /\ forked_at_block = n \/ Len(view) <= n - 1
NoticesInv ==
  \A i \in DOMAIN events : IsNotice(events[i]) =>
    /\ \A j \in 1 .. i : IsNotice(events[j]) /\ events[j].num = events[i].num
    /\ NoticeFits(events[i].num)

\* The consumer holds what it has acknowledged.
AckInv ==
  /\ forked_at_block > 0 => exporter_acked_block < forked_at_block
  /\ phase = "reading" => forked_at_block = 0
  /\ phase = "closed" => forked_at_block = 0 \/ db.base # db.rev
  /\ Alive => exporter_acked_block <= Len(view) \/ exporter_acked_block <= StartHead

\* Nothing replaces the blocks before the start block.
ExtendsStart(id) ==
  Len(id) >= StartHead /\ SubSeq(id, 1, StartHead) = SubSeq(chain, 1, StartHead)
StartInv ==
  /\ view = <<>> \/ ExtendsStart(view)
  /\ \A i \in DOMAIN events : ~IsForkEvent(events[i]) => ExtendsStart(events[i].id)
  /\ \A r \in db.base .. db.rev : HasState(db.at[r]) => Len(db.at[r].head_id) > StartHead

SeenInv == HasState(db.at[db.base]) => IsPrefix(Stable(db), view)

\* Without an undo session the consumer is about to hold what the database does.
RestInv ==
  HasState(Current(db)) /\ db.base = db.rev =>
    /\ Alive => \A i \in DOMAIN events :
                  /\ IsForkEvent(events[i]) /\ events[i].reason = "restart"
                  /\ events[i].num = Len(Stable(db)) + 1
    /\ ~Alive => /\ view = Stable(db)
                 /\ \A i \in DOMAIN events :
                      IsForkEvent(events[i]) /\ events[i].num > Len(Stable(db))

\* Blocks that can be undone are before the end block.
EndInv == db.base < db.rev => db.rev < EndBlock

ConsumerInv ==
  /\ BranchInv /\ QueueInv /\ ForksInv /\ NoticesInv /\ AckInv /\ StartInv
  /\ SeenInv /\ RestInv /\ EndInv

ConsumerEnvironment ==
  Environment /\ WillAck /\ ConsumerKeepsUp /\ RestartForkSurvives /\ BaseForkIsSound

(* ------------------------- facts of every state ------------------------- *)

LEMMA StateFacts ==
  ASSUME Environment, BranchInv
  PROVE  /\ events \in Seq(Events) /\ Len(events) \in Nat /\ DOMAIN events = 1 .. Len(events)
         /\ \A i \in DOMAIN events : events[i] \in Events /\ events[i].num \in Nat
         /\ view \in Ids /\ Len(view) \in Nat
         /\ head \in Nat /\ irreversible \in Nat /\ lib \in Nat /\ finalized \in Nat
         /\ exporter_acked_block \in Nat /\ forked_at_block \in Nat /\ EndBlock \in Nat
         /\ StartHead \in Nat /\ StartHead <= finalized /\ StartHead <= Len(chain)
         /\ chain \in Ids /\ Len(chain) \in Nat
         /\ SubSeq(chain, 1, StartHead) \in Ids /\ Len(SubSeq(chain, 1, StartHead)) = StartHead
         /\ phase # "spinning" /\ IsDatabase(db) /\ SafeInv
<1>1. SafeInv /\ TypeOK
  BY DEF BranchInv, SafeInv
<1>2. events \in Seq(Events) /\ view \in Ids /\ chain \in Ids
  BY <1>1 DEF TypeOK, ConsumerOK, NodeOK, Events
<1>3. /\ Len(events) \in Nat /\ DOMAIN events = 1 .. Len(events)
      /\ Len(view) \in Nat /\ Len(chain) \in Nat
  BY <1>2, LenProperties, IdLen
<1>4. \A i \in DOMAIN events : events[i] \in Events /\ events[i].num \in Nat
  <2> TAKE i \in DOMAIN events
  <2>1. events[i] \in Events
    BY <1>2, <1>3, ElementOfSeq
  <2> QED BY <2>1, NumbersAssumption DEF Events, ForkEvents, BlockEvents, BlockNums
<1>5. /\ head \in Nat /\ irreversible \in Nat /\ lib \in Nat /\ finalized \in Nat
      /\ exporter_acked_block \in Nat /\ forked_at_block \in Nat
      /\ IsDatabase(db)
  BY <1>1, NumbersAssumption DEF TypeOK, NodeOK, MemoryOK, DbOK, BlockNums
<1>6. /\ StartHead \in Nat /\ StartHead <= finalized /\ StartHead <= Len(chain)
      /\ EndBlock \in Nat
  BY <1>1, <1>3, <1>5, NumbersAssumption
     DEF StartHead, InitialHead, Environment, SafeInv, LibOrder
<1>7. StartHead \in 0 .. Len(chain)
  BY <1>3, <1>6
<1>8. SubSeq(chain, 1, StartHead) \in Ids /\ Len(SubSeq(chain, 1, StartHead)) = StartHead
  BY <1>2, <1>7, IdPrefix
<1>9. phase # "spinning"
  BY <1>1 DEF SafeInv, RollbackTerminates
<1> QED BY <1>1, <1>2, <1>3, <1>4, <1>5, <1>6, <1>8, <1>9

\* The ends of the database's stack are states of the chain it follows.
LEMMA StableFacts ==
  ASSUME BranchInv
  PROVE  /\ Nested(db) /\ Stable(db) \in Ids /\ Tip(db) \in Ids /\ IsPrefix(Stable(db), Tip(db))
         /\ Len(Stable(db)) \in Nat /\ Len(Tip(db)) \in Nat /\ Len(Stable(db)) <= finalized
         /\ HasState(db.at[db.base]) => /\ Len(Stable(db)) = db.at[db.base].head
                                        /\ Len(Stable(db)) = Store.base
         /\ ~HasState(db.at[db.base]) => Stable(db) = <<>>
         /\ HasState(Current(db)) => /\ Len(Tip(db)) = Store.rev
                                     /\ Len(Tip(db)) = Current(db).head
         /\ db.base # db.rev => Store = db
<1>1. SafeInv /\ Nested(db) /\ finalized \in Nat
  BY StoreNested, NumbersAssumption DEF BranchInv, SafeInv, TypeOK, NodeOK, BlockNums
<1>2. Stable(db) \in Ids /\ Tip(db) \in Ids /\ IsPrefix(Stable(db), Tip(db))
  BY <1>1, EndsFacts
<1>3. /\ db.at[db.base] = Store.at[Store.base] /\ Current(Store) = Current(db)
      /\ Store.base \in Store.base .. Store.rev /\ Store.rev \in Store.base .. Store.rev
      /\ db.base # db.rev => Store = db
  BY <1>1, StoreBase, StoreFacts DEF SafeInv
<1>4. /\ Revision(Store, Store.base, finalized) /\ Revision(Store, Store.rev, finalized)
      /\ Store.base <= finalized
  BY <1>1, <1>3 DEF SafeInv, Aligned
<1>5. HasState(db.at[db.base]) => /\ Len(Stable(db)) = db.at[db.base].head
                                  /\ Len(Stable(db)) = Store.base
  BY <1>3, <1>4 DEF Revision, StateOfRevision, Stable
<1>6. ~HasState(db.at[db.base]) => Stable(db) = <<>>
  BY <1>3, <1>4 DEF Revision, EmptyTables, Stable
<1>7. HasState(Current(db)) => /\ Len(Tip(db)) = Store.rev
                               /\ Len(Tip(db)) = Current(db).head
  BY <1>3, <1>4 DEF Revision, StateOfRevision, Tip, Current
<1>8. Len(Stable(db)) <= finalized
  BY <1>1, <1>4, <1>5, <1>6, EmptySeq
<1> QED BY <1>1, <1>2, <1>3, <1>5, <1>6, <1>7, <1>8, IdLen

(* --------------------- steps that leave the database -------------------- *)

LEMMA AckOutcome ==
  ASSUME Environment, BranchInv, NEW n \in Nat, NEW slow, ack_block(n, slow)
  PROVE  /\ UNCHANGED <<chain, finalized, db>>
         /\ \/ /\ forked_at_block = 0 /\ n < exporter_acked_block
               /\ phase' = "stopped" /\ forked_at_block' = 0 /\ exporter_acked_block' = 0
            \/ /\ forked_at_block > 0 \/ n >= exporter_acked_block
               /\ UNCHANGED phase
               /\ exporter_acked_block' =
                    IF forked_at_block = 0 \/ n < forked_at_block THEN n ELSE exporter_acked_block
               /\ forked_at_block' = IF n = forked_at_block - 1 THEN 0 ELSE forked_at_block
<1>1. forked_at_block \in Nat /\ exporter_acked_block \in Nat
  BY StateFacts
<1>2. UNCHANGED <<chain, finalized, db>>
  BY DEF ack_block, Stopped, node
<1>3. CASE forked_at_block = 0 /\ n < exporter_acked_block
  BY <1>2, <1>3 DEF ack_block, Stopped, ForgetMemory
<1>4. CASE ~(forked_at_block = 0 /\ n < exporter_acked_block)
  BY <1>1, <1>2, <1>4 DEF ack_block, AckTaken, FlowResumes
<1> QED BY <1>3, <1>4

\* A process that ends leaves the queue to be delivered.
LEMMA StoppedConsumer ==
  ASSUME ConsumerEnvironment, ConsumerInv, BranchInv', phase' = "stopped", Alive,
         forked_at_block' = 0, UNCHANGED <<chain, finalized, db, events, view>>,
         HasState(Current(db)) /\ db.base = db.rev => view = Stable(db)
  PROVE  ConsumerInv'
<1>1. ~Alive' /\ ~Following'
  BY DEF Alive, Following
<1>2. QueueInv'
  <2>1. PICK e \in Ids : Pending(e)
    BY DEF ConsumerInv, QueueInv
  <2>2. Pending(e)'
    BY <1>1, <2>1 DEF Pending
  <2> QED BY <2>2 DEF QueueInv
<1>3. ForksInv'
  BY DEF ConsumerInv, ForksInv
<1>4. NoticesInv'
  BY <1>1 DEF ConsumerInv, NoticesInv, NoticeFits
<1>5. AckInv'
  BY <1>1 DEF AckInv
<1>6. StartInv'
  BY DEF ConsumerInv, StartInv, ExtendsStart
<1>7. SeenInv' /\ EndInv'
  BY DEF ConsumerInv, SeenInv, EndInv
<1>8. RestInv'
  <2>1. Len(Stable(db)) \in Nat
    BY StableFacts DEF ConsumerInv
  <2> QED BY <1>1, <2>1 DEF ConsumerInv, RestInv
<1> QED BY <1>2, <1>3, <1>4, <1>5, <1>6, <1>7, <1>8 DEF ConsumerInv

\* The blocks on the consumer's side of the queue, over an unchanged database.
LEMMA QueueKept ==
  ASSUME NEW e \in Ids, Pending(e), Follows(events', view', e),
         Following' => Answered(events', e),
         UNCHANGED db, SubSeq(chain', 1, StartHead) = SubSeq(chain, 1, StartHead),
         ~Alive' \/ phase' = phase
  PROVE  QueueInv'
<1>1. Pending(e)'
  BY DEF Pending, Alive, Following
<1> QED BY <1>1 DEF QueueInv

\* The first event leaves the queue.
LEMMA HeadFacts ==
  ASSUME Environment, BranchInv, events # <<>>
  PROVE  /\ Tail(events) \in Seq(Events) /\ Head(events) = events[1] /\ 1 \in DOMAIN events
         /\ events[1] \in Events /\ events[1].num \in Nat
         /\ \A i \in DOMAIN Tail(events) :
              /\ i \in Nat /\ i >= 1
              /\ i + 1 \in DOMAIN events /\ Tail(events)[i] = events[i + 1]
<1>1. events \in Seq(Events) /\ DOMAIN events = 1 .. Len(events) /\ Len(events) \in Nat
  BY StateFacts
<1>2. /\ Tail(events) \in Seq(Events) /\ Len(Tail(events)) = Len(events) - 1
      /\ \A i \in 1 .. Len(Tail(events)) : Tail(events)[i] = events[i + 1]
      /\ Head(events) = events[1]
  BY <1>1, HeadTailProperties
<1>3. DOMAIN Tail(events) = 1 .. Len(Tail(events)) /\ Len(Tail(events)) \in Nat
  BY <1>2, LenProperties
<1>4. 1 \in DOMAIN events
  BY <1>1, <1>2, <1>3
<1> QED BY <1>1, <1>2, <1>3, <1>4, StateFacts

LEMMA DeliverBlockConsumer ==
  ASSUME ConsumerEnvironment, ConsumerInv, BranchInv', DeliverBlock
  PROVE  ConsumerInv'
<1> DEFINE x == Head(events)
<1>1. /\ events # <<>> /\ events' = Tail(events) /\ view' = x.id /\ x.type = "BLOCK_COMPLETED"
      /\ UNCHANGED <<phase, db, chain, finalized, forked_at_block, exporter_acked_block>>
  BY DEF DeliverBlock, Deliverable, node, flow
<1>2. Environment /\ BranchInv /\ ~IsForkEvent(x)
  BY <1>1 DEF ConsumerEnvironment, ConsumerInv, IsForkEvent
<1> HIDE DEF x
<1>3. /\ events \in Seq(Events) /\ Tail(events) \in Seq(Events) /\ x = events[1]
      /\ 1 \in DOMAIN events
      /\ \A i \in DOMAIN Tail(events) :
           /\ i \in Nat /\ i >= 1
           /\ i + 1 \in DOMAIN events /\ Tail(events)[i] = events[i + 1]
  BY <1>1, <1>2, HeadFacts, StateFacts DEF x
<1>4. view \in Ids /\ Len(view) \in Nat /\ view' \in Ids /\ Len(view') \in Nat
      /\ exporter_acked_block \in Nat /\ StartHead \in Nat
  BY <1>2, StateFacts, IdLen DEF BranchInv, SafeInv, TypeOK, ConsumerOK
<1>5. PICK e \in Ids : Pending(e)
  BY DEF ConsumerInv, QueueInv
<1>6. PICK t \in Ids : HoldsNext(view, x, t) /\ Follows(Tail(events), t, e)
  BY <1>1, <1>3, <1>4, <1>5, FollowsTail DEF Pending, x
<1>7. view' = t /\ view' # <<>> /\ (view = <<>> \/ view = Front(view'))
  BY <1>1, <1>2, <1>6 DEF HoldsNext
<1>8. QueueInv'
  <2>1. Following' => Answered(events', e)
    BY <1>1, <1>3, <1>5, AnsweredTail DEF Pending, Following
  <2> QED BY <1>1, <1>5, <1>6, <1>7, <2>1, QueueKept
<1>9. \A i \in DOMAIN events : ~IsNotice(events[i])
  <2> SUFFICES ASSUME NEW i \in DOMAIN events, IsNotice(events[i]) PROVE FALSE OBVIOUS
  <2>1. 1 \in 1 .. i
    BY <1>2, StateFacts
  <2>2. IsNotice(events[1])
    BY <2>1 DEF ConsumerInv, NoticesInv
  <2> QED BY <1>2, <1>3, <2>2 DEF IsNotice
<1>10. ForksInv' /\ NoticesInv'
  BY <1>1, <1>3, <1>9 DEF ConsumerInv, ForksInv, NoticesInv
<1>11. ASSUME view # <<>> PROVE IsPrefix(view, view') /\ Len(view) <= Len(view')
  <2> DEFINE u == SubSeq(view', 1, Len(view') - 1)
  <2>1. Len(view') - 1 \in 0 .. Len(view')
    BY <1>4, <1>7, IdLen
  <2>2. IsPrefix(u, view') /\ Len(u) = Len(view') - 1
    BY <1>4, <2>1, SubSeqIsPrefix, IdPrefix
  <2>3. view = u
    BY <1>7, <1>11 DEF Front
  <2> HIDE DEF u
  <2>4. IsPrefix(view, view')
    BY <2>2, <2>3
  <2>5. Len(view) <= Len(view')
    BY <1>4, <2>2, <2>3
  <2> QED BY <2>4, <2>5
<1>12. AckInv'
  <2>1. Len(view) <= Len(view')
    BY <1>4, <1>11, EmptySeq
  <2>2. Alive' => exporter_acked_block <= Len(view') \/ exporter_acked_block <= StartHead
    BY <1>1, <1>4, <2>1 DEF ConsumerInv, AckInv, Alive
  <2> QED BY <1>1, <2>2 DEF ConsumerInv, AckInv
<1>13. StartInv'
  <2>1. ExtendsStart(view')
    BY <1>1, <1>2, <1>3 DEF ConsumerInv, StartInv
  <2> QED BY <1>1, <1>3, <2>1 DEF ConsumerInv, StartInv, ExtendsStart
<1>14. SeenInv'
  <2> SUFFICES ASSUME HasState(db.at[db.base]) PROVE IsPrefix(Stable(db), view')
    BY <1>1 DEF SeenInv
  <2>1. IsPrefix(Stable(db), view)
    BY DEF ConsumerInv, SeenInv
  <2>2. Stable(db) \in Ids /\ Len(Stable(db)) > StartHead
    <3>1. db.base \in db.base .. db.rev
      BY <1>2, StateFacts DEF IsDatabase
    <3> QED BY <1>2, <3>1, StableFacts DEF ConsumerInv, StartInv, Stable
  <2>3. view # <<>>
    <3>1. Len(Stable(db)) <= Len(view) /\ Len(Stable(db)) \in Nat
      BY <1>4, <2>1, <2>2, PrefixIff, IdLen
    <3>2. Len(<<>>) = 0
      BY EmptySeq
    <3> QED BY <1>4, <2>2, <3>1, <3>2
  <2> QED BY <1>4, <1>11, <2>1, <2>2, <2>3, PrefixTransitive
<1>15. RestInv' /\ EndInv'
  <2>1. ~(HasState(Current(db)) /\ db.base = db.rev)
    BY <1>2, <1>3 DEF ConsumerInv, RestInv
  <2> QED BY <1>1, <2>1 DEF ConsumerInv, RestInv, EndInv
<1> QED BY <1>8, <1>10, <1>12, <1>13, <1>14, <1>15 DEF ConsumerInv

\* A FORK event drops nothing permanent, and no block before the start block.
LEMMA ForkFits ==
  ASSUME ConsumerEnvironment, ConsumerInv, NEW i \in DOMAIN events, IsForkEvent(events[i])
  PROVE  /\ Len(Stable(db)) <= events[i].num - 1 /\ StartHead <= events[i].num - 1
         /\ events[i].num - 1 \in Nat
<1>1. /\ events[i] \in Events /\ finalized \in Nat /\ StartHead \in Nat /\ StartHead <= finalized
      /\ events[i].num \in Nat
  BY StateFacts DEF ConsumerEnvironment, ConsumerInv
<1>2. events[i].num - 1 \in Nat
  BY <1>1 DEF Events, ForkEvents, BlockEvents, IsForkEvent
<1>3. Len(Stable(db)) \in Nat /\ Len(Stable(db)) <= finalized
  BY StableFacts DEF ConsumerInv
<1>4. CASE IsNetwork(events[i])
  BY <1>1, <1>2, <1>3, <1>4 DEF ConsumerInv, ForksInv
<1>5. CASE IsNotice(events[i])
  BY <1>2, <1>5 DEF ConsumerInv, NoticesInv, NoticeFits
<1> QED BY <1>4, <1>5 DEF IsNetwork, IsNotice

LEMMA DeliverForkConsumer ==
  ASSUME ConsumerEnvironment, ConsumerInv, BranchInv', DeliverFork
  PROVE  ConsumerInv'
<1> DEFINE x == Head(events)
           n == Head(events).num - 1
<1>0. Environment /\ BranchInv /\ WillAck
  BY DEF ConsumerEnvironment, ConsumerInv
<1>1. /\ events # <<>> /\ events' = Tail(events) /\ view' = Kept(view, n) /\ IsForkEvent(x)
  BY DEF DeliverFork, Deliverable, Kept, IsForkEvent
<1>2. /\ events \in Seq(Events) /\ Tail(events) \in Seq(Events) /\ x = events[1]
      /\ 1 \in DOMAIN events
      /\ \A i \in DOMAIN Tail(events) :
           /\ i \in Nat /\ i >= 1
           /\ i + 1 \in DOMAIN events /\ Tail(events)[i] = events[i + 1]
  BY <1>0, <1>1, HeadFacts, StateFacts
<1>3. n \in Nat /\ Len(Stable(db)) <= n /\ StartHead <= n /\ StartHead \in Nat
  BY <1>0, <1>1, <1>2, ForkFits, StateFacts
<1>4. /\ view \in Ids /\ Len(view) \in Nat /\ view' \in Ids
      /\ Len(view') \in Nat /\ Len(view') = Min2(Len(view), n)
      /\ Len(view') <= Len(view) /\ Len(view') <= n /\ (Len(view) <= n => view' = view)
      /\ exporter_acked_block \in Nat /\ forked_at_block \in Nat
  BY <1>0, <1>1, <1>3, StateFacts, KeptId, IdLen
<1>5. /\ UNCHANGED <<chain, finalized, db>>
      /\ \/ /\ Alive /\ forked_at_block = 0 /\ n < exporter_acked_block
            /\ phase' = "stopped" /\ forked_at_block' = 0 /\ exporter_acked_block' = 0
         \/ /\ Alive /\ (forked_at_block > 0 \/ n >= exporter_acked_block)
            /\ UNCHANGED phase
            /\ exporter_acked_block' =
                 IF forked_at_block = 0 \/ n < forked_at_block THEN n ELSE exporter_acked_block
            /\ forked_at_block' = IF n = forked_at_block - 1 THEN 0 ELSE forked_at_block
         \/ ~Alive /\ UNCHANGED <<phase, forked_at_block, exporter_acked_block>>
  <2>1. CASE MayAck
    <3>1. ack_block(n, SlowdownAfter) /\ Alive
      BY <2>1 DEF DeliverFork, MayAck, Alive
    <3> HIDE DEF n
    <3> QED BY <1>0, <1>3, <3>1, AckOutcome
  <2>2. CASE ~MayAck
    <3>1. ~Alive
      BY <1>0, <2>2, StateFacts
         DEF MayAck, Alive, BranchInv, SafeInv, TypeOK, MemoryOK, Phases
    <3> QED BY <2>2, <3>1 DEF DeliverFork, node, flow
  <2> QED BY <2>1, <2>2
<1>6. PICK e \in Ids : Pending(e)
  BY DEF ConsumerInv, QueueInv
<1>7. PICK t \in Ids : HoldsNext(view, x, t) /\ Follows(Tail(events), t, e)
  BY <1>1, <1>2, <1>4, <1>6, FollowsTail DEF Pending
<1>8. t = view' /\ (n <= Len(view) \/ n <= StartHead)
  BY <1>1, <1>7 DEF HoldsNext
<1> HIDE DEF x, n
<1>9. QueueInv'
  <2>1. (~Alive' \/ phase' = phase) /\ (Following' => Following)
    BY <1>5 DEF Alive, Following
  <2>2. Following' => Answered(events', e)
    BY <1>1, <1>2, <1>6, <2>1, AnsweredTail DEF Pending
  <2> QED BY <1>1, <1>5, <1>6, <1>7, <1>8, <2>1, <2>2, QueueKept
<1>10. ForksInv'
  BY <1>1, <1>2, <1>5 DEF ConsumerInv, ForksInv
<1>11. NoticesInv'
  <2>1. ASSUME NEW m \in Nat, NoticeFits(m), m = n + 1
        PROVE  NoticeFits(m)'
    <3>1. Len(view') <= m - 1 /\ (Alive' => exporter_acked_block' <= m - 1)
      BY <1>3, <1>4, <1>5, <2>1 DEF NoticeFits, Alive
    <3> QED BY <1>5, <2>1, <3>1 DEF NoticeFits
  <2>2. ASSUME NEW i \in DOMAIN Tail(events), IsNotice(Tail(events)[i])
        PROVE  /\ \A j \in 1 .. i : /\ IsNotice(Tail(events)[j])
                                    /\ Tail(events)[j].num = Tail(events)[i].num
               /\ Tail(events)[i].num \in Nat /\ NoticeFits(Tail(events)[i].num)
               /\ Tail(events)[i].num = n + 1
    <3>1. /\ i \in Nat /\ i + 1 \in DOMAIN events /\ Tail(events)[i] = events[i + 1]
          /\ IsNotice(events[i + 1]) /\ DOMAIN Tail(events) = 1 .. Len(Tail(events))
          /\ Len(Tail(events)) \in Nat /\ events[i + 1].num \in Nat
      BY <1>0, <1>2, <2>2, LenProperties, StateFacts
    <3>2. /\ \A j \in 1 .. i + 1 : IsNotice(events[j]) /\ events[j].num = events[i + 1].num
          /\ NoticeFits(events[i + 1].num)
      BY <3>1 DEF ConsumerInv, NoticesInv
    <3>3. ASSUME NEW j \in 1 .. i
          PROVE  IsNotice(Tail(events)[j]) /\ Tail(events)[j].num = Tail(events)[i].num
      <4>1. j \in DOMAIN Tail(events) /\ j + 1 \in 1 .. i + 1
        BY <2>2, <3>1
      <4> QED BY <1>2, <3>1, <3>2, <4>1
    <3>4. events[i + 1].num = n + 1
      <4>1. 1 \in 1 .. i + 1
        BY <3>1
      <4> QED BY <1>2, <3>1, <3>2, <4>1 DEF n, x
    <3> QED BY <3>1, <3>2, <3>3, <3>4
  <2> QED BY <1>1, <2>1, <2>2 DEF NoticesInv
<1>12. AckInv'
  <2>1. /\ forked_at_block > 0 => exporter_acked_block < forked_at_block
        /\ phase = "reading" => forked_at_block = 0
        /\ phase = "closed" => forked_at_block = 0 \/ db.base # db.rev
        /\ Alive => exporter_acked_block <= Len(view) \/ exporter_acked_block <= StartHead
    BY DEF ConsumerInv, AckInv
  <2>2. CASE ~Alive'
    BY <1>4, <1>5, <2>1, <2>2 DEF AckInv, Alive
  <2>3. CASE Alive'
    <3>1. /\ Alive /\ (forked_at_block > 0 \/ n >= exporter_acked_block) /\ phase' = phase
          /\ exporter_acked_block' =
               IF forked_at_block = 0 \/ n < forked_at_block THEN n ELSE exporter_acked_block
          /\ forked_at_block' = IF n = forked_at_block - 1 THEN 0 ELSE forked_at_block
      BY <1>5, <2>3 DEF Alive
    <3>2. forked_at_block' > 0 => exporter_acked_block' < forked_at_block'
      BY <1>3, <1>4, <2>1, <3>1
    <3>3. /\ phase' = "reading" => forked_at_block' = 0
          /\ phase' = "closed" => forked_at_block' = 0 \/ db'.base # db'.rev
      BY <1>3, <1>4, <1>5, <2>1, <3>1
    <3>4. exporter_acked_block' <= Len(view') \/ exporter_acked_block' <= StartHead
      BY <1>3, <1>4, <1>8, <2>1, <3>1 DEF Min2
    <3> QED BY <3>2, <3>3, <3>4 DEF AckInv
  <2> QED BY <2>2, <2>3
<1>13. StartInv'
  <2>1. view' = <<>> \/ ExtendsStart(view')
    <3>1. CASE view = <<>>
      BY <1>3, <1>4, <3>1, EmptySeq
    <3>2. CASE view # <<>>
      <4>1. ExtendsStart(view)
        BY <3>2 DEF ConsumerInv, StartInv
      <4>2. Len(view') >= StartHead /\ StartHead \in 0 .. Min2(Len(view), n)
            /\ Min2(Len(view), n) \in 0 .. Len(view)
        BY <1>3, <1>4, <4>1 DEF ExtendsStart, Min2
      <4>3. SubSeq(view', 1, StartHead) = SubSeq(view, 1, StartHead)
        BY <1>1, <1>4, <4>2, PrefixOfPrefix DEF Kept
      <4> QED BY <4>1, <4>2, <4>3 DEF ExtendsStart
    <3> QED BY <3>1, <3>2
  <2> QED BY <1>1, <1>2, <1>5, <2>1 DEF ConsumerInv, StartInv, ExtendsStart
<1>14. SeenInv'
  <2> SUFFICES ASSUME HasState(db.at[db.base]) PROVE IsPrefix(Stable(db), view')
    BY <1>5 DEF SeenInv
  <2>1. Stable(db) \in Ids /\ IsPrefix(Stable(db), view) /\ Len(Stable(db)) \in Nat
    BY <1>0, StableFacts DEF ConsumerInv, SeenInv
  <2>2. Len(Stable(db)) <= Len(view) /\ Stable(db) = SubSeq(view, 1, Len(Stable(db)))
    BY <1>4, <2>1, PrefixIff
  <2>3. Len(Stable(db)) \in 0 .. Min2(Len(view), n) /\ Min2(Len(view), n) \in 0 .. Len(view)
    BY <1>3, <1>4, <2>1, <2>2 DEF Min2
  <2>4. SubSeq(view', 1, Len(Stable(db))) = SubSeq(view, 1, Len(Stable(db)))
    BY <1>1, <1>4, <2>3, PrefixOfPrefix DEF Kept
  <2>5. Len(Stable(db)) <= Len(view')
    BY <1>3, <1>4, <2>1, <2>2 DEF Min2
  <2> QED BY <1>4, <2>1, <2>2, <2>4, <2>5, PrefixIff
<1>15. RestInv'
  <2> SUFFICES ASSUME HasState(Current(db)), db.base = db.rev
               PROVE  RestInv'
    BY <1>5 DEF RestInv
  <2>1. CASE Alive'
    <3>1. Alive
      BY <1>5, <2>1 DEF Alive
    <3>2. \A i \in DOMAIN Tail(events) :
            /\ IsForkEvent(Tail(events)[i]) /\ Tail(events)[i].reason = "restart"
            /\ Tail(events)[i].num = Len(Stable(db)) + 1
      BY <1>2, <3>1 DEF ConsumerInv, RestInv
    <3> QED BY <1>1, <1>5, <2>1, <3>2 DEF RestInv
  <2>2. CASE ~Alive'
    <3>1. ~Alive
      <4> SUFFICES ASSUME Alive PROVE FALSE OBVIOUS
      <4>1. n < exporter_acked_block
        BY <1>5, <2>2 DEF Alive
      <4>2. x.reason = "restart"
        BY <1>2 DEF ConsumerInv, RestInv
      <4>3. IsNotice(x)
        BY <1>1, <4>2 DEF IsNotice
      <4>4. exporter_acked_block <= x.num - 1
        BY <1>2, <4>3 DEF ConsumerInv, NoticesInv, NoticeFits
      <4> QED BY <1>3, <1>4, <4>1, <4>4 DEF n, x
    <3>2. view = Stable(db)
      BY <3>1 DEF ConsumerInv, RestInv
    <3>3. view' = Stable(db)
      BY <1>3, <1>4, <3>2
    <3>4. \A i \in DOMAIN Tail(events) :
            IsForkEvent(Tail(events)[i]) /\ Tail(events)[i].num > Len(Stable(db))
      BY <1>2, <3>1 DEF ConsumerInv, RestInv
    <3> QED BY <1>1, <1>5, <2>2, <3>3, <3>4 DEF RestInv
  <2> QED BY <2>1, <2>2
<1>16. EndInv'
  BY <1>5 DEF ConsumerInv, EndInv
<1> QED BY <1>9, <1>10, <1>11, <1>12, <1>13, <1>14, <1>15, <1>16 DEF ConsumerInv

\* With the queue empty, or its FORK events confirmed, a process without an undo
\* session leaves the consumer with what the database holds.
LEMMA RestSeen ==
  ASSUME ConsumerEnvironment, ConsumerInv, Alive, HasState(Current(db)), db.base = db.rev,
         events = <<>> \/ forked_at_block = 0
  PROVE  view = Stable(db)
<1>1. /\ Environment /\ BranchInv /\ events \in Seq(Events) /\ view \in Ids /\ Len(view) \in Nat
      /\ DOMAIN events = 1 .. Len(events) /\ Len(events) \in Nat
  BY StateFacts DEF ConsumerEnvironment, ConsumerInv
<1>2. CASE events = <<>>
  <2>1. PICK e \in Ids : Pending(e)
    BY DEF ConsumerInv, QueueInv
  <2>2. e = Stable(db)
    BY <2>1 DEF Pending, Tip, Stable, Current
  <2>3. PICK w \in [0 .. Len(events) -> Ids] : Path(events, view, e, w)
    BY <2>1 DEF Pending, Follows
  <2>4. Len(events) = 0
    BY <1>2, EmptySeq
  <2> QED BY <2>2, <2>3, <2>4 DEF Path
<1>3. CASE events # <<>>
  <2>1. 1 \in DOMAIN events /\ events[1] \in Events
    BY <1>1, <1>3, HeadFacts
  <2>2. /\ IsForkEvent(events[1]) /\ events[1].reason = "restart"
        /\ events[1].num = Len(Stable(db)) + 1
    BY <2>1 DEF ConsumerInv, RestInv
  <2>3. IsNotice(events[1])
    BY <2>2 DEF IsNotice
  <2>4. NoticeFits(events[1].num)
    BY <2>1, <2>3 DEF ConsumerInv, NoticesInv
  <2>5. Stable(db) \in Ids /\ Len(Stable(db)) \in Nat
    BY <1>1, StableFacts
  <2>6. Len(view) <= Len(Stable(db))
    BY <1>1, <1>3, <2>2, <2>4, <2>5 DEF NoticeFits
  <2>7. IsPrefix(Stable(db), view)
    BY DEF ConsumerInv, SeenInv, Current
  <2>8. Len(Stable(db)) <= Len(view) /\ Stable(db) = SubSeq(view, 1, Len(Stable(db)))
    BY <1>1, <2>5, <2>7, PrefixIff
  <2>9. Len(Stable(db)) = Len(view)
    BY <1>1, <2>5, <2>6, <2>8
  <2> QED BY <1>1, <2>8, <2>9, WholeId
<1> QED BY <1>2, <1>3

LEMMA StopConsumer ==
  ASSUME ConsumerEnvironment, ConsumerInv, BranchInv', Stop \/ StaleAbort
  PROVE  ConsumerInv'
<1>1. /\ phase' = "stopped" /\ forked_at_block' = 0 /\ Alive
      /\ UNCHANGED <<chain, finalized, db, events, view>>
  BY DEF Stop, StaleAbort, Stopped, ForgetMemory, node, consumer, Alive
<1>2. events = <<>> \/ forked_at_block = 0 \/ ~(HasState(Current(db)) /\ db.base = db.rev)
  <2>1. CASE StaleAbort
    BY <2>1 DEF StaleAbort, ConsumerInv, AckInv
  <2>2. CASE Stop
    <3> SUFFICES ASSUME HasState(Current(db)), db.base = db.rev, events # <<>> PROVE FALSE
      OBVIOUS
    <3>1. 1 \in DOMAIN events
      BY HeadFacts DEF ConsumerEnvironment, ConsumerInv
    <3>2. events[1].type = "FORK" /\ events[1].reason = "restart"
      BY <1>1, <3>1 DEF ConsumerInv, RestInv, IsForkEvent
    <3> QED BY <2>2, <3>1, <3>2 DEF Stop, RestartForkPending, ConsumerEnvironment
  <2> QED BY <2>1, <2>2
<1> QED BY <1>1, <1>2, RestSeen, StoppedConsumer

LEMMA AckConsumer ==
  ASSUME ConsumerEnvironment, ConsumerInv, BranchInv', ConsumerAck
  PROVE  ConsumerInv'
<1> DEFINE n == Len(view)
<1>0. Environment /\ BranchInv
  BY DEF ConsumerEnvironment, ConsumerInv
<1>1. /\ n \in Nat /\ exporter_acked_block \in Nat /\ forked_at_block \in Nat
      /\ StartHead \in Nat /\ \A i \in DOMAIN events : events[i].num \in Nat
  BY <1>0, StateFacts
<1>2. n > StartHead
  BY <1>1, NumbersAssumption DEF ConsumerAck, StartHead, InitialHead
<1>3. /\ forked_at_block > 0 => exporter_acked_block < forked_at_block
      /\ phase = "reading" => forked_at_block = 0
      /\ phase = "closed" => forked_at_block = 0 \/ db.base # db.rev
      /\ exporter_acked_block <= n \/ exporter_acked_block <= StartHead
      /\ Alive
  BY DEF ConsumerInv, AckInv, ConsumerAck, MayAck, Alive
<1>4. ack_block(n, slowdown_requested) /\ UNCHANGED <<events, view>>
  BY DEF ConsumerAck, consumer
<1>5. /\ UNCHANGED <<chain, finalized, db, phase>>
      /\ exporter_acked_block' =
           IF forked_at_block = 0 \/ n < forked_at_block THEN n ELSE exporter_acked_block
      /\ forked_at_block' = IF n = forked_at_block - 1 THEN 0 ELSE forked_at_block
  <2>1. exporter_acked_block <= n
    BY <1>1, <1>2, <1>3
  <2> HIDE DEF n
  <2> QED BY <1>0, <1>1, <1>4, <2>1, AckOutcome
<1>6. QueueInv'
  <2>1. PICK e \in Ids : Pending(e)
    BY DEF ConsumerInv, QueueInv
  <2> QED BY <1>4, <1>5, <2>1, QueueKept DEF Pending, Following
<1>7. NoticesInv'
  <2>1. ASSUME NEW m \in Nat, NoticeFits(m) PROVE NoticeFits(m)'
    <3>1. /\ exporter_acked_block <= m - 1
          /\ forked_at_block = m \/ n <= m - 1
      BY <1>3, <2>1 DEF NoticeFits
    <3>2. /\ exporter_acked_block' <= m - 1
          /\ forked_at_block' = m \/ n <= m - 1
      BY <1>1, <1>3, <1>5, <2>1, <3>1
    <3> QED BY <1>4, <1>5, <2>1, <3>2 DEF NoticeFits, Alive
  <2> QED BY <1>1, <1>4, <2>1 DEF ConsumerInv, NoticesInv
<1>8. AckInv'
  <2>1. forked_at_block' > 0 => exporter_acked_block' < forked_at_block'
    BY <1>1, <1>3, <1>5
  <2>2. /\ phase' = "reading" => forked_at_block' = 0
        /\ phase' = "closed" => forked_at_block' = 0 \/ db'.base # db'.rev
    BY <1>1, <1>3, <1>5
  <2>3. exporter_acked_block' <= Len(view') \/ exporter_acked_block' <= StartHead
    BY <1>1, <1>3, <1>4, <1>5
  <2> QED BY <2>1, <2>2, <2>3 DEF AckInv
<1>9. ForksInv' /\ StartInv' /\ SeenInv' /\ RestInv' /\ EndInv'
  BY <1>4, <1>5
     DEF ConsumerInv, ForksInv, StartInv, ExtendsStart, SeenInv, RestInv, EndInv, Alive
<1> QED BY <1>6, <1>7, <1>8, <1>9 DEF ConsumerInv

\* The node replaces no final block, and nothing the consumer must drop is final.
LEMMA NodeConsumer ==
  ASSUME ConsumerEnvironment, ConsumerInv, BranchInv', Node
  PROVE  ConsumerInv'
<1>0. Environment /\ BranchInv
  BY DEF ConsumerEnvironment, ConsumerInv
<1>1. UNCHANGED <<phase, db, events, view, forked_at_block, exporter_acked_block>>
  BY DEF Node, NodeProduce, NodeFork, NodeLib, NodeFailOver, memory, flow, consumer
<1>2. /\ chain \in Ids /\ Len(chain) \in Nat /\ StartHead \in Nat /\ finalized \in Nat
      /\ StartHead <= finalized /\ StartHead \in 0 .. Len(chain) /\ lib \in Nat
      /\ \A i \in DOMAIN events : events[i].num \in Nat
  BY <1>0, StateFacts
<1>3. SubSeq(chain', 1, StartHead) = SubSeq(chain, 1, StartHead)
  <2>1. CASE NodeProduce
    <3>1. chain' = Append(chain, epoch) /\ epoch \in 0..MaxForks
      BY <1>0, <2>1 DEF NodeProduce, BranchInv, SafeInv, TypeOK, NodeOK
    <3> QED BY <1>2, <3>1, PrefixOfAppend
  <2>2. ASSUME NEW k \in 1..MaxBlock, NodeFork(k)
        PROVE  SubSeq(chain', 1, StartHead) = SubSeq(chain, 1, StartHead)
    <3> DEFINE kept == SubSeq(chain, 1, k - 1)
    <3>1. /\ k - 1 \in 0 .. Len(chain) /\ finalized < k /\ epoch + 1 \in 0..MaxForks
          /\ chain' = Append(kept, epoch + 1)
      BY <1>0, <1>2, <2>2, NumbersAssumption
         DEF NodeFork, BranchInv, SafeInv, TypeOK, NodeOK
    <3>2. kept \in Ids /\ Len(kept) = k - 1 /\ StartHead \in 0 .. k - 1
      BY <1>2, <3>1, IdPrefix
    <3>3. SubSeq(kept, 1, StartHead) = SubSeq(chain, 1, StartHead)
      BY <1>2, <3>1, <3>2, PrefixOfPrefix
    <3> HIDE DEF kept
    <3> QED BY <3>1, <3>2, <3>3, PrefixOfAppend
  <2>3. CASE NodeLib \/ NodeFailOver
    BY <2>3 DEF NodeLib, NodeFailOver
  <2> QED BY <2>1, <2>2, <2>3 DEF Node
<1>4. ForksInv'
  <2>1. ASSUME NEW i \in DOMAIN events, IsNetwork(events[i]) PROVE events[i].num > finalized'
    <3>1. events[i].num > finalized /\ events[i].num \in Nat
      BY <1>2, <2>1 DEF ConsumerInv, ForksInv
    <3>2. CASE NodeLib
      <4>1. ~(lib + 1 >= events[i].num)
        BY <2>1, <3>2
           DEF NodeLib, ConsumerEnvironment, ForkUndelivered, IsNetwork, IsForkEvent
      <4> QED BY <1>2, <3>1, <3>2, <4>1 DEF NodeLib
    <3>3. CASE ~NodeLib
      BY <3>1, <3>3 DEF Node, NodeProduce, NodeFork, NodeFailOver
    <3> QED BY <3>2, <3>3
  <2> QED BY <1>1, <2>1 DEF ForksInv
<1>5. QueueInv'
  <2>1. PICK e \in Ids : Pending(e)
    BY DEF ConsumerInv, QueueInv
  <2> QED BY <1>1, <1>3, <2>1, QueueKept DEF Pending, Following
<1>6. NoticesInv' /\ AckInv' /\ StartInv' /\ SeenInv' /\ RestInv' /\ EndInv'
  BY <1>1, <1>3
     DEF ConsumerInv, NoticesInv, NoticeFits, AckInv, StartInv, ExtendsStart, SeenInv,
         RestInv, EndInv, Alive
<1> QED BY <1>4, <1>5, <1>6 DEF ConsumerInv

(* ----------------------------- the process ------------------------------ *)

LEMMA InitConsumer == ASSUME ConsumerEnvironment, Init PROVE ConsumerInv
<1>1. BranchInv
  BY InitBranch DEF ConsumerEnvironment
<1>2. /\ events = <<>> /\ view = <<>> /\ ~Alive /\ ~Following /\ forked_at_block = 0
      /\ Len(<<>>) = 0 /\ DOMAIN <<>> = {}
  BY EmptySeq DEF Init, Alive, Following
<1>3. IsDatabase(db) /\ db.base = 0 /\ db.rev = 0 /\ ~HasState(db.at[0])
  BY OpenedFacts DEF Init, EmptyTables, HasState
<1>4. \A r \in db.base .. db.rev : r = 0
  BY <1>3
<1>5. Follows(<<>>, <<>>, <<>>) /\ <<>> \in Ids
  BY EmptyId, FollowsNothing
<1>6. Answered(<<>>, <<>>)
  BY <1>2 DEF Answered
<1>7. QueueInv
  BY <1>2, <1>5, <1>6 DEF QueueInv, Pending
<1>8. ForksInv /\ NoticesInv /\ AckInv
  BY <1>2 DEF ForksInv, NoticesInv, AckInv, Alive
<1>9. StartInv /\ SeenInv /\ RestInv /\ EndInv
  BY <1>2, <1>3, <1>4 DEF StartInv, SeenInv, RestInv, EndInv, Current
<1> QED BY <1>1, <1>7, <1>8, <1>9 DEF ConsumerInv

\* A step that leaves the content of the database and the queue alone.
LEMMA SameConsumer ==
  ASSUME ConsumerEnvironment, ConsumerInv, BranchInv',
         \/ db' = db
         \/ /\ db.base = db.rev /\ db'.base = db'.rev
            /\ db'.at[db'.base] = db.at[db.base],
         UNCHANGED <<chain, finalized, events, view, forked_at_block, exporter_acked_block>>,
         Alive' => Alive, Alive => Alive', Following' => Following,
         phase = "closed" => phase' = "closed",
         phase' = "reading" => forked_at_block = 0,
         phase' = "closed" => forked_at_block = 0 \/ db'.base # db'.rev
  PROVE  ConsumerInv'
<1>1. /\ db'.at[db'.base] = db.at[db.base] /\ Current(db') = Current(db)
      /\ Stable(db') = Stable(db) /\ Tip(db') = Tip(db)
      /\ db'.base = db'.rev <=> db.base = db.rev
      /\ \A r \in db'.base .. db'.rev : \E q \in db.base .. db.rev : db'.at[r] = db.at[q]
  <2>1. CASE db' = db
    BY <2>1
  <2>2. CASE /\ db.base = db.rev /\ db'.base = db'.rev
             /\ db'.at[db'.base] = db.at[db.base]
    <3>1. IsDatabase(db) /\ IsDatabase(db')
      BY DEF ConsumerInv, BranchInv, SafeInv, TypeOK, DbOK
    <3>2. /\ \A r \in db'.base .. db'.rev : r = db'.base
          /\ db.base \in db.base .. db.rev
      BY <2>2, <3>1 DEF IsDatabase
    <3> QED BY <2>2, <3>2 DEF Current, Stable, Tip
  <2> QED BY <2>1, <2>2
<1>2. PICK e \in Ids : Pending(e)
  BY DEF ConsumerInv, QueueInv
<1>3. QueueInv'
  <2>1. Pending(e)'
    BY <1>1, <1>2 DEF Pending
  <2> QED BY <2>1 DEF QueueInv
<1>4. ForksInv' /\ AckInv'
  BY DEF ConsumerInv, ForksInv, AckInv
<1>5. NoticesInv'
  BY <1>1 DEF ConsumerInv, NoticesInv, NoticeFits
<1>6. StartInv' /\ SeenInv'
  BY <1>1 DEF ConsumerInv, StartInv, ExtendsStart, SeenInv
<1>7. RestInv'
  BY <1>1 DEF ConsumerInv, RestInv
<1>8. EndInv'
  <2>1. IsDatabase(db')
    BY DEF BranchInv, SafeInv, TypeOK, DbOK
  <2> QED BY <2>1 DEF ConsumerInv, EndInv, IsDatabase
<1> QED BY <1>3, <1>4, <1>5, <1>6, <1>7, <1>8 DEF ConsumerInv

LEMMA SnapshotConsumer ==
  ASSUME ConsumerEnvironment, ConsumerInv, BranchInv', SaveSnapshot \/ RestoreSnapshot
  PROVE  ConsumerInv'
<1>1. /\ UNCHANGED <<chain, finalized, phase, events, view>> /\ phase = "stopped"
      /\ UNCHANGED <<forked_at_block, exporter_acked_block>>
  BY DEF SaveSnapshot, RestoreSnapshot, node, memory, flow, consumer
<1>2. IsDatabase(db) /\ ~HasUndoSession(db)
  BY DEF SaveSnapshot, RestoreSnapshot, ConsumerEnvironment, ConsumerInv, BranchInv, SafeInv,
         TypeOK, DbOK
<1>3. db.base = db.rev
  BY <1>2 DEF IsDatabase, HasUndoSession
<1>4. db'.base = db'.rev /\ db'.at[db'.base] = db.at[db.base]
  BY <1>2, <1>3, UndoAllFacts, OpenedFacts DEF SaveSnapshot, RestoreSnapshot, Restored, Current
<1> QED BY <1>1, <1>3, <1>4, SameConsumer DEF Alive, Following

\* The queue that load_state leaves: at most the two FORK events for block h + 1.
LEMMA LoadedQueue ==
  ASSUME NEW h \in 0 .. MaxBlock, NEW v \in Ids, NEW a, NEW b,
         a \in {<<>>, <<ForkEvent(h + 1, "resync")>>},
         b \in {<<>>, <<ForkEvent(h + 1, "restart")>>},
         a \o b # <<>> => h <= Len(v) \/ h <= StartHead
  PROVE  /\ \A i \in DOMAIN (a \o b) :
              \/ (a \o b)[i] = ForkEvent(h + 1, "restart")
              \/ a # <<>> /\ (a \o b)[i] = ForkEvent(h + 1, "resync")
         /\ a \o b = <<>> <=> a = <<>> /\ b = <<>>
         /\ Follows(a \o b, v, IF a \o b = <<>> THEN v ELSE Kept(v, h))
<1> DEFINE x == ForkEvent(h + 1, "resync")
           y == ForkEvent(h + 1, "restart")
<1>1. /\ x \in Events /\ y \in Events /\ h + 1 \in 1 .. MaxBlock + 1 /\ (h + 1) - 1 = h
      /\ h \in Nat
  BY NumbersAssumption DEF ForkEvent, Events, ForkEvents
<1>2. Follows(<<>>, v, v) /\ Kept(v, h) \in Ids
  BY <1>1, FollowsNothing, KeptId
<1>3. /\ <<x>> \in Seq(Events) /\ <<y>> \in Seq(Events) /\ <<>> \in Seq(Events)
      /\ <<x>> # <<>> /\ <<y>> # <<>>
      /\ Len(<<x>>) = 1 /\ <<x>>[1] = x /\ Len(<<y>>) = 1 /\ <<y>>[1] = y
      /\ DOMAIN <<x>> = 1 .. 1 /\ DOMAIN <<y>> = 1 .. 1 /\ DOMAIN <<>> = {}
  BY <1>1
<1>4. CASE a = <<>> /\ b = <<>>
  <2>1. a \o b = <<>>
    BY <1>3, <1>4, ConcatEmptySeq
  <2> QED BY <1>2, <1>4, <2>1
<1>5. CASE a = <<>> /\ b = <<y>>
  <2>1. a \o b = <<y>>
    BY <1>3, <1>5, ConcatEmptySeq
  <2>2. Follows(<<>> \o <<y>>, v, Kept(v, h))
    BY <1>1, <1>2, <1>3, <2>1, FollowsFork
  <2> QED BY <1>3, <1>5, <2>1, <2>2
<1>6. CASE a = <<x>>
  <2>1. a \o b # <<>>
    BY <1>3, <1>6, ConcatEqualIffEmpty
  <2>2. Follows(<<>> \o <<x>>, v, Kept(v, h))
    BY <1>1, <1>2, <1>3, <2>1, FollowsFork
  <2>3. Follows(<<x>>, v, Kept(v, h))
    BY <1>3, <2>2, ConcatEmptySeq
  <2>4. CASE b = <<>>
    <3>1. a \o b = <<x>>
      BY <1>3, <1>6, <2>4, ConcatEmptySeq
    <3>2. \A i \in DOMAIN (a \o b) : (a \o b)[i] = x
      BY <1>3, <3>1
    <3>3. Follows(a \o b, v, Kept(v, h))
      BY <2>3, <3>1
    <3> QED BY <1>3, <1>6, <2>1, <3>2, <3>3
  <2>5. CASE b = <<y>>
    <3>1. /\ Kept(Kept(v, h), h) = Kept(v, h)
          /\ h <= Len(Kept(v, h)) \/ h <= StartHead
      BY <1>1, <1>2, <2>1, KeptId, IdLen DEF Min2
    <3>2. Follows(<<x>> \o <<y>>, v, Kept(v, h))
      BY <1>1, <1>2, <1>3, <2>3, <3>1, FollowsFork
    <3>3. \A i \in DOMAIN (<<x>> \o <<y>>) :
            (<<x>> \o <<y>>)[i] = x \/ (<<x>> \o <<y>>)[i] = y
      <4> DEFINE q == <<x>> \o <<y>>
      <4>1. /\ q \in Seq(Events) /\ Len(q) = 1 + 1
            /\ \A i \in 1 .. 1 + 1 : q[i] = IF i <= 1 THEN <<x>>[i] ELSE <<y>>[i - 1]
        BY <1>3, ConcatProperties
      <4> HIDE DEF q, x, y
      <4>2. DOMAIN q = 1 .. 1 + 1
        BY <4>1, LenProperties
      <4>3. \A i \in 1 .. 1 + 1 : i = 1 \/ (i = 2 /\ i - 1 = 1)
        OBVIOUS
      <4>4. \A i \in DOMAIN q : q[i] = x \/ q[i] = y
        BY <1>3, <4>1, <4>2, <4>3
      <4> QED BY <4>4 DEF q
    <3> QED BY <1>3, <1>6, <2>1, <2>5, <3>2, <3>3
  <2> QED BY <2>4, <2>5
<1> QED BY <1>4, <1>5, <1>6

LEMMA LoadStateConsumer ==
  ASSUME ConsumerEnvironment, ConsumerInv, BranchInv', load_state
  PROVE  ConsumerInv'
<1> DEFINE kept == db.at[db.base]
           did_undo == HasUndoSession(db)
           h == IF HasState(kept) THEN kept.head ELSE StartHead
           resync == IF HasState(kept) THEN <<>> ELSE <<ForkEvent(h + 1, "resync")>>
           restart == RestartNotice(did_undo, h)
<1>1. /\ Environment /\ BranchInv /\ WillAck /\ RestartForkSurvives /\ ~Alive
      /\ UNCHANGED <<chain, finalized, view>> /\ db' = UndoAll(db) /\ IsDatabase(db)
  BY DEF ConsumerEnvironment, ConsumerInv, load_state, node, Alive, BranchInv, SafeInv,
         TypeOK, DbOK
<1>2. /\ db'.base = db.base /\ db'.rev = db.base /\ db'.at[db.base] = kept
      /\ Current(UndoAll(db)) = kept /\ db.base \in db.base .. db.rev
  BY <1>1, UndoAllFacts DEF Current, IsDatabase
<1>3. \/ /\ ~did_undo /\ UNCHANGED <<phase, forked_at_block, exporter_acked_block, events>>
      \/ /\ phase' = "connecting" /\ events' = resync \o restart /\ h < EndBlock
         /\ forked_at_block' = IF resync \o restart = <<>> THEN 0 ELSE h + 1
         /\ exporter_acked_block' = h
  <2>1. PICK option \in {0, StartBlock} :
          LET g == IF HasState(kept) THEN kept.head ELSE InitialHead(option)
              notices == (IF HasState(kept) THEN <<>> ELSE <<ForkEvent(g + 1, "resync")>>)
                           \o RestartNotice(did_undo, g)
          IN /\ HasState(kept) \/ option = StartBlock
             /\ IF (HasState(kept) /\ option > 0) \/ g >= EndBlock
                THEN /\ RestartForkSurvives => ~did_undo
                     /\ UNCHANGED <<phase, memory, events>>
                ELSE /\ phase' = "connecting" /\ events' = notices
                     /\ forked_at_block' = IF notices = <<>> THEN 0 ELSE g + 1
                     /\ exporter_acked_block' = IF WillAck THEN g ELSE 0
    BY <1>2 DEF load_state
  <2>2. (IF HasState(kept) THEN kept.head ELSE InitialHead(option)) = h
    BY <2>1 DEF StartHead
  <2>3. h \in Nat
    BY <1>1, StateFacts, StableFacts
  <2> HIDE DEF h, kept, did_undo
  <2>4. CASE (HasState(kept) /\ option > 0) \/ h >= EndBlock
    BY <1>1, <2>1, <2>2, <2>4 DEF memory, flow
  <2>5. CASE ~((HasState(kept) /\ option > 0) \/ h >= EndBlock)
    <3>1. EndBlock \in Nat
      BY NumbersAssumption
    <3> QED BY <1>1, <2>1, <2>2, <2>3, <2>5, <3>1
  <2> QED BY <2>4, <2>5
<1>4. CASE ~did_undo /\ UNCHANGED <<phase, forked_at_block, exporter_acked_block, events>>
  <2>1. db.base = db.rev /\ db'.base = db'.rev /\ db'.at[db'.base] = db.at[db.base]
    BY <1>1, <1>2, <1>4 DEF HasUndoSession, IsDatabase
  <2> QED BY <1>1, <1>4, <2>1, SameConsumer DEF Alive, Following
<1>5. CASE /\ phase' = "connecting" /\ events' = resync \o restart /\ h < EndBlock
           /\ forked_at_block' = IF resync \o restart = <<>> THEN 0 ELSE h + 1
           /\ exporter_acked_block' = h
  <2>1. /\ Stable(db') = Stable(db) /\ Tip(db') = Stable(db) /\ Current(db') = kept
        /\ db'.at[db'.base] = kept
        /\ \A r \in db'.base .. db'.rev : db'.at[r] = kept
    BY <1>1, <1>2 DEF Stable, Tip, Current, IsDatabase
  <2>2. /\ view \in Ids /\ Len(view) \in Nat /\ StartHead \in Nat /\ Len(chain) \in Nat
        /\ finalized \in Nat /\ StartHead <= finalized /\ EndBlock \in Nat
    BY <1>1, StateFacts
  <2>3. h \in 0 .. MaxBlock /\ (HasState(kept) => h = Len(Stable(db)))
    <3>1. CASE HasState(kept)
      <4>1. kept.head \in BlockNums /\ Len(Stable(db)) = kept.head
        BY <1>1, <1>2, <3>1, StableFacts DEF BranchInv, SafeInv, TypeOK, DbOK, TablesOK
      <4> QED BY <3>1, <4>1, NumbersAssumption DEF BlockNums
    <3>2. CASE ~HasState(kept)
      BY <3>2, NumbersAssumption DEF StartHead, InitialHead
    <3> QED BY <3>1, <3>2
  <2>4. HasState(kept) => /\ IsPrefix(Stable(db), view) /\ h <= Len(view) /\ Kept(view, h) = Stable(db)
                          /\ StartHead < h
    <3> SUFFICES ASSUME HasState(kept)
                 PROVE  /\ IsPrefix(Stable(db), view) /\ h <= Len(view)
                        /\ Kept(view, h) = Stable(db) /\ StartHead < h
      OBVIOUS
    <3>1. IsPrefix(Stable(db), view) /\ Stable(db) \in Ids
      BY <1>1, StableFacts DEF ConsumerInv, SeenInv
    <3>2. h <= Len(view) /\ Stable(db) = SubSeq(view, 1, h)
      BY <2>2, <2>3, <3>1, PrefixIff
    <3>3. Min2(Len(view), h) = h
      BY <2>2, <2>3, <3>2 DEF Min2
    <3>4. StartHead < h
      BY <1>2, <2>3 DEF ConsumerInv, StartInv, Stable
    <3> QED BY <3>1, <3>2, <3>3, <3>4 DEF Kept
  <2>5. /\ resync \in {<<>>, <<ForkEvent(h + 1, "resync")>>}
        /\ restart \in {<<>>, <<ForkEvent(h + 1, "restart")>>}
        /\ resync = <<>> <=> HasState(kept)
        /\ restart = <<>> <=> ~did_undo
    BY DEF RestartNotice
  <2> HIDE DEF resync, restart
  <2>6. h <= Len(view) \/ h <= StartHead
    BY <2>2, <2>4
  <2> DEFINE e == IF events' = <<>> THEN view ELSE Kept(view, h)
  <2>7. /\ \A i \in DOMAIN events' : \/ events'[i] = ForkEvent(h + 1, "restart")
                                     \/ ~HasState(kept) /\ events'[i] = ForkEvent(h + 1, "resync")
        /\ events' = <<>> <=> HasState(kept) /\ ~did_undo
        /\ Follows(events', view, e)
    <3> HIDE DEF h, kept, did_undo
    <3> QED BY <1>5, <2>2, <2>3, <2>5, <2>6, LoadedQueue
  <2>8. \A i \in DOMAIN events' : /\ IsForkEvent(events'[i]) /\ IsNotice(events'[i])
                                  /\ ~IsNetwork(events'[i]) /\ events'[i].num = h + 1
    BY <2>7 DEF ForkEvent, IsForkEvent, IsNotice, IsNetwork
  <2>9. h \in Nat /\ (events' # <<>> /\ HasState(kept) => did_undo)
    BY <2>3, <2>7
  <2> HIDE DEF h, e
  <2>10. QueueInv'
    <3>1. Kept(view, h) \in Ids
      BY <2>2, <2>9, KeptId
    <3>2. e \in Ids
      BY <2>2, <3>1 DEF e
    <3>3. Answered(events', e)
      <4>1. DOMAIN events' = 1 .. Len(events')
        BY LenProperties DEF BranchInv, SafeInv, TypeOK, ConsumerOK
      <4> QED BY <2>8, <4>1 DEF Answered
    <3>4. HasState(kept) => e = Stable(db)
      <4>1. CASE events' = <<>>
        <5>1. ~did_undo => db.base = db.rev
          BY <1>1 DEF HasUndoSession, IsDatabase
        <5>2. HasState(kept) => view = Stable(db)
          BY <1>1, <2>7, <4>1, <5>1 DEF ConsumerInv, RestInv, Current
        <5> QED BY <4>1, <5>2 DEF e
      <4>2. CASE events' # <<>>
        BY <2>4, <4>2 DEF e
      <4> QED BY <4>1, <4>2
    <3>5. ~HasState(kept) => e \in {<<>>, SubSeq(chain, 1, StartHead)}
      <4> SUFFICES ASSUME ~HasState(kept) PROVE e \in {<<>>, SubSeq(chain, 1, StartHead)}
        OBVIOUS
      <4>1. e = Kept(view, StartHead)
        BY <2>7 DEF e, h
      <4>2. CASE view = <<>>
        <5>1. Len(view) <= StartHead
          BY <2>2, <4>2, EmptySeq
        <5> QED BY <2>2, <4>1, <4>2, <5>1, KeptId
      <4>3. CASE view # <<>>
        <5>1. Min2(Len(view), StartHead) = StartHead
              /\ SubSeq(view, 1, StartHead) = SubSeq(chain, 1, StartHead)
          BY <2>2, <4>3 DEF ConsumerInv, StartInv, ExtendsStart, Min2
        <5> QED BY <4>1, <5>1 DEF Kept
      <4> QED BY <4>2, <4>3
    <3>6. ASSUME NEW t \in Ids, t = e PROVE Pending(t)'
      BY <1>1, <2>1, <2>7, <3>3, <3>4, <3>5, <3>6 DEF Pending
    <3> QED BY <3>2, <3>6 DEF QueueInv
  <2>11. ForksInv'
    BY <2>8 DEF ForksInv
  <2>12. NoticesInv'
    <3>1. \A i \in DOMAIN events' : i \in Nat /\ 1 .. i \subseteq DOMAIN events'
      BY LenProperties DEF BranchInv, SafeInv, TypeOK, ConsumerOK
    <3>2. ASSUME NEW m, m = h + 1, events' # <<>> PROVE NoticeFits(m)'
      <4>1. Len(Stable(db)) <= h /\ StartHead <= h
        <5>1. CASE HasState(kept)
          BY <2>2, <2>3, <2>4, <2>9, <5>1
        <5>2. CASE ~HasState(kept)
          BY <1>1, <2>2, <5>2, StableFacts, EmptySeq DEF h
        <5> QED BY <5>1, <5>2
      <4>2. h + 1 < EndBlock \/ h + 1 = StartHead + 1
        <5>1. CASE HasState(kept)
          <6>1. db.base < db.rev
            BY <2>9, <3>2, <5>1 DEF HasUndoSession
          <6>2. db.base \in Nat /\ db.rev \in Nat
            BY <1>1 DEF IsDatabase
          <6>3. Store = db
            BY <1>1, <6>1, <6>2, StableFacts
          <6>4. h = db.base
            BY <1>1, <2>3, <5>1, <6>3, StableFacts
          <6>5. db.rev < EndBlock
            BY <6>1 DEF ConsumerInv, EndInv
          <6> QED BY <2>2, <6>1, <6>2, <6>4, <6>5
        <5>2. CASE ~HasState(kept)
          BY <5>2 DEF h
        <5> QED BY <5>1, <5>2
      <4>3. exporter_acked_block' = h /\ forked_at_block' = h + 1
        BY <1>5, <3>2 DEF resync, restart
      <4> QED BY <2>1, <2>9, <3>2, <4>1, <4>2, <4>3 DEF NoticeFits
    <3>3. ASSUME NEW i \in DOMAIN events'
          PROVE  /\ \A j \in 1 .. i : IsNotice(events'[j]) /\ events'[j].num = events'[i].num
                 /\ NoticeFits(events[i].num)'
      <4>1. events' # <<>>
        <5>1. DOMAIN <<>> = {}
          BY EmptySeq
        <5> QED BY <3>3, <5>1
      <4>2. events'[i].num = h + 1
        BY <2>8
      <4>3. ASSUME NEW m, m = events'[i].num PROVE NoticeFits(m)'
        BY <3>2, <4>1, <4>2, <4>3
      <4>4. NoticeFits(events[i].num)'
        BY <4>3 DEF NoticeFits
      <4> QED BY <2>8, <3>1, <4>4
    <3> QED BY <3>3 DEF NoticesInv
  <2>13. AckInv'
    <3>1. forked_at_block' \in {0, h + 1} /\ exporter_acked_block' = h
      BY <1>5
    <3>2. h <= Len(view) \/ h <= StartHead
      BY <2>6
    <3> QED BY <1>1, <1>5, <2>9, <3>1, <3>2 DEF AckInv
  <2>14. StartInv'
    BY <1>1, <1>2, <2>1, <2>8 DEF ConsumerInv, StartInv, ExtendsStart
  <2>15. SeenInv'
    BY <1>1, <2>1 DEF ConsumerInv, SeenInv
  <2>16. RestInv'
    <3>1. HasState(kept) => \A i \in DOMAIN events' :
                              /\ IsForkEvent(events'[i]) /\ events'[i].reason = "restart"
                              /\ events'[i].num = Len(Stable(db)) + 1
      BY <2>3, <2>7, <2>8 DEF ForkEvent
    <3> QED BY <1>5, <2>1, <3>1 DEF RestInv, Alive
  <2>17. EndInv'
    BY <1>1, <1>2 DEF EndInv, IsDatabase
  <2> QED BY <2>10, <2>11, <2>12, <2>13, <2>14, <2>15, <2>16, <2>17 DEF ConsumerInv
<1> QED BY <1>3, <1>4, <1>5

\* A process that stops at the end block has seen the consumer process it all.
LEMMA EndedConsumer ==
  ASSUME ConsumerEnvironment, ConsumerInv, Following, HasState(Current(db)),
         ReachedEnd(head, irreversible, exporter_acked_block)
  PROVE  view = Tip(db) /\ events = <<>>
<1>1. /\ Environment /\ BranchInv /\ SafeInv /\ WillAck /\ Alive
      /\ head = EndBlock - 1 /\ irreversible >= head /\ exporter_acked_block = head
  BY DEF ConsumerEnvironment, ConsumerInv, BranchInv, ReachedEnd, Following, Alive
<1>2. /\ view \in Ids /\ events \in Seq(Events) /\ Len(view) \in Nat /\ head \in Nat
      /\ DOMAIN events = 1 .. Len(events) /\ Len(events) \in Nat /\ StartHead \in Nat
      /\ irreversible \in Nat /\ finalized \in Nat /\ EndBlock \in Nat
      /\ \A i \in DOMAIN events : events[i].num \in Nat
  BY <1>1, StateFacts
<1>3. head = Len(Tip(db)) /\ irreversible <= finalized
  <2>1. Current(Store) = Current(db)
    BY <1>1, StoreFacts DEF SafeInv
  <2>2. head = Store.rev /\ irreversible <= finalized
    BY <1>1, <2>1 DEF SafeInv, Running, Following
  <2> QED BY <1>1, <2>2, StableFacts
<1>4. Len(Tip(db)) > StartHead
  <2>1. db.rev \in db.base .. db.rev
    BY <1>1 DEF SafeInv, TypeOK, DbOK, IsDatabase
  <2> QED BY <2>1 DEF ConsumerInv, StartInv, Tip, Current
<1>5. PICK e \in Ids : Pending(e)
  BY DEF ConsumerInv, QueueInv
<1>6. e = Tip(db)
  BY <1>1, <1>5 DEF Pending, Following
<1>7. ASSUME NEW i \in DOMAIN events, IsForkEvent(events[i]) PROVE FALSE
  <2>1. CASE IsNetwork(events[i])
    <3>1. PICK k \in i .. Len(events) : IsNetwork(events[k]) /\ events[k].num <= Len(e)
      BY <1>2, <1>5, <2>1 DEF Pending, Answered
    <3>2. k \in DOMAIN events
      BY <1>2, <3>1
    <3>3. events[k].num > finalized /\ events[k].num \in Nat
      BY <1>2, <3>1, <3>2 DEF ConsumerInv, ForksInv
    <3> QED BY <1>1, <1>2, <1>3, <1>6, <3>1, <3>3
  <2>2. CASE ~IsNetwork(events[i])
    <3>1. NoticeFits(events[i].num)
      BY <1>7, <2>2 DEF IsNetwork, IsNotice, ConsumerInv, NoticesInv
    <3>2. /\ exporter_acked_block <= events[i].num - 1
          /\ events[i].num < EndBlock \/ events[i].num = StartHead + 1
      BY <1>1, <3>1 DEF NoticeFits
    <3> QED BY <1>1, <1>2, <1>3, <1>4, <3>2
  <2> QED BY <2>1, <2>2
<1>8. Len(view) >= Len(e)
  <2>1. exporter_acked_block <= Len(view) \/ exporter_acked_block <= StartHead
    BY <1>1 DEF ConsumerInv, AckInv
  <2> QED BY <1>1, <1>2, <1>3, <1>4, <1>6, <2>1
<1> QED BY <1>2, <1>5, <1>6, <1>7, <1>8, FollowsDone DEF Pending

LEMMA ReadOnConsumer ==
  ASSUME ConsumerEnvironment, ConsumerInv, BranchInv', request_blocks \/ PauseTimer
  PROVE  ConsumerInv'
<1>1. /\ Environment /\ BranchInv /\ SafeInv /\ WillAck /\ Alive /\ Following
      /\ UNCHANGED <<chain, finalized, events, view>>
      /\ continue_read(db, head, head_id, irreversible, exporter_acked_block, forked_at_block)
  BY DEF ConsumerEnvironment, ConsumerInv, BranchInv, request_blocks, PauseTimer, node,
         consumer, Following, Alive
<1>2. forked_at_block \in Nat /\ irreversible \in Nat /\ exporter_acked_block \in Nat
  BY <1>1, StateFacts
<1>3. CASE ~ReachedEnd(head, irreversible, exporter_acked_block)
  <2>1. /\ phase' = IF MustPause(head, exporter_acked_block, forked_at_block,
                                 slowdown_requested, Len(events'))
                    THEN "paused" ELSE "reading"
        /\ UNCHANGED <<db, forked_at_block, exporter_acked_block>>
    BY <1>1, <1>3 DEF continue_read
  <2>2. phase' \in {"paused", "reading"} /\ (phase' = "reading" => forked_at_block = 0)
    BY <1>1, <1>2, <2>1 DEF MustPause
  <2> QED BY <1>1, <2>1, <2>2, SameConsumer DEF Alive, Following
<1>4. CASE ReachedEnd(head, irreversible, exporter_acked_block)
  <2>1. /\ db' = Commit(db, CommitRev(irreversible, exporter_acked_block))
        /\ CommitRev(irreversible, exporter_acked_block) \in Int
        /\ ~Alive' /\ ~Following' /\ forked_at_block' = 0
    BY <1>1, <1>2, <1>4
       DEF continue_read, commit_db, CommitRev, ForgetMemory, Alive, Following
  <2>2. /\ IsDatabase(db) /\ IsDatabase(db') /\ db'.rev = db.rev /\ db.base <= db'.base
        /\ \A i \in db'.base .. db'.rev : i \in db.base .. db.rev /\ db'.at[i] = db.at[i]
    BY <1>1, <2>1, CommitFacts, StateFacts
  <2>3. /\ db'.base \in db'.base .. db'.rev /\ db'.rev \in db'.base .. db'.rev
        /\ Current(db') = Current(db) /\ db.rev \in db.base .. db.rev
    BY <2>2 DEF IsDatabase, Current
  <2>4. /\ IsPrefix(Stable(db'), Tip(db)) /\ Stable(db') \in Ids /\ Tip(db) \in Ids
    BY <1>1, <2>1, StableFacts, CommitEnds, EndsFacts
  <2>5. StartInv'
    BY <1>1, <2>2 DEF ConsumerInv, StartInv, ExtendsStart
  <2>6. EndInv' /\ ForksInv' /\ AckInv'
    <3>1. EndInv'
      BY <2>2 DEF ConsumerInv, EndInv, IsDatabase
    <3>2. ForksInv' /\ AckInv'
      BY <1>1, <2>1 DEF ConsumerInv, ForksInv, AckInv, Alive
    <3> QED BY <3>1, <3>2
  <2>7. QueueInv'
    <3>1. PICK e \in Ids : Pending(e)
      BY DEF ConsumerInv, QueueInv
    <3>2. Pending(e)'
      BY <1>1, <2>1, <3>1 DEF Pending
    <3> QED BY <3>2 DEF QueueInv
  <2>8. CASE HasState(Current(db))
    <3>1. view = Tip(db) /\ events = <<>>
      BY <1>1, <1>4, <2>8, EndedConsumer
    <3>2. DOMAIN events' = {}
      BY <1>1, <3>1
    <3>3. NoticesInv'
      BY <3>2 DEF NoticesInv
    <3>4. SeenInv'
      BY <1>1, <2>4, <3>1 DEF SeenInv
    <3>5. RestInv'
      <4>1. db'.base = db'.rev => Stable(db') = Tip(db)
        BY <2>3 DEF Stable, Tip, Current
      <4> QED BY <1>1, <2>1, <3>1, <3>2, <4>1 DEF RestInv
    <3> QED BY <2>5, <2>6, <2>7, <3>3, <3>4, <3>5 DEF ConsumerInv
  <2>9. CASE ~HasState(Current(db))
    <3>1. Store = db /\ Aligned(db, finalized) /\ finalized \in Nat
      BY <1>1, <2>9, StoreFacts, StateFacts DEF SafeInv
    <3>2. ~HasState(db.at[db'.base]) /\ db'.at[db'.base] = db.at[db'.base]
      BY <2>2, <2>3, <2>9, <3>1, OnlyBaseIsEmpty DEF Current
    <3>3. Stable(db') = <<>> /\ Len(<<>>) = 0
      <4>1. Revision(db, db'.base, finalized)
        BY <2>2, <2>3, <3>1 DEF Aligned
      <4> QED BY <3>2, <4>1, EmptySeq DEF Revision, EmptyTables, Stable
    <3>4. SeenInv' /\ RestInv'
      BY <2>3, <2>9, <3>2 DEF SeenInv, RestInv
    <3>5. NoticesInv'
      <4>1. ASSUME NEW m \in Nat, NoticeFits(m) PROVE NoticeFits(m)'
        <5>1. StartHead \in Nat
          BY <1>1, StateFacts
        <5> QED BY <2>1, <3>3, <4>1, <5>1 DEF NoticeFits
      <4>2. \A i \in DOMAIN events : events[i].num \in Nat
        BY <1>1, StateFacts
      <4> QED BY <1>1, <4>1, <4>2 DEF ConsumerInv, NoticesInv
    <3> QED BY <2>5, <2>6, <2>7, <3>4, <3>5 DEF ConsumerInv
  <2> QED BY <2>8, <2>9
<1> QED BY <1>3, <1>4

(* ---------------------------- receive_result ---------------------------- *)

\* Rolling back only drops states.
LEMMA RolledContents ==
  ASSUME IsDatabase(db), NEW n \in Nat \ {0}
  PROVE  /\ IsDatabase(Rolled(n)) /\ Rolled(n).at[Rolled(n).base] = db.at[db.base]
         /\ \A r \in Rolled(n).base .. Rolled(n).rev :
              \E q \in db.base .. db.rev : Rolled(n).at[r] = db.at[q]
<1> DEFINE p == Prepared(n)
<1>1. /\ IsDatabase(p) /\ p.at[p.base] = db.at[db.base]
      /\ \A r \in p.base .. p.rev : \E q \in db.base .. db.rev : p.at[r] = db.at[q]
  <2>1. CASE p = db
    BY <2>1
  <2>2. CASE p # db
    <3>1. p = Opened(n - 1, Current(db)) /\ db.base = db.rev /\ n - 1 \in Nat
      BY <2>2 DEF Prepared, SetRevision, MaySetRevision, HasUndoSession, IsDatabase
    <3>2. /\ IsDatabase(p) /\ p.base = n - 1 /\ p.rev = n - 1 /\ p.at[n - 1] = db.at[db.base]
      BY <3>1, OpenedFacts DEF Current
    <3>3. /\ db.base \in db.base .. db.rev
          /\ \A r \in p.base .. p.rev : r = n - 1
      BY <3>1, <3>2 DEF IsDatabase
    <3> QED BY <3>2, <3>3
  <2> QED BY <2>1, <2>2
<1> HIDE DEF p
<1>2. CASE ~IsFork(n)
  BY <1>1, <1>2 DEF Rolled, p
<1>3. CASE IsFork(n)
  <2> DEFINE e == UndoTo(p, n - 1)
  <2>1. /\ IsDatabase(e) /\ e.base = p.base
        /\ \A i \in e.base .. e.rev : i \in p.base .. p.rev /\ e.at[i] = p.at[i]
    BY <1>1, UndoToFacts
  <2>2. Rolled(n) = e
    BY <1>3 DEF Rolled, p
  <2> HIDE DEF e
  <2>3. e.base \in e.base .. e.rev
    BY <2>1 DEF IsDatabase
  <2> QED BY <1>1, <2>1, <2>2, <2>3
<1> QED BY <1>2, <1>3

\* Where the block just received goes.
LEMMA ReceivedFacts ==
  ASSUME ConsumerEnvironment, ConsumerInv, NEW n \in 1..MaxBlock, Usable(n)
  PROVE  /\ n \in Nat /\ n > StartHead /\ n < EndBlock /\ phase = "reading"
         /\ forked_at_block = 0 /\ lib <= finalized
         /\ IsFork(n) => n > finalized /\ HasState(Current(db))
         /\ ~IsFork(n) => n = head + 1
         /\ HasState(Current(db)) => head = Len(Tip(db))
         /\ ~HasState(Current(db)) => head = StartHead
         /\ BlockId(n) \in Ids /\ Len(BlockId(n)) = n /\ BlockId(n) # <<>>
         /\ Front(BlockId(n)) = SubSeq(chain, 1, n - 1)
<1>1. /\ Environment /\ BranchInv /\ SafeInv /\ Result(n) /\ phase = "reading" /\ n = toSend
      /\ n \in Nat /\ n - 1 \in Nat /\ n < EndBlock
  BY NumbersAssumption
     DEF ConsumerEnvironment, ConsumerInv, BranchInv, Usable, Result, NodeHasResult
<1>2. /\ head \in Nat /\ lib \in Nat /\ finalized \in Nat /\ StartHead \in Nat
      /\ StartHead <= finalized /\ chain \in Ids /\ Len(chain) \in Nat
  BY <1>1, StateFacts
<1>3. /\ lib <= finalized /\ n <= head + 1 /\ (n <= head => n > finalized)
      /\ forked_at_block = 0
  BY <1>1 DEF SafeInv, LibOrder, Sending, Connected, ConsumerInv, AckInv
<1>4. HasState(Current(db)) => head = Len(Tip(db)) /\ Len(Tip(db)) > StartHead
  <2> SUFFICES ASSUME HasState(Current(db))
               PROVE  head = Len(Tip(db)) /\ Len(Tip(db)) > StartHead
    OBVIOUS
  <2>1. Current(Store) = Current(db) /\ db.rev \in db.base .. db.rev
    BY <1>1, StoreFacts DEF SafeInv, IsDatabase
  <2>2. head = Store.rev
    BY <1>1, <2>1 DEF SafeInv, Running
  <2>3. Len(Tip(db)) = Store.rev
    BY <1>1, StableFacts
  <2>4. Len(Tip(db)) > StartHead
    BY <2>1 DEF ConsumerInv, StartInv, Tip, Current
  <2> QED BY <2>2, <2>3, <2>4
<1>5. ~HasState(Current(db)) => n = head + 1 /\ head = StartHead
  BY <1>1, NextOfEmpty DEF StartHead
<1>6. (IsFork(n) => n > finalized /\ HasState(Current(db))) /\ (~IsFork(n) => n = head + 1)
  BY <1>1, <1>2, <1>3, <1>5 DEF IsFork
<1>7. n > StartHead
  BY <1>1, <1>2, <1>4, <1>5, <1>6
<1>8. n \in 0 .. Len(chain) /\ n - 1 \in 0 .. n
  BY <1>1, <1>2, RolledAligned
<1>9. BlockId(n) \in Ids /\ Len(BlockId(n)) = n
  BY <1>2, <1>8, IdPrefix DEF BlockId
<1>10. SubSeq(BlockId(n), 1, n - 1) = SubSeq(chain, 1, n - 1)
  BY <1>2, <1>8, PrefixOfPrefix DEF BlockId
<1>11. Len(<<>>) = 0
  BY EmptySeq
<1> QED BY <1>1, <1>3, <1>4, <1>5, <1>6, <1>7, <1>9, <1>10, <1>11 DEF Front

\* What the consumer will hold before the block: its parent, or nothing.
ParentHeld(n, e) ==
  LET below == IF IsFork(n) THEN Kept(e, n - 1) ELSE e
  IN below \in Ids /\ (below = <<>> \/ below = Front(BlockId(n)))

LEMMA ReceivedParent ==
  ASSUME ConsumerEnvironment, ConsumerInv, NEW n \in 1..MaxBlock, Usable(n),
         NEW e \in Ids, Pending(e)
  PROVE  /\ ParentHeld(n, e)
         /\ IsFork(n) => n - 1 <= Len(e)
         /\ ~IsFork(n) => Len(e) <= n - 1
<1>1. /\ n \in Nat /\ phase = "reading" /\ n - 1 \in Nat
      /\ IsFork(n) => HasState(Current(db))
      /\ ~IsFork(n) => n = head + 1
      /\ HasState(Current(db)) => head = Len(Tip(db))
      /\ ~HasState(Current(db)) => head = StartHead
      /\ Front(BlockId(n)) = SubSeq(chain, 1, n - 1)
  BY ReceivedFacts
<1>2. Environment /\ BranchInv /\ Alive /\ Following
  BY <1>1 DEF ConsumerEnvironment, ConsumerInv, Alive, Following
<1>3. CASE HasState(Current(db))
  <2>1. e = Tip(db) /\ n - 1 \in 0 .. Len(e) /\ SubSeq(e, 1, n - 1) = SubSeq(chain, 1, n - 1)
    <3>1. e = Tip(db)
      BY <1>1, <1>2, <1>3 DEF Pending
    <3> QED BY <1>2, <1>3, <3>1, RolledBranch
  <2>2. SubSeq(e, 1, n - 1) \in Ids /\ Len(e) \in Nat
    BY <2>1, IdPrefix, IdLen
  <2>3. CASE IsFork(n)
    <3>1. Min2(Len(e), n - 1) = n - 1
      BY <1>1, <2>1, <2>2 DEF Min2
    <3>2. Kept(e, n - 1) = SubSeq(e, 1, n - 1)
      BY <3>1 DEF Kept
    <3>3. ParentHeld(n, e)
      BY <1>1, <2>1, <2>2, <2>3, <3>2 DEF ParentHeld
    <3>4. n - 1 <= Len(e)
      BY <1>1, <2>1, <2>2
    <3> QED BY <2>3, <3>3, <3>4
  <2>4. CASE ~IsFork(n)
    <3>1. Len(e) = n - 1
      BY <1>1, <1>3, <2>1, <2>2, <2>4
    <3>2. e = SubSeq(e, 1, n - 1)
      BY <3>1, WholeId
    <3>3. ParentHeld(n, e)
      BY <1>1, <2>1, <2>2, <2>4, <3>2 DEF ParentHeld
    <3>4. Len(e) <= n - 1
      BY <1>1, <3>1
    <3> QED BY <2>4, <3>3, <3>4
  <2> QED BY <2>3, <2>4
<1>4. CASE ~HasState(Current(db))
  <2>1. ~IsFork(n) /\ StartHead = n - 1
    BY <1>1, <1>2, <1>4, StateFacts
  <2>2. e = <<>> \/ (e = SubSeq(chain, 1, n - 1) /\ Len(e) = n - 1)
    BY <1>2, <1>4, <2>1, StateFacts DEF Pending
  <2>3. Len(<<>>) = 0
    BY EmptySeq
  <2>4. Len(e) <= n - 1
    BY <1>1, <2>2, <2>3
  <2>5. ParentHeld(n, e)
    BY <1>1, <2>1, <2>2 DEF ParentHeld
  <2>6. ~IsFork(n)
    BY <2>1
  <2> QED BY <2>4, <2>5, <2>6
<1> QED BY <1>3, <1>4

\* The queue once the block is in it.
ReceivedEvents(n) == events \o ForkNotice(n) \o <<BlockEvent(BlockId(n))>>

LEMMA NoticeElements ==
  ASSUME ConsumerEnvironment, ConsumerInv, NEW n \in 1..MaxBlock, Usable(n),
         NEW ev, ev = events \o ForkNotice(n)
  PROVE  /\ ev \in Seq(Events) /\ Len(ev) \in Nat /\ DOMAIN ev = 1 .. Len(ev)
         /\ \A i \in DOMAIN events : i \in DOMAIN ev /\ ev[i] = events[i]
         /\ \A i \in DOMAIN ev : \/ i \in DOMAIN events
                                 \/ IsFork(n) /\ ev[i] = ForkEvent(n, "network")
<1> DEFINE x == ForkEvent(n, "network")
<1>1. /\ events \in Seq(Events) /\ Len(events) \in Nat /\ DOMAIN events = 1 .. Len(events)
      /\ n \in Nat
  BY ReceivedFacts, StateFacts DEF ConsumerEnvironment, ConsumerInv
<1>2. x \in Events
  BY <1>1, NumbersAssumption DEF ForkEvent, Events, ForkEvents
<1>3. ev = IF IsFork(n) THEN events \o <<x>> ELSE events
  BY <1>1, ConcatEmptySeq DEF ForkNotice
<1> HIDE DEF x
<1>4. CASE IsFork(n)
  <2>1. /\ ev \in Seq(Events) /\ Len(ev) = Len(events) + 1
        /\ \A i \in 1 .. Len(events) : ev[i] = events[i]
        /\ ev[Len(events) + 1] = x
    BY <1>1, <1>2, <1>3, <1>4, AppendEvent
  <2>2. /\ \A i \in 1 .. Len(events) + 1 : i \in 1 .. Len(events) \/ i = Len(events) + 1
        /\ \A i \in 1 .. Len(events) : i \in 1 .. Len(events) + 1
        /\ Len(events) + 1 \in Nat
    BY <1>1
  <2>3. DOMAIN ev = 1 .. Len(ev)
    BY <2>1, LenProperties
  <2> QED BY <1>1, <1>4, <2>1, <2>2, <2>3 DEF x
<1>5. CASE ~IsFork(n)
  BY <1>1, <1>3, <1>5
<1> QED BY <1>4, <1>5

LEMMA ReceivedElements ==
  ASSUME ConsumerEnvironment, ConsumerInv, NEW n \in 1..MaxBlock, Usable(n)
  PROVE  /\ DOMAIN ReceivedEvents(n) = 1 .. Len(ReceivedEvents(n))
         /\ \A i \in DOMAIN events : i \in DOMAIN ReceivedEvents(n) /\ ReceivedEvents(n)[i] = events[i]
         /\ \A i \in DOMAIN ReceivedEvents(n) :
              \/ i \in DOMAIN events
              \/ IsFork(n) /\ ReceivedEvents(n)[i] = ForkEvent(n, "network")
              \/ ReceivedEvents(n)[i] = BlockEvent(BlockId(n))
<1> DEFINE x == ForkEvent(n, "network")
           y == BlockEvent(BlockId(n))
           ev == events \o ForkNotice(n)
           all == ReceivedEvents(n)
<1>1. n \in Nat /\ BlockId(n) \in Ids /\ Len(BlockId(n)) = n
  BY ReceivedFacts
<1>2. y \in Events
  BY <1>1, NumbersAssumption DEF BlockEvent, Events, BlockEvents, BlockNums
<1>3. all = ev \o <<y>>
  BY DEF ReceivedEvents
<1> HIDE DEF all, x, y
<1>4. /\ ev \in Seq(Events) /\ Len(ev) \in Nat /\ DOMAIN ev = 1 .. Len(ev)
      /\ \A i \in DOMAIN events : i \in DOMAIN ev /\ ev[i] = events[i]
      /\ \A i \in DOMAIN ev : i \in DOMAIN events \/ (IsFork(n) /\ ev[i] = x)
  BY NoticeElements DEF x
<1> HIDE DEF ev
<1>5. /\ all \in Seq(Events) /\ Len(all) = Len(ev) + 1
      /\ \A i \in 1 .. Len(ev) : all[i] = ev[i]
      /\ all[Len(ev) + 1] = y
  BY <1>2, <1>3, <1>4, AppendEvent
<1>6. DOMAIN all = 1 .. Len(all)
  BY <1>5, LenProperties
<1>7. \A i \in 1 .. Len(ev) : i \in 1 .. Len(all)
  BY <1>4, <1>5
<1>8. \A i \in 1 .. Len(all) : i \in 1 .. Len(ev) \/ i = Len(ev) + 1
  BY <1>4, <1>5
<1>9. \A i \in DOMAIN events : i \in DOMAIN all /\ all[i] = events[i]
  BY <1>4, <1>5, <1>6, <1>7
<1>10. \A i \in DOMAIN all : i \in DOMAIN events \/ (IsFork(n) /\ all[i] = x) \/ all[i] = y
  BY <1>4, <1>5, <1>6, <1>8
<1> QED BY <1>6, <1>9, <1>10 DEF all, x, y

\* The FORK event, if any, makes the consumer drop what the block replaces.
LEMMA NoticeFollows ==
  ASSUME ConsumerEnvironment, ConsumerInv, NEW n \in 1..MaxBlock, Usable(n),
         NEW e \in Ids, Pending(e), NEW ev, ev = events \o ForkNotice(n)
  PROVE  LET below == IF IsFork(n) THEN Kept(e, n - 1) ELSE e
         IN below \in Ids /\ Follows(ev, view, below)
<1> DEFINE below == IF IsFork(n) THEN Kept(e, n - 1) ELSE e
<1>1. /\ events \in Seq(Events) /\ view \in Ids /\ Follows(events, view, e)
      /\ n \in Nat /\ n - 1 \in Nat /\ n \in 1 .. MaxBlock + 1
  BY NumbersAssumption, StateFacts DEF ConsumerEnvironment, ConsumerInv, Pending
<1>2. below \in Ids /\ (IsFork(n) => n - 1 <= Len(e))
  BY ReceivedParent DEF ParentHeld
<1>3. /\ IsFork(n) => ev = events \o <<ForkEvent(n, "network")>>
      /\ ~IsFork(n) => ev = events
  BY <1>1, ConcatEmptySeq DEF ForkNotice
<1>4. Follows(ev, view, below)
  BY <1>1, <1>2, <1>3, FollowsFork
<1> QED BY <1>2, <1>4

LEMMA ReceivedFollows ==
  ASSUME ConsumerEnvironment, ConsumerInv, NEW n \in 1..MaxBlock, Usable(n),
         NEW e \in Ids, Pending(e)
  PROVE  /\ Follows(ReceivedEvents(n), view, BlockId(n))
         /\ Answered(ReceivedEvents(n), BlockId(n))
<1> DEFINE id == BlockId(n)
           ev == events \o ForkNotice(n)
           below == IF IsFork(n) THEN Kept(e, n - 1) ELSE e
<1>0. phase = "reading" /\ Following
  BY ReceivedFacts DEF Following
<1>1. /\ events \in Seq(Events) /\ view \in Ids /\ ev \in Seq(Events)
      /\ n \in Nat /\ n - 1 \in Nat /\ n \in 1 .. MaxBlock + 1
      /\ id \in Ids /\ id # <<>> /\ Len(id) = n /\ Len(e) \in Nat
      /\ Answered(events, e)
  <2>1. events \in Seq(Events) /\ view \in Ids /\ ev \in Seq(Events)
    BY NoticeElements, StateFacts DEF ConsumerEnvironment, ConsumerInv
  <2>2. /\ n \in Nat /\ n - 1 \in Nat /\ n \in 1 .. MaxBlock + 1
        /\ id \in Ids /\ id # <<>> /\ Len(id) = n /\ Len(e) \in Nat
    BY NumbersAssumption, ReceivedFacts, IdLen
  <2>3. Answered(events, e)
    BY <1>0 DEF Pending
  <2> QED BY <2>1, <2>2, <2>3
<1>2. /\ below \in Ids /\ (below = <<>> \/ below = Front(id))
      /\ ~IsFork(n) => Len(e) <= n - 1
  BY ReceivedParent DEF ParentHeld
<1>3. /\ IsFork(n) => ev = events \o <<ForkEvent(n, "network")>>
      /\ ~IsFork(n) => ev = events
  BY <1>1, ConcatEmptySeq DEF ForkNotice
<1>4. BlockEvent(id) \in Events /\ ~IsNetwork(BlockEvent(id))
  BY <1>1, NumbersAssumption
     DEF BlockEvent, Events, BlockEvents, BlockNums, IsNetwork, IsForkEvent
<1>5. ReceivedEvents(n) = ev \o <<BlockEvent(id)>>
  BY DEF ReceivedEvents
<1>6. Follows(ev, view, below)
  BY NoticeFollows
<1> HIDE DEF id, ev
<1>7. Follows(ev \o <<BlockEvent(id)>>, view, id)
  <2> HIDE DEF below
  <2> QED BY <1>1, <1>2, <1>6, FollowsBlock
<1>8. Answered(ev \o <<BlockEvent(id)>>, id)
  <2>1. CASE IsFork(n)
    <3>0. n <= Len(id)
      BY <1>1
    <3>1. Answered(events \o <<ForkEvent(n, "network")>>, id)
      BY <1>1, <3>0, AnsweredFork
    <3>2. Answered(ev, id)
      BY <1>3, <2>1, <3>1
    <3> QED BY <1>1, <1>4, <3>2, AnsweredEvent
  <2>2. CASE ~IsFork(n)
    <3>1. Answered(ev, e) /\ Len(e) <= Len(id)
      BY <1>1, <1>2, <1>3, <2>2
    <3> QED BY <1>1, <1>4, <3>1, AnsweredEvent
  <2> QED BY <2>1, <2>2
<1> QED BY <1>5, <1>7, <1>8 DEF id

\* No FORK event is queued for a block that is final and acknowledged.
LEMMA AckedStays ==
  ASSUME ConsumerEnvironment, ConsumerInv, NEW n \in 1..MaxBlock, Usable(n),
         NEW m \in Nat, m > StartHead, m <= lib, m <= AckedAfter(n)
  PROVE  /\ m \in 1 .. Len(view) /\ m <= exporter_acked_block
         /\ \A i \in DOMAIN events : IsForkEvent(events[i]) => ~(events[i].num <= m)
         /\ \A i \in DOMAIN ReceivedEvents(n) :
              IsForkEvent(ReceivedEvents(n)[i]) => ~(ReceivedEvents(n)[i].num <= m)
<1>1. /\ Environment /\ BranchInv /\ WillAck /\ Alive /\ phase = "reading" /\ lib <= finalized
      /\ IsFork(n) => n > finalized
      /\ n \in Nat
  BY ReceivedFacts DEF ConsumerEnvironment, ConsumerInv, Alive
<1>2. /\ Len(view) \in Nat /\ exporter_acked_block \in Nat /\ StartHead \in Nat
      /\ lib \in Nat /\ finalized \in Nat
      /\ \A i \in DOMAIN events : events[i].num \in Nat
  BY <1>1, StateFacts
<1>3. m <= exporter_acked_block
  BY <1>1, <1>2 DEF AckedAfter, Min2
<1>4. m \in 1 .. Len(view)
  <2>1. exporter_acked_block <= Len(view) \/ exporter_acked_block <= StartHead
    BY <1>1 DEF ConsumerInv, AckInv
  <2> QED BY <1>2, <1>3, <2>1
<1>5. ASSUME NEW i \in DOMAIN events, IsForkEvent(events[i]) PROVE ~(events[i].num <= m)
  <2>1. CASE IsNetwork(events[i])
    <3>1. events[i].num > finalized
      BY <2>1 DEF ConsumerInv, ForksInv
    <3> QED BY <1>1, <1>2, <3>1
  <2>2. CASE ~IsNetwork(events[i])
    <3>1. NoticeFits(events[i].num)
      BY <1>5, <2>2 DEF IsNetwork, IsNotice, ConsumerInv, NoticesInv
    <3>2. exporter_acked_block <= events[i].num - 1
      BY <1>1, <3>1 DEF NoticeFits
    <3> QED BY <1>2, <1>3, <3>2
  <2> QED BY <2>1, <2>2
<1>6. ASSUME NEW i \in DOMAIN ReceivedEvents(n), IsForkEvent(ReceivedEvents(n)[i])
      PROVE  ~(ReceivedEvents(n)[i].num <= m)
  <2>1. CASE i \in DOMAIN events
    BY <1>5, <1>6, <2>1, ReceivedElements
  <2>2. CASE IsFork(n) /\ ReceivedEvents(n)[i] = ForkEvent(n, "network")
    <3>1. ReceivedEvents(n)[i].num = n /\ n > finalized
      BY <1>1, <2>2 DEF ForkEvent
    <3> QED BY <1>1, <1>2, <3>1
  <2>3. CASE ReceivedEvents(n)[i] = BlockEvent(BlockId(n))
    BY <1>6, <2>3 DEF BlockEvent, IsForkEvent
  <2> QED BY <2>1, <2>2, <2>3, ReceivedElements
<1> QED BY <1>3, <1>4, <1>5, <1>6

\* The block just received is not acknowledged already.
LEMMA NotAckedYet ==
  ASSUME ConsumerEnvironment, ConsumerInv, NEW n \in 1..MaxBlock, Usable(n)
  PROVE  ~(n <= lib /\ n <= AckedAfter(n))
<1> SUFFICES ASSUME n <= lib, n <= AckedAfter(n) PROVE FALSE OBVIOUS
<1>1. n \in Nat /\ n > StartHead /\ lib \in Nat /\ view \in Ids /\ events \in Seq(Events)
  BY ReceivedFacts, StateFacts DEF ConsumerEnvironment, ConsumerInv
<1>2. ~IsFork(n)
  BY <1>1 DEF IsFork
<1>3. PICK e \in Ids : Pending(e)
  BY DEF ConsumerInv, QueueInv
<1>4. Len(e) <= n - 1 /\ Len(e) \in Nat
  BY <1>2, <1>3, ReceivedParent, IdLen
<1>5. /\ n \in 1 .. Len(view)
      /\ \A i \in DOMAIN events : IsForkEvent(events[i]) => ~(events[i].num <= n)
  BY <1>1, AckedStays
<1>6. Agree(view, e, n)
  BY <1>1, <1>3, <1>5, FollowsKeeps DEF Pending
<1> QED BY <1>1, <1>4, <1>6 DEF Agree

\* What the block's transaction, and the commit after it, leave in the database.
LEMMA ReceivedStore ==
  ASSUME ConsumerEnvironment, ConsumerInv, NEW n \in 1..MaxBlock, Usable(n)
  PROVE  LET d == commit_db(StoredBlock(n), lib, AckedAfter(n))
         IN /\ IsDatabase(d) /\ d.base < d.rev /\ d.rev = n
            /\ Tip(d) = BlockId(n) /\ HasState(Current(d))
            /\ \A r \in d.base .. d.rev : HasState(d.at[r]) => Len(d.at[r].head_id) > StartHead
            /\ HasState(d.at[d.base]) => IsPrefix(Stable(d), view)
            /\ Len(Stable(d)) <= Len(Stable(db)) \/ Len(Stable(d)) <= exporter_acked_block
<1> DEFINE c == CommitRev(lib, AckedAfter(n))
           p == StoredBlock(n)
           d == commit_db(p, lib, AckedAfter(n))
<1>1. /\ Environment /\ BranchInv /\ SafeInv /\ WillAck /\ IsDatabase(db)
      /\ n \in Nat \ {0} /\ n > StartHead /\ n - 1 \in Nat
      /\ BlockId(n) \in Ids /\ Len(BlockId(n)) = n
  BY ReceivedFacts, StateFacts DEF ConsumerEnvironment, ConsumerInv, BranchInv
<1>2. /\ view \in Ids /\ Len(view) \in Nat /\ exporter_acked_block \in Nat /\ lib \in Nat
      /\ StartHead \in Nat /\ finalized \in Nat
  BY <1>1, StateFacts
<1>3. c \in Nat /\ c <= lib /\ c <= AckedAfter(n)
  BY <1>1, <1>2 DEF CommitRev, AckedAfter, Min2
<1>4. /\ Aligned(d, finalized) /\ d.rev = n /\ Current(d) = SavedTables(n)
      /\ Rolled(n).rev = n - 1
  BY <1>1, StoredAligned, RolledAligned
<1>5. /\ IsDatabase(Rolled(n)) /\ Rolled(n).at[Rolled(n).base] = db.at[db.base]
      /\ \A r \in Rolled(n).base .. Rolled(n).rev :
           \E q \in db.base .. db.rev : Rolled(n).at[r] = db.at[q]
  BY <1>1, RolledContents
<1>6. /\ IsDatabase(p) /\ p.base = Rolled(n).base /\ p.rev = n
      /\ \A r \in Rolled(n).base .. n - 1 : p.at[r] = Rolled(n).at[r]
      /\ p.at[n] = SavedTables(n)
  <2>1. Rolled(n).rev + 1 = n
    BY <1>1, <1>4
  <2> QED BY <1>4, <1>5, <2>1, PushSessionFacts DEF StoredBlock
<1>7. /\ IsDatabase(d) /\ p.base <= d.base /\ (d.base <= c \/ d.base = p.base)
      /\ \A r \in d.base .. d.rev : r \in p.base .. p.rev /\ d.at[r] = p.at[r]
  BY <1>3, <1>6, CommitFacts DEF commit_db
<1> HIDE DEF c, d, p
<1>8. d.base < d.rev
  <2>1. p.base <= n - 1
    BY <1>4, <1>5, <1>6 DEF IsDatabase
  <2>2. ~(n <= c)
    BY <1>1, <1>2, <1>3, NotAckedYet DEF AckedAfter, Min2
  <2>3. d.base \in Nat /\ d.rev = n /\ d.base <= n
    BY <1>4, <1>7 DEF IsDatabase
  <2>4. d.base # n
    BY <1>1, <1>3, <1>7, <2>1, <2>2, <2>3
  <2> QED BY <1>1, <2>3, <2>4
<1>9. Tip(d) = BlockId(n) /\ HasState(Current(d))
  BY <1>1, <1>4 DEF Tip, HasState, SavedTables
<1>10. ASSUME NEW r \in d.base .. d.rev, HasState(d.at[r])
       PROVE  Len(d.at[r].head_id) > StartHead
  <2>1. r \in p.base .. n /\ d.at[r] = p.at[r] /\ r \in Int
    BY <1>6, <1>7
  <2>2. CASE r = n
    BY <1>1, <1>6, <2>1, <2>2 DEF SavedTables
  <2>3. CASE r # n
    <3>1. r \in Rolled(n).base .. Rolled(n).rev /\ r \in Rolled(n).base .. n - 1
      BY <1>1, <1>4, <1>5, <1>6, <2>1, <2>3 DEF IsDatabase
    <3>2. PICK q \in db.base .. db.rev : Rolled(n).at[r] = db.at[q]
      BY <1>5, <3>1
    <3>3. d.at[r] = db.at[q]
      BY <1>6, <2>1, <3>1, <3>2
    <3> QED BY <1>10, <3>3 DEF ConsumerInv, StartInv
  <2> QED BY <2>2, <2>3
<1>11. d.base \in d.base .. d.rev /\ d.base \in Nat
  BY <1>7 DEF IsDatabase
<1>12. CASE d.base = p.base
  <2>1. d.base \in Rolled(n).base .. n - 1
    BY <1>1, <1>4, <1>6, <1>8, <1>11, <1>12
  <2>2. d.at[d.base] = db.at[db.base]
    BY <1>5, <1>6, <1>7, <1>11, <1>12, <2>1
  <2>3. Stable(d) = Stable(db)
    BY <2>2 DEF Stable
  <2>4. HasState(d.at[d.base]) => IsPrefix(Stable(d), view)
    BY <2>2, <2>3 DEF ConsumerInv, SeenInv
  <2>5. Len(Stable(d)) <= Len(Stable(db))
    <3>1. Len(Stable(db)) \in Nat
      BY <1>1, StableFacts
    <3> QED BY <2>3, <3>1
  <2> QED BY <1>4, <1>7, <1>8, <1>9, <1>10, <2>4, <2>5 DEF d, p
<1>13. CASE d.base # p.base /\ HasState(d.at[d.base])
  <2>1. Stable(d) = SubSeq(BlockId(n), 1, d.base) /\ Len(Stable(d)) = d.base
    <3>1. Revision(d, d.base, finalized)
      BY <1>4, <1>11 DEF Aligned
    <3> QED BY <1>9, <1>13, <3>1 DEF Revision, StateOfRevision, Stable, Tip, Current
  <2>2. d.base > StartHead
    BY <1>10, <1>11, <1>13, <2>1 DEF Stable
  <2>3. d.base <= c
    BY <1>7, <1>13
  <2>4. d.base <= lib /\ d.base <= AckedAfter(n)
    BY <1>2, <1>3, <1>11, <2>3 DEF AckedAfter, Min2
  <2>5. /\ d.base \in 1 .. Len(view) /\ d.base <= exporter_acked_block
        /\ \A i \in DOMAIN ReceivedEvents(n) :
             IsForkEvent(ReceivedEvents(n)[i]) => ~(ReceivedEvents(n)[i].num <= d.base)
    BY <1>11, <2>2, <2>4, AckedStays
  <2>6. PICK e \in Ids : Pending(e)
    BY DEF ConsumerInv, QueueInv
  <2>7. Follows(ReceivedEvents(n), view, BlockId(n)) /\ ReceivedEvents(n) \in Seq(Events)
    <3>1. BlockEvent(BlockId(n)) \in Events
      BY <1>1, NumbersAssumption DEF BlockEvent, Events, BlockEvents, BlockNums
    <3>2. events \o ForkNotice(n) \in Seq(Events)
      BY NoticeElements
    <3>3. ReceivedEvents(n) \in Seq(Events)
      BY <3>1, <3>2, AppendEvent DEF ReceivedEvents
    <3> QED BY <2>6, <3>3, ReceivedFollows
  <2>8. Agree(view, BlockId(n), d.base)
    BY <1>1, <1>2, <2>5, <2>7, FollowsKeeps
  <2>9. Stable(d) = SubSeq(view, 1, d.base)
    BY <2>1, <2>8 DEF Agree
  <2>10. d.base \in 0 .. Len(view)
    BY <2>5
  <2>11. IsPrefix(Stable(d), view)
    BY <1>2, <2>9, <2>10, SubSeqIsPrefix
  <2>12. Len(Stable(d)) <= exporter_acked_block
    BY <2>1, <2>5
  <2> QED BY <1>4, <1>7, <1>8, <1>9, <1>10, <2>11, <2>12 DEF d, p
<1>14. CASE ~HasState(d.at[d.base])
  <2>1. Stable(d) = <<>> /\ Len(<<>>) = 0
    <3>1. Revision(d, d.base, finalized)
      BY <1>4, <1>11 DEF Aligned
    <3> QED BY <1>14, <3>1, EmptySeq DEF Revision, EmptyTables, Stable
  <2>2. Len(Stable(d)) <= exporter_acked_block
    BY <1>2, <2>1
  <2> QED BY <1>4, <1>7, <1>8, <1>9, <1>10, <1>14, <2>2 DEF d, p
<1> QED BY <1>12, <1>13, <1>14

\* What a block leaves on the consumer's side, completed or not.
LEMMA ReceivedRest ==
  ASSUME ConsumerEnvironment, ConsumerInv, NEW n \in 1..MaxBlock, Usable(n),
         UNCHANGED <<chain, lib, finalized, view>>, Alive',
         forked_at_block' = ForkedAfter(n), exporter_acked_block' = AckedAfter(n),
         DOMAIN events' = 1 .. Len(events'),
         \A i \in DOMAIN events : i \in DOMAIN events' /\ events'[i] = events[i],
         \A i \in DOMAIN events' : \/ i \in DOMAIN events
                                   \/ IsFork(n) /\ events'[i] = ForkEvent(n, "network")
                                   \/ events'[i] = BlockEvent(BlockId(n)),
         db'.base < db'.rev, db'.rev < EndBlock, Len(Stable(db')) \in Nat,
         \A r \in db'.base .. db'.rev :
           HasState(db'.at[r]) => Len(db'.at[r].head_id) > StartHead,
         HasState(db'.at[db'.base]) => IsPrefix(Stable(db'), view),
         Len(Stable(db')) <= Len(Stable(db)) \/ Len(Stable(db')) <= exporter_acked_block,
         db'.base \in Nat, db'.rev \in Nat
  PROVE  /\ ForksInv' /\ NoticesInv' /\ StartInv' /\ SeenInv' /\ RestInv' /\ EndInv'
         /\ forked_at_block' > 0 => exporter_acked_block' < forked_at_block'
         /\ exporter_acked_block' <= Len(view') \/ exporter_acked_block' <= StartHead
<1> DEFINE id == BlockId(n)
<1>1. WillAck /\ Environment /\ BranchInv
  BY DEF ConsumerEnvironment, ConsumerInv
<1>2. /\ n \in Nat /\ n > StartHead /\ n < EndBlock /\ phase = "reading" /\ Alive
      /\ forked_at_block = 0 /\ lib <= finalized
      /\ IsFork(n) => n > finalized
      /\ id \in Ids /\ Len(id) = n
  BY ReceivedFacts DEF Alive
<1>3. /\ exporter_acked_block \in Nat /\ StartHead \in Nat /\ lib \in Nat /\ finalized \in Nat
      /\ EndBlock \in Nat /\ view \in Ids /\ Len(view) \in Nat /\ chain \in Ids
      /\ Len(chain) \in Nat
      /\ DOMAIN events = 1 .. Len(events) /\ Len(events) \in Nat
      /\ \A i \in DOMAIN events : events[i].num \in Nat
  BY <1>1, StateFacts
<1> HIDE DEF id
<1>5. /\ AckedAfter(n) \in Nat /\ AckedAfter(n) <= exporter_acked_block
      /\ ForkedAfter(n) \in {0, n}
      /\ ForkedAfter(n) > 0 => AckedAfter(n) < n
  BY <1>1, <1>2, <1>3 DEF AckedAfter, ForkedAfter, Min2
<1>9. \A i \in DOMAIN events' : \/ i \in DOMAIN events
                                \/ IsFork(n) /\ events'[i] = ForkEvent(n, "network")
                                \/ events'[i] = BlockEvent(id)
  BY DEF id
<1>11. ForksInv'
  <2>1. ASSUME NEW i \in DOMAIN events', IsNetwork(events'[i]) PROVE events'[i].num > finalized
    <3>1. CASE i \in DOMAIN events
      BY <1>9, <2>1, <3>1 DEF ConsumerInv, ForksInv
    <3>2. CASE IsFork(n) /\ events'[i] = ForkEvent(n, "network")
      BY <1>2, <3>2 DEF ForkEvent
    <3>3. CASE events'[i] = BlockEvent(id)
      BY <2>1, <3>3 DEF BlockEvent, IsNetwork, IsForkEvent
    <3> QED BY <1>9, <3>1, <3>2, <3>3
  <2> QED BY <2>1 DEF ForksInv
<1>12. NoticesInv'
  <2>1. ASSUME NEW m \in Nat, NoticeFits(m) PROVE NoticeFits(m)'
    <3>1. /\ Len(Stable(db)) <= m - 1 /\ StartHead <= m - 1
          /\ m < EndBlock \/ m = StartHead + 1
          /\ exporter_acked_block <= m - 1
          /\ forked_at_block = m \/ Len(view) <= m - 1
      BY <1>2, <2>1 DEF NoticeFits
    <3>2. Len(Stable(db)) \in Nat
      BY <1>1, StableFacts
    <3>3. Len(Stable(db')) <= m - 1
      BY <1>3, <3>1, <3>2
    <3>4. Len(view) <= m - 1 /\ AckedAfter(n) <= m - 1
      BY <1>2, <1>3, <1>5, <3>1
    <3> QED BY <1>5, <3>1, <3>3, <3>4 DEF NoticeFits
  <2>2. ASSUME NEW i \in DOMAIN events', IsNotice(events'[i])
        PROVE  /\ \A j \in 1 .. i : IsNotice(events'[j]) /\ events'[j].num = events'[i].num
               /\ NoticeFits(events'[i].num) /\ events'[i].num \in Nat
    <3>1. i \in DOMAIN events
      BY <1>9, <2>2 DEF BlockEvent, ForkEvent, IsNotice, IsForkEvent
    <3>2. \A j \in 1 .. i : j \in DOMAIN events
      BY <1>3, <3>1
    <3>3. /\ \A j \in 1 .. i : IsNotice(events[j]) /\ events[j].num = events[i].num
          /\ NoticeFits(events[i].num)
      BY <1>9, <2>2, <3>1 DEF ConsumerInv, NoticesInv
    <3> QED BY <1>3, <1>9, <3>1, <3>2, <3>3
  <2>3. ASSUME NEW i \in DOMAIN events', IsNotice(events'[i])
        PROVE  NoticeFits(events[i].num)'
    <3>1. ASSUME NEW m \in Nat, m = events'[i].num PROVE NoticeFits(m)'
      BY <2>1, <2>2, <2>3, <3>1
    <3>2. events'[i].num \in Nat
      BY <2>2, <2>3
    <3> QED BY <3>1, <3>2 DEF NoticeFits
  <2> QED BY <2>2, <2>3 DEF NoticesInv
<1>13. /\ forked_at_block' > 0 => exporter_acked_block' < forked_at_block'
       /\ exporter_acked_block' <= Len(view') \/ exporter_acked_block' <= StartHead
  <2>1. exporter_acked_block <= Len(view) \/ exporter_acked_block <= StartHead
    BY <1>2 DEF ConsumerInv, AckInv
  <2> QED BY <1>2, <1>3, <1>5, <2>1
<1>14. StartInv'
  <2>1. ExtendsStart(id)
    <3>1. n \in 0 .. Len(chain) /\ StartHead \in 0 .. n
      BY <1>1, <1>2, <1>3, RolledAligned DEF BranchInv
    <3>2. SubSeq(id, 1, StartHead) = SubSeq(chain, 1, StartHead)
      BY <1>3, <3>1, PrefixOfPrefix DEF id, BlockId
    <3> QED BY <1>2, <1>3, <3>2 DEF ExtendsStart
  <2>2. ASSUME NEW i \in DOMAIN events', ~IsForkEvent(events'[i])
        PROVE  ExtendsStart(events'[i].id)
    <3>1. CASE i \in DOMAIN events
      BY <1>9, <2>2, <3>1 DEF ConsumerInv, StartInv
    <3>2. CASE events'[i] = BlockEvent(id)
      BY <2>1, <3>2 DEF BlockEvent
    <3>3. events'[i] # ForkEvent(n, "network")
      BY <2>2 DEF ForkEvent, IsForkEvent
    <3> QED BY <1>9, <3>1, <3>2, <3>3
  <2>3. \A i \in DOMAIN events' : ~IsForkEvent(events'[i]) => ExtendsStart(events[i].id)'
    BY <2>2 DEF ExtendsStart
  <2>4. (view = <<>> \/ ExtendsStart(view))'
    BY DEF ConsumerInv, StartInv, ExtendsStart
  <2> QED BY <2>3, <2>4 DEF StartInv
<1>15. SeenInv' /\ RestInv' /\ EndInv'
  BY DEF SeenInv, RestInv, EndInv
<1> QED BY <1>11, <1>12, <1>13, <1>14, <1>15

LEMMA BlockStoredConsumer ==
  ASSUME ConsumerEnvironment, ConsumerInv, BranchInv', NEW n \in 1..MaxBlock, BlockStored(n),
         UNCHANGED <<chain, lib, finalized, view>>
  PROVE  ConsumerInv'
<1> DEFINE d == commit_db(StoredBlock(n), lib, AckedAfter(n))
           id == BlockId(n)
<1>1. /\ Usable(n) /\ WillAck /\ Environment /\ BranchInv
      /\ events' = ReceivedEvents(n)
      /\ continue_read(d, n, id, lib, AckedAfter(n), ForkedAfter(n))
  BY DEF BlockStored, Stored, ReceivedEvents, StoredBlock, ConsumerEnvironment, ConsumerInv
<1>2. /\ n \in Nat /\ n < EndBlock /\ EndBlock \in Nat /\ lib \in Nat
      /\ exporter_acked_block \in Nat /\ id \in Ids
  BY <1>1, ReceivedFacts, StateFacts
<1>4. /\ IsDatabase(d) /\ d.base < d.rev /\ d.rev = n
      /\ Tip(d) = id /\ HasState(Current(d))
      /\ \A r \in d.base .. d.rev : HasState(d.at[r]) => Len(d.at[r].head_id) > StartHead
      /\ HasState(d.at[d.base]) => IsPrefix(Stable(d), view)
      /\ Len(Stable(d)) <= Len(Stable(db)) \/ Len(Stable(d)) <= exporter_acked_block
  BY <1>1, ReceivedStore
<1>5. Len(Stable(d)) \in Nat
  BY <1>1, StoredBranch, EndsFacts, IdLen
<1> HIDE DEF d, id
<1>6. ~ReachedEnd(n, lib, AckedAfter(n))
  BY <1>1, <1>2, NotAckedYet DEF ReachedEnd
<1>7. /\ phase' = IF MustPause(n, AckedAfter(n), ForkedAfter(n), slowdown_requested, Len(events'))
                  THEN "paused" ELSE "reading"
      /\ db' = d /\ forked_at_block' = ForkedAfter(n) /\ exporter_acked_block' = AckedAfter(n)
  BY <1>1, <1>6 DEF continue_read
<1>8. /\ phase' \in {"paused", "reading"} /\ (phase' = "reading" => forked_at_block' = 0)
      /\ Alive' /\ Following'
  <2>1. ForkedAfter(n) \in {0, n} /\ forked_at_block = 0
    BY <1>1, ReceivedFacts DEF ForkedAfter
  <2> QED BY <1>1, <1>2, <1>7, <2>1 DEF MustPause, Alive, Following
<1>9. QueueInv'
  <2>1. PICK e \in Ids : Pending(e)
    BY DEF ConsumerInv, QueueInv
  <2>2. Follows(events', view', id) /\ Answered(events', id)
    BY <1>1, <2>1, ReceivedFollows DEF id
  <2>3. ASSUME NEW t \in Ids, t = id PROVE Pending(t)'
    BY <1>4, <1>7, <2>2, <2>3 DEF Pending
  <2> QED BY <1>2, <2>3 DEF QueueInv
<1>10. /\ ForksInv' /\ NoticesInv' /\ StartInv' /\ SeenInv' /\ RestInv' /\ EndInv'
       /\ forked_at_block' > 0 => exporter_acked_block' < forked_at_block'
       /\ exporter_acked_block' <= Len(view') \/ exporter_acked_block' <= StartHead
  <2>1. /\ DOMAIN events' = 1 .. Len(events')
        /\ \A i \in DOMAIN events : i \in DOMAIN events' /\ events'[i] = events[i]
        /\ \A i \in DOMAIN events' : \/ i \in DOMAIN events
                                     \/ IsFork(n) /\ events'[i] = ForkEvent(n, "network")
                                     \/ events'[i] = BlockEvent(BlockId(n))
    BY <1>1, ReceivedElements
  <2>2. d.base \in Nat /\ d.rev \in Nat
    BY <1>4 DEF IsDatabase
  <2> QED BY <1>1, <1>2, <1>4, <1>5, <1>7, <1>8, <2>1, <2>2, ReceivedRest
<1>11. AckInv'
  BY <1>8, <1>10 DEF AckInv
<1> QED BY <1>9, <1>10, <1>11 DEF ConsumerInv

\* An exception after the FORK event leaves the blocks it replaces to be dropped,
\* and an undo session that the next process reverts.
LEMMA RejectedConsumer ==
  ASSUME ConsumerEnvironment, ConsumerInv, BranchInv', NEW n \in 1..MaxBlock, Usable(n),
         phase' = "closed", events' = events \o ForkNotice(n),
         forked_at_block' = ForkedAfter(n), exporter_acked_block' = AckedAfter(n),
         UNCHANGED <<chain, lib, finalized, view>>,
         db'.base < db'.rev, db'.rev < EndBlock, Len(Stable(db')) \in Nat,
         \A r \in db'.base .. db'.rev :
           HasState(db'.at[r]) => Len(db'.at[r].head_id) > StartHead,
         HasState(db'.at[db'.base]) => IsPrefix(Stable(db'), view),
         Len(Stable(db')) <= Len(Stable(db)) \/ Len(Stable(db')) <= exporter_acked_block
  PROVE  ConsumerInv'
<1>1. Alive' /\ ~Following' /\ db'.base # db'.rev /\ db'.base \in Nat /\ db'.rev \in Nat
  BY DEF Alive, Following, BranchInv, SafeInv, TypeOK, DbOK, IsDatabase
<1>2. QueueInv'
  <2>1. PICK e \in Ids : Pending(e)
    BY DEF ConsumerInv, QueueInv
  <2> DEFINE below == IF IsFork(n) THEN Kept(e, n - 1) ELSE e
  <2>2. below \in Ids /\ Follows(events', view, below)
    BY <2>1, NoticeFollows
  <2> HIDE DEF below
  <2>3. ASSUME NEW t \in Ids, t = below PROVE Pending(t)'
    BY <1>1, <2>2, <2>3 DEF Pending
  <2> QED BY <2>2, <2>3 DEF QueueInv
<1>3. /\ ForksInv' /\ NoticesInv' /\ StartInv' /\ SeenInv' /\ RestInv' /\ EndInv'
      /\ forked_at_block' > 0 => exporter_acked_block' < forked_at_block'
      /\ exporter_acked_block' <= Len(view') \/ exporter_acked_block' <= StartHead
  <2>1. /\ DOMAIN events' = 1 .. Len(events')
        /\ \A i \in DOMAIN events : i \in DOMAIN events' /\ events'[i] = events[i]
        /\ \A i \in DOMAIN events' : \/ i \in DOMAIN events
                                     \/ IsFork(n) /\ events'[i] = ForkEvent(n, "network")
    BY NoticeElements
  <2> QED BY <1>1, <2>1, ReceivedRest
<1>4. AckInv'
  BY <1>1, <1>3 DEF AckInv
<1> QED BY <1>2, <1>3, <1>4 DEF ConsumerInv

LEMMA TracesRejectedConsumer ==
  ASSUME ConsumerEnvironment, ConsumerInv, BranchInv', NEW n \in 1..MaxBlock,
         TracesRejected(n), UNCHANGED <<chain, lib, finalized, view>>
  PROVE  ConsumerInv'
<1> DEFINE d == commit_db(StoredBlock(n), lib, AckedAfter(n))
<1>1. /\ Usable(n) /\ Environment /\ BranchInv /\ db' = d
      /\ phase' = "closed" /\ events' = events \o ForkNotice(n)
      /\ forked_at_block' = ForkedAfter(n) /\ exporter_acked_block' = AckedAfter(n)
  BY DEF TracesRejected, Begun, Stored, StoredBlock, ConsumerEnvironment, ConsumerInv
<1>2. n < EndBlock
  BY <1>1, ReceivedFacts
<1>3. /\ d.base < d.rev /\ d.rev = n
      /\ \A r \in d.base .. d.rev : HasState(d.at[r]) => Len(d.at[r].head_id) > StartHead
      /\ HasState(d.at[d.base]) => IsPrefix(Stable(d), view)
      /\ Len(Stable(d)) <= Len(Stable(db)) \/ Len(Stable(d)) <= exporter_acked_block
  BY <1>1, ReceivedStore
<1>4. Len(Stable(d)) \in Nat
  BY <1>1, StoredBranch, EndsFacts, IdLen
<1> HIDE DEF d
<1> QED BY <1>1, <1>2, <1>3, <1>4, RejectedConsumer

\* An exception before anything was published closes the stream.
LEMMA RefusedConsumer ==
  ASSUME ConsumerEnvironment, ConsumerInv, BranchInv', NEW n \in 1..MaxBlock,
         phase = "reading", phase' = "closed", db' = db \/ db' = Prepared(n),
         UNCHANGED <<chain, lib, finalized, view, events, forked_at_block,
                     exporter_acked_block>>
  PROVE  ConsumerInv'
<1>1. n - 1 \in Nat /\ IsDatabase(db)
  BY NumbersAssumption DEF ConsumerInv, BranchInv, SafeInv, TypeOK, DbOK
<1>2. forked_at_block = 0
  BY DEF ConsumerInv, AckInv
<1>3. \/ db' = db
      \/ /\ db.base = db.rev /\ db'.base = db'.rev
         /\ db'.at[db'.base] = db.at[db.base]
  <2>1. CASE db' # db
    <3>1. db' = Opened(n - 1, Current(db)) /\ db.base = db.rev
      BY <1>1, <2>1 DEF Prepared, SetRevision, MaySetRevision, HasUndoSession, IsDatabase
    <3> QED BY <1>1, <3>1, OpenedFacts DEF Current
  <2> QED BY <2>1
<1> QED BY <1>2, <1>3, SameConsumer DEF Alive, Following

\* An exception drops the undo session of the block.
LEMMA DroppedConsumer ==
  ASSUME ConsumerEnvironment, ConsumerInv, BranchInv', NEW n \in 1..MaxBlock, BlockDropped(n),
         UNCHANGED <<chain, lib, finalized, view>>
  PROVE  ConsumerInv'
<1>1. /\ Usable(n) /\ Environment /\ BranchInv /\ SafeInv /\ BaseForkIsSound
      /\ db' = Rolled(n) /\ phase' = "closed" /\ events' = events \o ForkNotice(n)
      /\ forked_at_block' = ForkedAfter(n) /\ exporter_acked_block' = AckedAfter(n)
      /\ n \in Nat \ {0} /\ IsDatabase(db)
  BY NumbersAssumption
     DEF BlockDropped, Begun, ConsumerEnvironment, ConsumerInv, BranchInv, SafeInv, TypeOK, DbOK
<1>2. phase = "reading" /\ n < EndBlock /\ events \in Seq(Events) /\ EndBlock \in Nat
  BY <1>1, ReceivedFacts, StateFacts
<1>3. ~DuplicateRow(n)
  BY <1>1, NoDuplicateRow
<1>4. CASE ~IsFork(n)
  <2>1. /\ events' = events /\ db' = Prepared(n)
        /\ UNCHANGED <<forked_at_block, exporter_acked_block>>
    BY <1>1, <1>2, <1>4, ConcatEmptySeq DEF ForkNotice, Rolled, ForkedAfter, AckedAfter
  <2> QED BY <1>1, <1>2, <2>1, RefusedConsumer
<1>5. CASE IsFork(n)
  <2>1. HasUndoSession(Rolled(n))
    BY <1>1, <1>3, <1>5 DEF BlockDropped
  <2>2. /\ IsDatabase(Rolled(n)) /\ Rolled(n).at[Rolled(n).base] = db.at[db.base]
        /\ \A r \in Rolled(n).base .. Rolled(n).rev :
             \E q \in db.base .. db.rev : Rolled(n).at[r] = db.at[q]
    BY <1>1, RolledContents
  <2>3. Rolled(n).rev = n - 1 /\ Stable(Rolled(n)) = Stable(db)
    BY <1>1, <2>2, RolledAligned DEF Stable
  <2>4. db'.base < db'.rev /\ db'.rev < EndBlock
    BY <1>1, <1>2, <2>1, <2>2, <2>3 DEF HasUndoSession, IsDatabase
  <2>5. Len(Stable(db')) \in Nat /\ Len(Stable(db')) <= Len(Stable(db))
    BY <1>1, <2>3, StableFacts
  <2>6. /\ \A r \in db'.base .. db'.rev :
             HasState(db'.at[r]) => Len(db'.at[r].head_id) > StartHead
        /\ HasState(db'.at[db'.base]) => IsPrefix(Stable(db'), view)
    BY <1>1, <2>2, <2>3 DEF ConsumerInv, StartInv, SeenInv
  <2> QED BY <1>1, <2>4, <2>5, <2>6, RejectedConsumer
<1> QED BY <1>4, <1>5

\* A rollback to revision 0 leaves no state, and a stream that is closed.
LEMMA FailedConsumer ==
  ASSUME ConsumerEnvironment, ConsumerInv, BranchInv', NEW n \in 1..MaxBlock, RollbackFails(n),
         UNCHANGED <<chain, lib, finalized, view>>
  PROVE  ConsumerInv'
<1>1. /\ Usable(n) /\ phase' = "closed" /\ db' = Rolled(n) /\ NoUndoStack(n)
      /\ UNCHANGED <<events, forked_at_block, exporter_acked_block>>
      /\ n \in Nat \ {0} /\ Environment /\ BranchInv /\ SafeInv
  BY NumbersAssumption
     DEF RollbackFails, memory, flow, ConsumerEnvironment, ConsumerInv, BranchInv
<1>2. phase = "reading" /\ forked_at_block = 0 /\ Alive /\ Alive' /\ ~Following'
  BY <1>1, ReceivedFacts DEF Alive, Following
<1>3. /\ Aligned(db', finalized) /\ Stable(db') = Stable(db)
  BY <1>1, RolledAligned, StoreNested, RolledEnds
<1>4. /\ db'.base = db'.rev /\ db'.rev = 0 /\ \A r \in db'.base .. db'.rev : r = db'.rev
  BY <1>1, <1>3, RolledAligned DEF Aligned, IsDatabase, NoUndoStack
<1>5. ~HasState(db'.at[0])
  <2>1. Revision(db', 0, finalized)
    BY <1>3, <1>4 DEF Aligned
  <2> QED BY <2>1 DEF Revision, StateOfRevision, HasState
<1>6. QueueInv'
  <2>1. PICK e \in Ids : Pending(e)
    BY DEF ConsumerInv, QueueInv
  <2>2. Pending(e)'
    BY <1>1, <1>2, <1>4, <1>5, <2>1 DEF Pending, Current
  <2> QED BY <2>2 DEF QueueInv
<1>7. ForksInv' /\ AckInv'
  BY <1>1, <1>2 DEF ConsumerInv, ForksInv, AckInv
<1>8. NoticesInv'
  BY <1>1, <1>2, <1>3 DEF ConsumerInv, NoticesInv, NoticeFits
<1>9. StartInv'
  BY <1>1, <1>4, <1>5 DEF ConsumerInv, StartInv, ExtendsStart
<1>10. SeenInv' /\ RestInv' /\ EndInv'
  BY <1>4, <1>5 DEF SeenInv, RestInv, EndInv, Current
<1> QED BY <1>6, <1>7, <1>8, <1>9, <1>10 DEF ConsumerInv

LEMMA ReceiveConsumer ==
  ASSUME ConsumerEnvironment, ConsumerInv, BranchInv', receive_result
  PROVE  ConsumerInv'
<1>1. UNCHANGED <<chain, lib, finalized, view>> /\ Environment /\ BranchInv /\ SafeInv
  BY DEF receive_result, node, ConsumerEnvironment, ConsumerInv, BranchInv
<1>2. PICK n \in 1..MaxBlock : \/ ResultRefused(n) \/ MessageRejected(n)
                               \/ RollbackForEver(n)
                               \/ RollbackFails(n)
                               \/ BlockDropped(n)
                               \/ TracesRejected(n)
                               \/ BlockStored(n)
  BY DEF receive_result
<1>3. ~RollbackForEver(n)
  BY <1>1, RolledAligned DEF RollbackForEver
<1>4. CASE ResultRefused(n) \/ MessageRejected(n)
  <2>1. /\ phase = "reading" /\ phase' = "closed" /\ (db' = db \/ db' = Prepared(n))
        /\ UNCHANGED <<events, forked_at_block, exporter_acked_block>>
    BY <1>4 DEF ResultRefused, MessageRejected, Result, memory, flow
  <2> QED BY <1>1, <2>1, RefusedConsumer
<1> QED BY <1>1, <1>2, <1>3, <1>4, FailedConsumer, DroppedConsumer, TracesRejectedConsumer,
           BlockStoredConsumer

(* ------------------------------ the theorems ---------------------------- *)

LEMMA NextConsumer ==
  ASSUME ConsumerEnvironment, ConsumerInv, [Next]_vars
  PROVE  ConsumerInv'
<1>1. BranchInv'
  BY NextBranch DEF ConsumerEnvironment, ConsumerInv
<1>2. CASE Node
  BY <1>1, <1>2, NodeConsumer
<1>3. CASE Receiver
  BY <1>1, <1>3, LoadStateConsumer, ReadOnConsumer, ReceiveConsumer, StopConsumer DEF Receiver
<1>4. CASE Consumer
  BY <1>1, <1>4, AckConsumer, DeliverBlockConsumer, DeliverForkConsumer DEF Consumer
<1>5. CASE Operator
  BY <1>1, <1>5, StopConsumer, SnapshotConsumer DEF Operator
<1>6. CASE UNCHANGED vars
  <2>1. UNCHANGED <<chain, finalized, phase, db, events, view, forked_at_block,
                    exporter_acked_block>>
    BY <1>6 DEF vars, node, memory, flow, consumer
  <2>2. /\ phase = "reading" => forked_at_block = 0
        /\ phase = "closed" => forked_at_block = 0 \/ db.base # db.rev
    BY DEF ConsumerInv, AckInv
  <2> QED BY <1>1, <2>1, <2>2, SameConsumer DEF Alive, Following
<1> QED BY <1>2, <1>3, <1>4, <1>5, <1>6 DEF Next

LEMMA ConsumerInvariant == ASSUME ConsumerEnvironment PROVE Spec => []ConsumerInv
<1>1. Init => ConsumerInv
  BY InitConsumer
<1>2. ConsumerInv /\ [Next]_vars => ConsumerInv'
  BY NextConsumer
<1> QED BY <1>1, <1>2, PTL DEF Spec

\* A restart resumes at a block the consumer has processed: whatever commit_db
\* made permanent is part of what the consumer holds, however acknowledgements,
\* forks, stops, restarts, snapshots and fail-overs of the node interleave.
THEOREM RestartPointAlwaysProcessed ==
  ASSUME ConsumerEnvironment PROVE Spec => []RestartPointProcessed
<1>1. ConsumerInv => RestartPointProcessed
  BY DEF ConsumerInv, SeenInv, RestartPointProcessed, Stable
<1> QED BY <1>1, ConsumerInvariant, PTL

\* Every block the exporter delivers extends the last one the consumer holds:
\* when the receiver has changed branches, or has resumed at an older block, the
\* FORK event that makes the consumer drop what was replaced was delivered before.
THEOREM ConsumerSeesOneChain ==
  ASSUME ConsumerEnvironment PROVE Spec => ConsumerContinuity
<1>1. ASSUME ConsumerInv, DeliverBlock PROVE view = <<>> \/ view = Front(view')
  <2>1. /\ events # <<>> /\ view' = Head(events).id /\ Head(events).type = "BLOCK_COMPLETED"
    BY <1>1 DEF DeliverBlock, Deliverable
  <2>2. events \in Seq(Events) /\ view \in Ids
    BY <1>1, StateFacts DEF ConsumerEnvironment, ConsumerInv
  <2>3. PICK e \in Ids : Pending(e)
    BY <1>1 DEF ConsumerInv, QueueInv
  <2>4. PICK t \in Ids : HoldsNext(view, Head(events), t)
    BY <2>1, <2>2, <2>3, FollowsTail DEF Pending
  <2>5. ~IsForkEvent(Head(events))
    BY <2>1 DEF IsForkEvent
  <2> QED BY <2>1, <2>4, <2>5 DEF HoldsNext
<1>2. ConsumerInv /\ [Next]_vars =>
        [DeliverBlock => view = <<>> \/ view = Front(view')]_vars
  BY <1>1
<1> QED BY <1>2, ConsumerInvariant, PTL DEF Spec, ConsumerContinuity
=============================================================================
