---------------------------- MODULE ChatHubProofs ----------------------------
(***************************************************************************)
(* Theorems about the hub, for every set of clients, rooms and wallets and *)
(* every capacity of the queues.                                           *)
(*                                                                         *)
(* What a client is to the hub (its standing), what its handler still has  *)
(* to do and what its writer has in line are changed by different actions: *)
(* each part of the invariant is about one or two of the three, and is     *)
(* carried over a step that leaves those alone.                            *)
(***************************************************************************)
EXTENDS ChatHub, Sums, SequenceTheorems

Calls == {Do(what, ch) : what \in {"subscribe", "unsubscribe"}, ch \in Chans}
           \cup {Publish(m) : m \in Msgs} \cup {SayAck}

Clients == [state : {"none", "up", "leaving"}, pools : SUBSET Rooms, dm : BOOLEAN,
            closed : BOOLEAN, send : Seq(Frames), todo : Seq(Calls), due : Seq(Msgs)]

Types ==
  /\ members \in [Rooms -> SUBSET Conns] /\ wallets \in [Wallets -> SUBSET Conns]
  /\ refs \in [Chans -> Nat] /\ subs \in SUBSET Chans
  /\ conn \in [Conns -> Clients]
  /\ bus \in Seq(Msgs) /\ turn \in [msg : Frames, left : SUBSET Conns]
  /\ posts \in 0 .. MaxPosts /\ opened \in 0 .. MaxConns

Bounded == \A c \in Conns : Len(conn[c].send) <= MaxSend /\ IsFiniteSet(conn[c].pools)

\* Client c is a subscriber of channel ch.
Holds(c, ch) ==
  /\ conn[c].state = "up"
  /\ ch \in conn[c].pools \/ (conn[c].dm /\ ch = Actor[c])

Holders(ch) == {c \in Conns : Holds(c, ch)}

\* The conjuncts of RefsExact about the members, and about the counts.
Listed ==
  /\ \A r \in Rooms :
       members[r] = {c \in Conns : conn[c].state = "up" /\ r \in conn[c].pools}
  /\ \A w \in Wallets :
       wallets[w] = {c \in Conns : conn[c].state = "up" /\ Actor[c] = w}

Counted == \A ch \in Chans : refs[ch] = Cardinality(Holders(ch))

\* A handler that has yet to subscribe to a channel still counts in it, and a
\* client that is not there has no handler.
Awaited(c) ==
  /\ conn[c].state = "none" => conn[c].todo = <<>>
  /\ \A i \in DOMAIN conn[c].todo, ch \in Chans :
       conn[c].todo[i] = Do("subscribe", ch) => Holds(c, ch)

Pending == \A c \in Conns : Awaited(c)

IInv ==
  Types /\ Bounded /\ Listed /\ Counted /\ Pending /\ NothingLeaked /\ NoHoles

-----------------------------------------------------------------------------
(* The room messages of a queue *)

\* The channels are no clients' acknowledgements.
LEMMA Constants ==
  /\ IsFiniteSet(Conns) /\ Rooms \cap Wallets = {} /\ "" \notin Rooms
  /\ Actor \in [Conns -> Wallets] /\ MaxSend \in Nat \ {0}
  /\ MaxPosts \in Nat /\ MaxConns \in Nat
BY HubAssumption DEF Chans

\* A frame about a room is a message.
LEMMA RoomFrameIsMsg ==
  ASSUME NEW f \in Frames, RoomFrame(f)
  PROVE  f \in Msgs
<1>1. Ack.ch \notin Rooms
  BY Constants DEF Ack
<1>2. f # Ack
  BY <1>1 DEF RoomFrame
<1> QED
  BY <1>2 DEF Frames

\* f counts up the room messages of s, at i.
KeepsAt(s, f, i) ==
  f[i] = IF i = 0 THEN <<>>
         ELSE IF RoomFrame(s[i]) THEN Append(f[i - 1], s[i]) ELSE f[i - 1]

Keeps(s, f, n) == \A i \in 0 .. n : KeepsAt(s, f, i)

\* There are such functions on every beginning of s.
LEMMA KeptExists ==
  ASSUME NEW s \in Seq(Frames)
  PROVE  \E f \in [0 .. Len(s) -> Seq(Msgs)] : Keeps(s, f, Len(s))
<1> DEFINE Good(n) ==
      \E f \in [0 .. n -> Seq(Msgs)] : Keeps(s, f, n)
           T == {n \in Nat : n <= Len(s) => Good(n)}
<1>1. 0 \in T
  <2>1. <<>> \in Seq(Msgs)
    OBVIOUS
  <2>2. [i \in 0 .. 0 |-> <<>>] \in [0 .. 0 -> Seq(Msgs)]
    BY <2>1
  <2>3. Keeps(s, [j \in 0 .. 0 |-> <<>>], 0)
    BY DEF Keeps, KeepsAt
  <2> QED
    BY <2>2, <2>3
<1>2. ASSUME NEW n \in T PROVE n + 1 \in T
  <2> SUFFICES ASSUME n + 1 <= Len(s) PROVE Good(n + 1)
    OBVIOUS
  <2>1. n \in Nat /\ Good(n)
    OBVIOUS
  <2>2. PICK f \in [0 .. n -> Seq(Msgs)] : Keeps(s, f, n)
    BY <2>1
  <2> DEFINE last == IF RoomFrame(s[n + 1]) THEN Append(f[n], s[n + 1]) ELSE f[n]
             g == [i \in 0 .. n + 1 |-> IF i = n + 1 THEN last ELSE f[i]]
  <2>3. s[n + 1] \in Frames
    BY <2>1
  <2>4. last \in Seq(Msgs)
    BY <2>1, <2>2, <2>3, RoomFrameIsMsg
  <2>5. g \in [0 .. n + 1 -> Seq(Msgs)]
    BY <2>1, <2>2, <2>4
  <2>6. ASSUME NEW i \in 0 .. n + 1 PROVE KeepsAt(s, g, i)
    <3>1. CASE i = n + 1
      BY <2>1, <3>1 DEF KeepsAt
    <3>2. CASE i # n + 1
      <4>1. i \in 0 .. n /\ (i # 0 => i - 1 \in 0 .. n) /\ i - 1 # n + 1
        BY <2>1, <3>2
      <4>2. g[i] = f[i] /\ (i # 0 => g[i - 1] = f[i - 1])
        BY <2>1, <4>1
      <4> QED
        BY <2>2, <4>1, <4>2 DEF Keeps, KeepsAt
    <3> QED
      BY <3>1, <3>2
  <2> HIDE DEF g
  <2> QED
    BY <2>5, <2>6 DEF Keeps
<1>3. T = Nat
  <2> HIDE DEF T
  <2>1. T \subseteq Nat
    BY DEF T
  <2> QED
    BY <1>1, <1>2, <2>1, Induction
<1>4. Len(s) \in T
  <2> HIDE DEF T
  <2> QED
    BY <1>3
<1>5. Good(Len(s))
  <2> HIDE DEF Good
  <2> QED
    BY <1>4
<1> QED
  BY <1>5

\* s and t agree at the places from a to b.
Alike(s, t, a, b) == \A i \in a .. b : s[i] = t[i]

\* Sequences that begin alike are counted up alike.
LEMMA KeptAlike ==
  ASSUME NEW s, NEW t, NEW n \in Nat, Alike(s, t, 1, n),
         NEW f, Keeps(s, f, n), NEW g, Keeps(t, g, n)
  PROVE  Alike(f, g, 0, n)
<1> DEFINE T == {i \in Nat : i <= n => f[i] = g[i]}
<1> USE DEF Alike
<1>1. 0 \in T
  BY DEF Keeps, KeepsAt
<1>2. ASSUME NEW i \in T PROVE i + 1 \in T
  <2> SUFFICES ASSUME i + 1 <= n PROVE f[i + 1] = g[i + 1]
    OBVIOUS
  <2>1. i \in Nat /\ i + 1 \in 1 .. n /\ i + 1 \in 0 .. n /\ i + 1 # 0 /\ (i + 1) - 1 = i
    OBVIOUS
  <2>2. f[i] = g[i]
    BY <2>1
  <2> QED
    BY <2>1, <2>2 DEF Keeps, KeepsAt
<1>3. T = Nat
  <2> HIDE DEF T
  <2>1. T \subseteq Nat
    BY DEF T
  <2> QED
    BY <1>1, <1>2, <2>1, Induction
<1> QED
  BY <1>3

\* The definition of RoomFrames is that of such a function.
LEMMA KeptDefined ==
  ASSUME NEW s \in Seq(Frames)
  PROVE  \E f \in [0 .. Len(s) -> Seq(Msgs)] :
           /\ Keeps(s, f, Len(s))
           /\ RoomFrames(s) = f[Len(s)]
<1> DEFINE Step(k) ==
      [i \in 0 .. Len(s) |->
        IF i = 0 THEN <<>>
        ELSE IF RoomFrame(s[i]) THEN Append(k[i - 1], s[i]) ELSE k[i - 1]]
           kept == CHOOSE k : k = Step(k)
<1>1. PICK f \in [0 .. Len(s) -> Seq(Msgs)] : Keeps(s, f, Len(s))
  BY KeptExists
<1>2. f = Step(f)
  BY <1>1 DEF Keeps, KeepsAt
<1>3. RoomFrames(s) = kept[Len(s)]
  BY DEF RoomFrames
<1>4. kept = Step(kept)
  <2> HIDE DEF Step
  <2> QED
    BY <1>2
<1>5. Keeps(s, kept, Len(s))
  BY <1>4 DEF Keeps, KeepsAt
<1>6. kept[Len(s)] = f[Len(s)]
  <2> HIDE DEF kept
  <2>1. Len(s) \in Nat
    OBVIOUS
  <2>2. Alike(s, s, 1, Len(s))
    BY DEF Alike
  <2>3. Alike(kept, f, 0, Len(s))
    BY <1>1, <1>5, <2>1, <2>2, KeptAlike
  <2> QED
    BY <2>1, <2>3 DEF Alike
<1> QED
  BY <1>1, <1>3, <1>6

\* The room messages of an empty queue are none, and they are messages.
LEMMA RoomFramesType ==
  /\ RoomFrames(<<>>) = <<>>
  /\ \A s \in Seq(Frames) : RoomFrames(s) \in Seq(Msgs)
<1>1. ASSUME NEW s \in Seq(Frames)
      PROVE  RoomFrames(s) \in Seq(Msgs) /\ (s = <<>> => RoomFrames(s) = <<>>)
  <2>1. PICK f \in [0 .. Len(s) -> Seq(Msgs)] :
          Keeps(s, f, Len(s)) /\ RoomFrames(s) = f[Len(s)]
    BY KeptDefined
  <2>2. Len(s) \in Nat /\ (s = <<>> => Len(s) = 0)
    OBVIOUS
  <2> QED
    BY <2>1, <2>2 DEF Keeps, KeepsAt
<1>2. <<>> \in Seq(Frames)
  OBVIOUS
<1> QED
  BY <1>1, <1>2

\* A frame at the end of the queue adds itself, if it is about a room.
LEMMA RoomFramesAppend ==
  ASSUME NEW s \in Seq(Frames), NEW x \in Frames
  PROVE  RoomFrames(Append(s, x)) =
           IF RoomFrame(x) THEN Append(RoomFrames(s), x) ELSE RoomFrames(s)
<1> SUFFICES ASSUME NEW t, t = Append(s, x)
             PROVE  RoomFrames(t) =
                      IF RoomFrame(x) THEN Append(RoomFrames(s), x) ELSE RoomFrames(s)
  OBVIOUS
<1>1. t \in Seq(Frames) /\ Len(t) = Len(s) + 1 /\ Len(s) \in Nat
      /\ t[Len(s) + 1] = x /\ \A i \in 1 .. Len(s) : s[i] = t[i]
  OBVIOUS
<1>2. PICK f \in [0 .. Len(s) -> Seq(Msgs)] :
        Keeps(s, f, Len(s)) /\ RoomFrames(s) = f[Len(s)]
  BY KeptDefined
<1>3. PICK g \in [0 .. Len(t) -> Seq(Msgs)] :
        Keeps(t, g, Len(t)) /\ RoomFrames(t) = g[Len(t)]
  BY <1>1, KeptDefined
<1>4. f[Len(s)] = g[Len(s)]
  <2>1. Keeps(t, g, Len(s))
    BY <1>1, <1>3 DEF Keeps
  <2>2. Alike(s, t, 1, Len(s))
    BY <1>1 DEF Alike
  <2>3. Alike(f, g, 0, Len(s))
    BY <1>2, <2>1, <2>2, KeptAlike
  <2> QED
    BY <1>1, <2>3 DEF Alike
<1>5. KeepsAt(t, g, Len(s) + 1) /\ Len(s) + 1 # 0 /\ (Len(s) + 1) - 1 = Len(s)
  BY <1>1, <1>3 DEF Keeps
<1> QED
  BY <1>1, <1>2, <1>3, <1>4, <1>5 DEF KeepsAt

\* The first frame of the queue comes first, if it is about a room.
LEMMA RoomFramesTail ==
  ASSUME NEW s \in Seq(Frames), s # <<>>
  PROVE  RoomFrames(s) =
           IF RoomFrame(Head(s)) THEN <<Head(s)>> \o RoomFrames(Tail(s))
           ELSE RoomFrames(Tail(s))
<1> DEFINE t == Tail(s)
           front == IF RoomFrame(Head(s)) THEN <<Head(s)>> ELSE <<>>
<1>1. t \in Seq(Frames) /\ Len(s) = Len(t) + 1 /\ Len(t) \in Nat
      /\ Head(s) = s[1] /\ \A i \in 1 .. Len(t) : t[i] = s[i + 1]
      /\ Head(s) \in Frames
  OBVIOUS
<1>2. front \in Seq(Msgs)
  BY <1>1, RoomFrameIsMsg
<1>3. \A a \in Seq(Msgs) : <<>> \o a = a
  OBVIOUS
<1>4. PICK f \in [0 .. Len(t) -> Seq(Msgs)] :
        Keeps(t, f, Len(t)) /\ RoomFrames(t) = f[Len(t)]
  BY <1>1, KeptDefined
<1>5. PICK g \in [0 .. Len(s) -> Seq(Msgs)] :
        Keeps(s, g, Len(s)) /\ RoomFrames(s) = g[Len(s)]
  BY KeptDefined
<1> DEFINE T == {i \in Nat : i <= Len(t) => g[i + 1] = front \o f[i]}
<1> HIDE DEF t, front
<1>6. 0 \in T
  <2>1. KeepsAt(s, g, 0) /\ KeepsAt(s, g, 1) /\ KeepsAt(t, f, 0)
    BY <1>1, <1>4, <1>5 DEF Keeps
  <2>2. g[0] = <<>> /\ f[0] = <<>>
        /\ g[1] = IF RoomFrame(s[1]) THEN Append(g[0], s[1]) ELSE g[0]
    <3>1. g[0] = <<>> /\ f[0] = <<>>
      BY <2>1 DEF KeepsAt
    <3>2. 1 - 1 = 0 /\ 1 # 0
      OBVIOUS
    <3> QED
      BY <2>1, <3>1, <3>2 DEF KeepsAt
  <2>3. g[1] = front
    BY <1>1, <2>2 DEF front
  <2>4. front \o <<>> = front
    BY <1>2
  <2> QED
    BY <2>2, <2>3, <2>4
<1>7. ASSUME NEW i \in T PROVE i + 1 \in T
  <2> SUFFICES ASSUME i + 1 <= Len(t) PROVE g[(i + 1) + 1] = front \o f[i + 1]
    OBVIOUS
  <2>1. i \in Nat /\ i + 1 \in 1 .. Len(t) /\ (i + 1) + 1 \in 1 .. Len(s)
        /\ (i + 1) + 1 \in 0 .. Len(s) /\ i + 1 \in 0 .. Len(t) /\ i \in 0 .. Len(t)
    BY <1>1
  <2>2. g[i + 1] = front \o f[i]
    BY <2>1
  <2>3. s[(i + 1) + 1] = t[i + 1] /\ t[i + 1] \in Frames
    BY <1>1, <2>1
  <2>4. g[(i + 1) + 1] = IF RoomFrame(t[i + 1]) THEN Append(g[i + 1], t[i + 1]) ELSE g[i + 1]
    <3>1. KeepsAt(s, g, (i + 1) + 1) /\ (i + 1) + 1 # 0 /\ ((i + 1) + 1) - 1 = i + 1
      BY <1>5, <2>1 DEF Keeps
    <3> QED
      BY <2>3, <3>1 DEF KeepsAt
  <2>5. f[i + 1] = IF RoomFrame(t[i + 1]) THEN Append(f[i], t[i + 1]) ELSE f[i]
    <3>1. KeepsAt(t, f, i + 1) /\ i + 1 # 0 /\ (i + 1) - 1 = i
      BY <1>4, <2>1 DEF Keeps
    <3> QED
      BY <3>1 DEF KeepsAt
  <2>6. f[i] \in Seq(Msgs)
    BY <1>4, <2>1
  <2>7. ASSUME NEW a \in Seq(Msgs), NEW b \in Seq(Msgs), NEW m \in Msgs
        PROVE  Append(a \o b, m) = a \o Append(b, m)
    <3>1. a \o b \in Seq(Msgs) /\ <<m>> \in Seq(Msgs)
      OBVIOUS
    <3>2. (a \o b) \o <<m>> = a \o (b \o <<m>>)
      BY ONLY a \in Seq(Msgs), b \in Seq(Msgs), <3>1, ConcatAssociative
    <3> QED
      BY <3>1, <3>2, AppendIsConcat
  <2>8. CASE RoomFrame(t[i + 1])
    <3>1. t[i + 1] \in Msgs
      BY <2>3, <2>8, RoomFrameIsMsg
    <3> QED
      BY <1>2, <2>2, <2>4, <2>5, <2>6, <2>7, <2>8, <3>1
  <2>9. CASE ~RoomFrame(t[i + 1])
    BY <2>2, <2>4, <2>5, <2>9
  <2> QED
    BY <2>8, <2>9
<1>8. T = Nat
  <2> HIDE DEF T
  <2>1. T \subseteq Nat
    BY DEF T
  <2> QED
    BY <1>6, <1>7, <2>1, Induction
<1>9. g[Len(s)] = front \o f[Len(t)]
  <2>1. Len(t) \in T
    BY <1>1, <1>8
  <2> QED
    BY <1>1, <2>1
<1>10. RoomFrames(s) = front \o RoomFrames(t) /\ RoomFrames(t) \in Seq(Msgs)
  <2>1. f[Len(t)] \in Seq(Msgs)
    BY <1>1, <1>4
  <2> QED
    BY <1>4, <1>5, <1>9, <2>1
<1> QED
  BY <1>3, <1>10 DEF t, front

-----------------------------------------------------------------------------
(* What a step leaves alone *)

\* Every client is to the hub what it was.
SameStanding ==
  /\ UNCHANGED registry
  /\ \A d \in Conns : /\ conn'[d].state = conn[d].state
                      /\ conn'[d].pools = conn[d].pools
                      /\ conn'[d].dm = conn[d].dm

\* Every handler has to do what it had to do.
SameCalls == \A d \in Conns : conn'[d].todo = conn[d].todo

\* Every client has in line what it had in line.
SameLines ==
  /\ UNCHANGED turn
  /\ \A d \in Conns : /\ conn'[d].closed = conn[d].closed
                      /\ conn'[d].send = conn[d].send
                      /\ conn'[d].due = conn[d].due

\* What a handler may have to do.
LEMMA CallKinds ==
  /\ \A ch \in Chans : Do("subscribe", ch) \in Calls /\ Do("unsubscribe", ch) \in Calls
  /\ \A m \in Msgs : Publish(m) \in Calls
  /\ SayAck \in Calls
  /\ \A k \in Calls :
       /\ k.do \in {"subscribe", "unsubscribe"} => k.msg.ch \in Chans /\ k = Do(k.do, k.msg.ch)
       /\ k.do = "publish" => k.msg \in Msgs
<1>1. ASSUME NEW k \in Calls
      PROVE  /\ k.do \in {"subscribe", "unsubscribe"} =>
                  k.msg.ch \in Chans /\ k = Do(k.do, k.msg.ch)
             /\ k.do = "publish" => k.msg \in Msgs
  BY DEF Calls, Do, Publish, SayAck
<1> QED
  BY <1>1 DEF Calls

\* What enqueue does to a client.
LEMMA EnqueueFields ==
  ASSUME NEW k \in Clients, NEW f \in Frames, Len(k.send) <= MaxSend
  PROVE  LET e == Enqueue(k, f) IN
         /\ e \in Clients /\ Len(e.send) <= MaxSend
         /\ e.state = k.state /\ e.pools = k.pools /\ e.dm = k.dm /\ e.todo = k.todo
         /\ ~e.closed => ~k.closed /\ e.send = Append(k.send, f) /\ e.due = k.due
<1> PICK e : e = Enqueue(k, f)
  OBVIOUS
<1> USE DEF Clients
<1>1. MaxSend \in Nat /\ Len(k.send) \in Nat
  <2>1. k.send \in Seq(Frames)
    OBVIOUS
  <2>2. Len(k.send) \in Nat
    BY <2>1
  <2> QED
    BY <2>2, Constants
<1>2. CASE k.closed
  BY <1>2 DEF Enqueue
<1>3. CASE ~k.closed /\ Len(k.send) < MaxSend
  <2>1. Append(k.send, f) \in Seq(Frames) /\ Len(Append(k.send, f)) = Len(k.send) + 1
    OBVIOUS
  <2>2. e = [k EXCEPT !.send = Append(@, f)]
    BY <1>3 DEF Enqueue
  <2>3. e \in Clients
    BY <2>1, <2>2
  <2>4. Len(e.send) <= MaxSend
    BY <1>1, <1>3, <2>1, <2>2
  <2> QED
    BY <2>1, <2>2, <2>3, <2>4
<1>4. CASE ~k.closed /\ ~(Len(k.send) < MaxSend)
  <2>1. e = [k EXCEPT !.closed = TRUE, !.send = <<>>, !.due = <<>>]
    BY <1>4 DEF Enqueue, Closed
  <2>2. <<>> \in Seq(Frames) /\ <<>> \in Seq(Msgs) /\ Len(<<>>) = 0
    OBVIOUS
  <2>3. e \in Clients
    BY <2>1, <2>2
  <2>4. Len(e.send) <= MaxSend
    BY <1>1, <2>1, <2>2
  <2> QED
    BY <2>1, <2>3, <2>4
<1> QED
  BY <1>2, <1>3, <1>4

\* A client whose queue a frame is put in or taken out of stays what it was to
\* the hub, and its handler has to do what it had to do.
LEMMA QueueStepsApart ==
  ASSUME Types, Bounded, NEW c \in Conns,
         Hand(c) \/ Write(c) \/ WriteFails(c) \/ Dispatch
  PROVE  SameStanding /\ SameCalls /\ UNCHANGED subs
<1> USE DEF SameStanding, SameCalls, Types
<1>1. CASE Hand(c)
  <2>1. UNCHANGED <<registry, subs>> /\ turn.msg \in Frames
    BY <1>1 DEF Hand, registry
  <2>2. PICK k : k = Enqueue(conn[c], turn.msg)
    OBVIOUS
  <2>3. k.state = conn[c].state /\ k.pools = conn[c].pools /\ k.dm = conn[c].dm
        /\ k.todo = conn[c].todo
    BY <2>1, <2>2, EnqueueFields DEF Bounded
  <2>4. conn' = conn \/ conn' = [conn EXCEPT ![c] = k]
    BY <1>1, <2>2 DEF Hand
  <2> QED
    BY <2>1, <2>3, <2>4
<1>2. CASE Write(c)
  BY <1>2 DEF Write, WriterStep, Clients
<1>3. CASE WriteFails(c)
  BY <1>3 DEF WriteFails, WriterStep, Closed, Clients
<1>4. CASE Dispatch
  BY <1>4 DEF Dispatch, Clients
<1> QED
  BY <1>1, <1>2, <1>3, <1>4

\* A call a handler owes changes nothing else but, for the acknowledgement, the
\* queue of its client.
LEMMA OwedApart ==
  ASSUME Types, Bounded, NEW c \in Conns, Owed(c)
  PROVE  /\ SameStanding
         /\ \A d \in Conns \ {c} : conn'[d] = conn[d]
         /\ conn[c].todo # <<>> /\ conn'[c].todo = Tail(conn[c].todo)
         /\ SendAck(c) \/ SameLines
<1> USE DEF SameStanding, SameLines, Types
<1>1. CASE SendAck(c)
  <2>1. Ack \in Frames
    BY DEF Frames
  <2>2. PICK k : k = Enqueue(conn[c], Ack)
    OBVIOUS
  <2>3. k \in Clients /\ k.state = conn[c].state /\ k.pools = conn[c].pools
        /\ k.dm = conn[c].dm /\ k.todo = conn[c].todo
    BY <2>1, <2>2, EnqueueFields DEF Bounded
  <2>4. conn[c].todo # <<>> /\ UNCHANGED registry
    BY <1>1 DEF SendAck, Owes, OwedStep
  <2>5. conn' = [conn EXCEPT ![c] = [k EXCEPT !.todo = Tail(conn[c].todo)]]
    BY <1>1, <2>2 DEF SendAck
  <2> QED
    BY <1>1, <2>2, <2>3, <2>4, <2>5 DEF Clients
<1>2. CASE ~SendAck(c)
  <2>1. Paid(c) /\ UNCHANGED <<registry, turn>> /\ conn[c].todo # <<>>
    BY <1>2 DEF Owed, RedisSubscribe, RedisUnsubscribe, RedisPublish, OwedStep, Owes
  <2> QED
    BY <2>1 DEF Paid, Clients
<1> QED
  BY <1>1, <1>2

\* A handler touches no queue, and it runs when it has nothing left to do.
LEMMA HandleApart ==
  ASSUME Types, NEW c \in Conns, Handle(c)
  PROVE  /\ SameLines /\ UNCHANGED subs /\ Reading(c)
         /\ \A d \in Conns \ {c} : conn'[d] = conn[d]
<1> DEFINE Apart ==
      /\ SameLines /\ UNCHANGED subs /\ Reading(c)
      /\ \A d \in Conns \ {c} : conn'[d] = conn[d]
<1> SUFFICES Apart
  OBVIOUS
<1> USE DEF SameLines, Types, HandlerStep, Clients
<1>1. CASE SubscribeDMs(c)
  <2>1. \E t, b : conn' = [conn EXCEPT ![c].dm = b, ![c].todo = t]
                 \/ conn' = [conn EXCEPT ![c].todo = t]
    BY <1>1 DEF SubscribeDMs
  <2>2. UNCHANGED <<subs, turn>> /\ Reading(c)
    BY <1>1 DEF SubscribeDMs
  <2>3. ASSUME NEW t, NEW b, conn' = [conn EXCEPT ![c].dm = b, ![c].todo = t]
        PROVE  Apart
    BY <2>2, <2>3
  <2>4. ASSUME NEW t, conn' = [conn EXCEPT ![c].todo = t]
        PROVE  Apart
    BY <2>2, <2>4
  <2> HIDE DEF Apart
  <2> QED
    BY <2>1, <2>3, <2>4
<1>2. CASE Refused(c)
  BY <1>2 DEF Refused
<1>3. CASE RemoveConn(c)
  <2>1. PICK t : conn' = [conn EXCEPT ![c].state = "leaving", ![c].todo = t]
    BY <1>3 DEF RemoveConn
  <2>2. UNCHANGED <<subs, turn>> /\ Reading(c)
    BY <1>3 DEF RemoveConn, Detach
  <2> QED
    BY <2>1, <2>2
<1>4. ASSUME NEW r \in Rooms, JoinRoom(c, r) PROVE Apart
  <2>1. \E t, p : conn' = [conn EXCEPT ![c].pools = p, ![c].todo = t]
                 \/ conn' = [conn EXCEPT ![c].todo = t]
    BY <1>4 DEF JoinRoom
  <2>2. UNCHANGED <<subs, turn>> /\ Reading(c)
    BY <1>4 DEF JoinRoom
  <2>3. ASSUME NEW t, NEW p, conn' = [conn EXCEPT ![c].pools = p, ![c].todo = t]
        PROVE  Apart
    BY <2>2, <2>3
  <2>4. ASSUME NEW t, conn' = [conn EXCEPT ![c].todo = t]
        PROVE  Apart
    BY <2>2, <2>4
  <2> HIDE DEF Apart
  <2> QED
    BY <2>1, <2>3, <2>4
<1>5. ASSUME NEW r \in Rooms, LeaveRoom(c, r) PROVE Apart
  <2>1. \E t, p : conn' = [conn EXCEPT ![c].pools = p, ![c].todo = t]
                 \/ conn' = [conn EXCEPT ![c].todo = t]
    BY <1>5 DEF LeaveRoom
  <2>2. UNCHANGED <<subs, turn>> /\ Reading(c)
    BY <1>5 DEF LeaveRoom
  <2>3. ASSUME NEW t, NEW p, conn' = [conn EXCEPT ![c].pools = p, ![c].todo = t]
        PROVE  Apart
    BY <2>2, <2>3
  <2>4. ASSUME NEW t, conn' = [conn EXCEPT ![c].todo = t]
        PROVE  Apart
    BY <2>2, <2>4
  <2> HIDE DEF Apart
  <2> QED
    BY <2>1, <2>3, <2>4
<1>6. ASSUME NEW chans, Post(c, chans) PROVE Apart
  <2>1. PICK t : conn' = [conn EXCEPT ![c].todo = t]
    BY <1>6 DEF Post
  <2>2. UNCHANGED <<subs, turn>> /\ Reading(c)
    BY <1>6 DEF Post
  <2> QED
    BY <2>1, <2>2
<1> QED
  BY <1>1, <1>2, <1>3, <1>4, <1>5, <1>6 DEF Handle, PoolMessage, DM

-----------------------------------------------------------------------------
(* Types *)

\* A subscriber of a channel is counted in it.
LEMMA HolderCounts ==
  ASSUME Types, Counted, NEW c \in Conns, NEW ch \in Chans, Holds(c, ch)
  PROVE  refs[ch] >= 1
<1>1. IsFiniteSet(Holders(ch)) /\ Cardinality(Holders(ch)) \in Nat
  <2>1. Holders(ch) \in SUBSET Conns
    BY DEF Holders
  <2> QED
    BY <2>1, Constants, FS_Subset, FS_CardinalityType
<1>2. Holders(ch) # {}
  BY DEF Holders
<1> QED
  BY <1>1, <1>2, FS_EmptySet DEF Counted

\* A handler step keeps the types: what is counted down was counted.
LEMMA HandleTypes ==
  ASSUME Types, Bounded, Listed, Counted, NEW c \in Conns, Handle(c)
  PROVE  Types' /\ Bounded'
<1> USE DEF HandlerStep
<1>1. /\ members \in [Rooms -> SUBSET Conns] /\ wallets \in [Wallets -> SUBSET Conns]
      /\ refs \in [Chans -> Nat] /\ conn \in [Conns -> Clients]
      /\ posts \in 0 .. MaxPosts
  BY DEF Types
<1>2. Actor[c] \in Wallets /\ Actor[c] \in Chans /\ \A r \in Rooms : r \in Chans
  BY Constants DEF Chans
<1>3. SameLines /\ UNCHANGED subs /\ \A d \in Conns \ {c} : conn'[d] = conn[d]
  BY HandleApart
<1>4. /\ SayAck \in Calls
      /\ \A ch \in Chans : /\ <<Do("subscribe", ch), SayAck>> \in Seq(Calls)
                           /\ <<Do("unsubscribe", ch), SayAck>> \in Seq(Calls)
      /\ <<SayAck>> \in Seq(Calls)
  BY CallKinds
<1> DEFINE Rest == UNCHANGED <<bus, turn, opened>> /\ posts' \in 0 .. MaxPosts
           Kept == /\ members' \in [Rooms -> SUBSET Conns]
                   /\ wallets' \in [Wallets -> SUBSET Conns]
                   /\ refs' \in [Chans -> Nat]
           Fits == conn' \in [Conns -> Clients] /\ IsFiniteSet(conn'[c].pools)
<1>5. IsFiniteSet(conn[c].pools)
  BY DEF Bounded
<1>6. ASSUME Rest, Kept, Fits PROVE Types' /\ Bounded'
  BY <1>3, <1>6 DEF Types, Bounded, SameLines
<1>f. ASSUME NEW x \in Clients, IsFiniteSet(x.pools), conn' = [conn EXCEPT ![c] = x]
      PROVE  Fits
  BY <1>1, <1>f
<1>g. ASSUME NEW t \in Seq(Calls), conn' = [conn EXCEPT ![c].todo = t]
      PROVE  Fits
  <2> DEFINE x == [conn[c] EXCEPT !.todo = t]
  <2>1. conn' = [conn EXCEPT ![c] = x]
    BY <1>1, <1>g
  <2>2. conn[c] \in Clients
    BY <1>1
  <2>3. x \in Clients /\ x.pools = conn[c].pools
    BY <2>2 DEF Clients
  <2> QED
    BY <1>5, <1>f, <2>1, <2>3
<1> SUFFICES Rest /\ Kept /\ Fits
  BY <1>6
<1>7. CASE SubscribeDMs(c)
  <2>1. Rest
    BY <1>1, <1>7 DEF SubscribeDMs
  <2>2. Kept
    BY <1>1, <1>2, <1>7 DEF SubscribeDMs
  <2>3. Fits
    <3>1. PICK t \in Seq(Calls) :
            \/ conn' = [conn EXCEPT ![c].todo = t]
            \/ conn' = [conn EXCEPT ![c].dm = TRUE, ![c].todo = t]
      BY <1>2, <1>4, <1>7 DEF SubscribeDMs
    <3>3. CASE conn' = [conn EXCEPT ![c].todo = t]
      BY <1>g, <3>3
    <3>4. CASE conn' = [conn EXCEPT ![c].dm = TRUE, ![c].todo = t]
      <4> DEFINE x == [conn[c] EXCEPT !.dm = TRUE, !.todo = t]
      <4>1. conn' = [conn EXCEPT ![c] = x]
        BY <1>1, <3>4
      <4>2. conn[c] \in Clients
        BY <1>1
      <4>3. x \in Clients /\ x.pools = conn[c].pools
        BY <4>2 DEF Clients
      <4> QED
        BY <1>5, <1>f, <4>1, <4>3
    <3> QED
      BY <3>1, <3>3, <3>4
  <2> QED
    BY <2>1, <2>2, <2>3
<1>8. CASE Refused(c)
  BY <1>1, <1>4, <1>5, <1>8 DEF Refused, registry, Clients
<1>9. ASSUME NEW r \in Rooms, JoinRoom(c, r) PROVE Rest /\ Kept /\ Fits
  <2>1. Rest
    BY <1>1, <1>9 DEF JoinRoom
  <2>2. Kept
    BY <1>1, <1>2, <1>9 DEF JoinRoom
  <2>3. Fits
    <3>1. PICK t \in Seq(Calls) :
            \/ conn' = [conn EXCEPT ![c].todo = t]
            \/ conn' = [conn EXCEPT ![c].pools = @ \cup {r}, ![c].todo = t]
      BY <1>2, <1>4, <1>9 DEF JoinRoom
    <3>2. IsFiniteSet(conn[c].pools \cup {r})
      BY <1>5, FS_AddElement
    <3>3. CASE conn' = [conn EXCEPT ![c].todo = t]
      BY <1>g, <3>3
    <3>4. CASE conn' = [conn EXCEPT ![c].pools = @ \cup {r}, ![c].todo = t]
      <4> DEFINE x == [conn[c] EXCEPT !.pools = @ \cup {r}, !.todo = t]
      <4>1. conn' = [conn EXCEPT ![c] = x]
        BY <1>1, <3>4
      <4>2. conn[c] \in Clients
        BY <1>1
      <4>3. x \in Clients /\ x.pools = conn[c].pools \cup {r}
        BY <4>2 DEF Clients
      <4> QED
        BY <3>2, <1>f, <4>1, <4>3
    <3> QED
      BY <3>1, <3>3, <3>4
  <2> QED
    BY <2>1, <2>2, <2>3
<1>10. ASSUME NEW r \in Rooms, LeaveRoom(c, r) PROVE Rest /\ Kept /\ Fits
  <2>1. Rest
    BY <1>1, <1>10 DEF LeaveRoom
  <2>2. Kept
    <3>1. c \in members[r] => refs[r] >= 1
      <4>1. c \in members[r] => Holds(c, r)
        BY DEF Listed, Holds
      <4> QED
        BY <1>2, <4>1, HolderCounts
    <3> QED
      BY <1>1, <1>2, <1>10, <3>1 DEF LeaveRoom
  <2>3. Fits
    <3>1. PICK t \in Seq(Calls) :
            \/ conn' = [conn EXCEPT ![c].todo = t]
            \/ conn' = [conn EXCEPT ![c].pools = @ \ {r}, ![c].todo = t]
      BY <1>2, <1>4, <1>10 DEF LeaveRoom
    <3>2. IsFiniteSet(conn[c].pools \ {r})
      BY <1>5, FS_RemoveElement
    <3>3. CASE conn' = [conn EXCEPT ![c].todo = t]
      BY <1>g, <3>3
    <3>4. CASE conn' = [conn EXCEPT ![c].pools = @ \ {r}, ![c].todo = t]
      <4> DEFINE x == [conn[c] EXCEPT !.pools = @ \ {r}, !.todo = t]
      <4>1. conn' = [conn EXCEPT ![c] = x]
        BY <1>1, <3>4
      <4>2. conn[c] \in Clients
        BY <1>1
      <4>3. x \in Clients /\ x.pools = conn[c].pools \ {r}
        BY <4>2 DEF Clients
      <4> QED
        BY <3>2, <1>f, <4>1, <4>3
    <3> QED
      BY <3>1, <3>3, <3>4
  <2> QED
    BY <2>1, <2>2, <2>3
<1>11. ASSUME NEW chans \in Seq(Chans), Post(c, chans) PROVE Rest /\ Kept /\ Fits
  <2>1. posts' \in 1 .. MaxPosts /\ posts' \in 0 .. MaxPosts
    <3>1. MaxPosts \in Nat
      BY Constants
    <3> QED
      BY <1>1, <1>11, <3>1 DEF Post
  <2>2. Rest /\ Kept
    BY <1>1, <1>11, <2>1 DEF Post, registry
  <2>3. \A i \in DOMAIN chans : Publish([ch |-> chans[i], n |-> posts']) \in Calls
    BY <2>1, CallKinds DEF Msgs
  <2>4. [i \in DOMAIN chans |-> Publish([ch |-> chans[i], n |-> posts'])] \in Seq(Calls)
    <3>1. \A n \in Nat : \A f : (\A i \in 1 .. n : f[i] \in Calls) =>
            [i \in 1 .. n |-> f[i]] \in Seq(Calls)
      OBVIOUS
    <3> DEFINE f == [i \in DOMAIN chans |-> Publish([ch |-> chans[i], n |-> posts'])]
    <3>2. Len(chans) \in Nat /\ DOMAIN chans = 1 .. Len(chans)
      OBVIOUS
    <3>3. \A i \in 1 .. Len(chans) : f[i] \in Calls
      BY <2>3, <3>2
    <3>4. f = [i \in 1 .. Len(chans) |-> f[i]]
      BY <3>2
    <3> HIDE DEF f
    <3>5. f \in Seq(Calls)
      BY <3>1, <3>2, <3>3, <3>4
    <3> QED
      BY <3>5 DEF f
  <2> QED
    BY <1>1, <1>5, <1>11, <2>2, <2>4 DEF Post, Clients
<1>12. CASE RemoveConn(c)
  <2>1. Detach(c) /\ Reading(c)
    BY <1>12 DEF RemoveConn
  <2>2. Rest
    BY <1>1, <2>1 DEF Detach
  <2>3. Kept
    <3>1. \A ch \in Chans : ch \in conn[c].pools \/ (conn[c].dm /\ ch = Actor[c]) =>
            refs[ch] >= 1
      BY <2>1, HolderCounts DEF Holds, Reading
    <3>2. \A n \in Nat : n >= 1 => n - 1 \in Nat
      OBVIOUS
    <3>3. CountedOut(c) \in [Chans -> Nat]
      BY <1>1, <3>1, <3>2 DEF CountedOut
    <3> QED
      BY <1>1, <1>2, <2>1, <3>3 DEF Detach
  <2>4. Fits
    <3> DEFINE S == {ch \in Chans : refs[ch] = 1 /\ CountedOut(c)[ch] = 0}
    <3>1. PICK order \in SetToSeqs(S) :
            conn' = [conn EXCEPT ![c].state = "leaving",
              ![c].todo = [i \in DOMAIN order |-> Do("unsubscribe", order[i])]]
      BY <1>12 DEF RemoveConn
    <3>2. IsFiniteSet(S) /\ Cardinality(S) \in Nat
      <4>1. S \in SUBSET (conn[c].pools \cup {Actor[c]})
        BY <1>1 DEF CountedOut
      <4>2. IsFiniteSet(conn[c].pools \cup {Actor[c]})
        BY <1>5, FS_AddElement
      <4> QED
        BY <4>1, <4>2, FS_Subset, FS_CardinalityType
    <3>3. order \in [1 .. Cardinality(S) -> S]
      BY DEF SetToSeqs
    <3>4. [i \in DOMAIN order |-> Do("unsubscribe", order[i])] \in Seq(Calls)
      <4> HIDE DEF S
      <4>1. S \subseteq Chans
        BY DEF S
      <4>2. \A i \in 1 .. Cardinality(S) : Do("unsubscribe", order[i]) \in Calls
        BY <3>3, <4>1, CallKinds
      <4> QED
        BY <3>2, <3>3, <4>2
    <3> QED
      <4> PICK t \in Seq(Calls) : t = [i \in DOMAIN order |-> Do("unsubscribe", order[i])]
        BY <3>4
      <4> DEFINE x == [conn[c] EXCEPT !.state = "leaving", !.todo = t]
      <4>1. conn' = [conn EXCEPT ![c] = x]
        BY <1>1, <3>1
      <4>2. conn[c] \in Clients
        BY <1>1
      <4>3. x \in Clients /\ x.pools = conn[c].pools
        BY <4>2 DEF Clients
      <4> QED
        BY <1>5, <1>f, <4>1, <4>3
  <2> QED
    BY <2>2, <2>3, <2>4
<1>13. ASSUME NEW r \in Rooms, PoolMessage(c, r) PROVE Rest /\ Kept /\ Fits
  <2>1. <<r>> \in Seq(Chans)
    BY <1>2
  <2> QED
    BY <1>11, <1>13, <2>1 DEF PoolMessage
<1>14. ASSUME NEW to \in Wallets, DM(c, to) PROVE Rest /\ Kept /\ Fits
  <2>1. <<Actor[c], to>> \in Seq(Chans)
    BY <1>2 DEF Chans
  <2> QED
    BY <1>11, <1>14, <2>1 DEF DM
<1> HIDE DEF Rest, Kept, Fits
<1> QED
  BY <1>7, <1>8, <1>9, <1>10, <1>12, <1>13, <1>14 DEF Handle

\* The room message in the turn that client c is still to get.
Extra(c) == IF c \in turn.left /\ RoomFrame(turn.msg) THEN <<turn.msg>> ELSE <<>>

\* The first frame in line is the first message due, if it is about a room.
LEMMA FirstInLine ==
  ASSUME Types, NoHoles, NEW c \in Conns, ~conn[c].closed, conn[c].send # <<>>
  PROVE  LET rest == RoomFrames(Tail(conn[c].send)) \o Extra(c) IN
         IF RoomFrame(Head(conn[c].send)) THEN conn[c].due # <<>> /\ Tail(conn[c].due) = rest
         ELSE conn[c].due = rest
<1> PICK s : s = conn[c].send
  OBVIOUS
<1>1. s \in Seq(Frames) /\ s # <<>> /\ Tail(s) \in Seq(Frames) /\ Head(s) \in Frames
  <2>1. s \in Seq(Frames) /\ s # <<>>
    BY DEF Types, Clients
  <2> QED
    BY <2>1
<1> PICK a : a = RoomFrames(Tail(s))
  OBVIOUS
<1> PICK b : b = Extra(c)
  OBVIOUS
<1>2. a \in Seq(Msgs)
  BY <1>1, RoomFramesType
<1>3. b \in Seq(Msgs)
  <2>1. turn.msg \in Frames
    BY DEF Types
  <2> QED
    BY <2>1, RoomFrameIsMsg DEF Extra
<1>4. conn[c].due = RoomFrames(s) \o b
  BY DEF NoHoles, Extra
<1>5. CASE RoomFrame(Head(s))
  <2>1. PICK h \in Msgs : h = Head(s)
    BY <1>1, <1>5, RoomFrameIsMsg
  <2>2. conn[c].due = (<<h>> \o a) \o b
    BY <1>1, <1>4, <1>5, <2>1, RoomFramesTail
  <2>3. <<h>> \in Seq(Msgs) /\ a \o b \in Seq(Msgs)
    BY <1>2, <1>3
  <2>4. conn[c].due = <<h>> \o (a \o b)
    BY <1>2, <1>3, <2>2, <2>3, ConcatAssociative
  <2>5. \A u \in Seq(Msgs) : <<h>> \o u # <<>> /\ Tail(<<h>> \o u) = u
    OBVIOUS
  <2> QED
    BY <1>5, <2>3, <2>4, <2>5
<1>6. CASE ~RoomFrame(Head(s))
  BY <1>1, <1>4, <1>6, RoomFramesTail
<1> QED
  BY <1>5, <1>6

\* Every step keeps the types.
LEMMA TypesStep ==
  ASSUME Types, Bounded, Listed, Counted, NoHoles, [Next]_vars
  PROVE  Types' /\ Bounded'
<1>1. ASSUME NEW c \in Conns, Connect(c) PROVE Types' /\ Bounded'
  <2>1. opened' \in 0 .. MaxConns
    <3>1. MaxConns \in Nat
      BY Constants
    <3> QED
      BY <1>1, <3>1 DEF Types, Connect
  <2>2. wallets' \in [Wallets -> SUBSET Conns]
    BY <1>1, Constants DEF Types, Connect
  <2>3. conn' = [conn EXCEPT ![c] = [NoConn EXCEPT !.state = "up", !.closed = FALSE]]
    BY <1>1 DEF Connect
  <2>4. [NoConn EXCEPT !.state = "up", !.closed = FALSE] \in Clients
    <3>1. NoConn \in Clients
      BY DEF Clients, NoConn
    <3>2. \A k \in Clients : [k EXCEPT !.state = "up", !.closed = FALSE] \in Clients
      BY DEF Clients
    <3> QED
      BY <3>1, <3>2
  <2>5. IsFiniteSet({}) /\ Len(<<>>) <= MaxSend
    <3>1. MaxSend \in Nat
      BY Constants
    <3> QED
      BY <3>1, FS_EmptySet
  <2>6. Bounded'
    BY <2>3, <2>5 DEF Bounded, NoConn, Types
  <2> QED
    BY <1>1, <2>1, <2>2, <2>3, <2>4, <2>6 DEF Types, Connect
<1>2. ASSUME NEW c \in Conns, CloseConn(c) PROVE Types' /\ Bounded'
  <2>1. conn' = [conn EXCEPT ![c] = NoConn]
    BY <1>2 DEF CloseConn
  <2>2. NoConn \in Clients
    BY DEF Clients, NoConn
  <2>3. IsFiniteSet({}) /\ Len(<<>>) <= MaxSend
    <3>1. MaxSend \in Nat
      BY Constants
    <3> QED
      BY <3>1, FS_EmptySet
  <2>4. Bounded'
    BY <2>1, <2>3 DEF Bounded, NoConn, Types
  <2> QED
    BY <1>2, <2>1, <2>2, <2>4 DEF Types, CloseConn, registry
<1>3. ASSUME NEW c \in Conns, Owed(c) PROVE Types' /\ Bounded'
  <2>1. PICK k : k = Head(conn[c].todo)
    OBVIOUS
  <2>2. conn[c] \in Clients /\ conn[c].todo # <<>> /\ k \in Calls
        /\ Tail(conn[c].todo) \in Seq(Calls)
    BY <1>3, <2>1, OwedApart DEF Types, Clients
  <2>3. SameStanding /\ \A d \in Conns \ {c} : conn'[d] = conn[d]
    BY <1>3, OwedApart
  <2>4. /\ members' \in [Rooms -> SUBSET Conns] /\ wallets' \in [Wallets -> SUBSET Conns]
        /\ refs' \in [Chans -> Nat]
    BY <2>3 DEF SameStanding, registry, Types
  <2>5. UNCHANGED <<turn, posts, opened>>
    BY <1>3 DEF Owed, RedisSubscribe, RedisUnsubscribe, RedisPublish, SendAck, OwedStep
  <2>6. subs' \in SUBSET Chans
    <3>1. subs \in SUBSET Chans
      BY DEF Types
    <3>2. CASE RedisSubscribe(c)
      <4>1. k.do = "subscribe" /\ subs' = subs \cup {k.msg.ch}
        BY <2>1, <3>2 DEF RedisSubscribe, Owes
      <4>2. k.msg.ch \in Chans
        BY <2>2, <4>1, CallKinds
      <4> QED
        BY <3>1, <4>1, <4>2
    <3>3. CASE ~RedisSubscribe(c)
      <4>1. subs' \subseteq subs
        BY <1>3, <3>3 DEF Owed, RedisUnsubscribe, RedisPublish, SendAck
      <4> QED
        BY <3>1, <4>1
    <3> QED
      BY <3>2, <3>3
  <2>7. bus' \in Seq(Msgs)
    <3>1. CASE RedisPublish(c)
      <4>1. k.msg \in Msgs
        BY <2>1, <2>2, <3>1, CallKinds DEF RedisPublish, Owes
      <4>2. bus' = bus \/ bus' = Append(bus, k.msg)
        BY <2>1, <3>1 DEF RedisPublish, Carried
      <4>3. bus \in Seq(Msgs)
        BY DEF Types
      <4> QED
        BY <4>1, <4>2, <4>3
    <3>2. CASE ~RedisPublish(c)
      BY <1>3, <3>2 DEF Owed, RedisSubscribe, RedisUnsubscribe, SendAck, Types
    <3> QED
      BY <3>1, <3>2
  <2>8. conn' \in [Conns -> Clients] /\ Len(conn'[c].send) <= MaxSend
    <3>1. CASE SendAck(c)
      <4>1. PICK e : e = Enqueue(conn[c], Ack)
        OBVIOUS
      <4>2. e \in Clients /\ Len(e.send) <= MaxSend
        <5>1. Ack \in Frames
          BY DEF Frames
        <5> QED
          BY <2>2, <4>1, <5>1, EnqueueFields DEF Bounded
      <4>3. conn' = [conn EXCEPT ![c] = [e EXCEPT !.todo = Tail(conn[c].todo)]]
        BY <3>1, <4>1 DEF SendAck
      <4> QED
        BY <2>2, <4>2, <4>3 DEF Types, Clients
    <3>2. CASE ~SendAck(c)
      <4>1. conn' = [conn EXCEPT ![c].todo = Tail(@)]
        BY <1>3, <3>2 DEF Owed, RedisSubscribe, RedisUnsubscribe, RedisPublish, Paid
      <4> QED
        BY <2>2, <4>1 DEF Types, Clients, Bounded
    <3> QED
      BY <3>1, <3>2
  <2>9. Bounded'
    BY <2>3, <2>8 DEF Bounded, SameStanding
  <2> QED
    BY <2>4, <2>5, <2>6, <2>7, <2>8, <2>9 DEF Types
<1>4. ASSUME NEW c \in Conns, Hand(c) PROVE Types' /\ Bounded'
  <2>1. PICK e : e = Enqueue(conn[c], turn.msg)
    OBVIOUS
  <2>2. e \in Clients /\ Len(e.send) <= MaxSend /\ e.pools = conn[c].pools
    BY <2>1, EnqueueFields DEF Bounded, Types
  <2>3. conn' = conn \/ conn' = [conn EXCEPT ![c] = e]
    BY <1>4, <2>1 DEF Hand
  <2>4. conn' \in [Conns -> Clients] /\ Bounded'
    BY <2>2, <2>3 DEF Types, Bounded
  <2>5. turn' \in [msg : Frames, left : SUBSET Conns]
    BY <1>4 DEF Hand, Types, Idle, Frames
  <2> QED
    BY <1>4, <2>4, <2>5 DEF Hand, Types, registry
<1>5. ASSUME NEW c \in Conns, Write(c) PROVE Types' /\ Bounded'
  <2>1. PICK s : s = Tail(conn[c].send)
    OBVIOUS
  <2>2. s \in Seq(Frames) /\ Len(s) <= MaxSend
    <3>1. conn[c].send \in Seq(Frames) /\ conn[c].send # <<>> /\ Len(conn[c].send) <= MaxSend
      BY <1>5 DEF Write, Types, Clients, Bounded
    <3>2. MaxSend \in Nat
      BY Constants
    <3>3. Len(conn[c].send) \in Nat /\ Len(s) = Len(conn[c].send) - 1 /\ s \in Seq(Frames)
      BY <2>1, <3>1
    <3> QED
      BY <3>1, <3>2, <3>3
  <2>3. PICK u : u = IF RoomFrame(Head(conn[c].send)) THEN Tail(conn[c].due)
                     ELSE conn[c].due
    OBVIOUS
  <2>4. conn' = [conn EXCEPT ![c].send = s, ![c].due = u]
    BY <1>5, <2>1, <2>3 DEF Write
  <2>5. u \in Seq(Msgs)
    <3>1. conn[c].due \in Seq(Msgs)
      BY DEF Types, Clients
    <3>2. RoomFrame(Head(conn[c].send)) => conn[c].due # <<>>
      BY <1>5, FirstInLine DEF Write
    <3> QED
      BY <2>3, <3>1, <3>2
  <2>6. conn' \in [Conns -> Clients] /\ Bounded'
    <3> DEFINE x == [conn[c] EXCEPT !.send = s, !.due = u]
    <3>1. conn[c] \in Clients /\ conn \in [Conns -> Clients]
      BY DEF Types
    <3>2. conn' = [conn EXCEPT ![c] = x]
      BY <2>4, <3>1
    <3>3. x \in Clients /\ x.send = s /\ x.pools = conn[c].pools
      BY <2>2, <2>5, <3>1 DEF Clients
    <3> HIDE DEF x
    <3> QED
      BY <2>2, <3>1, <3>2, <3>3 DEF Bounded
  <2> QED
    BY <1>5, <2>6 DEF Write, WriterStep, Types, registry
<1>6. ASSUME NEW c \in Conns, WriteFails(c) PROVE Types' /\ Bounded'
  <2>1. conn' = [conn EXCEPT ![c] = Closed(conn[c])]
    BY <1>6 DEF WriteFails
  <2>2. Closed(conn[c]) \in Clients /\ Closed(conn[c]).send = <<>>
        /\ Closed(conn[c]).pools = conn[c].pools
    <3>1. conn[c] \in Clients /\ <<>> \in Seq(Frames) /\ <<>> \in Seq(Msgs)
      BY DEF Types
    <3> QED
      BY <3>1 DEF Clients, Closed
  <2>3. Len(<<>>) <= MaxSend
    <3>1. MaxSend \in Nat
      BY Constants
    <3> QED
      BY <3>1
  <2>4. conn' \in [Conns -> Clients] /\ Bounded'
    BY <2>1, <2>2, <2>3 DEF Types, Bounded
  <2> QED
    BY <1>6, <2>4 DEF WriteFails, WriterStep, Types, registry
<1>7. ASSUME NEW ch \in Chans, Elsewhere(ch) PROVE Types' /\ Bounded'
  <2>1. posts' \in 1 .. MaxPosts
    <3>1. MaxPosts \in Nat
      BY Constants
    <3> QED
      BY <1>7, <3>1 DEF Elsewhere, Types
  <2>2. [ch |-> ch, n |-> posts'] \in Msgs
    BY <2>1 DEF Msgs
  <2>3. bus' \in Seq(Msgs) /\ posts' \in 0 .. MaxPosts
    BY <1>7, <2>1, <2>2 DEF Elsewhere, Types
  <2> QED
    BY <1>7, <2>3 DEF Elsewhere, Types, Bounded, registry
<1>8. CASE Dispatch
  <2>1. bus \in Seq(Msgs) /\ bus # <<>> /\ Head(bus) \in Msgs /\ Tail(bus) \in Seq(Msgs)
    BY <1>8 DEF Dispatch, Types
  <2>2. PICK m \in Msgs : m = Head(bus)
    BY <2>1
  <2>3. m.ch \in Chans /\ Members(m.ch) \in SUBSET Conns
    BY DEF Msgs, Members, Types, Chans
  <2>4. turn' \in [msg : Frames, left : SUBSET Conns]
    BY <1>8, <2>2, <2>3 DEF Dispatch, Idle, Frames
  <2>5. \A k \in Clients : [k EXCEPT !.due = Append(@, m)] \in Clients
    <3>1. \A u \in Seq(Msgs) : Append(u, m) \in Seq(Msgs)
      OBVIOUS
    <3> QED
      BY <3>1 DEF Clients
  <2>6. conn' = [c \in Conns |->
            IF m.ch \in Rooms /\ c \in Members(m.ch) /\ ~conn[c].closed
            THEN [conn[c] EXCEPT !.due = Append(@, m)] ELSE conn[c]]
    BY <1>8, <2>2 DEF Dispatch
  <2>7. conn' \in [Conns -> Clients]
    BY <2>5, <2>6 DEF Types
  <2>8. Bounded'
    BY <2>6 DEF Types, Bounded, Clients
  <2> QED
    BY <1>8, <2>1, <2>4, <2>7, <2>8 DEF Dispatch, Types, registry
<1>9. CASE LinkBreaks
  BY <1>9 DEF LinkBreaks, Types, Bounded, registry
<1>10. CASE UNCHANGED vars
  BY <1>10 DEF vars, Types, Bounded
<1> QED
  BY <1>1, <1>2, <1>3, <1>4, <1>5, <1>6, <1>7, <1>8, <1>9, <1>10, HandleTypes DEF Next

-----------------------------------------------------------------------------
(* Who counts *)

\* Where every client is to the hub what it was, so are the lists and counts.
LEMMA StandingCarried ==
  ASSUME Listed, Counted, SameStanding
  PROVE  Listed' /\ Counted'
<1>1. \A ch : \A d \in Conns : Holds(d, ch)' <=> Holds(d, ch)
  BY DEF Holds, SameStanding
<1>2. \A ch : Holders(ch)' = Holders(ch)
  BY <1>1 DEF Holders
<1> QED
  BY <1>2 DEF Listed, Counted, SameStanding, registry

\* A subscriber more, or a subscriber less, is one more or less in the count.
LEMMA OneMore ==
  ASSUME NEW ch, NEW c \in Conns
  PROVE  /\ Holders(ch)' = Holders(ch) => Cardinality(Holders(ch))' = Cardinality(Holders(ch))
         /\ Holders(ch)' = Holders(ch) \cup {c} /\ ~Holds(c, ch) =>
              Cardinality(Holders(ch)') = Cardinality(Holders(ch)) + 1
         /\ Holders(ch)' = Holders(ch) \ {c} /\ Holds(c, ch) =>
              Cardinality(Holders(ch)') = Cardinality(Holders(ch)) - 1
<1>1. IsFiniteSet(Holders(ch))
  <2>1. Holders(ch) \in SUBSET Conns
    BY DEF Holders
  <2> QED
    BY <2>1, Constants, FS_Subset
<1>2. c \in Holders(ch) <=> Holds(c, ch)
  BY DEF Holders
<1> QED
  BY <1>1, <1>2, FS_AddElement, FS_RemoveElement

\* Whoever joins a room, subscribes or goes is listed and counted as it should.
LEMMA StandingStep ==
  ASSUME Types, Bounded, Pending, Listed, Counted, [Next]_vars
  PROVE  Listed' /\ Counted'
<1> USE DEF HandlerStep
<1>1. ASSUME NEW c \in Conns, Connect(c) PROVE Listed' /\ Counted'
  <2>1. /\ conn[c].state = "none" /\ conn'[c].state = "up" /\ conn'[c].pools = {}
        /\ conn'[c].dm = FALSE /\ \A d \in Conns \ {c} : conn'[d] = conn[d]
    BY <1>1 DEF Connect, NoConn, Types
  <2>2. members' = members /\ refs' = refs
        /\ wallets' = [wallets EXCEPT ![Actor[c]] = @ \cup {c}]
    BY <1>1 DEF Connect
  <2>3. ASSUME NEW r \in Rooms
        PROVE  members'[r] = {d \in Conns : conn'[d].state = "up" /\ r \in conn'[d].pools}
    BY <2>1, <2>2 DEF Listed
  <2>4. ASSUME NEW w \in Wallets
        PROVE  wallets'[w] = {d \in Conns : conn'[d].state = "up" /\ Actor[d] = w}
    BY <2>1, <2>2 DEF Listed, Types
  <2>5. ASSUME NEW ch \in Chans PROVE Holders(ch)' = Holders(ch)
    BY <2>1 DEF Holders, Holds
  <2> QED
    BY <2>2, <2>3, <2>4, <2>5 DEF Listed, Counted
<1>2. ASSUME NEW c \in Conns, CloseConn(c) PROVE Listed' /\ Counted'
  <2>1. /\ conn[c].state = "leaving" /\ conn'[c].state = "none"
        /\ \A d \in Conns \ {c} : conn'[d] = conn[d] /\ UNCHANGED registry
    BY <1>2 DEF CloseConn, NoConn, Types
  <2>2. UNCHANGED registry
    BY <1>2 DEF CloseConn
  <2>3. \A ch : \A d \in Conns : Holds(d, ch)' <=> Holds(d, ch)
    BY <2>1 DEF Holds
  <2>4. \A ch : Holders(ch)' = Holders(ch)
    BY <2>3 DEF Holders
  <2>5. \A d \in Conns : conn'[d].state = "up" <=> conn[d].state = "up"
    BY <2>1
  <2>6. \A d \in Conns : conn'[d].state = "up" => conn'[d] = conn[d]
    BY <2>1
  <2>7. Listed'
    BY <2>2, <2>5, <2>6 DEF Listed, registry
  <2> QED
    BY <2>2, <2>4, <2>7 DEF Counted, registry
<1>3. ASSUME NEW c \in Conns, Owed(c) PROVE Listed' /\ Counted'
  BY <1>3, OwedApart, StandingCarried
<1>4. ASSUME NEW c \in Conns, Hand(c) \/ Write(c) \/ WriteFails(c) \/ Dispatch
      PROVE  Listed' /\ Counted'
  BY <1>4, QueueStepsApart, StandingCarried
<1>5. CASE Dispatch
  <2>1. CASE Conns = {}
    <3>1. SameStanding
      BY <1>5, <2>1 DEF Dispatch, SameStanding
    <3> QED
      BY <3>1, StandingCarried
  <2> QED
    BY <1>4, <1>5, <2>1
<1>6. CASE LinkBreaks
  <2>1. SameStanding
    BY <1>6 DEF LinkBreaks, SameStanding
  <2> QED
    BY <2>1, StandingCarried
<1>7. ASSUME NEW ch \in Chans, Elsewhere(ch) PROVE Listed' /\ Counted'
  <2>1. SameStanding
    BY <1>7 DEF Elsewhere, SameStanding
  <2> QED
    BY <2>1, StandingCarried
<1>8. CASE UNCHANGED vars
  <2>1. SameStanding
    BY <1>8 DEF vars, SameStanding, registry
  <2> QED
    BY <2>1, StandingCarried
<1>9. ASSUME NEW c \in Conns, Refused(c) PROVE Listed' /\ Counted'
  <2>1. SameStanding
    BY <1>9 DEF Refused, SameStanding, registry, Types, Clients
  <2> QED
    BY <2>1, StandingCarried
<1>10. ASSUME NEW c \in Conns, NEW chans, Post(c, chans) PROVE Listed' /\ Counted'
  <2>1. SameStanding
    BY <1>10 DEF Post, SameStanding, registry, Types, Clients
  <2> QED
    BY <2>1, StandingCarried
<1>11. ASSUME NEW c \in Conns, NEW r \in Rooms, JoinRoom(c, r) PROVE Listed' /\ Counted'
  <2>1. CASE c \in members[r]
    <3>1. SameStanding
      <4>1. PICK t : conn' = [conn EXCEPT ![c].todo = t]
        BY <1>11, <2>1 DEF JoinRoom
      <4>2. UNCHANGED registry
        BY <1>11, <2>1 DEF JoinRoom, registry
      <4> QED
        BY <4>1, <4>2 DEF SameStanding, Types, Clients
    <3> QED
      BY <3>1, StandingCarried
  <2>2. CASE c \notin members[r]
    <3>1. members' = [members EXCEPT ![r] = @ \cup {c}] /\ refs' = [refs EXCEPT ![r] = @ + 1]
          /\ wallets' = wallets /\ conn[c].state = "up"
      BY <1>11, <2>2 DEF JoinRoom, Reading
    <3>2. PICK t : conn' = [conn EXCEPT ![c].pools = @ \cup {r}, ![c].todo = t]
      BY <1>11, <2>2 DEF JoinRoom
    <3>3. /\ \A d \in Conns : conn'[d].state = conn[d].state /\ conn'[d].dm = conn[d].dm
          /\ conn'[c].pools = conn[c].pools \cup {r}
          /\ \A d \in Conns \ {c} : conn'[d].pools = conn[d].pools
      BY <3>2 DEF Types, Clients
    <3>4. r \notin conn[c].pools /\ r \in Chans /\ r # Actor[c]
      BY <2>2, <3>1, Constants DEF Listed, Chans
    <3>5. ASSUME NEW q \in Rooms
          PROVE  members'[q] = {d \in Conns : conn'[d].state = "up" /\ q \in conn'[d].pools}
      BY <3>1, <3>3 DEF Listed, Types
    <3>6. Listed'
      BY <3>1, <3>3, <3>5 DEF Listed
    <3>7. ~Holds(c, r) /\ Holders(r)' = Holders(r) \cup {c}
      BY <3>1, <3>3, <3>4 DEF Holds, Holders
    <3>8. ASSUME NEW ch \in Chans, ch # r PROVE Holders(ch)' = Holders(ch)
      BY <3>1, <3>3, <3>8 DEF Holds, Holders
    <3>9. Counted'
      <4>1. ASSUME NEW ch \in Chans PROVE refs'[ch] = Cardinality(Holders(ch)')
        <5>1. CASE ch = r
          BY <3>1, <3>4, <3>7, <5>1, OneMore DEF Counted, Types
        <5>2. CASE ch # r
          BY <3>1, <3>4, <3>8, <5>2 DEF Counted, Types
        <5> QED
          BY <5>1, <5>2
      <4> QED
        BY <4>1 DEF Counted
    <3> QED
      BY <3>6, <3>9
  <2> QED
    BY <2>1, <2>2
<1>12. ASSUME NEW c \in Conns, NEW r \in Rooms, LeaveRoom(c, r) PROVE Listed' /\ Counted'
  <2>1. CASE c \notin members[r]
    <3>1. SameStanding
      <4>1. PICK t : conn' = [conn EXCEPT ![c].todo = t]
        BY <1>12, <2>1 DEF LeaveRoom
      <4>2. UNCHANGED registry
        BY <1>12, <2>1 DEF LeaveRoom, registry
      <4> QED
        BY <4>1, <4>2 DEF SameStanding, Types, Clients
    <3> QED
      BY <3>1, StandingCarried
  <2>2. CASE c \in members[r]
    <3>1. members' = [members EXCEPT ![r] = @ \ {c}] /\ refs' = [refs EXCEPT ![r] = @ - 1]
          /\ wallets' = wallets /\ conn[c].state = "up"
      BY <1>12, <2>2 DEF LeaveRoom, Reading
    <3>2. PICK t : conn' = [conn EXCEPT ![c].pools = @ \ {r}, ![c].todo = t]
      BY <1>12, <2>2 DEF LeaveRoom
    <3>3. /\ \A d \in Conns : conn'[d].state = conn[d].state /\ conn'[d].dm = conn[d].dm
          /\ conn'[c].pools = conn[c].pools \ {r}
          /\ \A d \in Conns \ {c} : conn'[d].pools = conn[d].pools
      BY <3>2 DEF Types, Clients
    <3>4. r \in conn[c].pools /\ r \in Chans /\ r # Actor[c]
      BY <2>2, <3>1, Constants DEF Listed, Chans
    <3>5. ASSUME NEW q \in Rooms
          PROVE  members'[q] = {d \in Conns : conn'[d].state = "up" /\ q \in conn'[d].pools}
      BY <3>1, <3>3 DEF Listed, Types
    <3>6. Listed'
      BY <3>1, <3>3, <3>5 DEF Listed
    <3>7. Holds(c, r) /\ Holders(r)' = Holders(r) \ {c}
      BY <3>1, <3>3, <3>4 DEF Holds, Holders
    <3>8. ASSUME NEW ch \in Chans, ch # r PROVE Holders(ch)' = Holders(ch)
      BY <3>1, <3>3, <3>8 DEF Holds, Holders
    <3>9. Counted'
      <4>1. ASSUME NEW ch \in Chans PROVE refs'[ch] = Cardinality(Holders(ch)')
        <5>1. CASE ch = r
          BY <3>1, <3>4, <3>7, <5>1, OneMore DEF Counted, Types
        <5>2. CASE ch # r
          BY <3>1, <3>4, <3>8, <5>2 DEF Counted, Types
        <5> QED
          BY <5>1, <5>2
      <4> QED
        BY <4>1 DEF Counted
    <3> QED
      BY <3>6, <3>9
  <2> QED
    BY <2>1, <2>2
<1>13. ASSUME NEW c \in Conns, SubscribeDMs(c) PROVE Listed' /\ Counted'
  <2>1. CASE conn[c].dm
    <3>1. SameStanding
      <4>1. PICK t : conn' = [conn EXCEPT ![c].todo = t]
        BY <1>13, <2>1 DEF SubscribeDMs
      <4>2. UNCHANGED registry
        BY <1>13, <2>1 DEF SubscribeDMs, registry
      <4> QED
        BY <4>1, <4>2 DEF SameStanding, Types, Clients
    <3> QED
      BY <3>1, StandingCarried
  <2>2. CASE ~conn[c].dm
    <3> DEFINE w == Actor[c]
    <3>1. members' = members /\ refs' = [refs EXCEPT ![w] = @ + 1]
          /\ wallets' = wallets /\ conn[c].state = "up"
      BY <1>13, <2>2 DEF SubscribeDMs, Reading
    <3>2. PICK t : conn' = [conn EXCEPT ![c].dm = TRUE, ![c].todo = t]
      BY <1>13, <2>2 DEF SubscribeDMs
    <3>3. /\ \A d \in Conns : conn'[d].state = conn[d].state /\ conn'[d].pools = conn[d].pools
          /\ conn'[c].dm
          /\ \A d \in Conns \ {c} : conn'[d].dm = conn[d].dm
      BY <3>2 DEF Types, Clients
    <3>4. w \notin conn[c].pools /\ w \in Chans
      BY Constants DEF Types, Clients, Chans
    <3>5. Listed'
      BY <3>1, <3>3 DEF Listed
    <3>6. ~Holds(c, w) /\ Holders(w)' = Holders(w) \cup {c}
      BY <2>2, <3>1, <3>3, <3>4 DEF Holds, Holders
    <3>7. ASSUME NEW ch \in Chans, ch # w PROVE Holders(ch)' = Holders(ch)
      BY <3>1, <3>3, <3>7 DEF Holds, Holders
    <3>8. Counted'
      <4> HIDE DEF w
      <4>1. ASSUME NEW ch \in Chans PROVE refs'[ch] = Cardinality(Holders(ch)')
        <5>1. CASE ch = w
          BY <3>1, <3>4, <3>6, <5>1, OneMore DEF Counted, Types
        <5>2. CASE ch # w
          BY <3>1, <3>4, <3>7, <5>2 DEF Counted, Types
        <5> QED
          BY <5>1, <5>2
      <4> QED
        BY <4>1 DEF Counted
    <3> QED
      BY <3>5, <3>8
  <2> QED
    BY <2>1, <2>2
<1>14. ASSUME NEW c \in Conns, RemoveConn(c) PROVE Listed' /\ Counted'
  <2>1. Detach(c) /\ conn[c].state = "up"
    BY <1>14 DEF RemoveConn, Reading
  <2>2. PICK t : conn' = [conn EXCEPT ![c].state = "leaving", ![c].todo = t]
    BY <1>14 DEF RemoveConn
  <2>3. conn'[c].state = "leaving" /\ \A d \in Conns \ {c} : conn'[d] = conn[d]
    BY <2>2 DEF Types, Clients
  <2>4. ASSUME NEW r \in Rooms
        PROVE  members'[r] = {d \in Conns : conn'[d].state = "up" /\ r \in conn'[d].pools}
    BY <2>1, <2>3 DEF Listed, Detach
  <2>5. ASSUME NEW w \in Wallets
        PROVE  wallets'[w] = {d \in Conns : conn'[d].state = "up" /\ Actor[d] = w}
    <3>1. wallets' = [wallets EXCEPT ![Actor[c]] = @ \ {c}]
      BY <2>1 DEF Detach
    <3> QED
      BY <2>3, <3>1 DEF Listed, Types
  <2>6. ASSUME NEW ch \in Chans PROVE refs'[ch] = Cardinality(Holders(ch)')
    <3>1. Holders(ch)' = Holders(ch) \ {c}
      BY <2>3 DEF Holders, Holds
    <3>2. refs'[ch] = IF Holds(c, ch) THEN refs[ch] - 1 ELSE refs[ch]
      BY <2>1 DEF Detach, CountedOut, Holds
    <3>3. CASE Holds(c, ch)
      BY <3>1, <3>2, <3>3, OneMore DEF Counted
    <3>4. CASE ~Holds(c, ch)
      <4>1. Holders(ch) \ {c} = Holders(ch)
        BY <3>4 DEF Holders
      <4> QED
        BY <3>1, <3>2, <3>4, <4>1 DEF Counted
    <3> QED
      BY <3>3, <3>4
  <2> QED
    BY <2>4, <2>5, <2>6 DEF Listed, Counted
<1> QED
  BY <1>1, <1>2, <1>3, <1>4, <1>5, <1>6, <1>7, <1>8, <1>9, <1>10, <1>11, <1>12,
     <1>13, <1>14 DEF Next, Handle, PoolMessage, DM

-----------------------------------------------------------------------------
(* What the handlers still have to do *)

\* What another handler has to do is still to be done after a step of c, and so
\* is what c has to do but for the call it makes.
LEMMA StillOwing ==
  ASSUME Types, NEW c \in Conns, \A d \in Conns \ {c} : conn'[d] = conn[d],
         NEW what, NEW ch, Owing(what, ch),
         \/ conn[c].todo = <<>>
         \/ conn'[c].todo = Tail(conn[c].todo) /\ Head(conn[c].todo) # Do(what, ch)
  PROVE  Owing(what, ch)'
<1>0. PICK d \in Conns : \E i \in DOMAIN conn[d].todo : conn[d].todo[i] = Do(what, ch)
  BY DEF Owing
<1>1. PICK i \in DOMAIN conn[d].todo : conn[d].todo[i] = Do(what, ch)
  BY <1>0
<1>2. CASE d # c
  BY <1>1, <1>2 DEF Owing
<1>3. CASE d = c
  <2>1. PICK s \in Seq(Calls) : s = conn[c].todo
    BY DEF Types, Clients
  <2>2. s # <<>> /\ conn'[c].todo = Tail(s) /\ Head(s) # Do(what, ch)
    BY <1>1, <1>3, <2>1
  <2>3. i \in 1 .. Len(s) /\ s[i] = Do(what, ch) /\ s[1] = Head(s)
    BY <1>1, <1>3, <2>1, <2>2
  <2>4. i # 1 /\ i - 1 \in 1 .. Len(Tail(s)) /\ Tail(s)[i - 1] = s[i]
    BY <2>1, <2>2, <2>3
  <2>5. i - 1 \in DOMAIN conn'[c].todo /\ conn'[c].todo[i - 1] = Do(what, ch)
    BY <2>1, <2>2, <2>3, <2>4
  <2> QED
    BY <2>5 DEF Owing
<1> QED
  BY <1>2, <1>3

\* A step after which every handler has the same to do, and every channel the
\* same subscribers, owes what was owed.
LEMMA CallsCarried ==
  ASSUME Pending, NothingLeaked, SameStanding, SameCalls, UNCHANGED subs
  PROVE  Pending' /\ NothingLeaked'
<1>1. \A ch : \A d \in Conns : Holds(d, ch)' <=> Holds(d, ch)
  BY DEF Holds, SameStanding
<1>2. \A what, ch : Owing(what, ch)' <=> Owing(what, ch)
  BY DEF Owing, SameCalls
<1>3. Pending'
  BY <1>1 DEF Pending, Awaited, SameCalls, SameStanding
<1>4. NothingLeaked'
  BY <1>2 DEF NothingLeaked, SameStanding, registry
<1> QED
  BY <1>3, <1>4

\* Once Redis is told, the call is not owed any more: a channel given up is no
\* longer subscribed, and one subscribed to still has the subscriber it is for.
LEMMA OwedCalls ==
  ASSUME Types, Bounded, Counted, Pending, NothingLeaked, NEW c \in Conns, Owed(c)
  PROVE  Pending' /\ NothingLeaked'
<1>1. PICK s \in Seq(Calls) : s = conn[c].todo
  BY DEF Types, Clients
<1>2. /\ SameStanding /\ \A d \in Conns \ {c} : conn'[d] = conn[d]
      /\ s # <<>> /\ conn'[c].todo = Tail(s)
  BY <1>1, OwedApart
<1>3. PICK k \in Calls : k = Head(s)
  BY <1>2
<1>4. \A ch : \A d \in Conns : Holds(d, ch)' <=> Holds(d, ch)
  BY <1>2 DEF Holds, SameStanding
<1>5. Pending'
  <2>1. \A d \in Conns : conn'[d].state = conn[d].state
    BY <1>2 DEF SameStanding
  <2>2. conn[c].state # "none"
    BY <1>1, <1>2 DEF Pending, Awaited
  <2>3. ASSUME NEW i \in DOMAIN Tail(s), NEW ch \in Chans, Tail(s)[i] = Do("subscribe", ch)
        PROVE  Holds(c, ch)'
    <3>1. i + 1 \in DOMAIN s /\ Tail(s)[i] = s[i + 1]
      BY <1>2
    <3>2. Holds(c, ch)
      BY <1>1, <2>3, <3>1 DEF Pending, Awaited
    <3> QED
      BY <1>4, <3>2
  <2>4. Awaited(c)'
    BY <1>2, <2>1, <2>2, <2>3 DEF Awaited
  <2>5. ASSUME NEW d \in Conns \ {c} PROVE Awaited(d)'
    BY <1>2, <1>4 DEF Pending, Awaited
  <2> QED
    BY <2>4, <2>5 DEF Pending
<1>6. ASSUME NEW ch \in subs', refs'[ch] = 0 PROVE Owing("unsubscribe", ch)'
  <2>1. refs[ch] = 0
    BY <1>2, <1>6 DEF SameStanding, registry
  <2>2. CASE ch \in subs /\ k # Do("unsubscribe", ch)
    <3>1. Owing("unsubscribe", ch)
      BY <2>1, <2>2 DEF NothingLeaked
    <3> QED
      BY <1>1, <1>2, <1>3, <2>2, <3>1, StillOwing
  <2>3. CASE ch \notin subs
    <3>1. RedisSubscribe(c)
      BY <1>6, <2>3 DEF Owed, RedisSubscribe, RedisUnsubscribe, RedisPublish, SendAck
    <3>2. k.do = "subscribe" /\ ch = k.msg.ch
      BY <1>1, <1>3, <1>6, <2>3, <3>1 DEF RedisSubscribe, Owes
    <3>3. ch \in Chans /\ k = Do("subscribe", ch)
      BY <3>2, CallKinds
    <3>4. Holds(c, ch)
      <4>1. 1 \in DOMAIN s /\ s[1] = k
        BY <1>2, <1>3
      <4> QED
        BY <1>1, <3>3, <4>1 DEF Pending, Awaited
    <3> QED
      BY <2>1, <3>3, <3>4, HolderCounts
  <2>4. CASE k = Do("unsubscribe", ch)
    <3>1. k.do = "unsubscribe" /\ k.msg.ch = ch
      BY <2>4 DEF Do
    <3>2. RedisUnsubscribe(c)
      BY <1>1, <1>3, <3>1 DEF Owed, RedisSubscribe, RedisPublish, SendAck, Owes
    <3> QED
      BY <1>1, <1>3, <1>6, <3>1, <3>2 DEF RedisUnsubscribe
  <2> QED
    BY <2>2, <2>3, <2>4
<1> QED
  BY <1>5, <1>6 DEF NothingLeaked

\* A handler that subscribes counts in the channel first, and one that takes a
\* channel's last subscriber away has the channel to give up.
LEMMA HandleCalls ==
  ASSUME Types, Bounded, Listed, Counted, Pending, NothingLeaked,
         NEW c \in Conns, Handle(c)
  PROVE  Pending' /\ NothingLeaked'
<1> USE DEF HandlerStep
<1>1. /\ UNCHANGED subs /\ conn[c].todo = <<>> /\ conn[c].state = "up"
      /\ \A d \in Conns \ {c} : conn'[d] = conn[d]
  BY HandleApart DEF Reading
<1>2. refs \in [Chans -> Nat] /\ conn \in [Conns -> Clients] /\ subs \subseteq Chans
  BY DEF Types
<1> DEFINE Gave ==
      \A ch \in subs : refs'[ch] = 0 /\ refs[ch] # 0 => Owing("unsubscribe", ch)'
<1>3. ASSUME Awaited(c)', Gave PROVE Pending' /\ NothingLeaked'
  <2>1. ASSUME NEW d \in Conns \ {c} PROVE Awaited(d)'
    BY <1>1 DEF Pending, Awaited, Holds
  <2>2. ASSUME NEW ch \in subs, refs'[ch] = 0 PROVE Owing("unsubscribe", ch)'
    <3>1. CASE refs[ch] = 0
      <4>1. Owing("unsubscribe", ch)
        BY <3>1 DEF NothingLeaked
      <4> QED
        BY <1>1, <4>1, StillOwing
    <3>2. CASE refs[ch] # 0
      BY <1>3, <2>2, <3>2
    <3> QED
      BY <3>1, <3>2
  <2> QED
    BY <1>1, <1>3, <2>1, <2>2 DEF Pending, NothingLeaked
<1> SUFFICES Awaited(c)' /\ Gave
  BY <1>3
<1>4. \A i, ch : i \in DOMAIN <<SayAck>> => <<SayAck>>[i] # Do("subscribe", ch)
  BY DEF SayAck, Do
<1>5. ASSUME conn' = [conn EXCEPT ![c].todo = <<SayAck>>], UNCHANGED refs
      PROVE  Awaited(c)' /\ Gave
  BY <1>1, <1>2, <1>4, <1>5 DEF Awaited, Clients
<1>6. CASE Refused(c)
  BY <1>5, <1>6 DEF Refused, registry
<1>7. ASSUME NEW chans, Post(c, chans) PROVE Awaited(c)' /\ Gave
  <2>1. PICK t : /\ conn' = [conn EXCEPT ![c].todo = t]
                 /\ t = [i \in DOMAIN chans |-> Publish([ch |-> chans[i], n |-> posts'])]
    BY <1>7 DEF Post
  <2>2. \A ch : \A i \in DOMAIN t : t[i] # Do("subscribe", ch)
    BY <2>1 DEF Publish, Do
  <2>3. UNCHANGED refs
    BY <1>7 DEF Post, registry
  <2> QED
    BY <1>1, <1>2, <2>1, <2>2, <2>3 DEF Awaited, Clients
<1>8. ASSUME NEW r \in Rooms, JoinRoom(c, r) PROVE Awaited(c)' /\ Gave
  <2>1. CASE c \in members[r]
    BY <1>5, <1>8, <2>1 DEF JoinRoom
  <2>2. CASE c \notin members[r]
    <3>1. refs' = [refs EXCEPT ![r] = @ + 1] /\ r \in Chans
      BY <1>8, <2>2 DEF JoinRoom, Chans
    <3>2. PICK t : /\ conn' = [conn EXCEPT ![c].pools = @ \cup {r}, ![c].todo = t]
                   /\ t = <<Do("subscribe", r), SayAck>> \/ t = <<SayAck>>
      BY <1>8, <2>2 DEF JoinRoom
    <3>3. conn'[c].state = "up" /\ r \in conn'[c].pools /\ conn'[c].todo = t
      BY <1>1, <1>2, <3>2 DEF Clients
    <3>4. \A ch : \A i \in DOMAIN t : t[i] = Do("subscribe", ch) => ch = r
      BY <3>2 DEF SayAck, Do
    <3>5. Awaited(c)'
      BY <3>3, <3>4 DEF Awaited, Holds
    <3>6. \A n \in Nat : n + 1 # 0
      OBVIOUS
    <3>7. Gave
      BY <1>2, <3>1, <3>6
    <3> QED
      BY <3>5, <3>7
  <2> QED
    BY <2>1, <2>2
<1>9. CASE SubscribeDMs(c)
  <2>1. CASE conn[c].dm
    BY <1>5, <1>9, <2>1 DEF SubscribeDMs
  <2>2. CASE ~conn[c].dm
    <3> PICK w \in Chans : w = Actor[c]
      BY Constants DEF Chans
    <3>1. refs' = [refs EXCEPT ![w] = @ + 1]
      BY <1>9, <2>2 DEF SubscribeDMs
    <3>2. PICK t : /\ conn' = [conn EXCEPT ![c].dm = TRUE, ![c].todo = t]
                   /\ t = <<Do("subscribe", w), SayAck>> \/ t = <<SayAck>>
      BY <1>9, <2>2 DEF SubscribeDMs
    <3>3. conn'[c].state = "up" /\ conn'[c].dm /\ conn'[c].todo = t
      BY <1>1, <1>2, <3>2 DEF Clients
    <3>4. \A ch : \A i \in DOMAIN t : t[i] = Do("subscribe", ch) => ch = w
      BY <3>2 DEF SayAck, Do
    <3>5. Awaited(c)'
      BY <3>3, <3>4 DEF Awaited, Holds
    <3>6. \A n \in Nat : n + 1 # 0
      OBVIOUS
    <3>7. Gave
      BY <1>2, <3>1, <3>6
    <3> QED
      BY <3>5, <3>7
  <2> QED
    BY <2>1, <2>2
<1>10. ASSUME NEW r \in Rooms, LeaveRoom(c, r) PROVE Awaited(c)' /\ Gave
  <2>1. CASE c \notin members[r]
    BY <1>5, <1>10, <2>1 DEF LeaveRoom
  <2>2. CASE c \in members[r]
    <3>1. refs' = [refs EXCEPT ![r] = @ - 1] /\ r \in Chans
      BY <1>10, <2>2 DEF LeaveRoom, Chans
    <3>2. PICK t : /\ conn' = [conn EXCEPT ![c].pools = @ \ {r}, ![c].todo = t]
                   /\ t = IF refs'[r] = 0 THEN <<Do("unsubscribe", r), SayAck>>
                          ELSE <<SayAck>>
      BY <1>10, <2>2 DEF LeaveRoom
    <3>3. conn'[c].state = "up" /\ conn'[c].todo = t
      BY <1>1, <1>2, <3>2 DEF Clients
    <3>4. \A ch : \A i \in DOMAIN t : t[i] # Do("subscribe", ch)
      BY <3>2 DEF SayAck, Do
    <3>5. Awaited(c)'
      BY <3>3, <3>4 DEF Awaited
    <3>6. ASSUME NEW ch \in subs, refs'[ch] = 0, refs[ch] # 0 PROVE Owing("unsubscribe", ch)'
      <4>1. ch = r
        BY <1>2, <3>1, <3>6
      <4>2. 1 \in DOMAIN t /\ t[1] = Do("unsubscribe", ch)
        BY <3>2, <3>6, <4>1
      <4> QED
        BY <3>3, <4>2 DEF Owing
    <3> QED
      BY <3>5, <3>6
  <2> QED
    BY <2>1, <2>2
<1>11. CASE RemoveConn(c)
  <2> DEFINE S == {ch \in Chans : refs[ch] = 1 /\ CountedOut(c)[ch] = 0}
  <2>1. refs' = CountedOut(c)
    BY <1>11 DEF RemoveConn, Detach
  <2>2. PICK order \in SetToSeqs(S) :
          conn' = [conn EXCEPT ![c].state = "leaving",
            ![c].todo = [i \in DOMAIN order |-> Do("unsubscribe", order[i])]]
    BY <1>11 DEF RemoveConn
  <2>3. IsFiniteSet(S) /\ Cardinality(S) \in Nat
    <3>1. S \in SUBSET (conn[c].pools \cup {Actor[c]})
      BY <1>2 DEF CountedOut
    <3>2. IsFiniteSet(conn[c].pools \cup {Actor[c]})
      BY FS_AddElement DEF Bounded
    <3> QED
      BY <3>1, <3>2, FS_Subset, FS_CardinalityType
  <2>4. /\ conn'[c].state = "leaving"
        /\ conn'[c].todo = [i \in DOMAIN order |-> Do("unsubscribe", order[i])]
    BY <1>2, <2>2 DEF Clients
  <2>5. Awaited(c)'
    BY <2>4 DEF Awaited, Do
  <2> HIDE DEF S
  <2>6. order \in Injection(1 .. Cardinality(S), S) /\ DOMAIN order = 1 .. Cardinality(S)
    BY DEF SetToSeqs, Injection, IsInjective
  <2>7. order \in Surjection(1 .. Cardinality(S), S)
    <3>1. Cardinality(1 .. Cardinality(S)) = Cardinality(S)
      BY <2>3, FS_Interval
    <3> QED
      BY <2>3, <2>6, <3>1, FS_Injection
  <2>8. ASSUME NEW ch \in S PROVE Owing("unsubscribe", ch)'
    <3>1. PICK i \in DOMAIN order : order[i] = ch
      BY <2>6, <2>7 DEF Surjection
    <3> QED
      BY <2>4, <3>1 DEF Owing
  <2>9. ASSUME NEW ch \in subs, refs'[ch] = 0, refs[ch] # 0 PROVE ch \in S
    <3>1. refs'[ch] = IF Holds(c, ch) THEN refs[ch] - 1 ELSE refs[ch]
      BY <1>1, <1>2, <2>1 DEF CountedOut, Holds
    <3>2. refs[ch] = 1 /\ ch \in Chans
      BY <1>2, <2>9, <3>1
    <3> QED
      BY <2>1, <2>9, <3>2 DEF S
  <2> QED
    BY <2>5, <2>8, <2>9
<1> HIDE DEF Gave
<1> QED
  BY <1>6, <1>7, <1>8, <1>9, <1>10, <1>11 DEF Handle, PoolMessage, DM

\* Every step leaves a call owed for each channel without subscribers.
LEMMA CallsStep ==
  ASSUME Types, Bounded, Listed, Counted, Pending, NothingLeaked, [Next]_vars
  PROVE  Pending' /\ NothingLeaked'
<1>1. ASSUME NEW c \in Conns, Connect(c) \/ CloseConn(c)
      PROVE  Pending' /\ NothingLeaked'
  <2>1. /\ conn[c].todo = <<>> /\ conn'[c].todo = <<>> /\ UNCHANGED <<refs, subs>>
        /\ \A d \in Conns \ {c} : conn'[d] = conn[d]
    <3>1. CASE Connect(c)
      <4>1. conn[c].state = "none"
        BY <3>1 DEF Connect
      <4>2. conn[c].todo = <<>>
        BY <4>1 DEF Pending, Awaited
      <4> QED
        BY <3>1, <4>2 DEF Connect, NoConn, Types
    <3>2. CASE CloseConn(c)
      BY <3>2 DEF CloseConn, NoConn, Types, registry
    <3> QED
      BY <1>1, <3>1, <3>2
  <2>2. Awaited(c)'
    BY <2>1 DEF Awaited
  <2>3. ASSUME NEW d \in Conns \ {c} PROVE Awaited(d)'
    BY <2>1 DEF Pending, Awaited, Holds
  <2>4. \A ch : Owing("unsubscribe", ch) => Owing("unsubscribe", ch)'
    BY <2>1, StillOwing
  <2> QED
    BY <2>1, <2>2, <2>3, <2>4 DEF Pending, NothingLeaked
<1>2. ASSUME NEW c \in Conns, Hand(c) \/ Write(c) \/ WriteFails(c) \/ Dispatch
      PROVE  Pending' /\ NothingLeaked'
  BY <1>2, QueueStepsApart, CallsCarried
<1>3. CASE Dispatch
  <2>1. CASE Conns = {}
    <3>1. SameStanding /\ SameCalls /\ UNCHANGED subs
      BY <1>3, <2>1 DEF Dispatch, SameStanding, SameCalls
    <3> QED
      BY <3>1, CallsCarried
  <2> QED
    BY <1>2, <1>3, <2>1
<1>4. CASE LinkBreaks
  <2>1. SameStanding /\ SameCalls /\ UNCHANGED subs
    BY <1>4 DEF LinkBreaks, SameStanding, SameCalls
  <2> QED
    BY <2>1, CallsCarried
<1>5. ASSUME NEW ch \in Chans, Elsewhere(ch) PROVE Pending' /\ NothingLeaked'
  <2>1. SameStanding /\ SameCalls /\ UNCHANGED subs
    BY <1>5 DEF Elsewhere, SameStanding, SameCalls
  <2> QED
    BY <2>1, CallsCarried
<1>6. CASE UNCHANGED vars
  <2>1. SameStanding /\ SameCalls /\ UNCHANGED subs
    BY <1>6 DEF vars, SameStanding, SameCalls, registry
  <2> QED
    BY <2>1, CallsCarried
<1> QED
  BY <1>1, <1>2, <1>3, <1>4, <1>5, <1>6, OwedCalls, HandleCalls DEF Next

-----------------------------------------------------------------------------
(* What is in line *)

\* The conjunct of NoHoles for client c.
Lined(c) == ~conn[c].closed => RoomFrames(conn[c].send) \o Extra(c) = conn[c].due

\* Where every client has in line what it had, nothing is missing from it.
LEMMA LinesCarried ==
  ASSUME NoHoles, SameLines
  PROVE  NoHoles'
BY DEF NoHoles, SameLines

\* A frame joins the line at its end, as it did what is due or the turn, and the
\* writer takes it from the front of both.
LEMMA LineStep ==
  ASSUME Types, Bounded, NoHoles, [Next]_vars
  PROVE  NoHoles'
<1>1. \A c \in Conns : Lined(c)
  BY DEF NoHoles, Lined, Extra
<1>2. ASSUME \A c \in Conns : Lined(c)' PROVE NoHoles'
  BY <1>2 DEF NoHoles, Lined, Extra
<1>3. /\ \A d \in Conns : conn[d] \in Clients
      /\ turn.msg \in Frames /\ conn \in [Conns -> Clients]
  BY DEF Types
<1>4. ASSUME NEW c \in Conns, \A d \in Conns \ {c} : conn'[d] = conn[d], UNCHANGED turn,
             Lined(c)'
      PROVE  NoHoles'
  <2>1. ASSUME NEW d \in Conns \ {c} PROVE Lined(d)'
    BY <1>1, <1>4 DEF Lined, Extra
  <2> QED
    BY <1>2, <1>4, <2>1
<1>5. ASSUME NEW c \in Conns, Connect(c) PROVE NoHoles'
  <2>1. conn'[c].send = <<>> /\ conn'[c].due = <<>> /\ c \notin turn.left
        /\ UNCHANGED turn /\ \A d \in Conns \ {c} : conn'[d] = conn[d]
    BY <1>3, <1>5 DEF Connect, NoConn
  <2>2. <<>> \o <<>> = <<>>
    OBVIOUS
  <2>3. Lined(c)'
    BY <2>1, <2>2, RoomFramesType DEF Lined, Extra
  <2> QED
    BY <1>4, <2>1, <2>3
<1>6. ASSUME NEW c \in Conns, CloseConn(c) \/ WriteFails(c) PROVE NoHoles'
  <2>1. conn'[c].closed /\ UNCHANGED turn /\ \A d \in Conns \ {c} : conn'[d] = conn[d]
    <3>1. CASE CloseConn(c)
      BY <1>3, <3>1 DEF CloseConn, NoConn
    <3>2. CASE WriteFails(c)
      BY <1>3, <3>2 DEF WriteFails, WriterStep, Closed, Clients
    <3> QED
      BY <1>6, <3>1, <3>2
  <2> QED
    BY <1>4, <2>1 DEF Lined
<1>7. ASSUME NEW c \in Conns, Handle(c) PROVE NoHoles'
  BY <1>7, HandleApart, LinesCarried
<1>8. ASSUME NEW c \in Conns, Owed(c) PROVE NoHoles'
  <2>1. CASE SendAck(c)
    <3>1. PICK e : e = Enqueue(conn[c], Ack)
      OBVIOUS
    <3>2. Ack \in Frames /\ ~RoomFrame(Ack)
      BY Constants DEF Frames, RoomFrame, Ack
    <3>3. e \in Clients /\ (~e.closed => ~conn[c].closed
            /\ e.send = Append(conn[c].send, Ack) /\ e.due = conn[c].due)
      BY <1>3, <3>1, <3>2, EnqueueFields DEF Bounded
    <3>4. conn' = [conn EXCEPT ![c] = [e EXCEPT !.todo = Tail(conn[c].todo)]]
          /\ UNCHANGED turn
      BY <2>1, <3>1 DEF SendAck, OwedStep
    <3>5. /\ conn'[c].closed = e.closed /\ conn'[c].send = e.send /\ conn'[c].due = e.due
          /\ \A d \in Conns \ {c} : conn'[d] = conn[d]
      BY <1>3, <3>3, <3>4 DEF Clients
    <3>6. RoomFrames(Append(conn[c].send, Ack)) = RoomFrames(conn[c].send)
      <4>1. conn[c].send \in Seq(Frames)
        BY <1>3 DEF Clients
      <4> QED
        BY <3>2, <4>1, RoomFramesAppend
    <3>7. Lined(c)'
      <4>1. Extra(c)' = Extra(c) /\ Lined(c)
        BY <1>1, <3>4 DEF Extra
      <4> QED
        BY <3>3, <3>5, <3>6, <4>1 DEF Lined
    <3> QED
      BY <1>4, <3>4, <3>5, <3>7
  <2> QED
    BY <1>8, <2>1, OwedApart, LinesCarried
<1>9. ASSUME NEW c \in Conns, Hand(c) PROVE NoHoles'
  <2> PICK m \in Frames : m = turn.msg
    BY <1>3
  <2>1. PICK e : e = Enqueue(conn[c], m)
    OBVIOUS
  <2>2. e \in Clients /\ (~e.closed => ~conn[c].closed
          /\ e.send = Append(conn[c].send, m) /\ e.due = conn[c].due)
    BY <1>3, <2>1, EnqueueFields DEF Bounded
  <2>3. /\ c \in turn.left
        /\ turn.left = {c} => turn' = Idle
        /\ turn.left # {c} => turn' = [turn EXCEPT !.left = @ \ {c}]
        /\ RoomFrame(m) \/ conn[c].dm => conn' = [conn EXCEPT ![c] = e]
        /\ ~(RoomFrame(m) \/ conn[c].dm) => conn' = conn
    <3>1. RoomFrame(m) <=> turn.msg.ch \in Rooms
      BY DEF RoomFrame
    <3> QED
      BY <1>9, <2>1, <3>1 DEF Hand
  <2>4. c \notin turn'.left /\ \A d \in Conns \ {c} : Extra(d)' = Extra(d)
    <3>1. CASE turn.left = {c}
      BY <2>3, <3>1 DEF Idle, Extra
    <3>2. CASE turn.left # {c}
      <4>1. turn' = [turn EXCEPT !.left = @ \ {c}]
        BY <2>3, <3>2
      <4>2. turn'.msg = turn.msg /\ turn'.left = turn.left \ {c}
        BY <4>1 DEF Types
      <4> QED
        BY <4>2 DEF Extra
    <3> QED
      BY <3>1, <3>2
  <2>5. ASSUME NEW d \in Conns \ {c} PROVE Lined(d)'
    <3>1. conn'[d] = conn[d]
      BY <1>3, <2>3
    <3> QED
      BY <1>1, <2>4, <3>1 DEF Lined
  <2>6. Extra(c)' = <<>>
    BY <2>4 DEF Extra
  <2> PICK s \in Seq(Frames) : s = conn[c].send
    BY <1>3 DEF Clients
  <2>7. RoomFrames(s) \in Seq(Msgs) /\ Append(s, m) \in Seq(Frames)
    BY RoomFramesType
  <2>8. \A u \in Seq(Msgs), x \in Msgs : Append(u, x) \o <<>> = u \o <<x>> /\ u \o <<>> = u
    OBVIOUS
  <2>9. RoomFrames(Append(s, m)) \o <<>> = RoomFrames(s) \o Extra(c)
    <3>1. CASE RoomFrame(m)
      <4>1. m \in Msgs
        BY <3>1, RoomFrameIsMsg
      <4>2. Extra(c) = <<m>>
        BY <2>3, <3>1 DEF Extra
      <4> QED
        BY <2>7, <2>8, <3>1, <4>1, <4>2, RoomFramesAppend, SMTT(30)
    <3>2. CASE ~RoomFrame(m)
      <4>1. Extra(c) = <<>>
        BY <3>2 DEF Extra
      <4> QED
        BY <3>2, <4>1, RoomFramesAppend
    <3> QED
      BY <3>1, <3>2
  <2>10. Lined(c)'
    <3>1. CASE RoomFrame(m) \/ conn[c].dm
      <4>1. conn'[c] = e
        BY <1>3, <2>3, <3>1
      <4> QED
        BY <1>1, <2>2, <2>6, <2>9, <4>1 DEF Lined
    <3>2. CASE ~(RoomFrame(m) \/ conn[c].dm)
      <4>1. conn'[c] = conn[c] /\ Extra(c) = <<>>
        BY <2>3, <3>2 DEF Extra
      <4> QED
        BY <1>1, <2>6, <4>1 DEF Lined
    <3> QED
      BY <3>1, <3>2
  <2> QED
    BY <1>2, <2>5, <2>10
<1>10. ASSUME NEW c \in Conns, Write(c) PROVE NoHoles'
  <2>1. ~conn[c].closed /\ conn[c].send # <<>> /\ UNCHANGED turn
    BY <1>10 DEF Write, WriterStep
  <2>2. PICK u : u = IF RoomFrame(Head(conn[c].send)) THEN Tail(conn[c].due)
                     ELSE conn[c].due
    OBVIOUS
  <2>3. PICK s : s = Tail(conn[c].send)
    OBVIOUS
  <2>4. conn' = [conn EXCEPT ![c].send = s, ![c].due = u]
    BY <1>10, <2>2, <2>3 DEF Write
  <2>5. conn'[c].send = s /\ conn'[c].due = u /\ \A d \in Conns \ {c} : conn'[d] = conn[d]
    BY <1>3, <2>4 DEF Clients
  <2>6. u = RoomFrames(s) \o Extra(c)
    BY <2>1, <2>2, <2>3, FirstInLine
  <2>7. Lined(c)'
    BY <2>1, <2>5, <2>6 DEF Lined, Extra
  <2> QED
    BY <1>4, <2>1, <2>5, <2>7
<1>11. CASE Dispatch
  <2>1. bus \in Seq(Msgs) /\ bus # <<>> /\ Head(bus) \in Msgs
    BY <1>11 DEF Dispatch, Types
  <2>2. PICK m \in Msgs : m = Head(bus)
    BY <2>1
  <2>3. /\ turn.left = {}
        /\ turn' = IF Members(m.ch) = {} THEN Idle ELSE [msg |-> m, left |-> Members(m.ch)]
        /\ conn' = [c \in Conns |->
             IF m.ch \in Rooms /\ c \in Members(m.ch) /\ ~conn[c].closed
             THEN [conn[c] EXCEPT !.due = Append(@, m)] ELSE conn[c]]
    BY <1>11, <2>2 DEF Dispatch
  <2>4. ASSUME NEW c \in Conns PROVE Lined(c)'
    <3>1. Extra(c) = <<>> /\ Extra(c)' = IF c \in Members(m.ch) /\ m.ch \in Rooms
                                         THEN <<m>> ELSE <<>>
      BY <2>3 DEF Extra, Idle, RoomFrame
    <3> PICK s \in Seq(Frames) : s = conn[c].send
      BY <1>3 DEF Clients
    <3>2. RoomFrames(s) \in Seq(Msgs)
      BY RoomFramesType
    <3>3. \A u \in Seq(Msgs) : u \o <<>> = u /\ Append(u, m) = u \o <<m>>
      OBVIOUS
    <3>4. ~conn[c].closed => conn[c].due = RoomFrames(s)
      BY <1>1, <3>1, <3>2, <3>3 DEF Lined
    <3>5. CASE m.ch \in Rooms /\ c \in Members(m.ch) /\ ~conn[c].closed
      <4>1. conn'[c] = [conn[c] EXCEPT !.due = Append(@, m)]
        BY <2>3, <3>5
      <4>2. conn'[c].send = s /\ conn'[c].due = Append(conn[c].due, m)
        BY <1>3, <4>1 DEF Clients
      <4> QED
        BY <3>1, <3>2, <3>3, <3>4, <3>5, <4>2 DEF Lined
    <3>6. CASE ~(m.ch \in Rooms /\ c \in Members(m.ch) /\ ~conn[c].closed)
      <4>1. conn'[c] = conn[c]
        BY <2>3, <3>6
      <4> QED
        BY <3>1, <3>2, <3>3, <3>4, <3>6, <4>1 DEF Lined
    <3> QED
      BY <3>5, <3>6
  <2> QED
    BY <1>2, <2>4
<1>12. CASE LinkBreaks
  BY <1>12, LinesCarried DEF LinkBreaks, SameLines
<1>13. ASSUME NEW ch \in Chans, Elsewhere(ch) PROVE NoHoles'
  BY <1>13, LinesCarried DEF Elsewhere, SameLines
<1>14. CASE UNCHANGED vars
  BY <1>14, LinesCarried DEF vars, SameLines
<1> QED
  BY <1>5, <1>6, <1>7, <1>8, <1>9, <1>10, <1>11, <1>12, <1>13, <1>14 DEF Next

-----------------------------------------------------------------------------
(* Theorems *)

\* The hub starts with no clients, no subscriptions and nothing in line.
LEMMA InitInv ==
  ASSUME Init
  PROVE  IInv
<1> USE DEF Init
<1>1. NoConn \in Clients
  BY DEF Clients, NoConn
<1>2. Types
  <2>1. MaxPosts \in Nat /\ MaxConns \in Nat
    BY Constants
  <2> QED
    BY <1>1, <2>1 DEF Types, Idle, Frames
<1>3. Bounded
  <2>1. MaxSend \in Nat
    BY Constants
  <2>2. IsFiniteSet({}) /\ Len(<<>>) <= MaxSend
    BY <2>1, FS_EmptySet
  <2>3. \A c \in Conns : conn[c].send = <<>> /\ conn[c].pools = {}
    BY DEF NoConn
  <2> QED
    BY <2>2, <2>3 DEF Bounded
<1>4. Listed
  BY DEF Listed, NoConn
<1>5. Counted
  <2>1. \A ch : Holders(ch) = {}
    BY DEF Holders, Holds, NoConn
  <2> QED
    BY <2>1, FS_EmptySet DEF Counted
<1>6. Pending
  BY DEF Pending, Awaited, NoConn
<1>7. NothingLeaked
  BY DEF NothingLeaked
<1>8. NoHoles
  BY DEF NoHoles, NoConn
<1> QED
  BY <1>2, <1>3, <1>4, <1>5, <1>6, <1>7, <1>8 DEF IInv

\* Every step keeps the invariant.
LEMMA StepInv ==
  ASSUME IInv, [Next]_vars
  PROVE  IInv'
BY TypesStep, StandingStep, CallsStep, LineStep DEF IInv

\* The invariant holds of every reachable state.
THEOREM Invariant == Spec => []IInv
<1>1. Init => IInv
  BY InitInv
<1>2. IInv /\ [Next]_vars => IInv'
  BY StepInv
<1> QED
  BY <1>1, <1>2, PTL DEF Spec

\* The counts and queues of the hub stay in their bounds: no channel counts more
\* subscribers than there are clients, and no queue outgrows its capacity.
THEOREM TypeCorrect == Spec => []TypeOK
<1>1. IInv => TypeOK
  <2> SUFFICES ASSUME IInv PROVE TypeOK
    OBVIOUS
  <2>1. Types /\ Bounded /\ Counted
    BY DEF IInv
  <2>2. ASSUME NEW ch \in Chans PROVE refs[ch] \in 0 .. Cardinality(Conns)
    <3>1. Holders(ch) \in SUBSET Conns
      BY DEF Holders
    <3>2. Cardinality(Holders(ch)) <= Cardinality(Conns)
          /\ Cardinality(Holders(ch)) \in Nat /\ Cardinality(Conns) \in Nat
      BY <3>1, Constants, FS_Subset, FS_CardinalityType
    <3> QED
      BY <2>1, <3>2 DEF Counted
  <2>3. refs \in [Chans -> 0 .. Cardinality(Conns)]
    BY <2>1, <2>2 DEF Types
  <2>4. ASSUME NEW c \in Conns
        PROVE  /\ conn[c].state \in {"none", "up", "leaving"}
               /\ conn[c].pools \subseteq Rooms /\ conn[c].dm \in BOOLEAN
               /\ conn[c].send \in Seq(Frames) /\ Len(conn[c].send) <= MaxSend
    BY <2>1 DEF Types, Bounded, Clients
  <2> QED
    BY <2>1, <2>3, <2>4 DEF TypeOK, Types
<1> QED
  BY <1>1, Invariant, PTL

\* The counts that decide when a Redis channel is subscribed or given up are
\* those of the clients that are there.
THEOREM CountsExact == Spec => []RefsExact
<1>1. IInv => RefsExact
  <2> SUFFICES ASSUME IInv PROVE RefsExact
    OBVIOUS
  <2>1. Types /\ Listed /\ Counted
    BY DEF IInv
  <2>2. ASSUME NEW r \in Rooms PROVE refs[r] = Cardinality(members[r])
    <3>1. r \in Chans /\ \A c \in Conns : r # Actor[c]
      BY Constants DEF Chans
    <3>2. Holders(r) = members[r]
      BY <2>1, <3>1 DEF Holders, Holds, Listed
    <3> QED
      BY <2>1, <3>1, <3>2 DEF Counted
  <2>3. ASSUME NEW w \in Wallets
        PROVE  refs[w] = Cardinality({c \in wallets[w] : conn[c].dm})
    <3>1. w \in Chans /\ w \notin Rooms
      BY Constants DEF Chans
    <3>2. \A c \in Conns : w \notin conn[c].pools
      BY <2>1, <3>1 DEF Types, Clients
    <3>3. Holders(w) = {c \in wallets[w] : conn[c].dm}
      BY <2>1, <3>2 DEF Holders, Holds, Listed, Types, Clients
    <3> QED
      BY <2>1, <3>1, <3>3 DEF Counted
  <2> QED
    BY <2>1, <2>2, <2>3 DEF RefsExact, Listed
<1> QED
  BY <1>1, Invariant, PTL

\* No subscription is left behind: for each channel that is subscribed and has
\* no local subscriber, some handler has the call to give it up still to make.
THEOREM NoSubscriptionLeaks == Spec => []NothingLeaked
<1>1. IInv => NothingLeaked
  BY DEF IInv
<1> QED
  BY <1>1, Invariant, PTL

\* The queue of a connected client holds the messages fanned out to its rooms,
\* each once and in order: a client that falls behind is closed, never skipped.
THEOREM LinesWhole == Spec => []NoHoles
<1>1. IInv => NoHoles
  BY DEF IInv
<1> QED
  BY <1>1, Invariant, PTL
=============================================================================
