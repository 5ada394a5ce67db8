---------------------------- MODULE BrokerProofs ----------------------------
(***************************************************************************)
(* Theorems about the realtime fan-out, for every set of clients, channels *)
(* and pools, every capacity and every set of messages.                    *)
(*                                                                         *)
(* All but two actions touch one connection, so the invariant is stated of *)
(* a connection: lemma Elsewhere carries it over to all the others, and    *)
(* there is one lemma per action for the connection it is about.           *)
(***************************************************************************)
EXTENDS Broker, TLAPS, FiniteSetTheorems, SequenceTheorems

EventFrames == {f \in Frames : f.key = ""}
CoalescedFrames == {f \in Frames : f.key # ""}
Subs == [filter : Filters, closed : BOOLEAN, evicted : BOOLEAN, signal : BOOLEAN,
         queue : Seq(EventFrames), pending : [Keys -> 0 .. MaxMsgs],
         order : Seq(Keys)]
Turns == [frame : Frames \cup {<<>>}, left : SUBSET Conns, wake : SUBSET Conns,
          evict : SUBSET Conns]
Writers == [pc : {"none", "wait", "drain", "write"}, out : Seq(Frames)]

Types ==
  /\ index \in [Channels -> SUBSET Conns] /\ wildcard \subseteq Conns
  /\ turn \in Turns /\ seq \in 0 .. MaxMsgs
  /\ sub \in [Conns -> Subs] /\ writer \in [Conns -> Writers]
  /\ reader \in [Conns -> {"none", "up", "closing", "leaving"}]
  /\ due \in [Conns -> Seq(EventFrames)] /\ got \in [Conns -> Seq(EventFrames)]
  /\ ticks \in [Conns -> [Keys -> 0 .. MaxMsgs]]
  /\ gotTicks \in [Conns -> Seq(CoalescedFrames)]

\* The slots in use are counted.
Slots ==
  LET taken == {c \in Conns : reader[c] # "none"}
  IN  IsFiniteSet(taken) /\ total = Cardinality(taken) /\ total <= MaxConns

\* The frame in the turn is the last one dispatched.
TurnFrame ==
  ~Unlocked => turn.frame \in Frames /\ turn.frame.n = seq

-----------------------------------------------------------------------------
(* Of a connection *)

\* A subscription is closed by its reader, and a writer that does not write has
\* written all it had.
Flags(c) ==
  /\ sub[c].closed <=> reader[c] # "up"
  /\ writer[c].pc # "write" => writer[c].out = <<>>
  /\ sub[c].filter.all => sub[c].filter.chans = {}

\* The conjunct of IndexExact for c.
Found(c) ==
  LET there == reader[c] \in {"up", "closing"} IN
  /\ \A ch \in Channels :
       c \in index[ch] <=> there /\ ~sub[c].filter.all /\ ch \in sub[c].filter.chans
  /\ c \in wildcard <=> there /\ sub[c].filter.all

\* What is buffered, and what was taken out of the buffer, fits.
Buffered(c) ==
  /\ ToSet(sub[c].order) = Pending(sub[c]) /\ IsInjective(sub[c].order)
  /\ Len(sub[c].queue) + Len(sub[c].order) <= MaxBuf
  /\ Len(writer[c].out) <= MaxBuf

\* A writer that is writing is woken as one that waits.
Woken(c) ==
  writer[c].pc \in {"wait", "write"} /\ c \notin turn.wake
    /\ (sub[c].queue # <<>> \/ sub[c].evicted) => sub[c].signal

\* The ticks of a key are sent before they are drained, drained before they are
\* pending, and pending before they are delivered.
Ascending(c) ==
  LET told == gotTicks[c]
      out == writer[c].out
      last == IF c \in turn.left THEN seq - 1 ELSE seq
  IN
  /\ \A i, j \in DOMAIN told : i < j /\ told[i].key = told[j].key =>
       told[i].n < told[j].n
  /\ \A i \in DOMAIN told, j \in DOMAIN out :
       told[i].key = out[j].key => told[i].n < out[j].n
  /\ \A i, j \in DOMAIN out : i # j /\ out[i].key = out[j].key => out[i].key = ""
  /\ \A k \in Keys : sub[c].pending[k] # 0 =>
       /\ \A i \in DOMAIN told : told[i].key = k => told[i].n < sub[c].pending[k]
       /\ \A i \in DOMAIN out : out[i].key = k => out[i].n < sub[c].pending[k]
       /\ sub[c].pending[k] <= last
  /\ \A i \in DOMAIN told : told[i].n <= last
  /\ \A i \in DOMAIN out : out[i].key # "" => out[i].n <= last

\* The frame in the turn is still due to c.
Awaits(c) == c \in turn.left \cup turn.evict

\* The newest tick of a key is on its way, or is the one in the turn.
Newest(c) ==
  \A k \in Keys :
    Live(c) /\ ticks[c][k] # 0 =>
      \/ Awaits(c) /\ turn.frame = [n |-> ticks[c][k], key |-> k]
      \/ sub[c].pending[k] = ticks[c][k]
      \/ \E i \in DOMAIN writer[c].out :
           writer[c].out[i] = [n |-> ticks[c][k], key |-> k]
      \/ \E i \in DOMAIN gotTicks[c] : gotTicks[c][i] = [n |-> ticks[c][k], key |-> k]

\* What the turn adds to the frames due to c.
Extra(c) == IF Awaits(c) /\ turn.frame.key = "" THEN 1 ELSE 0

\* The first m frames drained are events, and with the buffered ones they are
\* what is due after what has been sent.
Lined(c, m) ==
  LET out == writer[c].out
      queue == sub[c].queue
      sentN == Len(got[c])
  IN
  /\ \A i \in DOMAIN out : out[i].key = "" <=> i <= m
  /\ \A i \in 1 .. m : due[c][sentN + i] = out[i]
  /\ \A i \in DOMAIN queue : due[c][sentN + m + i] = queue[i]
  /\ Len(due[c]) >= sentN + m + Len(queue)
  /\ Live(c) => /\ Len(due[c]) = sentN + m + Len(queue) + Extra(c)
                /\ Extra(c) = 1 => due[c][Len(due[c])] = turn.frame

Owed(c) ==
  writer[c].pc # "none" => \E m \in 0 .. Len(writer[c].out) : Lined(c, m)

\* A tick that is being delivered to a live client is the newest of its key.
Offered(c) ==
  Live(c) /\ Awaits(c) /\ turn.frame.key # "" =>
    ticks[c][turn.frame.key] = turn.frame.n

ConnInv(c) ==
  /\ Flags(c) /\ Found(c) /\ Buffered(c) /\ Woken(c)
  /\ Ascending(c) /\ Newest(c) /\ Owed(c) /\ Offered(c)

IInv == Types /\ Slots /\ TurnFrame /\ \A c \in Conns : ConnInv(c)

-----------------------------------------------------------------------------
(* Steps *)

\* A step of connection c other than the start of a dispatch.
ConnStep(c) ==
  \/ Connect(c) \/ ReadFails(c) \/ Unregister(c) \/ Release(c)
  \/ \E chans \in SUBSET Channels, pools \in SUBSET Pools, add \in BOOLEAN :
       Resubscribe(c, chans, pools, add)
  \/ Deliver(c) \/ Pump(c) \/ Cancelled(c) \/ WriteFails(c)

\* A step dispatches a message or is of one connection.
LEMMA StepCases ==
  ASSUME [Next]_vars
  PROVE  \/ \E m \in Msgs : Dispatch(m)
         \/ \E c \in Conns : ConnStep(c)
         \/ UNCHANGED vars
  BY Zenon DEF Next, ConnStep

\* The capacity and the bounds are numbers.
LEMMA Bounds == MaxBuf \in Nat /\ MaxBuf > 0 /\ MaxConns \in Nat /\ MaxMsgs \in Nat
<1>1. MaxBuf \in Nat \ {0} /\ MaxConns \in Nat \ {0} /\ MaxMsgs \in Nat
  BY BrokerAssumption, Zenon DEF BrokerAssumption
<1> QED
  BY ONLY <1>1

\* A message has a channel, and a key if it is coalesced.
LEMMA MessageFields ==
  \A m \in Msgs : m.chan \in Channels /\ m.key \in Keys \cup {""}
<1>1. Msgs \subseteq [chan : Channels, pool : Pools \cup {""}, key : STRING]
  BY BrokerAssumption, Zenon DEF BrokerAssumption
<1>2. \A m \in Msgs : m.chan \in Channels
  BY ONLY <1>1, Zenon
<1>3. \A m \in Msgs : m.key \in Keys \cup {""}
  BY Zenon DEF Keys
<1> QED
  BY <1>2, <1>3

\* No frame of a key is a must-deliver frame.
LEMMA KeyFrames ==
  /\ \A k \in Keys : k # ""
  /\ \A f \in EventFrames : f.key = ""
  /\ \A f \in CoalescedFrames : f.key # ""
  /\ EventFrames \subseteq Frames /\ CoalescedFrames \subseteq Frames
  BY Zenon DEF Keys, EventFrames, CoalescedFrames

\* The types of a connection's buffer.
LEMMA BufferTypes ==
  ASSUME Types, NEW c \in Conns
  PROVE  LET queue == sub[c].queue
             order == sub[c].order
         IN
         /\ sub[c] \in Subs
         /\ queue \in Seq(EventFrames) /\ Len(queue) \in Nat
         /\ DOMAIN queue = 1 .. Len(queue)
         /\ \A i \in 1 .. Len(queue) : queue[i] \in EventFrames
         /\ order \in Seq(Keys) /\ Len(order) \in Nat
         /\ DOMAIN order = 1 .. Len(order)
         /\ \A i \in 1 .. Len(order) : order[i] \in Keys
         /\ sub[c].pending \in [Keys -> 0 .. MaxMsgs]
         /\ \A k \in Keys : sub[c].pending[k] \in Nat
<1>1. sub[c] \in Subs
  <2>1. sub \in [Conns -> Subs]
    BY DEF Types
  <2> QED
    BY <2>1
<1>2. /\ sub[c].queue \in Seq(EventFrames) /\ sub[c].order \in Seq(Keys)
      /\ sub[c].pending \in [Keys -> 0 .. MaxMsgs]
  BY <1>1 DEF Subs
<1>3. \A k \in Keys : sub[c].pending[k] \in Nat
  BY <1>2
<1> QED
  BY <1>1, <1>2, <1>3

\* The types of the frames a writer holds and of the ticks it has sent.
LEMMA FrameTypes ==
  ASSUME Types, NEW c \in Conns
  PROVE  LET out == writer[c].out
             told == gotTicks[c]
         IN
         /\ writer[c] \in Writers /\ seq \in Nat
         /\ out \in Seq(Frames) /\ Len(out) \in Nat /\ DOMAIN out = 1 .. Len(out)
         /\ \A i \in 1 .. Len(out) : out[i] \in Frames /\ out[i].n \in Nat
         /\ told \in Seq(CoalescedFrames) /\ Len(told) \in Nat
         /\ DOMAIN told = 1 .. Len(told)
         /\ \A i \in 1 .. Len(told) : told[i].n \in Nat /\ told[i].key # ""
<1>1. writer \in [Conns -> Writers] /\ seq \in 0 .. MaxMsgs
  BY DEF Types
<1>2. writer[c] \in Writers /\ seq \in Nat
  BY <1>1
<1>3. writer[c].out \in Seq(Frames) /\ gotTicks[c] \in Seq(CoalescedFrames)
  BY <1>2 DEF Types, Writers
<1>4. \A f \in Frames : f.n \in Nat
  <2>1. \A f \in Frames : f.n \in 1 .. MaxMsgs
    BY Zenon DEF Frames
  <2> QED
    BY <2>1
<1>5. /\ \A i \in 1 .. Len(writer[c].out) : writer[c].out[i] \in Frames
      /\ \A i \in 1 .. Len(gotTicks[c]) : gotTicks[c][i] \in CoalescedFrames
  BY <1>3
<1>6. \A i \in 1 .. Len(gotTicks[c]) :
        gotTicks[c][i].n \in Nat /\ gotTicks[c][i].key # ""
  BY <1>4, <1>5, KeyFrames
<1>7. \A i \in 1 .. Len(writer[c].out) : writer[c].out[i].n \in Nat
  BY <1>4, <1>5
<1>8. /\ Len(writer[c].out) \in Nat /\ DOMAIN writer[c].out = 1 .. Len(writer[c].out)
      /\ Len(gotTicks[c]) \in Nat /\ DOMAIN gotTicks[c] = 1 .. Len(gotTicks[c])
  BY <1>3
<1> QED
  BY <1>2, <1>3, <1>5, <1>6, <1>7, <1>8

\* The types of what is due to a client and of the events it has been sent.
LEMMA DueTypes ==
  ASSUME Types, NEW c \in Conns
  PROVE  /\ due[c] \in Seq(EventFrames) /\ got[c] \in Seq(EventFrames)
         /\ Len(due[c]) \in Nat /\ DOMAIN due[c] = 1 .. Len(due[c])
         /\ Len(got[c]) \in Nat /\ DOMAIN got[c] = 1 .. Len(got[c])
         /\ ticks[c] \in [Keys -> 0 .. MaxMsgs]
         /\ \A k \in Keys : ticks[c][k] \in Nat
<1>1. /\ due[c] \in Seq(EventFrames) /\ got[c] \in Seq(EventFrames)
      /\ ticks[c] \in [Keys -> 0 .. MaxMsgs]
  BY DEF Types
<1> QED
  BY <1>1

\* What connection d depends on stays.
Apart(d) ==
  /\ UNCHANGED <<sub[d], reader[d], writer[d], due[d], ticks[d], got[d], gotTicks[d]>>
  /\ seq' = seq /\ turn'.frame = turn.frame
  /\ \A ch \in Channels : d \in index'[ch] <=> d \in index[ch]
  /\ d \in wildcard' <=> d \in wildcard
  /\ d \in turn'.left <=> d \in turn.left
  /\ d \in turn'.wake <=> d \in turn.wake
  /\ d \in turn'.evict <=> d \in turn.evict

\* A connection that a step does not touch keeps its invariant.
LEMMA Elsewhere ==
  ASSUME NEW d \in Conns, ConnInv(d), Apart(d)
  PROVE  ConnInv(d)'
<1>1. Flags(d)' /\ Buffered(d)' /\ Woken(d)'
  BY DEF ConnInv, Apart, Flags, Buffered, Woken, Size, Pending
<1>2. Found(d)'
  BY DEF ConnInv, Apart, Found
<1>3. Ascending(d)'
  BY DEF ConnInv, Apart, Ascending
<1>4. (Live(d)' <=> Live(d)) /\ (Awaits(d)' <=> Awaits(d)) /\ Extra(d)' = Extra(d)
  BY DEF Apart, Live, Awaits, Extra
<1>5. Newest(d)' /\ Offered(d)'
  <2>1. Newest(d)'
    BY <1>4, SMTT(20) DEF ConnInv, Apart, Newest
  <2>2. Offered(d)'
    <3>1. Offered(d) /\ ticks'[d] = ticks[d] /\ turn'.frame = turn.frame
      BY DEF ConnInv, Apart
    <3> QED
      BY ONLY <1>4, <3>1 DEF Offered
  <2> QED
    BY <2>1, <2>2
<1>6. ASSUME NEW m, Lined(d, m) PROVE Lined(d, m)'
  BY <1>4, <1>6 DEF Apart, Lined
<1>7. Owed(d)'
  BY <1>6 DEF ConnInv, Apart, Owed
<1> QED
  BY <1>1, <1>2, <1>3, <1>5, <1>7 DEF ConnInv

\* Resubscribe, with the filter it results in.
Relisted(c, f) ==
  /\ reader[c] = "up" /\ ~sub[c].filter.all /\ Unlocked
  /\ sub' = [sub EXCEPT ![c].filter = f]
  /\ index' = Indexed(Deindexed(index, c, sub[c].filter), c, f)
  /\ UNCHANGED <<wildcard, turn, reader, writer, total, seq, history>>

\* The filter asks for some channels and pools, not for everything.
LEMMA ResubscribeLists ==
  ASSUME Types, NEW c \in Conns, NEW chans \in SUBSET Channels,
         NEW pools \in SUBSET Pools, NEW add \in BOOLEAN,
         Resubscribe(c, chans, pools, add)
  PROVE  \E f \in Filters : ~f.all /\ Relisted(c, f)
<1> DEFINE old == sub[c].filter
           more == [old EXCEPT !.chans = @ \cup chans, !.pools = @ \cup pools]
           less == [old EXCEPT !.chans = @ \ chans, !.pools = @ \ pools]
<1>1. old \in Filters /\ ~old.all
  BY DEF Types, Subs, Resubscribe
<1>2. more \in Filters /\ ~more.all /\ less \in Filters /\ ~less.all
  BY <1>1 DEF Filters
<1>3. CASE add
  BY <1>2, <1>3 DEF Resubscribe, Relisted
<1>4. CASE ~add
  BY <1>2, <1>4 DEF Resubscribe, Relisted
<1> QED
  BY <1>3, <1>4

\* A step of c touches no other connection.
LEMMA OthersApart ==
  ASSUME Types, NEW c \in Conns, ConnStep(c), NEW d \in Conns, d # c
  PROVE  Apart(d)
<1> USE DEF Types, Turns, Apart, broker, history, view
<1>1. CASE Connect(c)
  BY <1>1 DEF Connect, Indexed, Wild
<1>2. CASE ReadFails(c) \/ Release(c)
  BY <1>2 DEF ReadFails, Release
<1>3. CASE Unregister(c)
  BY <1>3 DEF Unregister, Deindexed
<1>4. CASE \E chans \in SUBSET Channels, pools \in SUBSET Pools, add \in BOOLEAN :
             Resubscribe(c, chans, pools, add)
  <2> HIDE DEF Types, Turns, Apart
  <2>1. PICK f \in Filters : Relisted(c, f)
    BY <1>4, ResubscribeLists
  <2>2. \A ch \in Channels : d \in index'[ch] <=> d \in index[ch]
    BY <2>1 DEF Relisted, Indexed, Deindexed
  <2>3. sub'[d] = sub[d]
    BY <2>1 DEF Relisted, Types
  <2> QED
    BY <2>1, <2>2, <2>3 DEF Relisted, Apart
<1>5. CASE Deliver(c)
  <2>1. CASE DeliverDeaf(c)
    BY <2>1 DEF Delivering, DeliverDeaf
  <2>5. CASE Overflow(c)
    BY <2>5 DEF Delivering, Overflow
  <2>2. CASE DeliverTick(c)
    BY <2>2 DEF Delivering, DeliverTick
  <2>3. CASE DeliverEvent(c)
    BY <2>3 DEF Delivering, DeliverEvent
  <2>4. CASE Notify(c)
    BY <2>4 DEF Notify
  <2>6. CASE Evict(c)
    BY <2>6 DEF Evict
  <2> QED
    BY <1>5, <2>1, <2>2, <2>3, <2>4, <2>5, <2>6 DEF Deliver
<1>6. CASE Pump(c)
  BY <1>6 DEF Pump, Wake, DrainEvicted, Drain, Write, WriterStep, WriterEnds
<1>7. CASE Cancelled(c) \/ WriteFails(c)
  BY <1>7 DEF Cancelled, WriteFails, WriterStep, WriterEnds
<1> QED
  BY <1>1, <1>2, <1>3, <1>4, <1>5, <1>6, <1>7 DEF ConnStep

-----------------------------------------------------------------------------
(* The steps that move no frame *)

\* The frames of c stay where they are, and if c is still live after the step
\* then so it was before, with the turn in the same place.
Still(c) ==
  /\ UNCHANGED <<sub[c].queue, sub[c].pending, sub[c].order, writer[c].out,
                 due[c], ticks[c], got[c], gotTicks[c], seq, turn.frame>>
  /\ Live(c)' => Live(c) /\ (Awaits(c)' <=> Awaits(c))
  /\ c \in turn'.left => c \in turn.left
  /\ writer'[c].pc # "none" => writer[c].pc # "none"

\* Such a step keeps what is said of the frames.
LEMMA StillKeeps ==
  ASSUME NEW c \in Conns, Types, ConnInv(c), Still(c)
  PROVE  /\ Buffered(c)' /\ Ascending(c)' /\ Newest(c)'
         /\ Owed(c)' /\ Offered(c)'
<1>1. Buffered(c)'
  BY DEF ConnInv, Still, Buffered, Pending
<1>2. Ascending(c)'
  <2>2. /\ seq \in Nat
        /\ \A i \in DOMAIN gotTicks[c] : gotTicks[c][i].n \in Nat
        /\ \A i \in DOMAIN writer[c].out : writer[c].out[i].n \in Nat
        /\ \A k \in Keys : sub[c].pending[k] \in Nat
    BY FrameTypes, BufferTypes
  <2>6. CASE (c \in turn'.left) <=> (c \in turn.left)
    <3>1. /\ sub'[c].pending = sub[c].pending /\ writer'[c].out = writer[c].out
          /\ gotTicks'[c] = gotTicks[c] /\ seq' = seq /\ Ascending(c)
      BY DEF ConnInv, Still
    <3> QED
      BY ONLY <2>6, <3>1, Zenon DEF Ascending
  <2>7. CASE c \notin turn'.left /\ c \in turn.left
    <3>1. /\ seq' = seq /\ gotTicks'[c] = gotTicks[c]
          /\ writer'[c].out = writer[c].out /\ sub'[c].pending = sub[c].pending
      BY DEF Still
    <3> DEFINE told == gotTicks[c]
               out == writer[c].out
    <3>2. /\ \A k \in Keys : sub[c].pending[k] # 0 => sub[c].pending[k] <= seq - 1
          /\ \A i \in DOMAIN told : told[i].n <= seq - 1
          /\ \A i \in DOMAIN out : out[i].key # "" => out[i].n <= seq - 1
      BY <2>7 DEF ConnInv, Ascending
    <3>3. /\ \A k \in Keys : sub[c].pending[k] # 0 => sub[c].pending[k] <= seq
          /\ \A i \in DOMAIN told : told[i].n <= seq
          /\ \A i \in DOMAIN out : out[i].key # "" => out[i].n <= seq
      <4>1. \A x \in Nat : x <= seq - 1 => x <= seq
        BY <2>2
      <4> QED
        BY <2>2, <3>2, <4>1
    <3> QED
      BY <2>7, <3>1, <3>3 DEF ConnInv, Ascending
  <2> QED
    BY <2>6, <2>7 DEF Still
<1>3. Newest(c)' /\ Offered(c)'
  <2>1. Newest(c)'
    BY SMTT(20) DEF ConnInv, Still, Newest
  <2>2. Offered(c)'
    <3>1. /\ Offered(c) /\ ticks'[c] = ticks[c] /\ turn'.frame = turn.frame
          /\ Live(c)' => Live(c) /\ (Awaits(c)' <=> Awaits(c))
      BY DEF ConnInv, Still
    <3> QED
      BY ONLY <3>1 DEF Offered
  <2> QED
    BY <2>1, <2>2
<1>4. Live(c)' => Extra(c)' = Extra(c)
  BY DEF Still, Extra
<1>5. ASSUME NEW m, Lined(c, m) PROVE Lined(c, m)'
  BY <1>4, <1>5 DEF Still, Lined
<1>6. Owed(c)'
  BY <1>5 DEF ConnInv, Still, Owed
<1> QED
  BY <1>1, <1>2, <1>3, <1>6

\* The goroutine that owns the connection: the socket fails, the subscription
\* is taken out of the index, the slot is given back.
LEMMA ReaderSteps ==
  ASSUME NEW c \in Conns, Types, ConnInv(c),
         ReadFails(c) \/ Unregister(c) \/ Release(c)
  PROVE  ConnInv(c)'
<1>1. sub[c] \in Subs /\ reader[c] \in {"none", "up", "closing", "leaving"}
  BY DEF Types
<1>2. CASE ReadFails(c)
  <2>1. /\ reader'[c] = "closing"
        /\ sub'[c] = [sub[c] EXCEPT !.closed = TRUE]
        /\ UNCHANGED <<broker, turn, writer, total, seq, history>>
        /\ reader[c] = "up"
    BY <1>2 DEF ReadFails, Types
  <2>2. Still(c)
    BY <1>1, <2>1 DEF Still, Live, Subs, history, view
  <2>3. Flags(c)' /\ Found(c)' /\ Woken(c)'
    BY <1>1, <2>1 DEF ConnInv, Flags, Found, Woken, Subs, broker
  <2> QED
    BY <2>2, <2>3, StillKeeps DEF ConnInv
<1>3. CASE Unregister(c)
  <2>1. /\ reader[c] = "closing" /\ reader'[c] = "leaving"
        /\ index' = Deindexed(index, c, sub[c].filter) /\ wildcard' = wildcard \ {c}
        /\ UNCHANGED <<turn, sub, writer, total, seq, history>>
    BY <1>3 DEF Unregister, Types
  <2>2. Still(c)
    BY <1>1, <2>1 DEF Still, Live, history, view
  <2>3. Flags(c)' /\ Woken(c)'
    BY <2>1 DEF ConnInv, Flags, Woken
  <2>4. \A ch \in Channels : c \notin index'[ch]
    BY <2>1 DEF ConnInv, Found, Deindexed
  <2>5. Found(c)'
    BY <2>1, <2>4 DEF Found
  <2> QED
    BY <2>2, <2>3, <2>5, StillKeeps DEF ConnInv
<1>4. CASE Release(c)
  <2>1. /\ reader[c] = "leaving" /\ reader'[c] = "none"
        /\ UNCHANGED <<broker, turn, sub, writer, seq, history>>
    BY <1>4 DEF Release, Types
  <2>2. Still(c)
    BY <1>1, <2>1 DEF Still, Live, history, view
  <2>3. Flags(c)' /\ Found(c)' /\ Woken(c)'
    BY <2>1 DEF ConnInv, Flags, Found, Woken, broker
  <2> QED
    BY <2>2, <2>3, StillKeeps DEF ConnInv
<1> QED
  BY <1>2, <1>3, <1>4

\* A new filter moves the connection from the lists of the old one's channels to
\* those of its own.
LEMMA RelistedStep ==
  ASSUME NEW c \in Conns, Types, ConnInv(c),
         NEW f \in Filters, ~f.all, Relisted(c, f)
  PROVE  ConnInv(c)'
<1>1. /\ sub[c] \in Subs /\ sub'[c] = [sub[c] EXCEPT !.filter = f]
      /\ sub'[c].filter = f
      /\ UNCHANGED <<wildcard, turn, reader, writer, total, seq, history>>
  BY DEF Types, Relisted, Subs
<1>2. Still(c)
  BY <1>1 DEF Still, Live, Awaits, Subs, history, view
<1>3. Flags(c)' /\ Woken(c)'
  BY <1>1 DEF ConnInv, Flags, Woken, Subs
<1>4. \A ch \in Channels : c \in index'[ch] <=> ch \in f.chans
  BY DEF ConnInv, Found, Relisted, Indexed, Deindexed
<1>5. c \notin wildcard
  BY DEF ConnInv, Found, Relisted
<1>6. Found(c)'
  BY <1>1, <1>4, <1>5 DEF Found, Relisted
<1> QED
  BY <1>2, <1>3, <1>6, StillKeeps DEF ConnInv

\* The dispatch passes a connection that is closed or evicted, marks one that
\* has no room, wakes a writer, evicts.
LEMMA QuietDeliveries ==
  ASSUME NEW c \in Conns, Types, ConnInv(c),
         DeliverDeaf(c) \/ Overflow(c) \/ Notify(c) \/ Evict(c)
  PROVE  ConnInv(c)'
<1>1. sub[c] \in Subs /\ turn \in Turns
  BY DEF Types
<1>2. CASE DeliverDeaf(c)
  <2>1. /\ turn' = [turn EXCEPT !.left = @ \ {c}] /\ Deaf(c)
        /\ UNCHANGED <<index, wildcard, sub, reader, writer, total, seq, history>>
    BY <1>2 DEF DeliverDeaf, Delivering, broker
  <2>2. ~Live(c) /\ ~Live(c)'
    BY <2>1 DEF Live, Deaf, ConnInv, Flags
  <2>3. Still(c)
    BY <1>1, <2>1, <2>2 DEF Still, Turns, history, view
  <2>4. Flags(c)' /\ Found(c)' /\ Woken(c)'
    BY <1>1, <2>1 DEF ConnInv, Flags, Found, Woken, Turns
  <2> QED
    BY <2>3, <2>4, StillKeeps DEF ConnInv
<1>3. CASE Overflow(c)
  <2>1. /\ turn' = [turn EXCEPT !.left = @ \ {c}, !.evict = @ \cup {c}]
        /\ c \in turn.left
        /\ UNCHANGED <<index, wildcard, sub, reader, writer, total, seq, history>>
    BY <1>3 DEF Overflow, Delivering, broker
  <2>2. Still(c)
    BY <1>1, <2>1 DEF Still, Live, Awaits, Turns, history, view
  <2>3. Flags(c)' /\ Found(c)' /\ Woken(c)'
    BY <1>1, <2>1 DEF ConnInv, Flags, Found, Woken, Turns
  <2> QED
    BY <2>2, <2>3, StillKeeps DEF ConnInv
<1>4. CASE Notify(c)
  <2>1. /\ turn' = [turn EXCEPT !.wake = @ \ {c}]
        /\ sub'[c] = [sub[c] EXCEPT !.signal = TRUE]
        /\ UNCHANGED <<index, wildcard, reader, writer, total, seq, history>>
    BY <1>4 DEF Notify, broker, Types
  <2>2. Still(c)
    BY <1>1, <2>1 DEF Still, Live, Awaits, Turns, Subs, history, view
  <2>3. Flags(c)' /\ Found(c)' /\ Woken(c)'
    BY <1>1, <2>1 DEF ConnInv, Flags, Found, Woken, Subs
  <2> QED
    BY <2>2, <2>3, StillKeeps DEF ConnInv
<1>5. CASE Evict(c)
  <2>1. /\ turn' = [turn EXCEPT !.evict = @ \ {c}]
        /\ sub'[c] = [sub[c] EXCEPT !.evicted = TRUE, !.signal = TRUE]
        /\ UNCHANGED <<index, wildcard, reader, writer, total, seq, history>>
    BY <1>5 DEF Evict, broker, Types
  <2>2. Still(c)
    BY <1>1, <2>1 DEF Still, Live, Turns, Subs, history, view
  <2>3. Flags(c)' /\ Found(c)' /\ Woken(c)'
    BY <1>1, <2>1 DEF ConnInv, Flags, Found, Woken, Subs
  <2> QED
    BY <2>2, <2>3, StillKeeps DEF ConnInv
<1> QED
  BY <1>2, <1>3, <1>4, <1>5

\* The writer wakes up, finds it is evicted or cancelled, or has written all it
\* had drained.
LEMMA QuietWriterSteps ==
  ASSUME NEW c \in Conns, Types, ConnInv(c),
         \/ Wake(c) \/ Cancelled(c) \/ DrainEvicted(c)
         \/ Write(c) /\ writer[c].out = <<>>
  PROVE  ConnInv(c)'
<1>1. sub[c] \in Subs /\ writer[c] \in Writers
  BY DEF Types
<1>2. UNCHANGED <<index, wildcard, turn, reader, total, seq, history>>
  BY DEF Wake, Cancelled, DrainEvicted, Write, WriterEnds, WriterStep, broker,
         history
<1>3. CASE Wake(c)
  <2>1. /\ writer[c].pc = "wait" /\ writer'[c] = [writer[c] EXCEPT !.pc = "drain"]
        /\ \/ sub'[c] = [sub[c] EXCEPT !.signal = FALSE]
           \/ sub'[c] = sub[c]
    BY <1>3 DEF Wake, Types
  <2>2. Still(c)
    BY <1>1, <1>2, <2>1 DEF Still, Live, Awaits, Subs, Writers, history, view
  <2>3. Flags(c)' /\ Found(c)' /\ Woken(c)'
    BY <1>1, <1>2, <2>1 DEF ConnInv, Flags, Found, Woken, Subs, Writers
  <2> QED
    BY <2>2, <2>3, StillKeeps DEF ConnInv
<1>4. CASE Cancelled(c) \/ DrainEvicted(c)
  <2>1. /\ writer[c].pc \in {"wait", "drain"} /\ ~Live(c)
        /\ writer'[c] = [writer[c] EXCEPT !.pc = "none"] /\ sub' = sub
    BY <1>4 DEF Cancelled, DrainEvicted, WriterEnds, Types, Live
  <2>2. Still(c)
    BY <1>1, <1>2, <2>1 DEF Still, Live, Writers, history, view
  <2>3. Flags(c)' /\ Found(c)' /\ Woken(c)'
    BY <1>1, <1>2, <2>1 DEF ConnInv, Flags, Found, Woken, Writers
  <2> QED
    BY <2>2, <2>3, StillKeeps DEF ConnInv
<1>5. CASE Write(c) /\ writer[c].out = <<>>
  <2>1. /\ writer[c].pc = "write" /\ writer[c].out = <<>>
        /\ writer'[c] = [writer[c] EXCEPT !.pc = "wait"] /\ sub' = sub
    BY <1>5 DEF Write, Types
  <2>2. Still(c)
    BY <1>1, <1>2, <2>1 DEF Still, Live, Awaits, Writers, history, view
  <2>3. Flags(c)' /\ Found(c)' /\ Woken(c)'
    BY <1>1, <1>2, <2>1 DEF ConnInv, Flags, Found, Woken, Writers
  <2> QED
    BY <2>2, <2>3, StillKeeps DEF ConnInv
<1> QED
  BY <1>3, <1>4, <1>5

-----------------------------------------------------------------------------
(* The steps that move frames *)

\* The order list counts the pending ticks.
LEMMA SizeCounts ==
  ASSUME NEW c \in Conns, Types, Buffered(c)
  PROVE  Size(sub[c]) = Len(sub[c].queue) + Len(sub[c].order)
<1> DEFINE order == sub[c].order
<1>1. order \in Seq(Keys) /\ Len(order) \in Nat /\ DOMAIN order = 1 .. Len(order)
  BY BufferTypes
<1>2. order \in [1 .. Len(order) -> Pending(sub[c])]
  <2>1. \A i \in DOMAIN order : order[i] \in ToSet(order)
    BY DEF ToSet
  <2> QED
    BY <1>1, <2>1 DEF Buffered
<1>3. \A k \in Pending(sub[c]) : \E i \in 1 .. Len(order) : order[i] = k
  BY <1>1 DEF Buffered, ToSet
<1>4. order \in Bijection(1 .. Len(order), Pending(sub[c]))
  BY <1>2, <1>3 DEF Buffered, Bijection, Injection, Surjection
<1>5. Cardinality(Pending(sub[c])) = Len(order)
  BY <1>1, <1>4, FS_CountingElements DEF ExistsBijection
<1> QED
  BY <1>5 DEF Size

\* A write that fails loses what was drained, of a client that is gone.
LEMMA WriteFailsStep ==
  ASSUME NEW c \in Conns, Types, ConnInv(c), WriteFails(c)
  PROVE  ConnInv(c)'
<1>1. /\ writer'[c] = [pc |-> "none", out |-> <<>>]
      /\ UNCHANGED <<index, wildcard, turn, reader, seq, sub, due, ticks, got, gotTicks>>
  BY DEF Types, WriteFails, WriterStep, broker, view
<1>2. Flags(c)' /\ Found(c)' /\ Woken(c)'
  BY <1>1 DEF ConnInv, Flags, Found, Woken
<1>3. Buffered(c)'
  <2>1. writer'[c].out = <<>> /\ Len(<<>>) <= MaxBuf
    BY <1>1, Bounds
  <2> QED
    BY <1>1, <2>1 DEF ConnInv, Buffered, Pending
<1>4. Ascending(c)'
  <2>1. DOMAIN writer'[c].out = {}
    BY <1>1
  <2> QED
    BY <1>1, <2>1 DEF ConnInv, Ascending
<1>5. Newest(c)' /\ Owed(c)' /\ Offered(c)'
  BY <1>1 DEF Newest, Owed, Offered, Live
<1> QED
  BY <1>2, <1>3, <1>4, <1>5 DEF ConnInv

\* A new connection starts with nothing buffered and nothing due.
LEMMA ConnectStep ==
  ASSUME NEW c \in Conns, Types, ConnInv(c), Connect(c)
  PROVE  ConnInv(c)'
<1>1. PICK f \in Filters :
        /\ f.all => f.chans = {}
        /\ sub'[c] = Subscription(f)
        /\ index' = Indexed(index, c, f) /\ wildcard' = wildcard \cup Wild(c, f)
  BY DEF Connect, Types
<1>2. /\ reader[c] = "none" /\ reader'[c] = "up"
      /\ writer[c].pc = "none" /\ writer'[c] = [writer[c] EXCEPT !.pc = "wait"]
      /\ due'[c] = <<>> /\ got'[c] = <<>> /\ gotTicks'[c] = <<>>
      /\ ticks'[c] = NoTicks /\ turn' = turn /\ seq' = seq /\ Unlocked
  BY DEF Connect, Types
<1>3. writer'[c].pc = "wait" /\ writer'[c].out = <<>>
  BY <1>2 DEF ConnInv, Flags, Types, Writers
<1>4. /\ sub'[c].filter = f /\ ~sub'[c].closed /\ ~sub'[c].evicted
      /\ sub'[c].queue = <<>> /\ sub'[c].order = <<>> /\ sub'[c].pending = NoTicks
  BY <1>1 DEF Subscription
<1>5. ~Awaits(c) /\ ~Awaits(c)'
  BY <1>2 DEF Unlocked, Awaits
<1>6. Flags(c)' /\ Woken(c)'
  BY <1>1, <1>2, <1>3, <1>4 DEF Flags, Woken
<1>7. Found(c)'
  <2>1. c \notin wildcard /\ \A ch \in Channels : c \notin index[ch]
    BY <1>2 DEF ConnInv, Found
  <2>2. CASE f.all
    BY <1>1, <1>2, <1>4, <2>1, <2>2 DEF Found, Indexed, Wild
  <2>3. CASE ~f.all
    BY <1>1, <1>2, <1>4, <2>1, <2>3 DEF Found, Indexed, Wild
  <2> QED
    BY <2>2, <2>3
<1>8. Buffered(c)'
  <2>1. Pending(sub'[c]) = {}
    BY <1>4 DEF Pending, NoTicks
  <2>2. 0 + 0 <= MaxBuf /\ 0 <= MaxBuf
    BY Bounds
  <2>3. ToSet(<<>>) = {} /\ IsInjective(<<>>)
    BY DEF ToSet, IsInjective
  <2> QED
    BY <1>3, <1>4, <2>1, <2>2, <2>3 DEF Buffered
<1>9. Ascending(c)'
  <2>1. DOMAIN gotTicks'[c] = {} /\ DOMAIN writer'[c].out = {}
    BY <1>2, <1>3
  <2>2. \A k \in Keys : sub'[c].pending[k] = 0
    BY <1>4 DEF NoTicks
  <2> QED
    BY <2>1, <2>2 DEF Ascending
<1>10. Newest(c)' /\ Offered(c)'
  BY <1>2, <1>5 DEF Newest, Offered, NoTicks
<1>11. Owed(c)'
  <2>1. Extra(c)' = 0
    BY <1>5 DEF Extra
  <2>2. /\ due'[c] = <<>> /\ got'[c] = <<>> /\ writer'[c].out = <<>>
        /\ sub'[c].queue = <<>> /\ Len(<<>>) = 0 /\ DOMAIN <<>> = {}
    BY <1>2, <1>3, <1>4
  <2>3. Lined(c, 0)'
    BY <2>1, <2>2 DEF Lined
  <2>4. 0 \in 0 .. Len(writer'[c].out)
    BY <2>2
  <2> QED
    BY <2>3, <2>4 DEF Owed
<1> QED
  BY <1>6, <1>7, <1>8, <1>9, <1>10, <1>11 DEF ConnInv

\* The positions of two sequences put end to end.
LEMMA EndToEnd ==
  ASSUME NEW q \in Nat, NEW o \in Nat
  PROVE  /\ \A i \in 1 .. q : i \in 1 .. (q + o) /\ i <= q
         /\ \A i \in 1 .. o :
              q + i \in 1 .. (q + o) /\ ~(q + i <= q) /\ q + i - q = i
         /\ \A i \in 1 .. (q + o) : i \notin 1 .. q =>
              \E j \in 1 .. o : i = q + j
         /\ \A i \in 1 .. (q + o) : i \in 1 .. q <=> i <= q
         /\ q \in 0 .. (q + o)
<1>1. ASSUME NEW i \in 1 .. (q + o), i \notin 1 .. q
      PROVE  \E j \in 1 .. o : i = q + j
  <2>1. i - q \in 1 .. o /\ i = q + (i - q)
    BY <1>1
  <2> QED
    BY <2>1
<1> QED
  BY <1>1

\* What a drain takes: the queue, then a frame for each key of the order list.
LEMMA Drained ==
  ASSUME NEW c \in Conns, Types, Drain(c)
  PROVE  LET queue == sub[c].queue
             order == sub[c].order
             out == writer'[c].out
         IN
         /\ Len(queue) \in Nat /\ Len(order) \in Nat
         /\ Len(out) = Len(queue) + Len(order)
         /\ DOMAIN out = 1 .. Len(out) /\ DOMAIN queue = 1 .. Len(queue)
         /\ \A i \in 1 .. Len(queue) :
              i \in DOMAIN out /\ out[i] = queue[i] /\ out[i].key = ""
         /\ \A i \in 1 .. Len(order) :
              /\ Len(queue) + i \in DOMAIN out /\ ~(Len(queue) + i <= Len(queue))
              /\ out[Len(queue) + i] = [n |-> sub[c].pending[order[i]], key |-> order[i]]
              /\ order[i] \in Keys
         /\ \A i \in DOMAIN out : i \notin 1 .. Len(queue) =>
              \E j \in 1 .. Len(order) : i = Len(queue) + j
<1> DEFINE queue == sub[c].queue
           order == sub[c].order
           tail == TickFrames(sub[c])
           out == writer'[c].out
           Tick == [n : Nat, key : Keys]
           All == EventFrames \cup Tick
<1>1. /\ queue \in Seq(EventFrames) /\ order \in Seq(Keys)
      /\ \A k \in Keys : sub[c].pending[k] \in Nat
  BY BufferTypes
<1>2. out = queue \o tail
  BY DEF Drain, Types
<1>3. /\ Len(queue) \in Nat /\ DOMAIN queue = 1 .. Len(queue)
      /\ Len(order) \in Nat /\ DOMAIN order = 1 .. Len(order)
      /\ \A i \in 1 .. Len(order) : order[i] \in Keys
  BY BufferTypes
<1>4. \A i \in 1 .. Len(order) :
        tail[i] = [n |-> sub[c].pending[order[i]], key |-> order[i]]
  BY <1>3 DEF TickFrames
<1>5. tail \in [1 .. Len(order) -> Tick]
  BY <1>1, <1>3 DEF TickFrames
<1> HIDE DEF tail, Tick
<1>6. tail \in Seq(Tick) /\ Len(tail) = Len(order)
  <2>1. \A S : \A n \in Nat : \A f \in [1 .. n -> S] : f \in Seq(S) /\ Len(f) = n
    OBVIOUS
  <2> QED
    BY <1>3, <1>5, <2>1
<1>7. queue \in Seq(All) /\ tail \in Seq(All)
  <2>1. \A S, T : S \subseteq T => Seq(S) \subseteq Seq(T)
    BY SeqMonotonic
  <2>2. EventFrames \subseteq All /\ Tick \subseteq All
    OBVIOUS
  <2> QED
    BY <1>1, <1>6, <2>1, <2>2
<1> HIDE DEF All, queue, order, out
<1>8. /\ Len(out) = Len(queue) + Len(order)
      /\ DOMAIN out = 1 .. Len(out)
      /\ \A i \in 1 .. Len(out) :
           out[i] = IF i <= Len(queue) THEN queue[i] ELSE tail[i - Len(queue)]
  <2>1. \A S : \A s, t \in Seq(S) :
          /\ Len(s \o t) = Len(s) + Len(t) /\ DOMAIN (s \o t) = 1 .. Len(s \o t)
          /\ \A i \in 1 .. Len(s) + Len(t) :
               (s \o t)[i] = IF i <= Len(s) THEN s[i] ELSE t[i - Len(s)]
    BY ConcatProperties
  <2>2. /\ Len(out) = Len(queue) + Len(tail) /\ DOMAIN out = 1 .. Len(out)
        /\ \A i \in 1 .. Len(queue) + Len(tail) :
             out[i] = IF i <= Len(queue) THEN queue[i] ELSE tail[i - Len(queue)]
    BY ONLY <1>2, <1>7, <2>1
  <2> QED
    BY <1>6, <2>2
<1>9. \A i \in 1 .. Len(queue) : i \in 1 .. Len(out) /\ i <= Len(queue)
  BY <1>3, <1>8, EndToEnd
<1>10. \A i \in 1 .. Len(order) :
         /\ Len(queue) + i \in 1 .. Len(out) /\ ~(Len(queue) + i <= Len(queue))
         /\ Len(queue) + i - Len(queue) = i
  BY <1>3, <1>8, EndToEnd
<1>11. \A i \in 1 .. Len(out) : i \notin 1 .. Len(queue) =>
        \E j \in 1 .. Len(order) : i = Len(queue) + j
  BY <1>3, <1>8, EndToEnd
<1>12. \A i \in 1 .. Len(queue) : out[i] = queue[i] /\ out[i].key = ""
  <2>1. \A i \in 1 .. Len(queue) : queue[i].key = ""
    BY BufferTypes, KeyFrames DEF queue
  <2> QED
    BY <1>8, <1>9, <2>1
<1>13. \A i \in 1 .. Len(order) : out[Len(queue) + i] = tail[i]
  BY <1>8, <1>10
<1> QED
  BY <1>3, <1>4, <1>8, <1>9, <1>10, <1>11, <1>12, <1>13 DEF queue, order, out

\* The buffer is moved, whole and in order, to the writer's hands.
LEMMA DrainStep ==
  ASSUME NEW c \in Conns, Types, ConnInv(c), Drain(c)
  PROVE  ConnInv(c)'
<1> DEFINE queue == sub[c].queue
           order == sub[c].order
           out == writer'[c].out
<1>1. /\ writer[c].pc = "drain" /\ writer'[c].pc = "write" /\ ~sub[c].evicted
      /\ sub'[c] = [sub[c] EXCEPT !.queue = <<>>, !.pending = NoTicks, !.order = <<>>]
      /\ UNCHANGED <<index, wildcard, turn, reader, seq, due, ticks, got, gotTicks>>
  BY DEF Drain, Types, WriterStep, broker, view
<1>2. /\ sub'[c].queue = <<>> /\ sub'[c].order = <<>> /\ sub'[c].pending = NoTicks
      /\ UNCHANGED <<sub[c].filter, sub[c].closed, sub[c].evicted, sub[c].signal>>
  BY <1>1, BufferTypes DEF Subs
<1>3. /\ Len(queue) \in Nat /\ Len(order) \in Nat
      /\ Len(out) = Len(queue) + Len(order)
      /\ DOMAIN out = 1 .. Len(out) /\ DOMAIN queue = 1 .. Len(queue)
  BY Drained
<1>4. writer[c].out = <<>>
  BY <1>1 DEF ConnInv, Flags
<1>5. \A i \in 1 .. Len(queue) : i \in DOMAIN out /\ out[i] = queue[i] /\ out[i].key = ""
  BY Drained
<1>6. /\ order \in Seq(Keys) /\ DOMAIN order = 1 .. Len(order)
      /\ ToSet(order) = Pending(sub[c]) /\ IsInjective(order)
  BY BufferTypes DEF ConnInv, Buffered
<1>7. \A i \in DOMAIN out : i \notin 1 .. Len(queue) =>
        \E j \in 1 .. Len(order) :
          /\ i = Len(queue) + j /\ order[j] \in Keys
          /\ out[i].key = order[j] /\ out[i].n = sub[c].pending[order[j]]
          /\ out[i].n # 0
  <2> SUFFICES ASSUME NEW i \in DOMAIN out, i \notin 1 .. Len(queue)
               PROVE  \E j \in 1 .. Len(order) :
                        /\ i = Len(queue) + j /\ order[j] \in Keys
                        /\ out[i].key = order[j] /\ out[i].n = sub[c].pending[order[j]]
                        /\ out[i].n # 0
    OBVIOUS
  <2>1. PICK j \in 1 .. Len(order) : i = Len(queue) + j
    BY Drained
  <2>2. /\ out[Len(queue) + j] =
             [n |-> sub[c].pending[order[j]], key |-> order[j]]
        /\ order[j] \in Keys
    BY Drained
  <2>3. order[j] \in Pending(sub[c])
    <3>1. order[j] \in ToSet(order)
      BY <1>6 DEF ToSet
    <3> QED
      BY <1>6, <3>1
  <2>4. sub[c].pending[order[j]] # 0
    BY <2>3 DEF Pending
  <2> HIDE DEF out, order
  <2> QED
    BY <2>1, <2>2, <2>4
<1>8. Flags(c)' /\ Found(c)' /\ Woken(c)'
  BY <1>1, <1>2 DEF ConnInv, Flags, Found, Woken
<1>9. Buffered(c)'
  <2>1. Pending(sub'[c]) = {}
    BY <1>2 DEF Pending, NoTicks
  <2>2. 0 + 0 <= MaxBuf /\ Len(<<>>) = 0
    BY Bounds
  <2>3. ToSet(<<>>) = {} /\ IsInjective(<<>>)
    BY DEF ToSet, IsInjective
  <2>4. Len(out) <= MaxBuf
    BY <1>3 DEF ConnInv, Buffered
  <2> QED
    BY <1>2, <2>1, <2>2, <2>3, <2>4 DEF Buffered
<1>10. Ascending(c)'
  <2> DEFINE told == gotTicks[c]
             last == IF c \in turn.left THEN seq - 1 ELSE seq
  <2>1. \A i \in DOMAIN told : told[i].key # ""
    BY FrameTypes
  <2>2. \A i \in DOMAIN told, j \in DOMAIN out :
          told[i].key = out[j].key => told[i].n < out[j].n
    <3> SUFFICES ASSUME NEW i \in DOMAIN told, NEW j \in DOMAIN out,
                        told[i].key = out[j].key
                 PROVE  told[i].n < out[j].n
      OBVIOUS
    <3>1. j \notin 1 .. Len(queue)
      BY <1>5, <2>1
    <3>2. out[j].key \in Keys /\ out[j].n = sub[c].pending[out[j].key] /\ out[j].n # 0
      BY <1>7, <3>1
    <3> QED
      BY <3>2 DEF ConnInv, Ascending
  <2>3. \A i, j \in DOMAIN out : i # j /\ out[i].key = out[j].key => out[i].key = ""
    <3> SUFFICES ASSUME NEW i \in DOMAIN out, NEW j \in DOMAIN out, i # j,
                        out[i].key = out[j].key, out[i].key # ""
                 PROVE  FALSE
      OBVIOUS
    <3>1. i \notin 1 .. Len(queue) /\ j \notin 1 .. Len(queue)
      BY <1>5
    <3>2. PICK k \in 1 .. Len(order) : i = Len(queue) + k /\ out[i].key = order[k]
      BY <1>7, <3>1
    <3>3. PICK l \in 1 .. Len(order) : j = Len(queue) + l /\ out[j].key = order[l]
      BY <1>7, <3>1
    <3>4. k = l
      BY <1>6, <3>2, <3>3 DEF IsInjective
    <3> QED
      BY <3>2, <3>3, <3>4
  <2>4. \A i \in DOMAIN out : out[i].key # "" => out[i].n <= last
    <3> SUFFICES ASSUME NEW i \in DOMAIN out, out[i].key # ""
                 PROVE  out[i].n <= last
      OBVIOUS
    <3>1. i \notin 1 .. Len(queue)
      BY <1>5
    <3>2. out[i].key \in Keys /\ out[i].n = sub[c].pending[out[i].key] /\ out[i].n # 0
      BY <1>7, <3>1
    <3> QED
      BY <3>2 DEF ConnInv, Ascending
  <2>5. \A k \in Keys : sub'[c].pending[k] = 0
    BY <1>2 DEF NoTicks
  <2>6. gotTicks'[c] = told /\ turn' = turn /\ seq' = seq
    BY <1>1
  <2>7. /\ \A i, j \in DOMAIN told : i < j /\ told[i].key = told[j].key =>
             told[i].n < told[j].n
        /\ \A i \in DOMAIN told : told[i].n <= last
    BY DEF ConnInv, Ascending
  <2> HIDE DEF out
  <2> QED
    BY <2>2, <2>3, <2>4, <2>5, <2>6, <2>7 DEF Ascending, out
<1>11. Live(c)' = Live(c) /\ Awaits(c)' = Awaits(c) /\ Extra(c)' = Extra(c)
  BY <1>1, <1>2 DEF Live, Awaits, Extra
<1>12. Newest(c)'
  <2> SUFFICES ASSUME NEW k \in Keys, Live(c)', ticks'[c][k] # 0
               PROVE  \/ Awaits(c)' /\ turn'.frame = [n |-> ticks'[c][k], key |-> k]
                      \/ \E i \in DOMAIN out : out[i] = [n |-> ticks'[c][k], key |-> k]
                      \/ \E i \in DOMAIN gotTicks'[c] :
                           gotTicks'[c][i] = [n |-> ticks'[c][k], key |-> k]
    BY DEF Newest
  <2>1. Live(c) /\ ticks[c][k] # 0 /\ ticks'[c] = ticks[c]
    BY <1>1, <1>11
  <2>2. DOMAIN writer[c].out = {}
    BY <1>4
  <2>3. CASE sub[c].pending[k] = ticks[c][k]
    <3>1. k \in ToSet(order)
      BY <1>6, <2>1, <2>3 DEF Pending
    <3>2. PICK i \in 1 .. Len(order) : order[i] = k
      BY <1>6, <3>1 DEF ToSet
    <3>3. Len(queue) + i \in DOMAIN out
      BY Drained
    <3>4. out[Len(queue) + i] = [n |-> ticks[c][k], key |-> k]
      <4>1. out[Len(queue) + i] = [n |-> sub[c].pending[order[i]], key |-> order[i]]
        BY Drained
      <4> QED
        BY ONLY <2>3, <3>2, <4>1
    <3> QED
      BY <2>1, <3>3, <3>4
  <2>4. CASE ~(sub[c].pending[k] = ticks[c][k])
    <3>1. \/ Awaits(c) /\ turn.frame = [n |-> ticks[c][k], key |-> k]
          \/ \E i \in DOMAIN gotTicks[c] : gotTicks[c][i] = [n |-> ticks[c][k], key |-> k]
      BY <2>1, <2>2, <2>4 DEF ConnInv, Newest
    <3> QED
      BY <1>1, <1>11, <2>1, <3>1
  <2> QED
    BY <2>3, <2>4
<1>13. Owed(c)'
  <2>1. PICK m \in 0 .. Len(writer[c].out) : Lined(c, m)
    BY <1>1 DEF ConnInv, Owed
  <2>2. m = 0
    BY <1>4, <2>1
  <2>3. Lined(c, 0) /\ Len(got[c]) \in Nat /\ Len(due[c]) \in Nat
    BY <2>1, <2>2, DueTypes
  <2>4. Len(queue) \in 0 .. Len(out)
    BY <1>3, EndToEnd
  <2>5. \A i \in DOMAIN out : out[i].key = "" <=> i <= Len(queue)
    <3> SUFFICES ASSUME NEW i \in DOMAIN out
                 PROVE  out[i].key = "" <=> i <= Len(queue)
      OBVIOUS
    <3>1. i \in 1 .. Len(out)
      BY <1>3
    <3>2. i \in 1 .. Len(queue) <=> i <= Len(queue)
      BY <1>3, <3>1
    <3>3. CASE i \in 1 .. Len(queue)
      BY <1>5, <3>2, <3>3
    <3>4. CASE i \notin 1 .. Len(queue)
      <4>1. out[i].key \in Keys
        BY <1>7, <3>4
      <4> QED
        BY <3>2, <3>4, <4>1, KeyFrames
    <3> QED
      BY <3>3, <3>4
  <2>6. \A i \in 1 .. Len(queue) : due[c][Len(got[c]) + i] = out[i]
    <3> SUFFICES ASSUME NEW i \in 1 .. Len(queue)
                 PROVE  due[c][Len(got[c]) + i] = out[i]
      OBVIOUS
    <3>1. due[c][Len(got[c]) + 0 + i] = queue[i]
      BY <1>3, <2>3 DEF Lined
    <3>2. Len(got[c]) + 0 + i = Len(got[c]) + i
      BY <1>3, <2>3
    <3> QED
      BY <1>5, <3>1, <3>2
  <2>7. /\ Len(due[c]) >= Len(got[c]) + Len(queue) + 0
        /\ Live(c) => /\ Len(due[c]) = Len(got[c]) + Len(queue) + 0 + Extra(c)
                      /\ Extra(c) = 1 => due[c][Len(due[c])] = turn.frame
    <3>1. /\ Len(due[c]) >= Len(got[c]) + 0 + Len(queue)
          /\ Live(c) => /\ Len(due[c]) = Len(got[c]) + 0 + Len(queue) + Extra(c)
                        /\ Extra(c) = 1 => due[c][Len(due[c])] = turn.frame
      BY <2>3 DEF Lined
    <3>2. Len(got[c]) + 0 + Len(queue) = Len(got[c]) + Len(queue) + 0
      BY <1>3, <2>3
    <3> QED
      BY <3>1, <3>2
  <2>8. PICK q \in Nat : q = Len(queue)
    BY <1>3
  <2>9. /\ got'[c] = got[c] /\ due'[c] = due[c] /\ turn' = turn
        /\ Len(sub'[c].queue) = 0 /\ DOMAIN sub'[c].queue = {}
    BY <1>1, <1>2
  <2> HIDE DEF queue
  <2>10. Lined(c, q)'
    BY <1>11, <2>5, <2>6, <2>7, <2>8, <2>9 DEF Lined
  <2>11. q \in 0 .. Len(writer'[c].out)
    BY <2>4, <2>8
  <2> QED
    BY <2>10, <2>11 DEF Owed
<1>14. Offered(c)'
  BY <1>1, <1>11 DEF ConnInv, Offered
<1> QED
  BY <1>8, <1>9, <1>10, <1>12, <1>13, <1>14 DEF ConnInv

\* A sequence without its first element.
LEMMA Beheaded ==
  ASSUME NEW S, NEW s \in Seq(S), s # <<>>
  PROVE  /\ Tail(s) \in Seq(S) /\ Len(s) \in Nat /\ Len(s) >= 1
         /\ Len(Tail(s)) = Len(s) - 1
         /\ DOMAIN s = 1 .. Len(s) /\ DOMAIN Tail(s) = 1 .. (Len(s) - 1)
         /\ Head(s) = s[1] /\ 1 \in DOMAIN s
         /\ \A i \in DOMAIN Tail(s) : i + 1 \in DOMAIN s /\ Tail(s)[i] = s[i + 1]
         /\ \A i \in DOMAIN s : i # 1 => \E j \in DOMAIN Tail(s) : i = j + 1
<1>1. /\ Tail(s) \in Seq(S) /\ Len(s) \in Nat /\ Len(s) >= 1
      /\ Len(Tail(s)) = Len(s) - 1
      /\ DOMAIN s = 1 .. Len(s) /\ DOMAIN Tail(s) = 1 .. (Len(s) - 1)
      /\ Head(s) = s[1] /\ 1 \in DOMAIN s
  OBVIOUS
<1>2. \A i \in 1 .. (Len(s) - 1) : i + 1 \in 1 .. Len(s) /\ Tail(s)[i] = s[i + 1]
  OBVIOUS
<1>3. \A i \in 1 .. Len(s) : i # 1 => i - 1 \in 1 .. (Len(s) - 1) /\ i = (i - 1) + 1
  BY <1>1
<1>4. \A i \in 1 .. Len(s) : i # 1 => \E j \in 1 .. (Len(s) - 1) : i = j + 1
  BY <1>3
<1> QED
  BY <1>1, <1>2, <1>4

\* A sequence with one more element.
LEMMA Appended ==
  ASSUME NEW S, NEW s \in Seq(S), NEW x \in S
  PROVE  /\ Append(s, x) \in Seq(S) /\ Len(s) \in Nat
         /\ Len(Append(s, x)) = Len(s) + 1
         /\ DOMAIN s = 1 .. Len(s) /\ DOMAIN Append(s, x) = 1 .. (Len(s) + 1)
         /\ Append(s, x)[Len(s) + 1] = x
         /\ \A i \in DOMAIN s : i \in DOMAIN Append(s, x) /\ Append(s, x)[i] = s[i]
         /\ \A i \in DOMAIN Append(s, x) :
              i # Len(s) + 1 => i \in DOMAIN s /\ Append(s, x)[i] = s[i]
<1>1. /\ Append(s, x) \in Seq(S) /\ Len(s) \in Nat
      /\ Len(Append(s, x)) = Len(s) + 1
      /\ DOMAIN s = 1 .. Len(s) /\ DOMAIN Append(s, x) = 1 .. (Len(s) + 1)
      /\ Append(s, x)[Len(s) + 1] = x
  OBVIOUS
<1>2. \A i \in 1 .. Len(s) : i \in 1 .. (Len(s) + 1) /\ Append(s, x)[i] = s[i]
  OBVIOUS
<1>3. \A i \in 1 .. (Len(s) + 1) : i # Len(s) + 1 => i \in 1 .. Len(s)
  BY <1>1
<1> QED
  BY <1>1, <1>2, <1>3

\* What a write of one frame leaves.
LEMMA Written ==
  ASSUME NEW c \in Conns, Types, Write(c), writer[c].out # <<>>
  PROVE  LET f == writer[c].out[1] IN
         /\ writer'[c].out = Tail(writer[c].out)
         /\ writer[c].pc = "write" /\ writer'[c].pc = "write"
         /\ UNCHANGED <<index, wildcard, turn, reader, seq, sub, due, ticks>>
         /\ f.key = "" => got'[c] = Append(got[c], f) /\ gotTicks'[c] = gotTicks[c]
         /\ f.key # "" => gotTicks'[c] = Append(gotTicks[c], f) /\ got'[c] = got[c]
<1>1. writer[c] \in Writers /\ Head(writer[c].out) = writer[c].out[1]
  <2>1. writer[c].out \in Seq(Frames) /\ writer[c] \in Writers
    BY FrameTypes
  <2> QED
    BY <2>1, Beheaded
<1>2. /\ writer[c].pc = "write"
      /\ writer' = [writer EXCEPT ![c].out = Tail(@)]
      /\ UNCHANGED <<index, wildcard, turn, reader, seq, sub, due, ticks>>
  BY DEF Write, WriterStep, broker
<1>3. writer'[c].out = Tail(writer[c].out) /\ writer'[c].pc = writer[c].pc
  BY <1>1, <1>2 DEF Types, Writers
<1>4. CASE writer[c].out[1].key = ""
  <2>1. got' = [got EXCEPT ![c] = Append(@, writer[c].out[1])] /\ gotTicks' = gotTicks
    BY <1>1, <1>4 DEF Write
  <2>2. got'[c] = Append(got[c], writer[c].out[1])
    BY <2>1 DEF Types
  <2> QED
    BY <1>2, <1>3, <1>4, <2>1, <2>2
<1>5. CASE writer[c].out[1].key # ""
  <2>1. gotTicks' = [gotTicks EXCEPT ![c] = Append(@, writer[c].out[1])] /\ got' = got
    BY <1>1, <1>5 DEF Write
  <2>2. gotTicks'[c] = Append(gotTicks[c], writer[c].out[1])
    BY <2>1 DEF Types
  <2> QED
    BY <1>2, <1>3, <1>5, <2>1, <2>2
<1> QED
  BY <1>4, <1>5

\* One frame goes from the writer's hands to the client.
LEMMA WriteStep ==
  ASSUME NEW c \in Conns, Types, ConnInv(c), Write(c), writer[c].out # <<>>
  PROVE  ConnInv(c)'
<1> DEFINE out == writer[c].out
           told == gotTicks[c]
           f == out[1]
           rest == Tail(out)
           last == IF c \in turn.left THEN seq - 1 ELSE seq
<1>1. /\ writer'[c].out = rest
      /\ writer[c].pc = "write" /\ writer'[c].pc = "write"
      /\ UNCHANGED <<index, wildcard, turn, reader, seq, sub, due, ticks>>
  BY Written
<1>2. out \in Seq(Frames) /\ told \in Seq(CoalescedFrames) /\ got[c] \in Seq(EventFrames)
  BY FrameTypes, DueTypes
<1>3. /\ Len(out) \in Nat /\ Len(out) >= 1 /\ Len(rest) = Len(out) - 1
      /\ DOMAIN out = 1 .. Len(out) /\ DOMAIN rest = 1 .. (Len(out) - 1)
      /\ 1 \in DOMAIN out
  BY <1>2, Beheaded
<1>4. /\ \A i \in DOMAIN rest : i + 1 \in DOMAIN out /\ rest[i] = out[i + 1]
      /\ \A i \in DOMAIN out : i # 1 => \E j \in DOMAIN rest : i = j + 1
  BY <1>2, Beheaded
<1>5. f \in Frames
  BY <1>2, <1>3
<1>6. Flags(c)' /\ Found(c)' /\ Woken(c)'
  BY <1>1 DEF ConnInv, Flags, Found, Woken
<1>7. Buffered(c)'
  <2>1. Len(rest) <= MaxBuf
    BY <1>3, Bounds DEF ConnInv, Buffered
  <2> QED
    BY <1>1, <2>1 DEF ConnInv, Buffered, Pending
<1>8. Live(c)' = Live(c) /\ Awaits(c)' = Awaits(c) /\ Extra(c)' = Extra(c)
  BY <1>1 DEF Live, Awaits, Extra
<1>9. Offered(c)'
  BY <1>1, <1>8 DEF ConnInv, Offered
<1>10. /\ \A i, j \in DOMAIN rest : i # j /\ rest[i].key = rest[j].key => rest[i].key = ""
       /\ \A i \in DOMAIN rest : rest[i].key # "" => rest[i].n <= last
       /\ \A k \in Keys : sub[c].pending[k] # 0 =>
            /\ \A i \in DOMAIN rest : rest[i].key = k => rest[i].n < sub[c].pending[k]
            /\ sub[c].pending[k] <= last
       /\ \A i \in DOMAIN told, j \in DOMAIN rest :
            told[i].key = rest[j].key => told[i].n < rest[j].n
  <2>1. \A i, j \in DOMAIN rest : i # j => i + 1 # j + 1
    BY <1>3
  <2>2. /\ \A i, j \in DOMAIN out : i # j /\ out[i].key = out[j].key => out[i].key = ""
        /\ \A i \in DOMAIN out : out[i].key # "" => out[i].n <= last
        /\ \A k \in Keys : sub[c].pending[k] # 0 =>
             /\ \A i \in DOMAIN out : out[i].key = k => out[i].n < sub[c].pending[k]
             /\ sub[c].pending[k] <= last
        /\ \A i \in DOMAIN told, j \in DOMAIN out :
             told[i].key = out[j].key => told[i].n < out[j].n
    BY DEF ConnInv, Ascending
  <2> HIDE DEF rest, last, out, told
  <2>3. \A i, j \in DOMAIN rest : i # j /\ rest[i].key = rest[j].key => rest[i].key = ""
    <3> SUFFICES ASSUME NEW i \in DOMAIN rest, NEW j \in DOMAIN rest, i # j,
                        rest[i].key = rest[j].key
                 PROVE  rest[i].key = ""
      OBVIOUS
    <3>1. /\ i + 1 \in DOMAIN out /\ rest[i] = out[i + 1]
          /\ j + 1 \in DOMAIN out /\ rest[j] = out[j + 1] /\ i + 1 # j + 1
      BY <1>4, <2>1
    <3> QED
      BY <2>2, <3>1
  <2>4. \A i \in DOMAIN rest : rest[i].key # "" => rest[i].n <= last
    <3> SUFFICES ASSUME NEW i \in DOMAIN rest, rest[i].key # ""
                 PROVE  rest[i].n <= last
      OBVIOUS
    <3>1. i + 1 \in DOMAIN out /\ rest[i] = out[i + 1]
      BY <1>4
    <3> QED
      BY <2>2, <3>1
  <2>5. \A k \in Keys : sub[c].pending[k] # 0 =>
          \A i \in DOMAIN rest : rest[i].key = k => rest[i].n < sub[c].pending[k]
    <3> SUFFICES ASSUME NEW k \in Keys, sub[c].pending[k] # 0,
                        NEW i \in DOMAIN rest, rest[i].key = k
                 PROVE  rest[i].n < sub[c].pending[k]
      OBVIOUS
    <3>1. i + 1 \in DOMAIN out /\ rest[i] = out[i + 1]
      BY <1>4
    <3> QED
      BY <2>2, <3>1
  <2>6. \A i \in DOMAIN told, j \in DOMAIN rest :
          told[i].key = rest[j].key => told[i].n < rest[j].n
    <3> SUFFICES ASSUME NEW i \in DOMAIN told, NEW j \in DOMAIN rest,
                        told[i].key = rest[j].key
                 PROVE  told[i].n < rest[j].n
      OBVIOUS
    <3>1. j + 1 \in DOMAIN out /\ rest[j] = out[j + 1]
      BY <1>4
    <3> QED
      BY <2>2, <3>1
  <2> QED
    BY <2>2, <2>3, <2>4, <2>5, <2>6
<1>11. CASE f.key = ""
  <2>1. got'[c] = Append(got[c], f) /\ gotTicks'[c] = told
    BY <1>11, Written
  <2>2. Ascending(c)'
    <3>1. writer'[c].out = rest /\ gotTicks'[c] = told /\ turn' = turn /\ seq' = seq
          /\ sub' = sub
      BY <1>1, <2>1
    <3> HIDE DEF rest
    <3> QED
      BY <1>10, <3>1 DEF ConnInv, Ascending
  <2>3. Newest(c)'
    <3>1. \A i \in DOMAIN out : out[i].key # "" =>
            \E j \in DOMAIN rest : rest[j] = out[i]
      BY <1>4, <1>11
    <3>2. \A x : \A k \in Keys : [n |-> x, key |-> k].key # ""
      BY KeyFrames
    <3> HIDE DEF rest
    <3>3. \A k \in Keys : (\E i \in DOMAIN out : out[i] = [n |-> ticks[c][k], key |-> k]) =>
            \E i \in DOMAIN rest : rest[i] = [n |-> ticks[c][k], key |-> k]
      BY <3>1, <3>2
    <3> QED
      BY <1>1, <1>8, <2>1, <3>3 DEF ConnInv, Newest
  <2>4. Owed(c)'
    <3>1. PICK m \in 0 .. Len(out) : Lined(c, m)
      BY <1>1 DEF ConnInv, Owed
    <3>2. m \in Nat /\ m >= 1 /\ m <= Len(out) /\ m - 1 \in 0 .. Len(rest)
      <4>1. 1 <= m
        BY <1>3, <1>11, <3>1 DEF Lined
      <4>2. m \in 0 .. Len(out) /\ Len(out) \in Nat /\ Len(rest) = Len(out) - 1
        BY <1>3
      <4> HIDE DEF out, rest
      <4> QED
        BY ONLY <4>1, <4>2
    <3>3. /\ Len(got[c]) \in Nat /\ Len(due[c]) \in Nat /\ Len(sub[c].queue) \in Nat
          /\ DOMAIN sub[c].queue = 1 .. Len(sub[c].queue)
      BY DueTypes, BufferTypes
    <3>4. f \in EventFrames
      BY <1>5, <1>11 DEF EventFrames
    <3>5. Len(got'[c]) = Len(got[c]) + 1
      BY <1>2, <2>1, <3>4, Appended
    <3>6. \A i \in DOMAIN rest : rest[i].key = "" <=> i <= m - 1
      <4>1. \A i \in DOMAIN rest : i + 1 <= m <=> i <= m - 1
        BY <1>3, <3>2
      <4>2. \A i \in DOMAIN out : out[i].key = "" <=> i <= m
        BY <3>1 DEF Lined
      <4> SUFFICES ASSUME NEW i \in DOMAIN rest
                   PROVE  rest[i].key = "" <=> i <= m - 1
        OBVIOUS
      <4>3. i + 1 \in DOMAIN out /\ rest[i] = out[i + 1]
        BY <1>4
      <4> HIDE DEF rest, out
      <4> QED
        BY <4>1, <4>2, <4>3
    <3>7. \A i \in 1 .. (m - 1) : due[c][Len(got[c]) + 1 + i] = rest[i]
      <4> SUFFICES ASSUME NEW i \in 1 .. (m - 1)
                   PROVE  due[c][Len(got[c]) + 1 + i] = rest[i]
        OBVIOUS
      <4>1. i + 1 \in 1 .. m /\ i \in 1 .. (Len(out) - 1)
            /\ Len(got[c]) + (i + 1) = Len(got[c]) + 1 + i
        <5>1. /\ Len(out) \in Nat /\ Len(got[c]) \in Nat /\ i \in 1 .. (m - 1)
              /\ m \in Nat /\ m <= Len(out)
          BY <1>3, <3>2, <3>3
        <5>2. \A a, b, x \in Nat : \A y \in 1 .. (x - 1) :
                x <= a => /\ y + 1 \in 1 .. x /\ y \in 1 .. (a - 1)
                          /\ b + (y + 1) = b + 1 + y
          OBVIOUS
        <5> HIDE DEF out
        <5> QED
          BY <5>1, <5>2
      <4>2. due[c][Len(got[c]) + (i + 1)] = out[i + 1]
        BY <3>1, <4>1 DEF Lined
      <4> QED
        BY <1>3, <1>4, <4>1, <4>2
    <3>8. \A i \in DOMAIN sub[c].queue :
            due[c][Len(got[c]) + 1 + (m - 1) + i] = sub[c].queue[i]
      <4>1. \A i \in DOMAIN sub[c].queue :
              Len(got[c]) + 1 + (m - 1) + i = Len(got[c]) + m + i
        BY <3>2, <3>3
      <4> QED
        BY <3>1, <4>1 DEF Lined
    <3>9. /\ Len(due[c]) >= Len(got[c]) + 1 + (m - 1) + Len(sub[c].queue)
          /\ Live(c) =>
               /\ Len(due[c]) = Len(got[c]) + 1 + (m - 1) + Len(sub[c].queue) + Extra(c)
               /\ Extra(c) = 1 => due[c][Len(due[c])] = turn.frame
      <4>1. Len(got[c]) + 1 + (m - 1) + Len(sub[c].queue)
              = Len(got[c]) + m + Len(sub[c].queue)
        <5>1. Len(got[c]) \in Nat /\ Len(sub[c].queue) \in Nat /\ m \in Nat
          BY <3>2, <3>3
        <5>2. \A a, b, x \in Nat : a + 1 + (x - 1) + b = a + x + b
          OBVIOUS
        <5> QED
          BY <5>1, <5>2
      <4> QED
        BY <3>1, <4>1 DEF Lined
    <3>10. Lined(c, m - 1)'
      <4> HIDE DEF rest
      <4> QED
        BY <1>1, <1>8, <3>5, <3>6, <3>7, <3>8, <3>9 DEF Lined
    <3>11. m - 1 \in 0 .. Len(writer'[c].out)
      BY <1>1, <3>2
    <3> QED
      BY <3>10, <3>11 DEF Owed
  <2> QED
    BY <1>6, <1>7, <1>9, <2>2, <2>3, <2>4 DEF ConnInv
<1>12. CASE f.key # ""
  <2> DEFINE new == Append(told, f)
             L == Len(told)
  <2>1. got'[c] = got[c] /\ gotTicks'[c] = new
    BY <1>12, Written
  <2>2. f \in CoalescedFrames
    BY <1>5, <1>12 DEF CoalescedFrames
  <2>3. /\ L \in Nat /\ DOMAIN told = 1 .. L /\ DOMAIN new = 1 .. (L + 1)
        /\ new[L + 1] = f
        /\ \A i \in DOMAIN told : i \in DOMAIN new /\ new[i] = told[i]
        /\ \A i \in DOMAIN new : i # L + 1 => i \in DOMAIN told /\ new[i] = told[i]
    BY <1>2, <2>2, Appended
  <2>4. Ascending(c)'
    <3>1. \A i \in DOMAIN told : told[i].key = f.key => told[i].n < f.n
      BY <1>3 DEF ConnInv, Ascending
    <3>2. \A i, j \in DOMAIN new : i < j /\ new[i].key = new[j].key => new[i].n < new[j].n
      <4> SUFFICES ASSUME NEW i \in DOMAIN new, NEW j \in DOMAIN new, i < j,
                          new[i].key = new[j].key
                   PROVE  new[i].n < new[j].n
        OBVIOUS
      <4>1. i # L + 1
        BY <2>3
      <4>2. i \in DOMAIN told /\ new[i] = told[i]
        BY <2>3, <4>1
      <4>3. CASE j = L + 1
        BY <2>3, <3>1, <4>2, <4>3
      <4>4. CASE j # L + 1
        <5>1. j \in DOMAIN told /\ new[j] = told[j]
          BY <2>3, <4>4
        <5> HIDE DEF new
        <5> QED
          BY <4>2, <5>1 DEF ConnInv, Ascending
      <4> QED
        BY <4>3, <4>4
    <3>3. \A i \in DOMAIN new, j \in DOMAIN rest :
            new[i].key = rest[j].key => new[i].n < rest[j].n
      <4> SUFFICES ASSUME NEW i \in DOMAIN new, NEW j \in DOMAIN rest,
                          new[i].key = rest[j].key
                   PROVE  new[i].n < rest[j].n
        OBVIOUS
      <4>1. CASE i = L + 1
        <5>1. out[1].key = out[j + 1].key /\ j + 1 \in DOMAIN out /\ j + 1 # 1
          BY <1>3, <1>4, <2>3, <4>1
        <5> QED
          BY <1>3, <1>12, <5>1 DEF ConnInv, Ascending
      <4>2. CASE i # L + 1
        BY <1>10, <2>3, <4>2
      <4> QED
        BY <4>1, <4>2
    <3>4. \A k \in Keys : sub[c].pending[k] # 0 =>
            \A i \in DOMAIN new : new[i].key = k => new[i].n < sub[c].pending[k]
      <4>1. \A k \in Keys : sub[c].pending[k] # 0 =>
              /\ f.key = k => f.n < sub[c].pending[k]
              /\ \A i \in DOMAIN told : told[i].key = k => told[i].n < sub[c].pending[k]
        BY <1>3 DEF ConnInv, Ascending
      <4> HIDE DEF new
      <4> QED
        BY <2>3, <4>1
    <3>5. \A i \in DOMAIN new : new[i].n <= last
      <4>1. f.n <= last
        BY <1>3, <1>12 DEF ConnInv, Ascending
      <4>2. \A i \in DOMAIN told : told[i].n <= last
        BY DEF ConnInv, Ascending
      <4> HIDE DEF new, last
      <4> QED
        BY <2>3, <4>1, <4>2
    <3>6. writer'[c].out = rest /\ gotTicks'[c] = new /\ turn' = turn /\ seq' = seq
          /\ sub' = sub
      BY <1>1, <2>1
    <3> HIDE DEF rest, new
    <3> QED
      BY <1>10, <3>2, <3>3, <3>4, <3>5, <3>6 DEF Ascending
  <2>5. Newest(c)'
    <3>1. \A i \in DOMAIN out :
            \/ \E j \in DOMAIN rest : rest[j] = out[i]
            \/ \E j \in DOMAIN new : new[j] = out[i]
      <4>1. L + 1 \in DOMAIN new /\ new[L + 1] = out[1]
        BY <2>3
      <4> QED
        BY <1>4, <4>1
    <3>2. \A i \in DOMAIN told : \E j \in DOMAIN new : new[j] = told[i]
      BY <2>3
    <3> HIDE DEF rest, new
    <3>3. \A k \in Keys : Live(c) /\ ticks[c][k] # 0 =>
            \/ Awaits(c) /\ turn.frame = [n |-> ticks[c][k], key |-> k]
            \/ sub[c].pending[k] = ticks[c][k]
            \/ \E i \in DOMAIN rest : rest[i] = [n |-> ticks[c][k], key |-> k]
            \/ \E i \in DOMAIN new : new[i] = [n |-> ticks[c][k], key |-> k]
      BY <3>1, <3>2 DEF ConnInv, Newest
    <3> QED
      BY <1>1, <1>8, <2>1, <3>3 DEF Newest
  <2>6. Owed(c)'
    <3>1. PICK m \in 0 .. Len(out) : Lined(c, m)
      BY <1>1 DEF ConnInv, Owed
    <3>2. m = 0
      <4>1. ~(1 <= m)
        BY <1>3, <1>12, <3>1 DEF Lined
      <4>2. m \in 0 .. Len(out) /\ Len(out) \in Nat
        BY <1>3
      <4> QED
        BY ONLY <4>1, <4>2
    <3>3. \A i \in DOMAIN rest : rest[i].key = "" <=> i <= 0
      <4>1. \A i \in DOMAIN rest : ~(i + 1 <= 0) /\ ~(i <= 0)
        BY <1>3
      <4>2. \A i \in DOMAIN out : out[i].key = "" <=> i <= 0
        BY <3>1, <3>2 DEF Lined
      <4> HIDE DEF rest
      <4> QED
        BY <1>4, <4>1, <4>2
    <3>4. Lined(c, 0)'
      <4> HIDE DEF rest
      <4>1. /\ writer'[c].out = rest /\ got'[c] = got[c] /\ due'[c] = due[c]
            /\ sub'[c].queue = sub[c].queue /\ turn' = turn
        BY <1>1, <2>1
      <4>2. Lined(c, 0)
        BY <3>1, <3>2
      <4>3. \A i \in 1 .. 0 : FALSE
        OBVIOUS
      <4> QED
        BY <1>8, <3>3, <4>1, <4>2, <4>3 DEF Lined
    <3>5. 0 \in 0 .. Len(writer'[c].out)
      BY <1>1, <1>3
    <3> QED
      BY <3>4, <3>5 DEF Owed
  <2> QED
    BY <1>6, <1>7, <1>9, <2>4, <2>5, <2>6 DEF ConnInv
<1> QED
  BY <1>11, <1>12

\* The frame of a turn under way: its number is that of the last dispatch, and
\* its key, if it has one, is a key.
LEMMA TurnTypes ==
  ASSUME Types, TurnFrame, ~Unlocked
  PROVE  /\ turn \in Turns /\ turn.frame \in Frames
         /\ turn.frame.n = seq /\ seq \in 1 .. MaxMsgs /\ seq \in Nat /\ seq # 0
         /\ turn.frame.key # "" => turn.frame.key \in Keys
<1>1. turn.frame \in Frames /\ turn.frame.n = seq /\ turn \in Turns
  BY DEF TurnFrame, Types
<1>2. turn.frame.n \in 1 .. MaxMsgs /\ turn.frame.key \in Keys \cup {""}
  BY <1>1, Zenon DEF Frames
<1>3. seq \in 1 .. MaxMsgs
  BY <1>1, <1>2
<1>4. seq \in Nat /\ seq # 0
  BY ONLY <1>3
<1> QED
  BY <1>1, <1>2, <1>3, <1>4

\* A frame on its way to c whose delivery is a delivery to c alone.
LEMMA DeliveryTurn ==
  ASSUME NEW c \in Conns, Types, c \in turn.left,
         turn'.left = turn.left \ {c}, turn'.evict = turn.evict,
         turn.evict = {}
  PROVE  c \notin turn'.left /\ ~Awaits(c)' /\ Awaits(c) /\ ~Unlocked
  BY DEF Awaits, Unlocked

\* A tick takes the place of the one of its key, or joins the buffer.
LEMMA DeliverTickStep ==
  ASSUME NEW c \in Conns, Types, TurnFrame, ConnInv(c),
         turn.wake \cup turn.evict = {}, DeliverTick(c)
  PROVE  ConnInv(c)'
<1> DEFINE k == turn.frame.key
           pending == sub[c].pending
           order == sub[c].order
           new == pending[k] = 0
           told == gotTicks[c]
           out == writer[c].out
<1>1. /\ c \in turn.left /\ ~Deaf(c) /\ k # ""
      /\ turn' = [turn EXCEPT !.left = @ \ {c}]
      /\ sub'[c] = [sub[c] EXCEPT !.pending[k] = turn.frame.n,
                                  !.order = IF new THEN Append(@, k) ELSE @]
      /\ UNCHANGED <<index, wildcard, reader, writer, seq, due, ticks, got, gotTicks>>
  BY DEF DeliverTick, Delivering, Types, broker, history, view
<1>2. /\ turn'.left = turn.left \ {c} /\ turn'.evict = turn.evict
      /\ turn'.frame = turn.frame /\ turn'.wake = turn.wake
  BY <1>1 DEF Types, Turns
<1>3. c \notin turn'.left /\ ~Awaits(c)' /\ Awaits(c) /\ ~Unlocked
  BY <1>1, <1>2, DeliveryTurn
<1>4. turn.frame.n = seq /\ seq \in Nat /\ seq # 0 /\ k \in Keys
  BY <1>1, <1>3, TurnTypes
<1>5. /\ sub'[c].pending = [pending EXCEPT ![k] = seq]
      /\ sub'[c].order = IF new THEN Append(order, k) ELSE order
      /\ UNCHANGED <<sub[c].filter, sub[c].closed, sub[c].evicted, sub[c].signal,
                     sub[c].queue>>
  BY <1>1, <1>4, BufferTypes DEF Subs
<1>6. /\ sub'[c].pending[k] = seq
      /\ \A l \in Keys : l # k => sub'[c].pending[l] = pending[l]
  BY <1>4, <1>5, BufferTypes
<1>7. Flags(c)' /\ Found(c)' /\ Woken(c)'
  BY <1>1, <1>2, <1>5 DEF ConnInv, Flags, Found, Woken
<1>8. Pending(sub'[c]) = Pending(sub[c]) \cup {k}
  BY <1>4, <1>6 DEF Pending
<1>9. Buffered(c)'
  <2>1. ToSet(order) = Pending(sub[c]) /\ IsInjective(order) /\ order \in Seq(Keys)
        /\ Len(out) <= MaxBuf
    BY BufferTypes DEF ConnInv, Buffered
  <2>2. CASE new
    <3> DEFINE longer == Append(order, k)
    <3>1. /\ Len(longer) = Len(order) + 1 /\ Len(order) \in Nat
          /\ DOMAIN longer = 1 .. (Len(order) + 1)
          /\ longer[Len(order) + 1] = k
          /\ \A i \in DOMAIN order : i \in DOMAIN longer /\ longer[i] = order[i]
          /\ \A i \in DOMAIN longer :
               i # Len(order) + 1 => i \in DOMAIN order /\ longer[i] = order[i]
      BY <1>4, <2>1, Appended
    <3>2. Len(order) + 1 \in DOMAIN longer
      BY <3>1
    <3> HIDE DEF longer
    <3>3. ToSet(longer) = ToSet(order) \cup {k}
      BY <3>1, <3>2 DEF ToSet
    <3>4. \A i \in DOMAIN order : order[i] # k
      <4>1. k \notin ToSet(order)
        BY <2>1, <2>2 DEF Pending
      <4> QED
        BY <4>1 DEF ToSet
    <3>5. IsInjective(longer)
      BY <2>1, <3>1, <3>4 DEF IsInjective
    <3>6. Len(sub[c].queue) + Len(longer) <= MaxBuf
      <4>1. Size(sub[c]) < MaxBuf
        BY <2>2 DEF DeliverTick
      <4>2. Len(sub[c].queue) + Len(order) < MaxBuf
        BY <4>1, SizeCounts DEF ConnInv
      <4>3. Len(sub[c].queue) \in Nat /\ Len(order) \in Nat
        BY BufferTypes
      <4>4. \A a, b, x \in Nat : a + b < x => a + (b + 1) <= x
        OBVIOUS
      <4> QED
        BY <3>1, <4>2, <4>3, <4>4, Bounds
    <3>7. sub'[c].order = longer /\ sub'[c].queue = sub[c].queue /\ writer'[c] = writer[c]
      BY <1>1, <1>5, <2>2 DEF longer
    <3> QED
      BY <1>8, <2>1, <3>3, <3>5, <3>6, <3>7 DEF Buffered
  <2>3. CASE ~new
    <3>1. Pending(sub'[c]) = Pending(sub[c])
      BY <1>4, <1>8, <2>3 DEF Pending
    <3>2. sub'[c].order = order /\ sub'[c].queue = sub[c].queue /\ writer'[c] = writer[c]
      BY <1>1, <1>5, <2>3
    <3> QED
      BY <3>1, <3>2 DEF ConnInv, Buffered
  <2> QED
    BY <2>2, <2>3
<1>10. Ascending(c)'
  <2>1. /\ \A l \in Keys : pending[l] \in Nat
        /\ \A i \in DOMAIN told : told[i].n \in Nat
        /\ \A i \in DOMAIN out : out[i].n \in Nat
    BY BufferTypes, FrameTypes
  <2>2. \A x \in Nat : x <= seq - 1 => x < seq /\ x <= seq
    BY <1>4
  <2>3. /\ \A l \in Keys : pending[l] # 0 => pending[l] <= seq - 1
        /\ \A i \in DOMAIN told : told[i].n <= seq - 1
        /\ \A i \in DOMAIN out : out[i].key # "" => out[i].n <= seq - 1
    BY <1>1 DEF ConnInv, Ascending
  <2>4. /\ \A l \in Keys : pending[l] # 0 => pending[l] <= seq
        /\ \A i \in DOMAIN told : told[i].n < seq /\ told[i].n <= seq
        /\ \A i \in DOMAIN out : out[i].key # "" => out[i].n < seq /\ out[i].n <= seq
    BY <2>1, <2>2, <2>3
  <2>5. \A l \in Keys : sub'[c].pending[l] # 0 =>
          /\ \A i \in DOMAIN told : told[i].key = l => told[i].n < sub'[c].pending[l]
          /\ \A i \in DOMAIN out : out[i].key = l => out[i].n < sub'[c].pending[l]
          /\ sub'[c].pending[l] <= seq
    <3> SUFFICES ASSUME NEW l \in Keys, sub'[c].pending[l] # 0
                 PROVE  /\ \A i \in DOMAIN told :
                             told[i].key = l => told[i].n < sub'[c].pending[l]
                        /\ \A i \in DOMAIN out :
                             out[i].key = l => out[i].n < sub'[c].pending[l]
                        /\ sub'[c].pending[l] <= seq
      OBVIOUS
    <3>1. CASE l = k
      <4>1. seq <= seq
        BY <1>4
      <4> QED
        BY <1>1, <1>6, <2>4, <3>1, <4>1
    <3>2. CASE l # k
      <4>1. sub'[c].pending[l] = pending[l]
        BY <1>6, <3>2
      <4> QED
        BY <2>4, <4>1 DEF ConnInv, Ascending
    <3> QED
      BY <3>1, <3>2
  <2>6. /\ gotTicks'[c] = told /\ writer'[c].out = out /\ seq' = seq
        /\ c \notin turn'.left
    BY <1>1, <1>3
  <2>7. /\ \A i, j \in DOMAIN told : i < j /\ told[i].key = told[j].key =>
             told[i].n < told[j].n
        /\ \A i \in DOMAIN told, j \in DOMAIN out :
             told[i].key = out[j].key => told[i].n < out[j].n
        /\ \A i, j \in DOMAIN out : i # j /\ out[i].key = out[j].key => out[i].key = ""
    BY DEF ConnInv, Ascending
  <2> HIDE DEF told, out
  <2> QED
    BY <2>4, <2>5, <2>6, <2>7 DEF Ascending
<1>11. Live(c)' = Live(c) /\ Extra(c)' = Extra(c)
  BY <1>1, <1>2, <1>5 DEF Live, Extra
<1>12. Newest(c)'
  <2> SUFFICES ASSUME NEW l \in Keys, Live(c), ticks[c][l] # 0
               PROVE  \/ sub'[c].pending[l] = ticks[c][l]
                      \/ \E i \in DOMAIN out : out[i] = [n |-> ticks[c][l], key |-> l]
                      \/ \E i \in DOMAIN told : told[i] = [n |-> ticks[c][l], key |-> l]
    BY <1>1, <1>11 DEF Newest
  <2>1. CASE l = k
    BY <1>1, <1>3, <1>4, <1>6, <2>1 DEF ConnInv, Offered
  <2>2. CASE l # k
    <3>1. turn.frame # [n |-> ticks[c][l], key |-> l]
      BY <2>2
    <3> QED
      BY <1>6, <2>2, <3>1 DEF ConnInv, Newest
  <2> QED
    BY <2>1, <2>2
<1>13. Owed(c)'
  <2>1. ASSUME NEW m, Lined(c, m) PROVE Lined(c, m)'
    <3>1. /\ writer'[c] = writer[c] /\ got'[c] = got[c] /\ due'[c] = due[c]
          /\ sub'[c].queue = sub[c].queue /\ turn'.frame = turn.frame
      BY <1>1, <1>2, <1>5
    <3> QED
      BY <1>11, <2>1, <3>1 DEF Lined
  <2> QED
    BY <1>1, <2>1 DEF ConnInv, Owed
<1>14. Offered(c)'
  BY <1>3 DEF Offered
<1> QED
  BY <1>7, <1>9, <1>10, <1>12, <1>13, <1>14 DEF ConnInv

\* A must-deliver frame joins the queue: it is the last one due.
LEMMA DeliverEventStep ==
  ASSUME NEW c \in Conns, Types, TurnFrame, ConnInv(c),
         turn.wake \cup turn.evict = {}, DeliverEvent(c)
  PROVE  ConnInv(c)'
<1> DEFINE f == turn.frame
           queue == sub[c].queue
           longer == Append(queue, f)
           told == gotTicks[c]
           out == writer[c].out
<1>1. /\ c \in turn.left /\ ~Deaf(c) /\ f.key = "" /\ Size(sub[c]) < MaxBuf
      /\ turn' = [turn EXCEPT !.left = @ \ {c}, !.wake = @ \cup {c}]
      /\ sub'[c] = [sub[c] EXCEPT !.queue = Append(@, f)]
      /\ UNCHANGED <<index, wildcard, reader, writer, seq, due, ticks, got, gotTicks>>
  BY DEF DeliverEvent, Delivering, Types, broker, history, view
<1>2. /\ turn'.left = turn.left \ {c} /\ turn'.evict = turn.evict
      /\ turn'.frame = f /\ c \in turn'.wake
  BY <1>1 DEF Types, Turns
<1>3. c \notin turn'.left /\ ~Awaits(c)' /\ Awaits(c) /\ ~Unlocked
  BY <1>1, <1>2, DeliveryTurn
<1>4. f.n = seq /\ seq \in Nat /\ f \in EventFrames
  BY <1>1, <1>3, TurnTypes DEF EventFrames
<1>5. /\ sub'[c].queue = longer
      /\ UNCHANGED <<sub[c].filter, sub[c].closed, sub[c].evicted, sub[c].signal,
                     sub[c].pending, sub[c].order>>
  BY <1>1, BufferTypes DEF Subs
<1>6. /\ Len(longer) = Len(queue) + 1 /\ Len(queue) \in Nat
      /\ DOMAIN longer = 1 .. (Len(queue) + 1) /\ longer[Len(queue) + 1] = f
      /\ \A i \in DOMAIN longer :
           i # Len(queue) + 1 => i \in DOMAIN queue /\ longer[i] = queue[i]
  <2>1. queue \in Seq(EventFrames)
    BY BufferTypes
  <2> QED
    BY <1>4, <2>1, Appended
<1>7. Flags(c)' /\ Found(c)' /\ Woken(c)'
  BY <1>1, <1>2, <1>5 DEF ConnInv, Flags, Found, Woken
<1>8. Buffered(c)'
  <2>1. Len(longer) + Len(sub[c].order) <= MaxBuf
    <3>1. Len(queue) + Len(sub[c].order) < MaxBuf
      BY <1>1, SizeCounts DEF ConnInv
    <3>2. Len(sub[c].order) \in Nat
      BY BufferTypes
    <3>3. \A a, b, x \in Nat : a + b < x => a + 1 + b <= x
      OBVIOUS
    <3> QED
      BY <1>6, <3>1, <3>2, <3>3, Bounds
  <2> QED
    BY <1>1, <1>5, <2>1 DEF ConnInv, Buffered, Pending
<1>9. Ascending(c)'
  <2>1. /\ \A l \in Keys : sub[c].pending[l] \in Nat
        /\ \A i \in DOMAIN told : told[i].n \in Nat
        /\ \A i \in DOMAIN out : out[i].n \in Nat
    BY BufferTypes, FrameTypes
  <2>2. \A x \in Nat : x <= seq - 1 => x <= seq
    BY <1>4
  <2>3. /\ \A l \in Keys : sub[c].pending[l] # 0 => sub[c].pending[l] <= seq - 1
        /\ \A i \in DOMAIN told : told[i].n <= seq - 1
        /\ \A i \in DOMAIN out : out[i].key # "" => out[i].n <= seq - 1
    BY <1>1 DEF ConnInv, Ascending
  <2>4. /\ \A l \in Keys : sub[c].pending[l] # 0 => sub[c].pending[l] <= seq
        /\ \A i \in DOMAIN told : told[i].n <= seq
        /\ \A i \in DOMAIN out : out[i].key # "" => out[i].n <= seq
    BY <2>1, <2>2, <2>3
  <2>5. /\ gotTicks'[c] = told /\ writer'[c].out = out /\ seq' = seq
        /\ c \notin turn'.left /\ sub'[c].pending = sub[c].pending
    BY <1>1, <1>3, <1>5
  <2> QED
    BY <2>4, <2>5 DEF ConnInv, Ascending
<1>10. Live(c)' = Live(c)
  BY <1>1, <1>5 DEF Live
<1>11. Newest(c)' /\ Offered(c)'
  <2>1. \A l \in Keys : f # [n |-> ticks[c][l], key |-> l]
    <3>1. \A x : \A l \in Keys : [n |-> x, key |-> l].key # ""
      BY KeyFrames
    <3> HIDE DEF f
    <3> QED
      BY <1>1, <3>1
  <2> QED
    BY <1>1, <1>3, <1>5, <1>10, <2>1 DEF ConnInv, Newest, Offered
<1>12. Owed(c)'
  <2> SUFFICES ASSUME writer[c].pc # "none"
               PROVE  \E m \in 0 .. Len(out) : Lined(c, m)'
    BY <1>1 DEF Owed
  <2>1. PICK m \in 0 .. Len(out) : Lined(c, m)
    BY DEF ConnInv, Owed
  <2>2. Live(c) /\ Extra(c) = 1 /\ Extra(c)' = 0
    BY <1>1, <1>2, <1>3 DEF Live, Extra, Deaf, ConnInv, Flags
  <2>3. /\ Len(due[c]) = Len(got[c]) + m + Len(queue) + 1
        /\ due[c][Len(due[c])] = f
    BY <2>1, <2>2 DEF Lined
  <2>4. m \in Nat /\ Len(got[c]) \in Nat /\ Len(queue) \in Nat
    <3>1. \A n \in Nat : \A x \in 0 .. n : x \in Nat
      OBVIOUS
    <3> QED
      BY <1>6, <3>1, DueTypes, FrameTypes
  <2>5. \A a \in Nat : a >= a /\ a = a + 0
    OBVIOUS
  <2>6. /\ Len(due[c]) = Len(got[c]) + m + Len(longer)
        /\ Len(due[c]) >= Len(got[c]) + m + Len(longer)
        /\ Len(due[c]) = Len(got[c]) + m + Len(longer) + 0
    <3>1. Len(longer) = Len(queue) + 1 /\ Len(due[c]) \in Nat
      BY <1>6, DueTypes
    <3>2. \A a, x, q \in Nat : \A d, l :
            d = a + x + q + 1 /\ l = q + 1 => d = a + x + l
      OBVIOUS
    <3>3. Len(due[c]) = Len(got[c]) + m + Len(queue) + 1
      BY <2>3
    <3>4. Len(due[c]) = Len(got[c]) + m + Len(longer)
      <4>1. \A d, l : d = Len(got[c]) + m + Len(queue) + 1 /\ l = Len(queue) + 1 =>
              d = Len(got[c]) + m + l
        BY <2>4, <3>2
      <4> QED
        BY <3>1, <3>3, <4>1
    <3> QED
      BY <2>5, <3>1, <3>4
  <2>7. \A i \in DOMAIN longer : due[c][Len(got[c]) + m + i] = longer[i]
    <3> SUFFICES ASSUME NEW i \in DOMAIN longer
                 PROVE  due[c][Len(got[c]) + m + i] = longer[i]
      OBVIOUS
    <3>1. CASE i = Len(queue) + 1
      BY <1>6, <2>3, <2>6, <3>1
    <3>2. CASE i # Len(queue) + 1
      BY <1>6, <2>1, <3>2 DEF Lined
    <3> QED
      BY <3>1, <3>2
  <2>8. /\ writer'[c] = writer[c] /\ got'[c] = got[c] /\ due'[c] = due[c]
        /\ sub'[c].queue = longer
    BY <1>1, <1>5
  <2> HIDE DEF longer
  <2>9. /\ \A i \in DOMAIN out : out[i].key = "" <=> i <= m
        /\ \A i \in 1 .. m : due[c][Len(got[c]) + i] = out[i]
    BY <2>1 DEF Lined
  <2>10. Lined(c, m)'
    <3>1. /\ Len(sub'[c].queue) = Len(longer) /\ DOMAIN sub'[c].queue = DOMAIN longer
          /\ writer'[c].out = out
      BY <2>8
    <3>2. Len(due[c]) = Len(got[c]) + m + Len(longer) + Extra(c)' /\ ~(Extra(c)' = 1)
      BY <2>2, <2>6
    <3> HIDE DEF out
    <3> QED
      BY <2>6, <2>7, <2>8, <2>9, <3>1, <3>2 DEF Lined
  <2> QED
    BY <2>10
<1> QED
  BY <1>7, <1>8, <1>9, <1>11, <1>12 DEF ConnInv

-----------------------------------------------------------------------------
(* The start of a dispatch *)

\* What a dispatch leaves.
LEMMA Dispatched ==
  ASSUME Types, NEW m \in Msgs, Dispatch(m)
  PROVE  LET frame == [n |-> seq + 1, key |-> m.key] IN
         /\ turn.left = {} /\ turn.wake = {} /\ turn.evict = {}
         /\ seq' = seq + 1 /\ seq \in Nat
         /\ seq' \in 1 .. MaxMsgs /\ seq' \in 0 .. MaxMsgs
         /\ turn'.frame = frame /\ turn'.left = Routed(m)
         /\ turn'.wake = {} /\ turn'.evict = {}
         /\ frame \in Frames
         /\ m.key = "" => ticks' = ticks /\ frame \in EventFrames
         /\ m.key # "" => due' = due /\ m.key \in Keys
         /\ \A d \in Conns :
              /\ d \in Wanted(m) =>
                   /\ m.key = "" => due'[d] = Append(due[d], frame)
                   /\ m.key # "" => ticks'[d] = [ticks[d] EXCEPT ![m.key] = seq + 1]
              /\ d \notin Wanted(m) => due'[d] = due[d] /\ ticks'[d] = ticks[d]
         /\ UNCHANGED <<index, wildcard, sub, reader, writer, total, got, gotTicks>>
<1> DEFINE frame == [n |-> seq + 1, key |-> m.key]
<1>1. /\ turn \in Turns /\ seq \in 0 .. MaxMsgs /\ Unlocked /\ seq < MaxMsgs
      /\ seq' = seq + 1
      /\ turn' = [turn EXCEPT !.frame = [n |-> seq', key |-> m.key], !.left = Routed(m)]
      /\ UNCHANGED <<index, wildcard, sub, reader, writer, total, got, gotTicks>>
  BY DEF Types, Dispatch, broker, view
<1>2. turn.left = {} /\ turn.wake = {} /\ turn.evict = {}
  BY <1>1 DEF Unlocked
<1>3. /\ turn'.frame = frame /\ turn'.left = Routed(m)
      /\ turn'.wake = {} /\ turn'.evict = {}
  BY <1>1, <1>2 DEF Turns
<1>4. seq \in Nat /\ seq' \in 1 .. MaxMsgs /\ seq' \in 0 .. MaxMsgs
  BY <1>1, Bounds
<1>5. m.key \in Keys \cup {""}
  BY MessageFields
<1>6. frame \in Frames
  BY <1>1, <1>4, <1>5 DEF Frames
<1>7. CASE m.key = ""
  <2>1. /\ due' = [d \in Conns |-> IF d \in Wanted(m)
                                   THEN Append(due[d], turn'.frame) ELSE due[d]]
        /\ ticks' = ticks
    BY <1>7 DEF Dispatch
  <2>2. frame \in EventFrames
    BY <1>6, <1>7 DEF EventFrames
  <2> QED
    BY <1>1, <1>2, <1>3, <1>4, <1>6, <1>7, <2>1, <2>2
<1>8. CASE m.key # ""
  <2>1. /\ ticks' = [d \in Conns |-> IF d \in Wanted(m)
                                     THEN [ticks[d] EXCEPT ![m.key] = seq']
                                     ELSE ticks[d]]
        /\ due' = due
    BY <1>8 DEF Dispatch
  <2>2. m.key \in Keys
    BY <1>5, <1>8
  <2> QED
    BY <1>1, <1>2, <1>3, <1>4, <1>6, <1>8, <2>1, <2>2
<1> QED
  BY <1>7, <1>8

\* Between dispatches the index finds the live connections that want a message.
LEMMA RoutedWanted ==
  ASSUME NEW d \in Conns, Found(d), Live(d), NEW m \in Msgs
  PROVE  d \in Routed(m) <=> d \in Wanted(m)
<1>1. reader[d] = "up" /\ m.chan \in Channels
  BY MessageFields DEF Live
<1>2. /\ d \in index[m.chan] <=> ~sub[d].filter.all /\ m.chan \in sub[d].filter.chans
      /\ d \in wildcard <=> sub[d].filter.all
  BY <1>1 DEF Found
<1> QED
  BY <1>2 DEF Routed, Wanted, WantsChannel

\* A dispatch puts a frame on its way to those who want it.
LEMMA DispatchStep ==
  ASSUME NEW d \in Conns, Types, ConnInv(d), NEW m \in Msgs, Dispatch(m)
  PROVE  ConnInv(d)'
<1> DEFINE frame == [n |-> seq + 1, key |-> m.key]
           told == gotTicks[d]
           out == writer[d].out
<1>1. /\ turn.left = {} /\ turn.wake = {} /\ turn.evict = {}
      /\ seq' = seq + 1 /\ seq \in Nat
      /\ turn'.frame = frame /\ turn'.left = Routed(m)
      /\ turn'.wake = {} /\ turn'.evict = {}
      /\ UNCHANGED <<index, wildcard, sub, reader, writer, got, gotTicks>>
  BY Dispatched
<1>2. /\ d \in Wanted(m) =>
           /\ m.key = "" => due'[d] = Append(due[d], frame)
           /\ m.key # "" => ticks'[d] = [ticks[d] EXCEPT ![m.key] = seq + 1]
      /\ d \notin Wanted(m) => due'[d] = due[d] /\ ticks'[d] = ticks[d]
      /\ m.key = "" => ticks' = ticks /\ frame \in EventFrames
      /\ m.key # "" => due' = due /\ m.key \in Keys
  BY Dispatched
<1>3. /\ ~Awaits(d) /\ (Awaits(d)' <=> d \in Routed(m))
      /\ Live(d)' <=> Live(d)
      /\ turn'.frame.key = m.key /\ turn'.frame.n = seq + 1
  BY <1>1 DEF Awaits, Live
<1>4. Live(d) => (d \in Routed(m) <=> d \in Wanted(m))
  BY RoutedWanted DEF ConnInv
<1>5. d \in Wanted(m) => Live(d)
  BY DEF Wanted
<1>6. Flags(d)' /\ Found(d)' /\ Woken(d)' /\ Buffered(d)'
  BY <1>1 DEF ConnInv, Flags, Found, Woken, Buffered, Pending
<1>7. Ascending(d)'
  <2> DEFINE last == IF d \in turn'.left THEN seq' - 1 ELSE seq'
  <2>1. last \in Nat /\ seq <= last
    BY <1>1
  <2>2. /\ \A k \in Keys : sub[d].pending[k] \in Nat
        /\ \A i \in DOMAIN told : told[i].n \in Nat
        /\ \A i \in DOMAIN out : out[i].n \in Nat
    BY BufferTypes, FrameTypes
  <2>3. /\ \A k \in Keys : sub[d].pending[k] # 0 => sub[d].pending[k] <= seq
        /\ \A i \in DOMAIN told : told[i].n <= seq
        /\ \A i \in DOMAIN out : out[i].key # "" => out[i].n <= seq
    BY <1>1 DEF ConnInv, Ascending
  <2>4. \A x \in Nat : x <= seq => x <= last
    <3> HIDE DEF last
    <3> QED
      BY <1>1, <2>1
  <2> HIDE DEF last, told, out
  <2>5. /\ \A k \in Keys : sub[d].pending[k] # 0 => sub[d].pending[k] <= last
        /\ \A i \in DOMAIN told : told[i].n <= last
        /\ \A i \in DOMAIN out : out[i].key # "" => out[i].n <= last
    BY <2>2, <2>3, <2>4
  <2>6. /\ gotTicks'[d] = told /\ writer'[d].out = out /\ sub' = sub
    BY <1>1 DEF told, out
  <2> QED
    BY <2>5, <2>6 DEF ConnInv, Ascending, last, told, out
<1>8. Newest(d)'
  <2> SUFFICES ASSUME NEW k \in Keys, Live(d), ticks'[d][k] # 0
               PROVE  \/ Awaits(d)' /\ turn'.frame = [n |-> ticks'[d][k], key |-> k]
                      \/ sub[d].pending[k] = ticks'[d][k]
                      \/ \E i \in DOMAIN out : out[i] = [n |-> ticks'[d][k], key |-> k]
                      \/ \E i \in DOMAIN told : told[i] = [n |-> ticks'[d][k], key |-> k]
    BY <1>1, <1>3 DEF Newest
  <2>1. CASE m.key = k /\ d \in Wanted(m)
    <3>1. ticks'[d][k] = seq + 1
      BY <1>2, <2>1, KeyFrames, DueTypes
    <3> QED
      BY <1>1, <1>3, <1>4, <2>1, <3>1
  <2>2. CASE ~(m.key = k /\ d \in Wanted(m))
    <3>1. ticks'[d][k] = ticks[d][k]
      BY <1>2, <2>2, DueTypes
    <3> QED
      BY <1>3, <3>1 DEF ConnInv, Newest
  <2> QED
    BY <2>1, <2>2
<1>9. Offered(d)'
  <2> SUFFICES ASSUME Live(d), Awaits(d)', m.key # ""
               PROVE  ticks'[d][m.key] = seq + 1
    BY <1>1, <1>3 DEF Offered
  <2>1. d \in Wanted(m) /\ m.key \in Keys
    BY <1>2, <1>3, <1>4
  <2> QED
    BY <1>2, <2>1, DueTypes
<1>10. Owed(d)'
  <2> SUFFICES ASSUME writer[d].pc # "none", NEW l \in 0 .. Len(out), Lined(d, l)
               PROVE  Lined(d, l)'
    BY <1>1 DEF ConnInv, Owed
  <2>1. /\ \A i \in DOMAIN out : out[i].key = "" <=> i <= l
        /\ \A i \in 1 .. l : due[d][Len(got[d]) + i] = out[i]
        /\ \A i \in DOMAIN sub[d].queue : due[d][Len(got[d]) + l + i] = sub[d].queue[i]
        /\ Len(due[d]) >= Len(got[d]) + l + Len(sub[d].queue)
    BY DEF Lined
  <2>2. Live(d) => Len(due[d]) = Len(got[d]) + l + Len(sub[d].queue) + 0
    BY <1>3 DEF Lined, Extra
  <2>3. CASE m.key = "" /\ d \in Wanted(m)
    <3>1. /\ due[d] \in Seq(EventFrames) /\ Len(got[d]) \in Nat
          /\ Len(sub[d].queue) \in Nat /\ l \in Nat
          /\ DOMAIN sub[d].queue = 1 .. Len(sub[d].queue)
      <4>1. \A n : \A x \in 0 .. n : x \in Nat
        OBVIOUS
      <4> QED
        BY <4>1, DueTypes, BufferTypes
    <3> DEFINE longer == Append(due[d], frame)
    <3>2. /\ due'[d] = longer /\ frame \in EventFrames
      BY <1>2, <2>3
    <3>3. /\ Len(longer) = Len(due[d]) + 1 /\ Len(due[d]) \in Nat
          /\ DOMAIN due[d] = 1 .. Len(due[d])
          /\ longer[Len(due[d]) + 1] = frame
          /\ \A i \in DOMAIN due[d] : longer[i] = due[d][i]
      BY <3>1, <3>2, Appended
    <3>4. Len(due[d]) = Len(got[d]) + l + Len(sub[d].queue)
      <4>1. \A a \in Nat : a + 0 = a
        OBVIOUS
      <4>2. Len(got[d]) + l + Len(sub[d].queue) \in Nat
        <5>1. \A a, x, q \in Nat : a + x + q \in Nat
          OBVIOUS
        <5> QED
          BY <3>1, <5>1
      <4> QED
        BY <1>5, <2>2, <2>3, <4>1, <4>2
    <3>5. \A a, x, q \in Nat : \A n \in Nat : n = a + x + q =>
            /\ \A i \in 1 .. x : a + i \in 1 .. n
            /\ \A i \in 1 .. q : a + x + i \in 1 .. n
            /\ n + 1 >= a + x + q /\ n + 1 = a + x + q + 1
      OBVIOUS
    <3>6. /\ \A i \in 1 .. l : Len(got[d]) + i \in DOMAIN due[d]
          /\ \A i \in DOMAIN sub[d].queue : Len(got[d]) + l + i \in DOMAIN due[d]
          /\ Len(longer) >= Len(got[d]) + l + Len(sub[d].queue)
          /\ Len(longer) = Len(got[d]) + l + Len(sub[d].queue) + 1
      <4>1. \A n \in Nat : n = Len(got[d]) + l + Len(sub[d].queue) =>
              /\ \A i \in 1 .. l : Len(got[d]) + i \in 1 .. n
              /\ \A i \in 1 .. Len(sub[d].queue) : Len(got[d]) + l + i \in 1 .. n
              /\ n + 1 >= Len(got[d]) + l + Len(sub[d].queue)
              /\ n + 1 = Len(got[d]) + l + Len(sub[d].queue) + 1
        BY <3>1, <3>5
      <4> HIDE DEF longer
      <4> QED
        BY <3>1, <3>3, <3>4, <4>1
    <3>7. Extra(d)' = 1
      BY <1>1, <1>3, <1>4, <1>5, <2>3 DEF Extra
    <3>8. /\ \A i \in 1 .. l : longer[Len(got[d]) + i] = out[i]
          /\ \A i \in DOMAIN sub[d].queue : longer[Len(got[d]) + l + i] = sub[d].queue[i]
      BY <2>1, <3>3, <3>6
    <3>9. longer[Len(longer)] = frame
      BY <3>3
    <3> HIDE DEF longer, frame, out
    <3> QED
      BY <1>1, <1>3, <2>1, <3>2, <3>6, <3>7, <3>8, <3>9 DEF Lined, out
  <2>4. CASE ~(m.key = "" /\ d \in Wanted(m))
    <3>1. due'[d] = due[d]
      BY <1>2, <2>4
    <3>2. Live(d) => Extra(d)' = 0
      BY <1>1, <1>3, <1>4, <2>4 DEF Extra
    <3>3. /\ writer'[d].out = out /\ got'[d] = got[d]
          /\ sub'[d].queue = sub[d].queue
      BY <1>1
    <3> HIDE DEF out
    <3>4. Live(d) =>
            /\ Len(due[d]) = Len(got[d]) + l + Len(sub[d].queue) + Extra(d)'
            /\ ~(Extra(d)' = 1)
      <4>1. 0 # 1
        OBVIOUS
      <4> QED
        BY <2>2, <3>2, <4>1, Zenon
    <3> QED
      BY <1>3, <2>1, <3>1, <3>3, <3>4, Zenon DEF Lined
  <2> QED
    BY <2>3, <2>4
<1> QED
  BY <1>6, <1>7, <1>8, <1>9, <1>10 DEF ConnInv

-----------------------------------------------------------------------------
(* The types *)

\* A step that changes the subscription of one connection to another.
LEMMA OneSub ==
  ASSUME Types, NEW c \in Conns, NEW s \in Subs, sub' = [sub EXCEPT ![c] = s]
  PROVE  sub' \in [Conns -> Subs]
<1>1. sub \in [Conns -> Subs]
  BY DEF Types
<1> QED
  BY <1>1

\* The reader's steps.
LEMMA ReaderTypes ==
  ASSUME Types, NEW c \in Conns,
         Connect(c) \/ ReadFails(c) \/ Unregister(c) \/ Release(c)
  PROVE  Types'
<1>1. /\ index \in [Channels -> SUBSET Conns] /\ wildcard \subseteq Conns
      /\ turn \in Turns /\ seq \in 0 .. MaxMsgs /\ sub[c] \in Subs
      /\ sub \in [Conns -> Subs] /\ writer \in [Conns -> Writers]
      /\ reader \in [Conns -> {"none", "up", "closing", "leaving"}]
  BY BufferTypes DEF Types
<1>2. /\ due \in [Conns -> Seq(EventFrames)] /\ got \in [Conns -> Seq(EventFrames)]
      /\ ticks \in [Conns -> [Keys -> 0 .. MaxMsgs]]
      /\ gotTicks \in [Conns -> Seq(CoalescedFrames)]
  BY DEF Types
<1>3. CASE Connect(c)
  <2>1. NoTicks \in [Keys -> 0 .. MaxMsgs]
    <3>1. 0 \in 0 .. MaxMsgs
      BY Bounds
    <3> QED
      BY <3>1 DEF NoTicks
  <2>2. \A f \in Filters : Subscription(f) \in Subs
    BY <2>1 DEF Subscription, Subs
  <2>3. PICK f \in Filters :
          /\ sub' = [sub EXCEPT ![c] = Subscription(f)]
          /\ index' = Indexed(index, c, f) /\ wildcard' = wildcard \cup Wild(c, f)
    BY <1>3 DEF Connect
  <2>4. sub' \in [Conns -> Subs]
    BY <2>2, <2>3, OneSub
  <2>5. index' \in [Channels -> SUBSET Conns] /\ wildcard' \subseteq Conns
    BY <1>1, <2>3 DEF Indexed, Wild
  <2>6. /\ reader' = [reader EXCEPT ![c] = "up"]
        /\ writer' = [writer EXCEPT ![c].pc = "wait"]
        /\ due' = [due EXCEPT ![c] = <<>>] /\ got' = [got EXCEPT ![c] = <<>>]
        /\ gotTicks' = [gotTicks EXCEPT ![c] = <<>>]
        /\ ticks' = [ticks EXCEPT ![c] = NoTicks]
        /\ UNCHANGED <<turn, seq>>
    BY <1>3 DEF Connect
  <2>7. writer' \in [Conns -> Writers]
    BY <1>1, <2>6 DEF Writers
  <2>8. /\ due' \in [Conns -> Seq(EventFrames)] /\ got' \in [Conns -> Seq(EventFrames)]
        /\ gotTicks' \in [Conns -> Seq(CoalescedFrames)]
    BY <1>2, <2>6
  <2>9. ticks' \in [Conns -> [Keys -> 0 .. MaxMsgs]]
    BY <1>2, <2>1, <2>6
  <2>10. reader' \in [Conns -> {"none", "up", "closing", "leaving"}]
    BY <1>1, <2>6
  <2> QED
    BY <1>1, <2>4, <2>5, <2>6, <2>7, <2>8, <2>9, <2>10 DEF Types
<1>4. CASE ReadFails(c)
  <2>1. /\ reader' = [reader EXCEPT ![c] = "closing"]
        /\ sub' = [sub EXCEPT ![c].closed = TRUE]
        /\ UNCHANGED <<index, wildcard, turn, writer, seq, due, ticks, got, gotTicks>>
    BY <1>4 DEF ReadFails, broker, history, view
  <2>2. sub' \in [Conns -> Subs]
    BY <1>1, <2>1 DEF Subs
  <2>3. reader' \in [Conns -> {"none", "up", "closing", "leaving"}]
    BY <1>1, <2>1
  <2> QED
    BY <1>1, <1>2, <2>1, <2>2, <2>3 DEF Types
<1>5. CASE Unregister(c)
  <2>1. /\ reader' = [reader EXCEPT ![c] = "leaving"]
        /\ index' = Deindexed(index, c, sub[c].filter) /\ wildcard' = wildcard \ {c}
        /\ UNCHANGED <<turn, sub, writer, seq, due, ticks, got, gotTicks>>
    BY <1>5 DEF Unregister, history, view
  <2>2. index' \in [Channels -> SUBSET Conns] /\ wildcard' \subseteq Conns
    BY <1>1, <2>1 DEF Deindexed
  <2>3. reader' \in [Conns -> {"none", "up", "closing", "leaving"}]
    BY <1>1, <2>1
  <2> QED
    BY <1>1, <1>2, <2>1, <2>2, <2>3 DEF Types
<1>6. CASE Release(c)
  <2>1. /\ reader' = [reader EXCEPT ![c] = "none"]
        /\ UNCHANGED <<index, wildcard, turn, sub, writer, seq, due, ticks, got, gotTicks>>
    BY <1>6 DEF Release, broker, history, view
  <2>2. reader' \in [Conns -> {"none", "up", "closing", "leaving"}]
    BY <1>1, <2>1
  <2> QED
    BY <1>1, <1>2, <2>1, <2>2 DEF Types
<1> QED
  BY <1>3, <1>4, <1>5, <1>6

\* The change of a filter.
LEMMA RelistedTypes ==
  ASSUME Types, NEW c \in Conns, NEW f \in Filters, Relisted(c, f)
  PROVE  Types'
<1>1. /\ index \in [Channels -> SUBSET Conns] /\ sub[c] \in Subs
      /\ sub \in [Conns -> Subs]
  BY BufferTypes DEF Types
<1>2. /\ sub' = [sub EXCEPT ![c].filter = f]
      /\ index' = Indexed(Deindexed(index, c, sub[c].filter), c, f)
      /\ UNCHANGED <<wildcard, turn, reader, writer, seq, due, ticks, got, gotTicks>>
  BY DEF Relisted, history, view
<1>3. sub' \in [Conns -> Subs]
  BY <1>1, <1>2 DEF Subs
<1>4. index' \in [Channels -> SUBSET Conns]
  <2>1. Deindexed(index, c, sub[c].filter) \in [Channels -> SUBSET Conns]
    BY <1>1 DEF Deindexed
  <2> QED
    BY <1>2, <2>1 DEF Indexed
<1> QED
  BY <1>2, <1>3, <1>4 DEF Types

\* The dispatch.
LEMMA DispatchTypes ==
  ASSUME Types, NEW m \in Msgs, Dispatch(m)
  PROVE  Types'
<1>1. /\ index \in [Channels -> SUBSET Conns] /\ wildcard \subseteq Conns
      /\ turn \in Turns
      /\ due \in [Conns -> Seq(EventFrames)]
      /\ ticks \in [Conns -> [Keys -> 0 .. MaxMsgs]]
  BY DEF Types
<1> DEFINE frame == [n |-> seq + 1, key |-> m.key]
<1>2. /\ seq' = seq + 1 /\ seq' \in 1 .. MaxMsgs /\ frame \in Frames
      /\ m.key = "" => ticks' = ticks /\ frame \in EventFrames
      /\ m.key # "" => due' = due /\ m.key \in Keys
      /\ UNCHANGED <<index, wildcard, sub, reader, writer, total, got, gotTicks>>
      /\ turn'.frame = frame
  BY Dispatched
<1>3. turn' \in Turns
  <2>1. Routed(m) \subseteq Conns
    BY <1>1, MessageFields DEF Routed
  <2>2. turn' = [turn EXCEPT !.frame = [n |-> seq', key |-> m.key], !.left = Routed(m)]
    BY DEF Dispatch
  <2> QED
    BY <1>1, <1>2, <2>1, <2>2 DEF Turns
<1>4. due' \in [Conns -> Seq(EventFrames)]
  <2>1. CASE m.key = ""
    <3>1. due' = [d \in Conns |-> IF d \in Wanted(m)
                                  THEN Append(due[d], frame) ELSE due[d]]
      BY <1>2, <2>1 DEF Dispatch
    <3>2. \A d \in Conns : Append(due[d], frame) \in Seq(EventFrames)
      <4>1. frame \in EventFrames
        BY <1>2, <2>1
      <4> HIDE DEF frame
      <4>2. \A x \in Seq(EventFrames) : Append(x, frame) \in Seq(EventFrames)
        BY <4>1
      <4> QED
        BY <1>1, <4>2
    <3> QED
      BY <1>1, <3>1, <3>2
  <2> QED
    BY <1>1, <1>2, <2>1
<1>5. ticks' \in [Conns -> [Keys -> 0 .. MaxMsgs]]
  <2>1. CASE m.key # ""
    <3>1. ticks' = [d \in Conns |-> IF d \in Wanted(m)
                                    THEN [ticks[d] EXCEPT ![m.key] = seq']
                                    ELSE ticks[d]]
      BY <2>1 DEF Dispatch
    <3>2. seq' \in 0 .. MaxMsgs
      BY Dispatched
    <3> QED
      BY <1>1, <3>1, <3>2
  <2> QED
    BY <1>1, <1>2, <2>1
<1>6. seq' \in 0 .. MaxMsgs
  BY Dispatched
<1> QED
  BY <1>2, <1>3, <1>4, <1>5, <1>6 DEF Types

\* The delivery of a frame.
LEMMA DeliverTypes ==
  ASSUME Types, TurnFrame, NEW c \in Conns, Deliver(c)
  PROVE  Types'
<1>1. turn \in Turns /\ sub[c] \in Subs /\ sub \in [Conns -> Subs]
  BY BufferTypes DEF Types
<1>2. UNCHANGED <<index, wildcard, reader, writer, seq, due, ticks, got, gotTicks>>
  BY DEF Deliver, DeliverDeaf, DeliverTick, DeliverEvent, Overflow, Delivering,
         Notify, Evict, broker, history, view
<1>3. SUFFICES turn' \in Turns /\ sub' \in [Conns -> Subs]
  BY <1>2 DEF Types
<1>4. CASE DeliverDeaf(c)
  BY <1>1, <1>4 DEF DeliverDeaf, Turns
<1>5. CASE Overflow(c)
  BY <1>1, <1>5 DEF Overflow, Turns
<1>6. CASE Notify(c)
  BY <1>1, <1>6 DEF Notify, Turns, Subs
<1>7. CASE Evict(c)
  BY <1>1, <1>7 DEF Evict, Turns, Subs
<1>8. CASE DeliverTick(c)
  <2> DEFINE k == turn.frame.key
             new == sub[c].pending[k] = 0
             s == [sub[c] EXCEPT !.pending = [@ EXCEPT ![k] = turn.frame.n],
                                 !.order = IF new THEN Append(@, k) ELSE @]
  <2>1. ~Unlocked /\ k # ""
    BY <1>8 DEF DeliverTick, Delivering, Unlocked
  <2>2. k \in Keys /\ turn.frame.n \in 0 .. MaxMsgs
    <3>1. \A x \in 1 .. MaxMsgs : x \in 0 .. MaxMsgs
      OBVIOUS
    <3> QED
      BY <2>1, <3>1, TurnTypes
  <2>3. /\ sub[c].pending \in [Keys -> 0 .. MaxMsgs] /\ sub[c].order \in Seq(Keys)
    BY BufferTypes
  <2>4. [sub[c].pending EXCEPT ![k] = turn.frame.n] \in [Keys -> 0 .. MaxMsgs]
    BY <2>2, <2>3
  <2>5. (IF new THEN Append(sub[c].order, k) ELSE sub[c].order) \in Seq(Keys)
    BY <2>2, <2>3
  <2>6. s \in Subs
    BY <1>1, <2>4, <2>5 DEF Subs
  <2>7. sub' = [sub EXCEPT ![c] = s]
    BY <1>8 DEF DeliverTick
  <2>8. turn' = [turn EXCEPT !.left = @ \ {c}]
    BY <1>8 DEF DeliverTick
  <2>9. turn' \in Turns
    BY <1>1, <2>8 DEF Turns
  <2> HIDE DEF s
  <2> QED
    BY <2>6, <2>7, <2>9, OneSub
<1>9. CASE DeliverEvent(c)
  <2> DEFINE s == [sub[c] EXCEPT !.queue = Append(@, turn.frame)]
  <2>1. ~Unlocked /\ turn.frame.key = ""
    BY <1>9 DEF DeliverEvent, Delivering, Unlocked
  <2>2. turn.frame \in EventFrames
    BY <2>1, TurnTypes DEF EventFrames
  <2>3. Append(sub[c].queue, turn.frame) \in Seq(EventFrames)
    BY <2>2, BufferTypes
  <2>4. s \in Subs
    BY <1>1, <2>3 DEF Subs
  <2>5. sub' = [sub EXCEPT ![c] = s]
    BY <1>9 DEF DeliverEvent
  <2>6. turn' = [turn EXCEPT !.left = @ \ {c}, !.wake = @ \cup {c}]
    BY <1>9 DEF DeliverEvent
  <2>7. turn' \in Turns
    BY <1>1, <2>6 DEF Turns
  <2> HIDE DEF s
  <2> QED
    BY <2>4, <2>5, <2>7, OneSub
<1> QED
  BY <1>4, <1>5, <1>6, <1>7, <1>8, <1>9 DEF Deliver

\* A writer that goes on to another place of its loop is still one.
LEMMA OnePc ==
  ASSUME Types, NEW c \in Conns, NEW p \in {"none", "wait", "drain", "write"},
         writer' = [writer EXCEPT ![c].pc = p]
  PROVE  writer' \in [Conns -> Writers]
<1> DEFINE w == [writer[c] EXCEPT !.pc = p]
<1>1. writer \in [Conns -> Writers] /\ writer[c] \in Writers
  BY DEF Types
<1>2. w \in Writers
  BY <1>1 DEF Writers
<1>3. writer' = [writer EXCEPT ![c] = w]
  OBVIOUS
<1> HIDE DEF w
<1> QED
  BY <1>1, <1>2, <1>3

\* The writer's steps.
LEMMA WriterTypes ==
  ASSUME Types, NEW c \in Conns, ConnInv(c), Pump(c) \/ Cancelled(c) \/ WriteFails(c)
  PROVE  Types'
<1>1. /\ sub[c] \in Subs /\ sub \in [Conns -> Subs] /\ writer[c] \in Writers
      /\ writer \in [Conns -> Writers] /\ writer[c].out \in Seq(Frames)
      /\ got \in [Conns -> Seq(EventFrames)]
      /\ gotTicks \in [Conns -> Seq(CoalescedFrames)]
  BY BufferTypes, FrameTypes DEF Types
<1>2. UNCHANGED <<index, wildcard, turn, reader, seq, due, ticks>>
  BY DEF Pump, Wake, DrainEvicted, Drain, Write, Cancelled, WriteFails, WriterEnds,
         WriterStep, broker
<1>3. SUFFICES /\ sub' \in [Conns -> Subs] /\ writer' \in [Conns -> Writers]
               /\ got' \in [Conns -> Seq(EventFrames)]
               /\ gotTicks' \in [Conns -> Seq(CoalescedFrames)]
  BY <1>2 DEF Types
<1>4. CASE Wake(c)
  <2>1. /\ writer' = [writer EXCEPT ![c].pc = "drain"] /\ UNCHANGED <<got, gotTicks>>
        /\ sub' = [sub EXCEPT ![c].signal = FALSE] \/ sub' = sub
    BY <1>4 DEF Wake, view
  <2>2. sub' \in [Conns -> Subs]
    <3> DEFINE s == [sub[c] EXCEPT !.signal = FALSE]
    <3>1. s \in Subs
      BY <1>1 DEF Subs
    <3>2. sub' = [sub EXCEPT ![c] = s] \/ sub' = sub
      BY <2>1
    <3> HIDE DEF s
    <3> QED
      BY <1>1, <3>1, <3>2
  <2>3. writer' \in [Conns -> Writers]
    BY <2>1, OnePc
  <2> QED
    BY <1>1, <2>1, <2>2, <2>3
<1>5. CASE DrainEvicted(c) \/ Cancelled(c)
  <2>1. writer' = [writer EXCEPT ![c].pc = "none"] /\ UNCHANGED <<sub, got, gotTicks>>
    BY <1>5 DEF DrainEvicted, Cancelled, WriterEnds, view
  <2>2. writer' \in [Conns -> Writers]
    BY <2>1, OnePc
  <2> QED
    BY <1>1, <2>1, <2>2
<1>6. CASE WriteFails(c)
  <2>1. /\ writer' = [writer EXCEPT ![c] = [pc |-> "none", out |-> <<>>]]
        /\ UNCHANGED <<sub, got, gotTicks>>
    BY <1>6 DEF WriteFails, view
  <2>2. [pc |-> "none", out |-> <<>>] \in Writers
    BY DEF Writers
  <2> QED
    BY <1>1, <2>1, <2>2
<1>7. CASE Drain(c)
  <2> DEFINE s == [sub[c] EXCEPT !.queue = <<>>, !.pending = NoTicks, !.order = <<>>]
             out == sub[c].queue \o TickFrames(sub[c])
  <2>1. /\ writer' = [writer EXCEPT ![c] = [pc |-> "write", out |-> out]]
        /\ sub' = [sub EXCEPT ![c] = s] /\ UNCHANGED <<got, gotTicks>>
    BY <1>7 DEF Drain, view
  <2>2. s \in Subs
    <3>1. 0 \in 0 .. MaxMsgs
      BY Bounds
    <3>2. NoTicks \in [Keys -> 0 .. MaxMsgs]
      BY <3>1 DEF NoTicks
    <3>3. <<>> \in Seq(EventFrames) /\ <<>> \in Seq(Keys)
      OBVIOUS
    <3> QED
      BY <1>1, <3>2, <3>3 DEF Subs
  <2>3. sub[c].queue \in Seq(Frames)
    <3>1. EventFrames \subseteq Frames /\ sub[c].queue \in Seq(EventFrames)
      BY KeyFrames, BufferTypes
    <3>2. \A S, T : S \subseteq T => Seq(S) \subseteq Seq(T)
      BY SeqMonotonic
    <3> QED
      BY <3>1, <3>2
  <2>4. TickFrames(sub[c]) \in Seq(Frames)
    <3> DEFINE order == sub[c].order
    <3>1. /\ DOMAIN order = 1 .. Len(order) /\ Len(order) \in Nat
          /\ \A i \in 1 .. Len(order) : order[i] \in Keys
          /\ sub[c].pending \in [Keys -> 0 .. MaxMsgs]
      BY BufferTypes
    <3>2. \A i \in 1 .. Len(order) : sub[c].pending[order[i]] # 0
      <4>1. \A i \in 1 .. Len(order) : order[i] \in Pending(sub[c])
        BY <3>1 DEF ConnInv, Buffered, ToSet
      <4> QED
        BY <4>1 DEF Pending
    <3>3. \A x \in 0 .. MaxMsgs : x # 0 => x \in 1 .. MaxMsgs
      OBVIOUS
    <3>4. \A i \in 1 .. Len(order) : sub[c].pending[order[i]] \in 1 .. MaxMsgs
      BY <3>1, <3>2, <3>3
    <3>5. \A i \in 1 .. Len(order) :
            [n |-> sub[c].pending[order[i]], key |-> order[i]] \in Frames
      BY <3>1, <3>4 DEF Frames
    <3>6. TickFrames(sub[c]) \in [1 .. Len(order) -> Frames]
      BY <3>1, <3>5 DEF TickFrames
    <3>7. \A n \in Nat : \A g \in [1 .. n -> Frames] : g \in Seq(Frames)
      OBVIOUS
    <3> QED
      BY <3>1, <3>6, <3>7
  <2>5. out \in Seq(Frames)
    BY <2>3, <2>4
  <2>6. [pc |-> "write", out |-> out] \in Writers
    BY <2>5 DEF Writers
  <2> HIDE DEF s, out
  <2> QED
    BY <1>1, <2>1, <2>2, <2>6
<1>8. CASE Write(c)
  <2>1. CASE writer[c].out = <<>>
    <3>1. /\ writer' = [writer EXCEPT ![c].pc = "wait"]
          /\ UNCHANGED <<sub, got, gotTicks>>
      BY <1>8, <2>1 DEF Write, view
    <3>2. writer' \in [Conns -> Writers]
      BY <3>1, OnePc
    <3> QED
      BY <1>1, <3>1, <3>2
  <2>2. CASE writer[c].out # <<>>
    <3> DEFINE f == Head(writer[c].out)
    <3>1. f \in Frames /\ Tail(writer[c].out) \in Seq(Frames)
      BY <1>1, <2>2
    <3>2. /\ writer' = [writer EXCEPT ![c].out = Tail(@)] /\ sub' = sub
          /\ \/ f.key = "" /\ got' = [got EXCEPT ![c] = Append(@, f)] /\ gotTicks' = gotTicks
             \/ f.key # "" /\ gotTicks' = [gotTicks EXCEPT ![c] = Append(@, f)] /\ got' = got
      BY <1>8, <2>2 DEF Write
    <3>3. writer' \in [Conns -> Writers]
      BY <1>1, <3>1, <3>2 DEF Writers
    <3>4. CASE f.key = ""
      <4>1. f \in EventFrames /\ got' = [got EXCEPT ![c] = Append(@, f)]
        BY <3>1, <3>2, <3>4 DEF EventFrames
      <4>2. Append(got[c], f) \in Seq(EventFrames)
        BY <1>1, <4>1
      <4> HIDE DEF f
      <4>3. got' \in [Conns -> Seq(EventFrames)]
        BY <1>1, <4>1, <4>2
      <4>4. gotTicks' = gotTicks /\ sub' = sub
        BY <3>2, <3>4
      <4> QED
        BY <1>1, <3>3, <4>3, <4>4
    <3>5. CASE f.key # ""
      <4>1. f \in CoalescedFrames /\ gotTicks' = [gotTicks EXCEPT ![c] = Append(@, f)]
        BY <3>1, <3>2, <3>5 DEF CoalescedFrames
      <4>2. Append(gotTicks[c], f) \in Seq(CoalescedFrames)
        BY <1>1, <4>1
      <4> HIDE DEF f
      <4>3. gotTicks' \in [Conns -> Seq(CoalescedFrames)]
        BY <1>1, <4>1, <4>2
      <4>4. got' = got /\ sub' = sub
        BY <3>2, <3>5
      <4> QED
        BY <1>1, <3>3, <4>3, <4>4
    <3> QED
      BY <3>4, <3>5
  <2> QED
    BY <2>1, <2>2
<1> QED
  BY <1>4, <1>5, <1>6, <1>7, <1>8 DEF Pump

\* Every step keeps the types.
LEMMA TypesStep ==
  ASSUME IInv, [Next]_vars
  PROVE  Types'
<1>1. Types /\ TurnFrame /\ \A c \in Conns : ConnInv(c)
  BY DEF IInv
<1>2. CASE \E m \in Msgs : Dispatch(m)
  BY <1>1, <1>2, DispatchTypes
<1>3. ASSUME NEW c \in Conns, ConnStep(c) PROVE Types'
  <2>1. CASE Connect(c) \/ ReadFails(c) \/ Unregister(c) \/ Release(c)
    BY <1>1, <2>1, ReaderTypes
  <2>2. CASE \E chans \in SUBSET Channels, pools \in SUBSET Pools, add \in BOOLEAN :
               Resubscribe(c, chans, pools, add)
    BY <1>1, <2>2, ResubscribeLists, RelistedTypes
  <2>3. CASE Deliver(c)
    BY <1>1, <2>3, DeliverTypes
  <2>4. CASE Pump(c) \/ Cancelled(c) \/ WriteFails(c)
    BY <1>1, <2>4, WriterTypes
  <2> QED
    BY <1>3, <2>1, <2>2, <2>3, <2>4 DEF ConnStep
<1>4. CASE UNCHANGED vars
  BY <1>1, <1>4 DEF Types, vars
<1> QED
  BY <1>2, <1>3, <1>4, StepCases

-----------------------------------------------------------------------------
(* The invariant is inductive *)

\* The slots are counted.
LEMMA SlotsStep ==
  ASSUME IInv, [Next]_vars
  PROVE  Slots'
<1> DEFINE taken == {c \in Conns : reader[c] # "none"}
<1>1. /\ IsFiniteSet(taken) /\ total = Cardinality(taken) /\ total <= MaxConns
      /\ reader \in [Conns -> {"none", "up", "closing", "leaving"}]
  BY DEF IInv, Slots, Types
<1>2. Cardinality(taken) \in Nat
  BY <1>1, FS_CardinalityType
<1>3. CASE UNCHANGED <<reader, total>>
  BY <1>1, <1>3 DEF Slots
<1>4. ASSUME NEW c \in Conns, Connect(c) PROVE Slots'
  <2>1. /\ reader' = [reader EXCEPT ![c] = "up"] /\ reader[c] = "none"
        /\ total < MaxConns /\ total' = total + 1
    BY <1>4 DEF Connect
  <2>2. taken' = taken \cup {c} /\ c \notin taken
    BY <1>1, <2>1
  <2>3. IsFiniteSet(taken') /\ Cardinality(taken') = Cardinality(taken) + 1
    BY <1>1, <2>2, FS_AddElement
  <2>4. total' <= MaxConns
    BY <1>1, <1>2, <2>1, Bounds
  <2> QED
    BY <1>1, <2>1, <2>3, <2>4 DEF Slots
<1>5. ASSUME NEW c \in Conns, Release(c) PROVE Slots'
  <2>1. /\ reader' = [reader EXCEPT ![c] = "none"] /\ reader[c] = "leaving"
        /\ total' = total - 1
    BY <1>5 DEF Release
  <2>2. taken' = taken \ {c} /\ c \in taken
    BY <1>1, <2>1
  <2>3. IsFiniteSet(taken') /\ Cardinality(taken') = Cardinality(taken) - 1
    BY <1>1, <2>2, FS_RemoveElement
  <2>4. total' <= MaxConns
    BY <1>1, <1>2, <2>1, Bounds
  <2> QED
    BY <1>1, <2>1, <2>3, <2>4 DEF Slots
<1>6. ASSUME NEW c \in Conns, ReadFails(c) \/ Unregister(c) PROVE Slots'
  <2>1. /\ reader[c] # "none" /\ total' = total
        /\ \/ reader' = [reader EXCEPT ![c] = "closing"]
           \/ reader' = [reader EXCEPT ![c] = "leaving"]
    BY <1>6 DEF ReadFails, Unregister
  <2>2. taken' = taken
    BY <1>1, <2>1
  <2> QED
    BY <1>1, <2>1, <2>2 DEF Slots
<1>7. ASSUME NEW c \in Conns, ConnStep(c) PROVE Slots'
  <2>1. CASE \/ Deliver(c) \/ Pump(c) \/ Cancelled(c) \/ WriteFails(c)
             \/ \E chans \in SUBSET Channels, pools \in SUBSET Pools, add \in BOOLEAN :
                  Resubscribe(c, chans, pools, add)
    <3>1. UNCHANGED <<reader, total>>
      BY <2>1 DEF Deliver, DeliverDeaf, DeliverTick, DeliverEvent, Overflow,
                  Delivering, Notify, Evict, Pump, Wake, DrainEvicted, Drain, Write,
                  Cancelled, WriteFails, WriterEnds, WriterStep, Resubscribe
    <3> QED
      BY <1>3, <3>1
  <2> QED
    BY <1>4, <1>5, <1>6, <1>7, <2>1 DEF ConnStep
<1>8. CASE \E m \in Msgs : Dispatch(m)
  BY <1>3, <1>8 DEF Dispatch
<1>9. CASE UNCHANGED vars
  BY <1>3, <1>9 DEF vars
<1> QED
  BY <1>7, <1>8, <1>9, StepCases

\* The frame in a turn is the one dispatched last, since no dispatch starts
\* while it is under way.
LEMMA TurnFrameStep ==
  ASSUME IInv, [Next]_vars
  PROVE  TurnFrame'
<1>1. Types /\ TurnFrame
  BY DEF IInv
<1>2. ASSUME NEW m \in Msgs, Dispatch(m) PROVE TurnFrame'
  <2>1. turn'.frame = [n |-> seq + 1, key |-> m.key] /\ seq' = seq + 1
        /\ [n |-> seq + 1, key |-> m.key] \in Frames
    BY <1>1, <1>2, Dispatched
  <2> QED
    BY <2>1 DEF TurnFrame
<1>3. ASSUME turn'.frame = turn.frame, seq' = seq,
             turn'.left \subseteq turn.left \cup turn.evict \cup turn.wake,
             turn'.wake \cup turn'.evict \subseteq
               turn.left \cup turn.wake \cup turn.evict
      PROVE  TurnFrame'
  BY <1>1, <1>3 DEF TurnFrame, Unlocked
<1>4. ASSUME NEW c \in Conns, Deliver(c) PROVE TurnFrame'
  <2>1. seq' = seq /\ turn \in Turns
    BY <1>1, <1>4 DEF Deliver, DeliverDeaf, DeliverTick, DeliverEvent, Overflow,
                      Delivering, Notify, Evict, Types
  <2>2. /\ turn'.frame = turn.frame /\ turn'.left \subseteq turn.left
        /\ turn'.wake \cup turn'.evict \subseteq
             turn.left \cup turn.wake \cup turn.evict
    <3>1. CASE DeliverDeaf(c)
      BY <2>1, <3>1 DEF DeliverDeaf, Turns
    <3>2. CASE DeliverTick(c)
      BY <2>1, <3>2 DEF DeliverTick, Turns
    <3>3. CASE DeliverEvent(c)
      BY <2>1, <3>3 DEF DeliverEvent, Delivering, Turns
    <3>4. CASE Overflow(c)
      BY <2>1, <3>4 DEF Overflow, Delivering, Turns
    <3>5. CASE Notify(c)
      BY <2>1, <3>5 DEF Notify, Turns
    <3>6. CASE Evict(c)
      BY <2>1, <3>6 DEF Evict, Turns
    <3> QED
      BY <1>4, <3>1, <3>2, <3>3, <3>4, <3>5, <3>6 DEF Deliver
  <2> QED
    BY <1>3, <2>1, <2>2
<1>5. CASE UNCHANGED <<turn, seq>>
  BY <1>1, <1>5 DEF TurnFrame, Unlocked
<1>6. ASSUME NEW c \in Conns, ConnStep(c) PROVE TurnFrame'
  <2>1. CASE \/ Connect(c) \/ ReadFails(c) \/ Unregister(c) \/ Release(c)
             \/ Pump(c) \/ Cancelled(c) \/ WriteFails(c)
             \/ \E chans \in SUBSET Channels, pools \in SUBSET Pools, add \in BOOLEAN :
                  Resubscribe(c, chans, pools, add)
    <3>1. UNCHANGED <<turn, seq>>
      BY <2>1 DEF Connect, ReadFails, Unregister, Release, Pump, Wake, DrainEvicted,
                  Drain, Write, Cancelled, WriteFails, WriterEnds, WriterStep,
                  Resubscribe
    <3> QED
      BY <1>5, <3>1
  <2> QED
    BY <1>4, <1>6, <2>1 DEF ConnStep
<1> QED
  BY <1>2, <1>5, <1>6, StepCases DEF vars

\* The step of a connection, for the connection itself.
LEMMA OwnStep ==
  ASSUME IInv, NEW c \in Conns, ConnStep(c)
  PROVE  ConnInv(c)'
<1>1. Types /\ TurnFrame /\ ConnInv(c)
  BY DEF IInv
<1>2. CASE Connect(c)
  BY <1>1, <1>2, ConnectStep
<1>3. CASE ReadFails(c) \/ Unregister(c) \/ Release(c)
  BY <1>1, <1>3, ReaderSteps
<1>4. CASE \E chans \in SUBSET Channels, pools \in SUBSET Pools, add \in BOOLEAN :
             Resubscribe(c, chans, pools, add)
  BY <1>1, <1>4, ResubscribeLists, RelistedStep
<1>5. CASE Deliver(c)
  <2>1. CASE DeliverDeaf(c) \/ Overflow(c) \/ Notify(c) \/ Evict(c)
    BY <1>1, <2>1, QuietDeliveries
  <2>2. CASE turn.wake \cup turn.evict = {} /\ DeliverTick(c)
    BY <1>1, <2>2, DeliverTickStep
  <2>3. CASE turn.wake \cup turn.evict = {} /\ DeliverEvent(c)
    BY <1>1, <2>3, DeliverEventStep
  <2> QED
    BY <1>5, <2>1, <2>2, <2>3 DEF Deliver
<1>6. CASE Pump(c) \/ Cancelled(c)
  <2>1. CASE \/ Wake(c) \/ Cancelled(c) \/ DrainEvicted(c)
             \/ Write(c) /\ writer[c].out = <<>>
    BY <1>1, <2>1, QuietWriterSteps
  <2>2. CASE Drain(c)
    BY <1>1, <2>2, DrainStep
  <2>3. CASE Write(c) /\ writer[c].out # <<>>
    BY <1>1, <2>3, WriteStep
  <2> QED
    BY <1>6, <2>1, <2>2, <2>3 DEF Pump
<1>7. CASE WriteFails(c)
  BY <1>1, <1>7, WriteFailsStep
<1> QED
  BY <1>2, <1>3, <1>4, <1>5, <1>6, <1>7 DEF ConnStep

\* The invariant holds at the start.
LEMMA InitInv ==
  ASSUME Init
  PROVE  IInv
<1> DEFINE f == [all |-> FALSE, chans |-> {}, pools |-> {}]
<1>1. /\ index = [ch \in Channels |-> {}] /\ wildcard = {}
      /\ turn = [frame |-> <<>>, left |-> {}, wake |-> {}, evict |-> {}]
      /\ sub = [c \in Conns |-> Gone]
      /\ reader = [c \in Conns |-> "none"]
      /\ writer = [c \in Conns |-> [pc |-> "none", out |-> <<>>]]
      /\ total = 0 /\ seq = 0
      /\ due = [c \in Conns |-> <<>>] /\ got = [c \in Conns |-> <<>>]
      /\ gotTicks = [c \in Conns |-> <<>>] /\ ticks = [c \in Conns |-> NoTicks]
  BY DEF Init
<1>2. 0 \in 0 .. MaxMsgs /\ 0 <= MaxConns /\ 0 + 0 <= MaxBuf /\ 0 <= MaxBuf
  BY Bounds
<1>3. NoTicks \in [Keys -> 0 .. MaxMsgs]
  BY <1>2 DEF NoTicks
<1>4. /\ <<>> \in Seq(EventFrames) /\ <<>> \in Seq(CoalescedFrames)
      /\ <<>> \in Seq(Frames) /\ <<>> \in Seq(Keys)
      /\ Len(<<>>) = 0 /\ DOMAIN <<>> = {}
  OBVIOUS
<1>5. /\ Gone.filter = f /\ Gone.closed = TRUE /\ Gone.evicted = FALSE
      /\ Gone.queue = <<>> /\ Gone.pending = NoTicks /\ Gone.order = <<>>
      /\ Gone \in Subs
  <2>1. f \in Filters
    BY DEF Filters
  <2> QED
    BY <1>3, <1>4, <2>1 DEF Gone, Subscription, Subs
<1>6. Types
  <2>1. turn \in Turns
    BY <1>1 DEF Turns
  <2>2. sub \in [Conns -> Subs] /\ writer \in [Conns -> Writers]
    BY <1>1, <1>4, <1>5 DEF Writers
  <2> QED
    BY <1>1, <1>2, <1>3, <1>4, <2>1, <2>2 DEF Types
<1>7. Slots
  <2>1. {c \in Conns : reader[c] # "none"} = {}
    BY <1>1
  <2>2. IsFiniteSet({}) /\ Cardinality({}) = 0
    BY FS_EmptySet
  <2> QED
    BY <1>1, <1>2, <2>1, <2>2 DEF Slots
<1>8. TurnFrame
  BY <1>1 DEF TurnFrame, Unlocked
<1>9. ASSUME NEW c \in Conns PROVE ConnInv(c)
  <2>1. /\ sub[c] = Gone /\ reader[c] = "none" /\ writer[c].pc = "none"
        /\ writer[c].out = <<>> /\ gotTicks[c] = <<>>
    BY <1>1
  <2>2. Flags(c) /\ Found(c) /\ Woken(c)
    BY <1>1, <1>5, <2>1 DEF Flags, Found, Woken
  <2>3. Buffered(c)
    <3>1. Pending(sub[c]) = {}
      BY <1>5, <2>1 DEF Pending, NoTicks
    <3>2. ToSet(<<>>) = {} /\ IsInjective(<<>>)
      BY DEF ToSet, IsInjective
    <3> QED
      BY <1>2, <1>4, <1>5, <2>1, <3>1, <3>2 DEF Buffered
  <2>4. Ascending(c)
    <3>1. \A k \in Keys : sub[c].pending[k] = 0
      BY <1>5, <2>1 DEF NoTicks
    <3>2. DOMAIN gotTicks[c] = {} /\ DOMAIN writer[c].out = {}
      BY <2>1
    <3> QED
      BY <3>1, <3>2 DEF Ascending
  <2>5. Newest(c) /\ Owed(c) /\ Offered(c)
    BY <2>1 DEF Newest, Owed, Offered, Live
  <2> QED
    BY <2>2, <2>3, <2>4, <2>5 DEF ConnInv
<1> QED
  BY <1>6, <1>7, <1>8, <1>9 DEF IInv

\* Every step keeps it.
LEMMA StepInv ==
  ASSUME IInv, [Next]_vars
  PROVE  IInv'
<1>1. Types /\ \A d \in Conns : ConnInv(d)
  BY DEF IInv
<1>2. ASSUME NEW d \in Conns PROVE ConnInv(d)'
  <2>1. CASE \E m \in Msgs : Dispatch(m)
    BY <1>1, <2>1, DispatchStep
  <2>2. ASSUME NEW c \in Conns, ConnStep(c) PROVE ConnInv(d)'
    <3>1. CASE d = c
      BY <2>2, <3>1, OwnStep
    <3>2. CASE d # c
      <4>1. Apart(d)
        BY <1>1, <2>2, <3>2, OthersApart
      <4> QED
        BY <1>1, <4>1, Elsewhere
    <3> QED
      BY <3>1, <3>2
  <2>3. CASE UNCHANGED vars
    <3>1. Apart(d)
      BY <2>3 DEF Apart, vars
    <3> QED
      BY <1>1, <3>1, Elsewhere
  <2> QED
    BY <2>1, <2>2, <2>3, StepCases
<1> QED
  BY <1>2, TypesStep, SlotsStep, TurnFrameStep DEF IInv

\* The invariant holds of every reachable state.
THEOREM Invariant == Spec => []IInv
<1>1. Init => IInv
  BY InitInv
<1>2. IInv /\ [Next]_vars => IInv'
  BY StepInv
<1> QED
  BY <1>1, <1>2, PTL DEF Spec

-----------------------------------------------------------------------------
(* Theorems *)

\* TypeOK: no buffer outgrows its capacity, an order list names each pending key
\* once, and the slots in use are those of the connections.
THEOREM TypeCorrect == Spec => []TypeOK
<1>1. ASSUME IInv PROVE TypeOK
  <2>1. /\ Types /\ Slots /\ \A c \in Conns : ConnInv(c)
    BY <1>1 DEF IInv
  <2>2. ASSUME NEW c \in Conns
        PROVE  /\ sub[c].filter \in Filters
               /\ Size(sub[c]) <= MaxBuf /\ Len(writer[c].out) <= MaxBuf
               /\ sub[c].queue \in Seq(Frames) /\ writer[c].out \in Seq(Frames)
               /\ ToSet(sub[c].order) = Pending(sub[c]) /\ IsInjective(sub[c].order)
               /\ reader[c] \in {"none", "up", "closing", "leaving"}
               /\ writer[c].pc \in {"none", "wait", "drain", "write"}
    <3>1. sub[c].filter \in Filters
      BY <2>1, BufferTypes DEF Subs
    <3>2. Size(sub[c]) <= MaxBuf
      BY <2>1, SizeCounts DEF ConnInv, Buffered
    <3>3. sub[c].queue \in Seq(Frames)
      <4>1. EventFrames \subseteq Frames /\ sub[c].queue \in Seq(EventFrames)
        BY <2>1, KeyFrames, BufferTypes
      <4>2. \A S, T : S \subseteq T => Seq(S) \subseteq Seq(T)
        BY SeqMonotonic
      <4> QED
        BY <4>1, <4>2
    <3>4. writer[c].out \in Seq(Frames)
      BY <2>1, FrameTypes
    <3>5. writer[c].pc \in {"none", "wait", "drain", "write"}
      BY <2>1, FrameTypes DEF Writers
    <3>6. reader[c] \in {"none", "up", "closing", "leaving"}
      BY <2>1 DEF Types
    <3> QED
      BY <2>1, <3>1, <3>2, <3>3, <3>4, <3>5, <3>6 DEF ConnInv, Buffered
  <2>3. turn.left \subseteq Conns /\ seq \in 0 .. MaxMsgs
    BY <2>1 DEF Types, Turns
  <2> QED
    BY <2>1, <2>2, <2>3 DEF TypeOK, Slots
<1> QED
  BY <1>1, Invariant, PTL

\* IndexExact: the broker's index names a connection exactly under the channels
\* of its filter, and none that has been unregistered.
THEOREM IndexIsExact == Spec => []IndexExact
<1>1. ASSUME IInv PROVE IndexExact
  BY <1>1 DEF IInv, ConnInv, Found, IndexExact
<1> QED
  BY <1>1, Invariant, PTL

\* WakeupKept: a writer that waits while its buffer holds must-deliver frames,
\* or after its eviction, has a wakeup on its way.
THEOREM NoWakeupLost == Spec => []WakeupKept
<1>1. ASSUME IInv PROVE WakeupKept
  BY <1>1 DEF IInv, ConnInv, Woken, WakeupKept
<1> QED
  BY <1>1, Invariant, PTL

\* NewestTickKept: coalescing never drops the newest tick of a key, and a client
\* is sent the ticks of a key in their order and each once.
THEOREM NewestTicks == Spec => []NewestTickKept
<1>1. ASSUME IInv, NEW c \in Conns, NEW k \in Keys,
             Live(c), ticks[c][k] # 0, c \notin turn.left \cup turn.evict
      PROVE  LET f == [n |-> ticks[c][k], key |-> k] IN
             \/ sub[c].pending[k] = f.n
             \/ f \in ToSet(writer[c].out) \cup ToSet(gotTicks[c])
  <2> DEFINE f == [n |-> ticks[c][k], key |-> k]
  <2>1. ~Awaits(c)
    BY <1>1 DEF Awaits
  <2>2. \/ sub[c].pending[k] = ticks[c][k]
        \/ \E i \in DOMAIN writer[c].out : writer[c].out[i] = f
        \/ \E i \in DOMAIN gotTicks[c] : gotTicks[c][i] = f
    BY <1>1, <2>1 DEF IInv, ConnInv, Newest
  <2>3. f.n = ticks[c][k]
    OBVIOUS
  <2> HIDE DEF f
  <2> QED
    BY <2>2, <2>3 DEF ToSet, f
<1>2. ASSUME IInv, NEW c \in Conns
      PROVE  \A i, j \in DOMAIN gotTicks[c] :
               i < j /\ gotTicks[c][i].key = gotTicks[c][j].key =>
                 gotTicks[c][i].n < gotTicks[c][j].n
  BY <1>2 DEF IInv, ConnInv, Ascending
<1>3. IInv => NewestTickKept
  BY <1>1, <1>2 DEF NewestTickKept
<1> QED
  BY <1>3, Invariant, PTL

-----------------------------------------------------------------------------
(* The refinement of Feed *)

\* A step that changes neither what is due or sent nor who is live is one that
\* Feed does not see.
LEMMA Unseen ==
  ASSUME due' = due, got' = got, \A d \in Conns : Live(d)' <=> Live(d)
  PROVE  UNCHANGED Promise!vars
  BY DEF Promise!vars

\* A connection that stops being live ends.
LEMMA Ends ==
  ASSUME NEW c \in Conns, due' = due, got' = got, ~Live(c)',
         \A d \in Conns : d # c => (Live(d)' <=> Live(d))
  PROVE  Promise!End(c)
  BY DEF Promise!End

\* A frame dispatched is offered to all who want it.
LEMMA DispatchOffers ==
  ASSUME IInv, NEW m \in Msgs, Dispatch(m)
  PROVE  [Promise!Next]_(Promise!vars)
<1> DEFINE frame == [n |-> seq + 1, key |-> m.key]
<1>1. /\ turn'.frame = frame /\ frame \in Frames
      /\ UNCHANGED <<index, wildcard, sub, reader, writer, total, got, gotTicks>>
      /\ m.key # "" => due' = due
  BY Dispatched DEF IInv
<1>2. \A d \in Conns : Live(d)' <=> Live(d)
  BY <1>1 DEF Live
<1>3. CASE m.key # ""
  BY <1>1, <1>2, <1>3, Unseen
<1>4. CASE m.key = ""
  <2>1. due' = [c \in Conns |-> IF c \in Wanted(m) THEN Append(due[c], frame) ELSE due[c]]
    BY <1>1, <1>4 DEF Dispatch
  <2>2. Wanted(m) \in SUBSET Conns /\ \A c \in Wanted(m) : Live(c)
    BY DEF Wanted
  <2> HIDE DEF frame
  <2>3. Promise!Offer(Wanted(m), frame)
    BY <1>1, <1>2, <2>1, <2>2 DEF Promise!Offer
  <2> QED
    BY <1>1, <2>2, <2>3 DEF Promise!Next
<1> QED
  BY <1>3, <1>4

\* A frame written is the next one due.
LEMMA WriteShows ==
  ASSUME IInv, NEW c \in Conns, Write(c), writer[c].out # <<>>
  PROVE  [Promise!Next]_(Promise!vars)
<1> DEFINE f == writer[c].out[1]
<1>1. Types /\ ConnInv(c)
  BY DEF IInv
<1>2. /\ writer[c].pc = "write" /\ writer'[c].pc = "write" /\ due' = due
      /\ sub' = sub /\ reader' = reader
  BY <1>1, Written
<1>3. \A d \in Conns : d # c => writer'[d] = writer[d]
  BY <1>1 DEF Write, Types
<1>4. \A d \in Conns : Live(d)' <=> Live(d)
  BY <1>2, <1>3 DEF Live
<1>5. Head(writer[c].out) = f /\ 1 \in DOMAIN writer[c].out
  BY <1>1, Beheaded, FrameTypes
<1>6. CASE f.key # ""
  <2>1. got' = got
    BY <1>5, <1>6 DEF Write
  <2> QED
    BY <1>2, <1>4, <2>1, Unseen
<1>7. CASE f.key = ""
  <2>1. got' = [got EXCEPT ![c] = Append(@, f)]
    BY <1>5, <1>7 DEF Write
  <2>2. PICK m \in 0 .. Len(writer[c].out) : Lined(c, m)
    BY <1>1, <1>2 DEF ConnInv, Owed
  <2>3. 1 <= m
    BY <1>5, <1>7, <2>2 DEF Lined
  <2>4. m \in Nat /\ Len(got[c]) \in Nat /\ Len(sub[c].queue) \in Nat
        /\ Len(due[c]) \in Nat
    <3>1. \A n : \A x \in 0 .. n : x \in Nat
      OBVIOUS
    <3> QED
      BY <1>1, <3>1, DueTypes, BufferTypes
  <2>5. f = due[c][Len(got[c]) + 1]
    <3>1. 1 \in 1 .. m
      BY <2>3, <2>4
    <3> QED
      BY <2>2, <3>1 DEF Lined
  <2>6. Len(got[c]) < Len(due[c])
    <3>1. Len(due[c]) >= Len(got[c]) + m + Len(sub[c].queue)
      BY <2>2 DEF Lined
    <3>2. \A a, x, q, d \in Nat : 1 <= x /\ d >= a + x + q => a < d
      OBVIOUS
    <3> QED
      BY <2>3, <2>4, <3>1, <3>2
  <2>7. Promise!Show(c)
    BY <1>2, <1>4, <2>1, <2>5, <2>6 DEF Promise!Show
  <2> QED
    BY <2>7 DEF Promise!Next
<1> QED
  BY <1>6, <1>7

\* Every other step of a connection opens it, ends it, or is not seen.
LEMMA OtherShows ==
  ASSUME IInv, NEW c \in Conns, ConnStep(c), ~(Write(c) /\ writer[c].out # <<>>)
  PROVE  [Promise!Next]_(Promise!vars)
<1>1. Types /\ ConnInv(c) /\ sub[c] \in Subs
  BY BufferTypes DEF IInv
<1>2. \A d \in Conns : d # c => (Live(d)' <=> Live(d))
  <2>1. ASSUME NEW d \in Conns, d # c PROVE Live(d)' <=> Live(d)
    <3>1. Apart(d)
      BY <1>1, <2>1, OthersApart
    <3> QED
      BY <3>1 DEF Apart, Live
  <2> QED
    BY <2>1
<1>3. CASE Connect(c)
  <2>1. /\ reader[c] = "none" /\ reader'[c] = "up" /\ ~sub'[c].evicted
        /\ writer'[c].pc = "wait"
        /\ due' = [due EXCEPT ![c] = <<>>] /\ got' = [got EXCEPT ![c] = <<>>]
    BY <1>3 DEF Connect, Subscription, Types, IInv, Writers
  <2>2. ~Live(c) /\ Live(c)'
    BY <2>1 DEF Live
  <2>3. Promise!Open(c)
    BY <1>2, <2>1, <2>2 DEF Promise!Open
  <2> QED
    BY <2>3 DEF Promise!Next
<1>4. CASE ReadFails(c) \/ Unregister(c) \/ Release(c)
  <2>1. due' = due /\ got' = got /\ reader'[c] \in {"closing", "leaving", "none"}
    BY <1>1, <1>4 DEF ReadFails, Unregister, Release, history, view, Types
  <2>2. Promise!End(c)
    BY <1>2, <2>1, Ends DEF Live
  <2> QED
    BY <2>2 DEF Promise!Next
<1>5. CASE \E chans \in SUBSET Channels, pools \in SUBSET Pools, add \in BOOLEAN :
             Resubscribe(c, chans, pools, add)
  <2>1. PICK f \in Filters : Relisted(c, f)
    BY <1>1, <1>5, ResubscribeLists
  <2>2. /\ sub'[c] = [sub[c] EXCEPT !.filter = f]
        /\ UNCHANGED <<reader, writer, due, got>>
    BY <1>1, <2>1 DEF Relisted, history, view, Types
  <2>3. Live(c)' <=> Live(c)
    BY <1>1, <2>2 DEF Live, Subs
  <2> QED
    BY <1>2, <2>2, <2>3, Unseen
<1>6. CASE Deliver(c)
  <2>1. UNCHANGED <<reader, writer, due, got>>
    BY <1>6 DEF Deliver, DeliverDeaf, DeliverTick, DeliverEvent, Overflow,
                Delivering, Notify, Evict, history, view
  <2>2. CASE Evict(c)
    <3>1. sub'[c].evicted
      BY <1>1, <2>2 DEF Evict, Types, Subs
    <3>2. Promise!End(c)
      BY <1>2, <2>1, <3>1, Ends DEF Live
    <3> QED
      BY <3>2 DEF Promise!Next
  <2>3. CASE ~Evict(c)
    <3>1. sub'[c].evicted = sub[c].evicted
      <4>1. CASE DeliverDeaf(c) \/ Overflow(c)
        BY <4>1 DEF DeliverDeaf, Overflow
      <4>2. CASE DeliverTick(c)
        BY <1>1, <4>2 DEF DeliverTick, Types, Subs
      <4>3. CASE DeliverEvent(c)
        BY <1>1, <4>3 DEF DeliverEvent, Types, Subs
      <4>4. CASE Notify(c)
        BY <1>1, <4>4 DEF Notify, Types, Subs
      <4> QED
        BY <1>6, <2>3, <4>1, <4>2, <4>3, <4>4 DEF Deliver
    <3>2. Live(c)' <=> Live(c)
      BY <2>1, <3>1 DEF Live
    <3> QED
      BY <1>2, <2>1, <3>2, Unseen
  <2> QED
    BY <2>2, <2>3
<1>7. CASE Wake(c) \/ Drain(c) \/ Write(c)
  <2>1. /\ UNCHANGED <<reader, due, got>> /\ sub'[c].evicted = sub[c].evicted
        /\ writer[c].pc # "none" /\ writer'[c].pc # "none"
    <3>1. CASE Wake(c)
      BY <1>1, <3>1 DEF Wake, WriterStep, view, Types, Subs, Writers
    <3>2. CASE Drain(c)
      BY <1>1, <3>2 DEF Drain, WriterStep, view, Types, Subs, Writers
    <3>3. CASE Write(c)
      <4>1. writer[c].out = <<>>
        BY <3>3
      <4> QED
        BY <1>1, <3>3, <4>1 DEF Write, WriterStep, view, Types, Subs, Writers
    <3> QED
      BY <1>7, <3>1, <3>2, <3>3
  <2>2. Live(c)' <=> Live(c)
    BY <2>1 DEF Live
  <2> QED
    BY <1>2, <2>1, <2>2, Unseen
<1>8. CASE DrainEvicted(c) \/ Cancelled(c) \/ WriteFails(c)
  <2>1. due' = due /\ got' = got /\ writer'[c].pc = "none"
    BY <1>1, <1>8 DEF DrainEvicted, Cancelled, WriteFails, WriterEnds, WriterStep,
                      view, Types, Writers
  <2>2. Promise!End(c)
    BY <1>2, <2>1, Ends DEF Live
  <2> QED
    BY <2>2 DEF Promise!Next
<1> QED
  BY <1>3, <1>4, <1>5, <1>6, <1>7, <1>8 DEF ConnStep, Pump

\* The fan-out implements the promise of Feed, its fairness aside: the clients
\* see a prefix of what is due to them, in order, each frame once.
THEOREM FeedImplemented == Spec => Promise!Init /\ [][Promise!Next]_(Promise!vars)
<1>1. Init => Promise!Init
  BY DEF Init, Promise!Init, Live
<1>2. IInv /\ [Next]_vars => [Promise!Next]_(Promise!vars)
  <2> SUFFICES ASSUME IInv, [Next]_vars PROVE [Promise!Next]_(Promise!vars)
    OBVIOUS
  <2>1. CASE UNCHANGED vars
    <3>1. due' = due /\ got' = got /\ \A d \in Conns : Live(d)' <=> Live(d)
      BY <2>1 DEF vars, Live
    <3> QED
      BY <3>1, Unseen
  <2> QED
    BY <2>1, StepCases, DispatchOffers, WriteShows, OtherShows
<1> QED
  BY <1>1, <1>2, Invariant, PTL DEF Spec
=============================================================================
