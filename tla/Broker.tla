------------------------------- MODULE Broker -------------------------------
(***************************************************************************)
(* The realtime fan-out of core/api: the broker goroutine that dispatches  *)
(* what it receives from Redis to the subscriptions its index names        *)
(* (internal/broker), and the transport of each connection: a reader that  *)
(* changes the filter, a writer that drains the bounded buffer, and the    *)
(* hub's connection slots (internal/ws; internal/sse is the same pump with *)
(* a filter that never changes).                                           *)
(***************************************************************************)
EXTENDS Integers, Sequences, FiniteSets, SequencesExt, FiniteSetsExt

CONSTANTS
  Conns,     \* the clients
  Channels,  \* Redis channels
  Pools,     \* pools a frame can be about; "" stands for a global event
  Msgs,      \* what is published: [chan, pool, key], key "" if must-deliver
  MaxBuf,    \* capacity of a subscription's buffer
  MaxConns,  \* the hub's connection cap
  MaxMsgs    \* bound: messages dispatched

Keys == {m.key : m \in Msgs} \ {""}

ASSUME BrokerAssumption ==
  /\ Msgs \subseteq [chan : Channels, pool : Pools \cup {""}, key : STRING]
  /\ MaxBuf \in Nat \ {0} /\ MaxConns \in Nat \ {0} /\ MaxMsgs \in Nat

VARIABLES
  index,     \* broker.byChannel
  wildcard,  \* broker.wildcard
  turn,      \* the dispatch in progress, which holds b.mu for reading
  sub,       \* the Subscription of each connection
  reader,    \* where the goroutine that owns the connection is
  writer,    \* where writePump is, and the frames it has drained
  total,     \* connection slots in use
  seq,       \* messages dispatched so far
  due,       \* history: the must-deliver frames each filter matched
  ticks,     \* history: the last coalesced frame of each key it matched
  got,       \* history: the must-deliver frames each client has been sent
  gotTicks   \* history: the coalesced frames it has been sent

broker == <<index, wildcard>>
view == <<got, gotTicks>>
history == <<due, ticks, view>>
vars == <<index, wildcard, turn, sub, reader, writer, total, seq, due, ticks,
          got, gotTicks>>

Frames == [n : 1 .. MaxMsgs, key : Keys \cup {""}]
Filters == [all : BOOLEAN, chans : SUBSET Channels, pools : SUBSET Pools]
NoTicks == [k \in Keys |-> 0]

Subscription(f) ==
  [filter |-> f, closed |-> FALSE, evicted |-> FALSE, signal |-> FALSE,
   queue |-> <<>>, pending |-> NoTicks, order |-> <<>>]
Gone == [Subscription([all |-> FALSE, chans |-> {}, pools |-> {}])
         EXCEPT !.closed = TRUE]

Pending(s) == {k \in Keys : s.pending[k] # 0}
Size(s) == Len(s.queue) + Cardinality(Pending(s))

\* The buffer never outgrows its capacity, the order list names each pending
\* key once, and the slots in use are those of the connections.
TypeOK ==
  /\ \A c \in Conns :
       /\ sub[c].filter \in Filters
       /\ Size(sub[c]) <= MaxBuf /\ Len(writer[c].out) <= MaxBuf
       /\ sub[c].queue \in Seq(Frames) /\ writer[c].out \in Seq(Frames)
       /\ ToSet(sub[c].order) = Pending(sub[c]) /\ IsInjective(sub[c].order)
       /\ reader[c] \in {"none", "up", "closing", "leaving"}
       /\ writer[c].pc \in {"none", "wait", "drain", "write"}
  /\ turn.left \subseteq Conns /\ seq \in 0 .. MaxMsgs
  /\ total = Cardinality({c \in Conns : reader[c] # "none"}) /\ total <= MaxConns

Init ==
  /\ index = [ch \in Channels |-> {}] /\ wildcard = {}
  /\ turn = [frame |-> <<>>, left |-> {}, wake |-> {}, evict |-> {}]
  /\ sub = [c \in Conns |-> Gone]
  /\ reader = [c \in Conns |-> "none"]
  /\ writer = [c \in Conns |-> [pc |-> "none", out |-> <<>>]]
  /\ total = 0 /\ seq = 0
  /\ due = [c \in Conns |-> <<>>] /\ got = [c \in Conns |-> <<>>]
  /\ gotTicks = [c \in Conns |-> <<>>] /\ ticks = [c \in Conns |-> NoTicks]

WantsChannel(f, ch) == f.all \/ ch \in f.chans
WantsPool(f, p) == p = "" \/ f.pools = {} \/ p \in f.pools

\* b.mu is held for reading from the start of Dispatch to its end.
Unlocked == turn.left \cup turn.wake \cup turn.evict = {}

-----------------------------------------------------------------------------
(* The routing index *)

Indexed(ix, c, f) ==
  IF f.all THEN ix
  ELSE [ch \in Channels |-> IF ch \in f.chans THEN ix[ch] \cup {c} ELSE ix[ch]]
Deindexed(ix, c, f) ==
  [ch \in Channels |-> IF ch \in f.chans THEN ix[ch] \ {c} ELSE ix[ch]]
Wild(c, f) == IF f.all THEN {c} ELSE {}

-----------------------------------------------------------------------------
(* The connection's own goroutine *)

\* acquire, Upgrade, Subscribe.  A websocket starts with no channel or with the
\* candle channel, an event stream with what its query asks for.
Connect(c) ==
  /\ reader[c] = "none" /\ writer[c].pc = "none"
  /\ total < MaxConns /\ total' = total + 1
  /\ Unlocked
  /\ \E f \in Filters :
       /\ f.all => f.chans = {}
       /\ sub' = [sub EXCEPT ![c] = Subscription(f)]
       /\ index' = Indexed(index, c, f) /\ wildcard' = wildcard \cup Wild(c, f)
  /\ reader' = [reader EXCEPT ![c] = "up"]
  /\ writer' = [writer EXCEPT ![c].pc = "wait"]
  /\ due' = [due EXCEPT ![c] = <<>>] /\ got' = [got EXCEPT ![c] = <<>>]
  /\ gotTicks' = [gotTicks EXCEPT ![c] = <<>>]
  /\ ticks' = [ticks EXCEPT ![c] = NoTicks]
  /\ UNCHANGED <<turn, seq>>

\* Mutant of Resubscribe: the old filter's channels stay in the index.
ResubscribeAdds(c, chans, pools, add) ==
  LET old == sub[c].filter
      f == IF add THEN [old EXCEPT !.chans = @ \cup chans, !.pools = @ \cup pools]
           ELSE [old EXCEPT !.chans = @ \ chans, !.pools = @ \ pools]
  IN
  /\ reader[c] = "up" /\ ~old.all /\ Unlocked
  /\ sub' = [sub EXCEPT ![c].filter = f]
  /\ index' = Indexed(index, c, f)
  /\ UNCHANGED <<wildcard, turn, reader, writer, total, seq, history>>

\* applySubscribe and Resubscribe.
Resubscribe(c, chans, pools, add) ==
  LET old == sub[c].filter
      f == IF add THEN [old EXCEPT !.chans = @ \cup chans, !.pools = @ \cup pools]
           ELSE [old EXCEPT !.chans = @ \ chans, !.pools = @ \ pools]
  IN
  /\ reader[c] = "up" /\ ~old.all /\ Unlocked
  /\ sub' = [sub EXCEPT ![c].filter = f]
  /\ index' = Indexed(Deindexed(index, c, old), c, f)
  /\ UNCHANGED <<wildcard, turn, reader, writer, total, seq, history>>

\* The socket fails, because the client has gone or the writer has closed it:
\* the context is cancelled and the subscription marked closed.
ReadFails(c) ==
  /\ reader[c] = "up"
  /\ reader' = [reader EXCEPT ![c] = "closing"]
  /\ sub' = [sub EXCEPT ![c].closed = TRUE]
  /\ UNCHANGED <<broker, turn, writer, total, seq, history>>

Unregister(c) ==
  /\ reader[c] = "closing" /\ Unlocked
  /\ index' = Deindexed(index, c, sub[c].filter) /\ wildcard' = wildcard \ {c}
  /\ reader' = [reader EXCEPT ![c] = "leaving"]
  /\ UNCHANGED <<turn, sub, writer, total, seq, history>>

Release(c) ==
  /\ reader[c] = "leaving"
  /\ total' = total - 1
  /\ reader' = [reader EXCEPT ![c] = "none"]
  /\ UNCHANGED <<broker, turn, sub, writer, seq, history>>

-----------------------------------------------------------------------------
(* Dispatch and deliver *)

Routed(m) ==
  {c \in index[m.chan] : WantsPool(sub[c].filter, m.pool)} \cup
  {c \in wildcard : /\ WantsChannel(sub[c].filter, m.chan)
                    /\ WantsPool(sub[c].filter, m.pool)}

Live(c) == reader[c] = "up" /\ ~sub[c].evicted /\ writer[c].pc # "none"
Wanted(m) ==
  {c \in Conns : /\ Live(c) /\ WantsChannel(sub[c].filter, m.chan)
                 /\ WantsPool(sub[c].filter, m.pool)}

Dispatch(m) ==
  /\ Unlocked /\ seq < MaxMsgs
  /\ seq' = seq + 1
  /\ turn' = [turn EXCEPT !.frame = [n |-> seq', key |-> m.key], !.left = Routed(m)]
  /\ IF m.key = ""
     THEN /\ due' = [c \in Conns |-> IF c \in Wanted(m)
                                     THEN Append(due[c], turn'.frame) ELSE due[c]]
          /\ UNCHANGED ticks
     ELSE /\ ticks' = [c \in Conns |-> IF c \in Wanted(m)
                                       THEN [ticks[c] EXCEPT ![m.key] = seq']
                                       ELSE ticks[c]]
          /\ UNCHANGED due
  /\ UNCHANGED <<broker, sub, reader, writer, total, view>>

Deaf(c) == sub[c].closed \/ sub[c].evicted
Delivering(c) ==
  /\ c \in turn.left
  /\ UNCHANGED <<broker, reader, writer, total, seq, history>>

DeliverDeaf(c) ==
  /\ Delivering(c) /\ Deaf(c)
  /\ turn' = [turn EXCEPT !.left = @ \ {c}]
  /\ UNCHANGED sub

\* Mutant of DeliverTick: the first value of a key stays until the flush.
DeliverTickFirst(c) ==
  LET k == turn.frame.key
      new == sub[c].pending[k] = 0
  IN
  /\ Delivering(c) /\ ~Deaf(c) /\ k # ""
  /\ new => Size(sub[c]) < MaxBuf
  /\ sub' = IF new THEN [sub EXCEPT ![c].pending[k] = turn.frame.n,
                                    ![c].order = Append(@, k)]
            ELSE sub
  /\ turn' = [turn EXCEPT !.left = @ \ {c}]

\* A coalesced frame replaces the one of its key and wakes nobody.
DeliverTick(c) ==
  LET k == turn.frame.key
      new == sub[c].pending[k] = 0
  IN
  /\ Delivering(c) /\ ~Deaf(c) /\ k # ""
  /\ new => Size(sub[c]) < MaxBuf
  /\ sub' = [sub EXCEPT ![c].pending[k] = turn.frame.n,
                        ![c].order = IF new THEN Append(@, k) ELSE @]
  /\ turn' = [turn EXCEPT !.left = @ \ {c}]

\* Mutant of DeliverEvent: the writer is not woken.
DeliverEventQuiet(c) ==
  /\ Delivering(c) /\ ~Deaf(c) /\ turn.frame.key = ""
  /\ Size(sub[c]) < MaxBuf
  /\ sub' = [sub EXCEPT ![c].queue = Append(@, turn.frame)]
  /\ turn' = [turn EXCEPT !.left = @ \ {c}]

\* The writer is woken after s.mu is released.
DeliverEvent(c) ==
  /\ Delivering(c) /\ ~Deaf(c) /\ turn.frame.key = ""
  /\ Size(sub[c]) < MaxBuf
  /\ sub' = [sub EXCEPT ![c].queue = Append(@, turn.frame)]
  /\ turn' = [turn EXCEPT !.left = @ \ {c}, !.wake = @ \cup {c}]

\* Mutant of Overflow: the frame is dropped and the client kept.
OverflowDrops(c) ==
  LET k == turn.frame.key IN
  /\ Delivering(c) /\ ~Deaf(c)
  /\ Size(sub[c]) >= MaxBuf /\ (k # "" => sub[c].pending[k] = 0)
  /\ turn' = [turn EXCEPT !.left = @ \ {c}]
  /\ UNCHANGED sub

\* No room: the client is to be evicted, after s.mu is released.
Overflow(c) ==
  LET k == turn.frame.key IN
  /\ Delivering(c) /\ ~Deaf(c)
  /\ Size(sub[c]) >= MaxBuf /\ (k # "" => sub[c].pending[k] = 0)
  /\ turn' = [turn EXCEPT !.left = @ \ {c}, !.evict = @ \cup {c}]
  /\ UNCHANGED sub

Notify(c) ==
  /\ c \in turn.wake
  /\ turn' = [turn EXCEPT !.wake = @ \ {c}]
  /\ sub' = [sub EXCEPT ![c].signal = TRUE]
  /\ UNCHANGED <<broker, reader, writer, total, seq, history>>

Evict(c) ==
  /\ c \in turn.evict
  /\ turn' = [turn EXCEPT !.evict = @ \ {c}]
  /\ sub' = [sub EXCEPT ![c].evicted = TRUE, ![c].signal = TRUE]
  /\ UNCHANGED <<broker, reader, writer, total, seq, history>>

\* One subscription at a time, up to its notify or evict.
Deliver(c) ==
  \/ /\ turn.wake \cup turn.evict = {}
     /\ DeliverDeaf(c) \/ DeliverTick(c) \/ DeliverEvent(c) \/ Overflow(c)
  \/ Notify(c) \/ Evict(c)

-----------------------------------------------------------------------------
(* writePump *)

WriterStep(c) == UNCHANGED <<broker, turn, reader, total, seq, due, ticks>>

WriterEnds(c) ==
  /\ writer' = [writer EXCEPT ![c].pc = "none"]
  /\ WriterStep(c)

\* The signal channel, which holds one token, or the flush ticker.
Wake(c) ==
  /\ writer[c].pc = "wait"
  /\ writer' = [writer EXCEPT ![c].pc = "drain"]
  /\ \/ sub[c].signal /\ sub' = [sub EXCEPT ![c].signal = FALSE]
     \/ UNCHANGED sub
  /\ UNCHANGED view /\ WriterStep(c)

Cancelled(c) ==
  /\ writer[c].pc = "wait" /\ reader[c] # "up"
  /\ UNCHANGED <<sub, view>> /\ WriterEnds(c)

\* The error frame is the last thing an evicted client is sent.
DrainEvicted(c) ==
  /\ writer[c].pc = "drain" /\ sub[c].evicted
  /\ UNCHANGED <<sub, view>> /\ WriterEnds(c)

TickFrames(s) ==
  [i \in DOMAIN s.order |-> [n |-> s.pending[s.order[i]], key |-> s.order[i]]]

\* Mutant of Drain: the order list is not cut.
DrainKeepsOrder(c) ==
  /\ writer[c].pc = "drain" /\ ~sub[c].evicted
  /\ writer' = [writer EXCEPT ![c] =
       [pc |-> "write", out |-> sub[c].queue \o TickFrames(sub[c])]]
  /\ sub' = [sub EXCEPT ![c].queue = <<>>, ![c].pending = NoTicks]
  /\ UNCHANGED view /\ WriterStep(c)

Drain(c) ==
  /\ writer[c].pc = "drain" /\ ~sub[c].evicted
  /\ writer' = [writer EXCEPT ![c] =
       [pc |-> "write", out |-> sub[c].queue \o TickFrames(sub[c])]]
  /\ sub' = [sub EXCEPT ![c].queue = <<>>, ![c].pending = NoTicks, ![c].order = <<>>]
  /\ UNCHANGED view /\ WriterStep(c)

Write(c) ==
  /\ writer[c].pc = "write"
  /\ IF writer[c].out = <<>>
     THEN /\ writer' = [writer EXCEPT ![c].pc = "wait"] /\ UNCHANGED view
     ELSE LET f == Head(writer[c].out) IN
          /\ writer' = [writer EXCEPT ![c].out = Tail(@)]
          /\ IF f.key = ""
             THEN got' = [got EXCEPT ![c] = Append(@, f)] /\ UNCHANGED gotTicks
             ELSE gotTicks' = [gotTicks EXCEPT ![c] = Append(@, f)] /\ UNCHANGED got
  /\ UNCHANGED sub /\ WriterStep(c)

\* The deadline of a write passes, or the socket is gone.
WriteFails(c) ==
  /\ writer[c].pc = "write" /\ writer[c].out # <<>>
  /\ writer' = [writer EXCEPT ![c] = [pc |-> "none", out |-> <<>>]]
  /\ UNCHANGED <<sub, view>> /\ WriterStep(c)

Pump(c) == Wake(c) \/ DrainEvicted(c) \/ Drain(c) \/ Write(c)

-----------------------------------------------------------------------------
Next ==
  \/ \E m \in Msgs : Dispatch(m)
  \/ \E c \in Conns :
       \/ Connect(c) \/ ReadFails(c) \/ Unregister(c) \/ Release(c)
       \/ \E chans \in SUBSET Channels, pools \in SUBSET Pools, add \in BOOLEAN :
            Resubscribe(c, chans, pools, add)
       \/ Deliver(c) \/ Pump(c) \/ Cancelled(c) \/ WriteFails(c)

Spec == Init /\ [][Next]_vars

\* Goroutines run, and a reader notices that its socket has been closed.
FairSpec ==
  /\ Spec
  /\ \A c \in Conns :
       /\ WF_vars(Deliver(c)) /\ WF_vars(Pump(c)) /\ WF_vars(Cancelled(c))
       /\ WF_vars(writer[c].pc = "none" /\ ReadFails(c))
       /\ WF_vars(Unregister(c)) /\ WF_vars(Release(c))

-----------------------------------------------------------------------------
(* Properties *)

\* Between dispatches the index names exactly the connections whose filter
\* names the channel: no frame is routed by a filter that has been replaced,
\* and a closed connection leaves nothing behind.
IndexExact ==
  \A c \in Conns :
    LET there == reader[c] \in {"up", "closing"} IN
    /\ \A ch \in Channels :
         c \in index[ch] <=> there /\ ~sub[c].filter.all /\ ch \in sub[c].filter.chans
    /\ c \in wildcard <=> there /\ sub[c].filter.all

\* No wakeup is lost: a live client with must-deliver frames in its buffer, or
\* one to be evicted, has a writer that is awake or a signal to wake it.  Only
\* ticks wait for the flush ticker.
WakeupKept ==
  \A c \in Conns :
    writer[c].pc = "wait" /\ c \notin turn.wake
      /\ (sub[c].queue # <<>> \/ sub[c].evicted) => sub[c].signal

\* The last tick of a key that a live client's filter matched is on its way or
\* has been sent, so coalescing drops only older ones; and a client never sees
\* the ticks of a key go back, nor one of them twice.
NewestTickKept ==
  \A c \in Conns :
    /\ \A k \in Keys :
         Live(c) /\ ticks[c][k] # 0 /\ c \notin turn.left \cup turn.evict =>
           LET f == [n |-> ticks[c][k], key |-> k] IN
           \/ sub[c].pending[k] = f.n
           \/ f \in ToSet(writer[c].out) \cup ToSet(gotTicks[c])
    /\ \A i, j \in DOMAIN gotTicks[c] :
         i < j /\ gotTicks[c][i].key = gotTicks[c][j].key =>
           gotTicks[c][i].n < gotTicks[c][j].n

\* The fan-out implements the promise of module Feed, whose view of a client
\* is the must-deliver frames it was sent.
Promise == INSTANCE Feed WITH
  stream <- due,
  ended <- [c \in Conns |-> ~Live(c)]
FeedSpec == Promise!Spec
=============================================================================
