------------------------------ MODULE ChatHub ------------------------------
(***************************************************************************)
(* The realtime hub of media/social (internal/fanout): chat rooms and      *)
(* direct messages.  Each client has a reader goroutine that runs its      *)
(* handlers one after the other and a writer that drains a bounded queue;  *)
(* the hub counts the local subscribers of each Redis channel under h.mu,  *)
(* but talks to Redis after it has released it; one goroutine fans out     *)
(* what Redis sends back.  Other instances show up as posts from elsewhere.*)
(***************************************************************************)
EXTENDS Integers, Sequences, FiniteSets, SequencesExt

CONSTANTS
  Conns,     \* the clients of this instance
  Rooms,     \* pools, each with a chat room: Redis channel pool:<room>
  Wallets,   \* wallets: Redis channel dm:wallet:<wallet>
  Actor,     \* the wallet each client acts for
  MaxSend,   \* capacity of a client's queue
  MaxPosts,  \* bound: messages posted
  MaxConns   \* bound: connections opened

Chans == Rooms \cup Wallets

ASSUME HubAssumption ==
  /\ IsFiniteSet(Conns)
  /\ Rooms \cap Wallets = {} /\ "" \notin Chans /\ Actor \in [Conns -> Wallets]
  /\ MaxSend \in Nat \ {0} /\ MaxPosts \in Nat /\ MaxConns \in Nat

VARIABLES
  members,  \* poolRooms
  wallets,  \* walletConns
  refs,     \* poolChanRefs and dmChanRefs
  subs,     \* the channels the Redis subscriber is subscribed to
  conn,     \* each connection, with the Redis calls its handler still owes
  bus,      \* messages on their way from Redis to this instance
  turn,     \* the message being fanned out, and the clients it is still for
  posts,    \* messages stored so far
  opened    \* connections opened so far

registry == <<members, wallets, refs>>
vars == <<members, wallets, refs, subs, conn, bus, turn, posts, opened>>

Msgs == [ch : Chans, n : 1 .. MaxPosts]
Ack == [ch |-> "", n |-> 0]
Frames == Msgs \cup {Ack}

Do(what, ch) == [do |-> what, msg |-> [ch |-> ch, n |-> 0]]
Publish(m) == [do |-> "publish", msg |-> m]
SayAck == [do |-> "ack", msg |-> Ack]

\* due is a history: the room messages fanned out to the client, not sent yet.
NoConn == [state |-> "none", pools |-> {}, dm |-> FALSE, closed |-> TRUE,
           send |-> <<>>, todo |-> <<>>, due |-> <<>>]

\* A queue never outgrows its capacity.
TypeOK ==
  /\ members \in [Rooms -> SUBSET Conns] /\ wallets \in [Wallets -> SUBSET Conns]
  /\ refs \in [Chans -> 0 .. Cardinality(Conns)] /\ subs \subseteq Chans
  /\ \A c \in Conns :
       /\ conn[c].state \in {"none", "up", "leaving"}
       /\ conn[c].pools \subseteq Rooms /\ conn[c].dm \in BOOLEAN
       /\ conn[c].send \in Seq(Frames) /\ Len(conn[c].send) <= MaxSend
  /\ bus \in Seq(Msgs) /\ turn.left \subseteq Conns
  /\ posts \in 0 .. MaxPosts /\ opened \in 0 .. MaxConns

Idle == [msg |-> Ack, left |-> {}]

Init ==
  /\ members = [r \in Rooms |-> {}] /\ wallets = [w \in Wallets |-> {}]
  /\ refs = [ch \in Chans |-> 0] /\ subs = {}
  /\ conn = [c \in Conns |-> NoConn]
  /\ bus = <<>> /\ turn = Idle
  /\ posts = 0 /\ opened = 0

\* The reader is between two frames of its client.
Reading(c) == conn[c].state = "up" /\ conn[c].todo = <<>>

\* Once the socket is closed nothing that is queued can be sent.
Closed(k) == [k EXCEPT !.closed = TRUE, !.send = <<>>, !.due = <<>>]

\* Mutant of Enqueue: a full queue takes one more frame.
EnqueueOver(k, f) ==
  IF k.closed THEN k
  ELSE IF Len(k.send) <= MaxSend THEN [k EXCEPT !.send = Append(@, f)]
  ELSE Closed(k)

\* enqueue: a client whose queue is full is closed.
Enqueue(k, f) ==
  IF k.closed THEN k
  ELSE IF Len(k.send) < MaxSend THEN [k EXCEPT !.send = Append(@, f)]
  ELSE Closed(k)

-----------------------------------------------------------------------------
(* Handlers: the part under h.mu; todo holds what the goroutine does next *)

Connect(c) ==
  /\ conn[c].state = "none" /\ c \notin turn.left
  /\ opened < MaxConns /\ opened' = opened + 1
  /\ conn' = [conn EXCEPT ![c] = [NoConn EXCEPT !.state = "up", !.closed = FALSE]]
  /\ wallets' = [wallets EXCEPT ![Actor[c]] = @ \cup {c}]
  /\ UNCHANGED <<members, refs, subs, bus, turn, posts>>

HandlerStep == UNCHANGED <<wallets, subs, bus, turn, posts, opened>>

JoinRoom(c, r) ==
  /\ Reading(c)
  /\ IF c \in members[r]
     THEN /\ conn' = [conn EXCEPT ![c].todo = <<SayAck>>]
          /\ UNCHANGED <<members, refs>>
     ELSE /\ members' = [members EXCEPT ![r] = @ \cup {c}]
          /\ refs' = [refs EXCEPT ![r] = @ + 1]
          /\ conn' = [conn EXCEPT ![c].pools = @ \cup {r},
               ![c].todo = IF refs'[r] = 1 THEN <<Do("subscribe", r), SayAck>>
                           ELSE <<SayAck>>]
  /\ HandlerStep

\* Mutant of LeaveRoom: a client that is not in the room is counted out of it.
LeaveRoomUnchecked(c, r) ==
  /\ Reading(c)
  /\ IF refs[r] = 0
     THEN /\ conn' = [conn EXCEPT ![c].todo = <<SayAck>>]
          /\ UNCHANGED <<members, refs>>
     ELSE /\ members' = [members EXCEPT ![r] = @ \ {c}]
          /\ refs' = [refs EXCEPT ![r] = @ - 1]
          /\ conn' = [conn EXCEPT ![c].pools = @ \ {r},
               ![c].todo = IF refs'[r] = 0 THEN <<Do("unsubscribe", r), SayAck>>
                           ELSE <<SayAck>>]
  /\ HandlerStep

LeaveRoom(c, r) ==
  /\ Reading(c)
  /\ IF c \notin members[r]
     THEN /\ conn' = [conn EXCEPT ![c].todo = <<SayAck>>]
          /\ UNCHANGED <<members, refs>>
     ELSE /\ members' = [members EXCEPT ![r] = @ \ {c}]
          /\ refs' = [refs EXCEPT ![r] = @ - 1]
          /\ conn' = [conn EXCEPT ![c].pools = @ \ {r},
               ![c].todo = IF refs'[r] = 0 THEN <<Do("unsubscribe", r), SayAck>>
                           ELSE <<SayAck>>]
  /\ HandlerStep

SubscribeDMs(c) ==
  LET w == Actor[c] IN
  /\ Reading(c)
  /\ IF conn[c].dm
     THEN /\ conn' = [conn EXCEPT ![c].todo = <<SayAck>>] /\ UNCHANGED refs
     ELSE /\ refs' = [refs EXCEPT ![w] = @ + 1]
          /\ conn' = [conn EXCEPT ![c].dm = TRUE,
               ![c].todo = IF refs'[w] = 1 THEN <<Do("subscribe", w), SayAck>>
                           ELSE <<SayAck>>]
  /\ UNCHANGED members /\ HandlerStep

\* The row is inserted before anything is published; a message that is invalid,
\* rate limited, from a banned wallet or not stored is answered with an error.
Post(c, chans) ==
  /\ Reading(c) /\ posts < MaxPosts
  /\ posts' = posts + 1
  /\ conn' = [conn EXCEPT ![c].todo =
       [i \in DOMAIN chans |-> Publish([ch |-> chans[i], n |-> posts'])]]
  /\ UNCHANGED <<registry, subs, bus, turn, opened>>

PoolMessage(c, r) == Post(c, <<r>>)

\* The sender's channel first, then the recipient's.
DM(c, to) == to # Actor[c] /\ Post(c, <<Actor[c], to>>)

Refused(c) ==
  /\ Reading(c)
  /\ conn' = [conn EXCEPT ![c].todo = <<SayAck>>]
  /\ UNCHANGED registry /\ HandlerStep

\* The counts without connection c.
CountedOut(c) ==
  [ch \in Chans |->
    IF ch \in conn[c].pools \/ (conn[c].dm /\ ch = Actor[c]) THEN refs[ch] - 1
    ELSE refs[ch]]

Detach(c) ==
  /\ members' = [r \in Rooms |-> members[r] \ {c}]
  /\ wallets' = [wallets EXCEPT ![Actor[c]] = @ \ {c}]
  /\ refs' = CountedOut(c)
  /\ UNCHANGED <<subs, bus, turn, posts, opened>>

\* Mutant of RemoveConn: the rooms stay subscribed when their last member drops.
RemoveConnKeeps(c) ==
  /\ Reading(c) /\ Detach(c)
  /\ conn' = [conn EXCEPT ![c].state = "leaving"]

\* The socket fails or has been closed: removeConn.
RemoveConn(c) ==
  /\ Reading(c) /\ Detach(c)
  /\ \E order \in SetToSeqs({ch \in Chans : refs[ch] = 1 /\ CountedOut(c)[ch] = 0}) :
       /\ \A i \in DOMAIN order : order[i] \in Wallets => i = Len(order)
       /\ conn' = [conn EXCEPT ![c].state = "leaving",
            ![c].todo = [i \in DOMAIN order |-> Do("unsubscribe", order[i])]]

CloseConn(c) ==
  /\ conn[c].state = "leaving" /\ conn[c].todo = <<>>
  /\ conn' = [conn EXCEPT ![c] = NoConn]
  /\ UNCHANGED <<registry, subs, bus, turn, posts, opened>>

-----------------------------------------------------------------------------
(* After the lock: Redis and the acknowledgement *)

Owes(c, what) == conn[c].todo # <<>> /\ Head(conn[c].todo).do = what
OwedStep == UNCHANGED <<registry, turn, posts, opened>>
Paid(c) == conn' = [conn EXCEPT ![c].todo = Tail(@)]

RedisSubscribe(c) ==
  /\ Owes(c, "subscribe")
  /\ subs' = subs \cup {Head(conn[c].todo).msg.ch}
  /\ Paid(c) /\ UNCHANGED bus /\ OwedStep

RedisUnsubscribe(c) ==
  /\ Owes(c, "unsubscribe")
  /\ subs' = subs \ {Head(conn[c].todo).msg.ch}
  /\ Paid(c) /\ UNCHANGED bus /\ OwedStep

\* Redis sends a message to its current subscribers, in one order for all.
Carried(m) == bus' = IF m.ch \in subs THEN Append(bus, m) ELSE bus

RedisPublish(c) ==
  /\ Owes(c, "publish")
  /\ Carried(Head(conn[c].todo).msg) \/ UNCHANGED bus
  /\ Paid(c) /\ UNCHANGED subs /\ OwedStep

SendAck(c) ==
  /\ Owes(c, "ack")
  /\ conn' = [conn EXCEPT ![c] = [Enqueue(@, Ack) EXCEPT !.todo = Tail(conn[c].todo)]]
  /\ UNCHANGED <<subs, bus>> /\ OwedStep

\* What is posted elsewhere on other channels never gets here.
Elsewhere(ch) ==
  /\ ch \in subs
  /\ posts < MaxPosts /\ posts' = posts + 1
  /\ bus' = Append(bus, [ch |-> ch, n |-> posts'])
  /\ UNCHANGED <<registry, subs, conn, turn, opened>>

\* The subscriber's connection breaks: what was on it is lost, and the client
\* library resubscribes to the same channels.
LinkBreaks ==
  /\ bus # <<>> /\ bus' = <<>>
  /\ UNCHANGED <<registry, subs, conn, turn, posts, opened>>

-----------------------------------------------------------------------------
(* dispatch and writePump *)

Members(ch) == IF ch \in Rooms THEN members[ch] ELSE wallets[ch]

\* The clients are copied under the lock and served after it.
Dispatch ==
  /\ turn.left = {} /\ bus # <<>>
  /\ bus' = Tail(bus)
  /\ LET m == Head(bus) IN
       /\ turn' = IF Members(m.ch) = {} THEN Idle ELSE [msg |-> m, left |-> Members(m.ch)]
       /\ conn' = [c \in Conns |->
            IF m.ch \in Rooms /\ c \in Members(m.ch) /\ ~conn[c].closed
            THEN [conn[c] EXCEPT !.due = Append(@, m)] ELSE conn[c]]
  /\ UNCHANGED <<registry, subs, posts, opened>>

\* Mutant of Hand: a full queue loses its oldest frame, not its client.
HandDropsOldest(c) ==
  /\ c \in turn.left
  /\ turn' = [turn EXCEPT !.left = @ \ {c}]
  /\ conn' = IF conn[c].closed THEN conn
             ELSE IF Len(conn[c].send) < MaxSend
             THEN [conn EXCEPT ![c].send = Append(@, turn.msg)]
             ELSE [conn EXCEPT ![c].send = Append(Tail(@), turn.msg)]
  /\ UNCHANGED <<registry, subs, bus, posts, opened>>

Hand(c) ==
  /\ c \in turn.left
  /\ turn' = IF turn.left = {c} THEN Idle ELSE [turn EXCEPT !.left = @ \ {c}]
  /\ conn' = IF turn.msg.ch \in Rooms \/ conn[c].dm
             THEN [conn EXCEPT ![c] = Enqueue(@, turn.msg)] ELSE conn
  /\ UNCHANGED <<registry, subs, bus, posts, opened>>

RoomFrame(f) == f.ch \in Rooms

WriterStep == UNCHANGED <<registry, subs, bus, turn, posts, opened>>

Write(c) ==
  /\ ~conn[c].closed /\ conn[c].send # <<>>
  /\ conn' = [conn EXCEPT ![c].send = Tail(@),
       ![c].due = IF RoomFrame(Head(conn[c].send)) THEN Tail(@) ELSE @]
  /\ WriterStep

\* A write or a ping misses its deadline.
WriteFails(c) ==
  /\ ~conn[c].closed
  /\ conn' = [conn EXCEPT ![c] = Closed(@)]
  /\ WriterStep

-----------------------------------------------------------------------------
Handle(c) ==
  \/ SubscribeDMs(c) \/ Refused(c) \/ RemoveConn(c)
  \/ \E r \in Rooms : JoinRoom(c, r) \/ LeaveRoom(c, r) \/ PoolMessage(c, r)
  \/ \E to \in Wallets : DM(c, to)

Owed(c) == RedisSubscribe(c) \/ RedisUnsubscribe(c) \/ RedisPublish(c) \/ SendAck(c)

Next ==
  \/ \E c \in Conns :
       \/ Connect(c) \/ Handle(c) \/ Owed(c) \/ CloseConn(c)
       \/ Hand(c) \/ Write(c) \/ WriteFails(c)
  \/ \E ch \in Chans : Elsewhere(ch)
  \/ Dispatch \/ LinkBreaks

Spec == Init /\ [][Next]_vars

-----------------------------------------------------------------------------
(* Properties *)

\* The counts that decide when to subscribe are those of the clients that are
\* there: no client is counted twice, and one that has gone is in no room.
RefsExact ==
  /\ \A r \in Rooms :
       /\ members[r] = {c \in Conns : conn[c].state = "up" /\ r \in conn[c].pools}
       /\ refs[r] = Cardinality(members[r])
  /\ \A w \in Wallets :
       /\ wallets[w] = {c \in Conns : conn[c].state = "up" /\ Actor[c] = w}
       /\ refs[w] = Cardinality({c \in wallets[w] : conn[c].dm})

Owing(what, ch) ==
  \E c \in Conns : \E i \in DOMAIN conn[c].todo : conn[c].todo[i] = Do(what, ch)

\* No subscription outlives its last local subscriber: one with none left is
\* about to be given up by a goroutine that has the call still to make.
NothingLeaked ==
  \A ch \in subs : refs[ch] = 0 => Owing("unsubscribe", ch)

\* The room messages among the frames of s, in order.
RoomFrames(s) ==
  LET kept[i \in 0 .. Len(s)] ==
        IF i = 0 THEN <<>>
        ELSE IF RoomFrame(s[i]) THEN Append(kept[i - 1], s[i]) ELSE kept[i - 1]
  IN  kept[Len(s)]

\* While a client is connected, its queue holds the messages fanned out to its
\* rooms with none missing, doubled or out of order.
NoHoles ==
  \A c \in Conns : ~conn[c].closed =>
    RoomFrames(conn[c].send)
      \o (IF c \in turn.left /\ RoomFrame(turn.msg) THEN <<turn.msg>> ELSE <<>>)
    = conn[c].due

\* What the package comment says: a channel is subscribed as long as it has
\* local subscribers, once the calls under way have been made.
OccupiedSubscribed ==
  \A ch \in Chans :
    refs[ch] > 0 /\ ~Owing("subscribe", ch) /\ ~Owing("unsubscribe", ch) =>
      ch \in subs
=============================================================================
