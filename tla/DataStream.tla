---------------------------- MODULE DataStream ----------------------------
(***************************************************************************)
(* The multiplexed data stream of the web client (core/realtime/           *)
(* data-stream.ts) over the connection manager, together with the filter   *)
(* the server keeps for each connection (api/internal/ws/ws.go).           *)
(*                                                                         *)
(* Components mount and unmount; the client sends the server the changes   *)
(* of the union of what they want, and the server adds them up.            *)
(***************************************************************************)
EXTENDS WsManager, Sequences

CONSTANTS
  Consumers,  \* the components that may subscribe
  Wants,      \* what each asks for: [channels, pools], no pools for all pools
  MaxFrames   \* bound: frames on their way when the client makes a call

ASSUME StreamAssumption ==
  /\ \A c \in Consumers : Wants[c].channels # {}
  /\ MaxFrames \in Nat

VARIABLES
  consumers,  \* the mounted ones
  applied,    \* appliedChannels, appliedAllPools and appliedPools
  sent,       \* per socket: the frames the server has not handled yet
  filter      \* per socket: the connection's channels and pools at the server

vars == <<wsVars, consumers, applied, sent, filter>>

NoFilter == [channels |-> {}, pools |-> {}]
Nothing == [channels |-> {}, all |-> FALSE, pools |-> {}]
AllChannels == UNION {Wants[c].channels : c \in Consumers}
AllPools == UNION {Wants[c].pools : c \in Consumers}
Filters == [channels : SUBSET AllChannels, pools : SUBSET AllPools]
Frames == [type : {"subscribe", "unsubscribe"}, channels : SUBSET AllChannels,
           pools : SUBSET AllPools]

TypeOK ==
  /\ WsTypeOK
  /\ consumers \subseteq Consumers
  /\ applied \in [channels : SUBSET AllChannels, all : BOOLEAN,
                  pools : SUBSET AllPools]
  /\ \A s \in Sockets : sent[s] \in Seq(Frames)
  /\ filter \in [Sockets -> Filters]

Init ==
  /\ WsInit
  /\ consumers = {}
  /\ applied = Nothing
  /\ sent = [s \in Sockets |-> <<>>]
  /\ filter = [s \in Sockets |-> NoFilter]

(***************************************************************************)
(* The union of the interests and its changes                              *)
(***************************************************************************)
\* Mutant of computeUnion: the pools of the others narrow who wants them all.
computeUnionNarrow(cs) ==
  [channels |-> UNION {Wants[c].channels : c \in cs},
   all      |-> FALSE,
   pools    |-> UNION {Wants[c].pools : c \in cs}]

computeUnion(cs) ==
  LET all == \E c \in cs : Wants[c].pools = {}
  IN [channels |-> UNION {Wants[c].channels : c \in cs},
      all      |-> all,
      pools    |-> IF all THEN {} ELSE UNION {Wants[c].pools : c \in cs}]

Frame(type, chs, ps) == [type |-> type, channels |-> chs, pools |-> ps]

\* A frame that would change nothing is not sent.
IfAny(type, chs, ps) ==
  IF chs \cup ps = {} THEN <<>> ELSE <<Frame(type, chs, ps)>>

\* The incremental half of syncSubscription.
Deltas(have, want) ==
  LET addPools    == IF want.all THEN {} ELSE want.pools \ have.pools
      removePools == IF have.all THEN {} ELSE have.pools \ want.pools
  IN IfAny("subscribe", want.channels \ have.channels, addPools)
       \o IfAny("unsubscribe", have.channels \ want.channels, removePools)

\* The forced half: the whole filter in one frame.
FullFilter(want) ==
  IF want.channels = {} THEN <<>>
  ELSE <<Frame("subscribe", want.channels, want.pools)>>

\* send drops what cannot be sent: the current socket must be open.
send(frames) ==
  sent' = [s \in Sockets |-> IF s = ws' /\ socket'[s] = "open"
                             THEN sent[s] \o frames
                             ELSE IF socket'[s] = "none" THEN <<>> ELSE sent[s]]

\* Mutant of resync: a new connection is sent the changes only.
resyncDeltas ==
  /\ applied' = computeUnion(consumers)
  /\ send(Deltas(applied, applied'))

resync ==
  /\ applied' = computeUnion(consumers)
  /\ send(FullFilter(computeUnion(consumers)))

\* Frames and filter of a connection go with it.
Forget ==
  filter' = [s \in Sockets |-> IF socket'[s] = "none" THEN NoFilter ELSE filter[s]]

(***************************************************************************)
(* Components mount and unmount                                            *)
(***************************************************************************)
HasRoom == \A s \in Sockets : Len(sent[s]) <= MaxFrames

\* What is sent goes out before connect() looks at the socket, which it
\* replaces only when it is not open, so nothing is sent to a new socket.
Subscribe(c) ==
  /\ c \notin consumers
  /\ HasRoom
  /\ consumers' = consumers \cup {c}
  /\ connect
  /\ IF status = "open"
     THEN /\ applied' = computeUnion(consumers')
          /\ send(Deltas(applied, applied'))
     ELSE UNCHANGED <<applied, sent>>
  /\ Forget

Unsubscribe(c) ==
  /\ c \in consumers
  /\ HasRoom
  /\ consumers' = consumers \ {c}
  /\ IF consumers' = {}
     THEN /\ close
          /\ applied' = Nothing
          /\ send(<<>>)
     ELSE /\ UNCHANGED wsVars
          /\ IF status = "open"
             THEN /\ applied' = computeUnion(consumers')
                  /\ send(Deltas(applied, applied'))
             ELSE UNCHANGED <<applied, sent>>
  /\ Forget

(***************************************************************************)
(* The manager's steps, with what they make the stream do                  *)
(***************************************************************************)
Opened(s) == onopen(s) /\ resync /\ UNCHANGED <<consumers, filter>>

Reshown == /\ ReshowOpen
           /\ HasRoom
           /\ resync
           /\ UNCHANGED <<consumers, filter>>

Closed(s) == /\ onclose(s)
             /\ send(<<>>)
             /\ Forget
             /\ UNCHANGED <<consumers, applied>>

\* Steps of the manager the stream takes no part in.
Alone(A) == A /\ UNCHANGED <<consumers, applied, sent, filter>>

(***************************************************************************)
(* The server                                                              *)
(***************************************************************************)
applySubscribe(f, frame) ==
  IF frame.type = "subscribe"
  THEN [channels |-> f.channels \cup frame.channels,
        pools |-> f.pools \cup frame.pools]
  ELSE [channels |-> f.channels \ frame.channels,
        pools |-> f.pools \ frame.pools]

Handle(s) ==
  /\ IsOpen(s) /\ s \notin silent
  /\ sent[s] # <<>>
  /\ filter' = [filter EXCEPT ![s] = applySubscribe(@, Head(sent[s]))]
  /\ sent' = [sent EXCEPT ![s] = Tail(@)]
  /\ UNCHANGED <<wsVars, consumers, applied>>

Next ==
  \/ \E c \in Consumers : Subscribe(c) \/ Unsubscribe(c)
  \/ \E s \in Sockets : \/ Opened(s) \/ Closed(s) \/ Handle(s)
                         \/ Alone(onmessage(s)) \/ Alone(GoSilent(s))
  \/ Reshown \/ Alone(ReshowClosed)
  \/ Alone(ReconnectTick) \/ Alone(PingTick) \/ Alone(PongTimeout)

Spec == Init /\ [][Next]_vars

\* Timers fire, handshakes end, a living server answers and reads.
Fairness ==
  /\ WF_vars(Alone(ReconnectTick))
  /\ WF_vars(Alone(PingTick))
  /\ WF_vars(ws \in silent /\ Alone(PongTimeout))
  /\ \A s \in Sockets : /\ WF_vars(Opened(s))
                        /\ WF_vars(socket[s] = "closing" /\ Closed(s))
                        /\ WF_vars(Alone(onmessage(s)))
                        /\ WF_vars(Handle(s))

FairSpec == Spec /\ Fairness

(***************************************************************************)
(* Properties                                                              *)
(***************************************************************************)
Covers(f, c) == /\ Wants[c].channels \subseteq f.channels
                /\ f.pools # {} => Wants[c].pools # {} /\ Wants[c].pools \subseteq f.pools

\* What becomes of filter f as the frames are handled, one after another.
Handled(f, frames) ==
  LET after[n \in 0 .. Len(frames)] ==
        IF n = 0 THEN f ELSE applySubscribe(after[n - 1], frames[n])
  IN  after

\* The filter of s now and after each of the frames under way to it.
FilterAfter(s) == Handled(filter[s], sent[s])

\* The client never asks the server for its filter, it only sends changes to
\* a filter that adds up. Whenever the current socket is open, what the server
\* will hold once it has read everything under way is exactly what the client
\* believes and what the mounted components want: through reconnections,
\* re-shown tabs, changes made while the socket was down, and sockets that
\* close late.
ServerInStep ==
  IsOpen(ws) =>
    /\ applied = computeUnion(consumers)
    /\ FilterAfter(ws)[Len(sent[ws])] =
         [channels |-> applied.channels, pools |-> applied.pools]

\* The server's filter covers c now and after each of the frames under way.
Settled(c) == \A n \in 0 .. Len(sent[ws]) : Covers(FilterAfter(ws)[n], c)

\* Once the frames under way leave a component nothing to miss, no mounting,
\* unmounting or resync by another one, whatever order its frames are handled
\* in, takes events away from it while the connection lasts: a narrower filter
\* never starves a component that wants more ("no consumer is ever starved").
NeverStarved ==
  [][\A c \in Consumers :
       (IsOpen(ws) /\ ws' = ws /\ IsOpen(ws)' /\ c \in consumers /\ Settled(c))
         => (c \in consumers' => Settled(c)')]_vars

\* The stream is one shared connection: never two sockets at a time.
OneConnection == Cardinality({s \in Sockets : socket[s] \in {"open", "connecting"}}) <= 1

Served == IsOpen(ws) /\ ws \notin silent /\ \A c \in consumers : Covers(filter[ws], c)

\* Refused, lost and silent connections are retried until the mounted
\* components are served by the current connection or the manager has told
\* them that it gave up; as long as it never has a second socket, even one
\* that is only closing.
ServedOrTold ==
  [](mine \subseteq {ws}) =>
    (consumers # {} ~> Served \/ status = "circuit-open" \/ consumers = {})
=============================================================================
