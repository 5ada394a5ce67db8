----------------------------- MODULE WsManager -----------------------------
(***************************************************************************)
(* The browser's connection manager (core/realtime/ws-manager.ts): one     *)
(* manager object, its current socket, the reconnect timer, the heartbeat  *)
(* and the reaction to the tab being shown again.                          *)
(*                                                                         *)
(* A socket's handlers belong to the manager that opened it and do not ask *)
(* whether the socket is still the manager's current one, so a socket that *)
(* is no longer `ws` still runs them.  What a manager does on a resync is  *)
(* the business of the module that extends this one.                       *)
(***************************************************************************)
EXTENDS Naturals, FiniteSets

CONSTANTS
  MaxSockets,            \* bound: sockets that exist at the same time
  MaxReconnectAttempts,  \* opts.maxReconnectAttempts
  MaxFaults              \* bound: connections lost, refused or gone silent

ASSUME WsAssumption == /\ MaxSockets \in Nat \ {0}
                       /\ MaxReconnectAttempts \in Nat
                       /\ MaxFaults \in Nat

Sockets == 1 .. MaxSockets
NoSocket == 0

VARIABLES
  socket,          \* the readyState of each socket; "none" when it is closed
  silent,          \* open sockets whose peer has gone without a close
  mine,            \* sockets whose handlers are those of the live manager
  ws,              \* this.ws
  status,          \* this.status
  reconnectAttempt,
  reconnectTimer,  \* whether the timer is set
  wantOpen,
  heartbeat,       \* "off", "armed" (ping interval), "waiting" (for a pong)
  faults           \* faults so far

wsVars == <<socket, silent, mine, ws, status, reconnectAttempt,
            reconnectTimer, wantOpen, heartbeat, faults>>

WsTypeOK ==
  /\ socket \in [Sockets -> {"none", "connecting", "open", "closing"}]
  /\ silent \subseteq {s \in Sockets : socket[s] = "open"}
  /\ mine \subseteq {s \in Sockets : socket[s] # "none"}
  /\ ws \in mine \cup {NoSocket}
  /\ status \in {"idle", "connecting", "open", "closed", "circuit-open"}
  /\ reconnectAttempt \in 0 .. MaxReconnectAttempts
  /\ reconnectTimer \in BOOLEAN
  /\ wantOpen \in BOOLEAN
  /\ heartbeat \in {"off", "armed", "waiting"}
  /\ faults \in 0 .. MaxFaults

WsInit ==
  /\ socket = [s \in Sockets |-> "none"]
  /\ silent = {}
  /\ mine = {}
  /\ ws = NoSocket
  /\ status = "idle"
  /\ reconnectAttempt = 0
  /\ reconnectTimer = FALSE
  /\ wantOpen = FALSE
  /\ heartbeat = "off"
  /\ faults = 0

Live == {s \in Sockets : socket[s] # "none"}
IsOpen(s) == s # NoSocket /\ socket[s] = "open"
CountFault == faults < MaxFaults /\ faults' = faults + 1

(***************************************************************************)
(* Opening and closing                                                     *)
(***************************************************************************)
OpenSocket ==
  IF ws # NoSocket /\ socket[ws] \in {"open", "connecting"}
  THEN UNCHANGED <<socket, mine, ws, status>>
  ELSE \E s \in Sockets \ Live :
         /\ \A t \in Sockets \ Live : s <= t
         /\ socket' = [socket EXCEPT ![s] = "connecting"]
         /\ mine' = mine \cup {s}
         /\ ws' = s
         /\ status' = "connecting"

connect ==
  /\ wantOpen' = TRUE
  /\ reconnectAttempt' = 0
  /\ OpenSocket
  /\ UNCHANGED <<silent, reconnectTimer, heartbeat, faults>>

\* close() of a manager that is then thrown away.  Only the current socket
\* loses its handlers; any other keeps those of the discarded manager.
close ==
  /\ wantOpen' = FALSE
  /\ reconnectTimer' = FALSE
  /\ heartbeat' = "off"
  /\ socket' = [s \in Sockets |-> IF s = ws THEN "none" ELSE socket[s]]
  /\ silent' = silent \ {ws}
  /\ mine' = {}
  /\ ws' = NoSocket
  /\ status' = "idle"
  /\ reconnectAttempt' = 0
  /\ UNCHANGED faults

\* Mutant of scheduleReconnect: no circuit breaker.
scheduleReconnectForever ==
  IF reconnectTimer \/ ~wantOpen
  THEN status' = "closed" /\ UNCHANGED <<reconnectTimer, reconnectAttempt>>
  ELSE /\ status' = "closed"
       /\ reconnectTimer' = TRUE
       /\ reconnectAttempt' = reconnectAttempt + 1

scheduleReconnect ==
  CASE reconnectTimer \/ ~wantOpen ->
         status' = "closed" /\ UNCHANGED <<reconnectTimer, reconnectAttempt>>
    [] ~reconnectTimer /\ wantOpen /\ reconnectAttempt >= MaxReconnectAttempts ->
         status' = "circuit-open" /\ UNCHANGED <<reconnectTimer, reconnectAttempt>>
    [] OTHER ->
         /\ status' = "closed"
         /\ reconnectTimer' = TRUE
         /\ reconnectAttempt' = reconnectAttempt + 1

(***************************************************************************)
(* The handlers of socket s                                                *)
(***************************************************************************)
\* Mutant of onopen: the heartbeat is left to the first frame.
onopenDeaf(s) ==
  /\ socket[s] = "connecting"
  /\ socket' = [socket EXCEPT ![s] = "open"]
  /\ IF s \in mine THEN reconnectAttempt' = 0 /\ status' = "open"
                   ELSE UNCHANGED <<reconnectAttempt, status>>
  /\ UNCHANGED <<silent, mine, ws, heartbeat, reconnectTimer, wantOpen, faults>>

onopen(s) ==
  /\ socket[s] = "connecting"
  /\ socket' = [socket EXCEPT ![s] = "open"]
  /\ IF s \in mine
     THEN /\ reconnectAttempt' = 0
          /\ status' = "open"
          /\ heartbeat' = "armed"
     ELSE UNCHANGED <<reconnectAttempt, status, heartbeat>>
  /\ UNCHANGED <<silent, mine, ws, reconnectTimer, wantOpen, faults>>

\* The closing handshake ends, the connection is lost, or it is refused
\* (onerror then only closes a socket that is closing already).
onclose(s) ==
  /\ socket[s] # "none"
  /\ IF socket[s] = "closing" THEN UNCHANGED faults ELSE CountFault
  /\ socket' = [socket EXCEPT ![s] = "none"]
  /\ silent' = silent \ {s}
  /\ mine' = mine \ {s}
  /\ IF s \in mine
     THEN /\ heartbeat' = "off"
          /\ ws' = NoSocket
          /\ scheduleReconnect
     ELSE UNCHANGED <<heartbeat, ws, status, reconnectTimer, reconnectAttempt>>
  /\ UNCHANGED wantOpen

\* Any frame that arrives: it proves to the manager that the peer is alive.
onmessage(s) ==
  /\ IsOpen(s) /\ s \in mine \ silent
  /\ heartbeat = "waiting"
  /\ heartbeat' = "armed"
  /\ UNCHANGED <<socket, silent, mine, ws, status, reconnectAttempt,
                 reconnectTimer, wantOpen, faults>>

\* The peer of an open socket is gone and nothing says so.
GoSilent(s) ==
  /\ IsOpen(s) /\ s \notin silent
  /\ CountFault
  /\ silent' = silent \cup {s}
  /\ UNCHANGED <<socket, mine, ws, status, reconnectAttempt, reconnectTimer,
                 wantOpen, heartbeat>>

(***************************************************************************)
(* Timers and visibility                                                   *)
(***************************************************************************)
ReconnectTick ==
  /\ reconnectTimer
  /\ reconnectTimer' = FALSE
  /\ IF wantOpen THEN OpenSocket ELSE UNCHANGED <<socket, mine, ws, status>>
  /\ UNCHANGED <<silent, reconnectAttempt, wantOpen, heartbeat, faults>>

PingTick ==
  /\ heartbeat = "armed"
  /\ IsOpen(ws)
  /\ heartbeat' = "waiting"
  /\ UNCHANGED <<socket, silent, mine, ws, status, reconnectAttempt,
                 reconnectTimer, wantOpen, faults>>

\* No frame since the ping: the peer is gone, or its answer is late.
PongTimeout ==
  /\ heartbeat = "waiting"
  /\ IF ws \in silent THEN UNCHANGED faults ELSE CountFault
  /\ heartbeat' = "armed"
  /\ socket' = [s \in Sockets |-> IF s = ws THEN "closing" ELSE socket[s]]
  /\ silent' = silent \ {ws}
  /\ UNCHANGED <<mine, ws, status, reconnectAttempt, reconnectTimer, wantOpen>>

\* The tab is shown while the current socket is not open.
ReshowClosed ==
  /\ wantOpen
  /\ ~IsOpen(ws)
  /\ reconnectAttempt' = 0
  /\ OpenSocket
  /\ UNCHANGED <<silent, reconnectTimer, wantOpen, heartbeat, faults>>

\* The tab is shown while it is: the manager resyncs and nothing else.
ReshowOpen == wantOpen /\ IsOpen(ws) /\ UNCHANGED wsVars
=============================================================================
