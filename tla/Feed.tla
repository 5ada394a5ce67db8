-------------------------------- MODULE Feed --------------------------------
(***************************************************************************)
(* What the realtime API promises a connected client about must-deliver    *)
(* frames (swaps, market creations, fee events): the client sees the       *)
(* frames its subscription matched, all of them, in the order they came    *)
(* and each once, until the connection ends.  A connection that ends may   *)
(* leave the tail of its stream unseen, never a hole in it.                *)
(***************************************************************************)
EXTENDS Integers, Sequences

CONSTANTS Conns, Frames

VARIABLES
  stream,  \* the frames a connection's subscription has matched
  got,     \* those its client has been sent
  ended    \* no connection, or one that is being torn down

Init ==
  /\ stream = [c \in Conns |-> <<>>] /\ got = [c \in Conns |-> <<>>]
  /\ ended = [c \in Conns |-> TRUE]

Open(c) ==
  /\ ended[c]
  /\ ended' = [ended EXCEPT ![c] = FALSE]
  /\ stream' = [stream EXCEPT ![c] = <<>>] /\ got' = [got EXCEPT ![c] = <<>>]

\* A frame reaches every connection that wants it at once.
Offer(cs, f) ==
  /\ \A c \in cs : ~ended[c]
  /\ stream' = [c \in Conns |-> IF c \in cs THEN Append(stream[c], f) ELSE stream[c]]
  /\ UNCHANGED <<got, ended>>

Show(c) ==
  /\ Len(got[c]) < Len(stream[c])
  /\ got' = [got EXCEPT ![c] = Append(@, stream[c][Len(@) + 1])]
  /\ UNCHANGED <<stream, ended>>

End(c) ==
  /\ ended' = [ended EXCEPT ![c] = TRUE]
  /\ UNCHANGED <<stream, got>>

Next ==
  \/ \E c \in Conns : Open(c) \/ Show(c) \/ End(c)
  \/ \E cs \in SUBSET Conns, f \in Frames : Offer(cs, f)

vars == <<stream, got, ended>>

\* What is due is sent, unless the connection ends.
Spec ==
  /\ Init /\ [][Next]_vars
  /\ \A c \in Conns : WF_vars(~ended[c] /\ Show(c))
=============================================================================
