----------------------------- MODULE MCChatHub -----------------------------
(***************************************************************************)
(* Two clients of one wallet, a room, and a second wallet that is          *)
(* connected elsewhere.                                                    *)
(***************************************************************************)
EXTENDS ChatHub

MCActor == [c \in Conns |-> "w"]
=============================================================================
