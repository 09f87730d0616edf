---------------------------- MODULE PacketStream ----------------------------
(***************************************************************************)
(* What a handler may rely on about the packets of one client: they come in *)
(* the order in which they were sent, whole, and none comes twice.  Packets *)
(* may be dropped on the way, and at some point the session ends.           *)
(***************************************************************************)
EXTENDS Sequences, Naturals

CONSTANTS
  Packets,    \* what clients send
  Handleable  \* what there is a handler for

VARIABLES
  sent,     \* all packets of the client
  taken,    \* [packet, handled] of each that the server has dealt with, where
            \* handled says whether it reached its handler
  over      \* the session has ended

vars == <<sent, taken, over>>

Init ==
  /\ sent = <<>>
  /\ taken = <<>>
  /\ over = FALSE

Send(p) ==
  /\ sent' = Append(sent, p)
  /\ UNCHANGED <<taken, over>>

Take(isHandled) ==
  /\ ~over
  /\ Len(taken) < Len(sent)
  /\ sent[Len(taken) + 1] \in Handleable
  /\ taken' = Append(taken, [packet |-> sent[Len(taken) + 1], handled |-> isHandled])
  /\ UNCHANGED <<sent, over>>

End ==
  /\ over' = TRUE
  /\ UNCHANGED <<sent, taken>>

Next ==
  \/ \E p \in Packets : Send(p)
  \/ \E isHandled \in BOOLEAN : Take(isHandled)
  \/ End

Spec == Init /\ [][Next]_vars

=============================================================================
