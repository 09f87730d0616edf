--------------------------- MODULE OrderedChannel ---------------------------
(***************************************************************************)
(* What Session::Send promises its callers: packets reach the client whole, *)
(* once and in the order in which they were accepted, until the connection  *)
(* breaks; after that nothing more is delivered and what is left is         *)
(* dropped.                                                                 *)
(***************************************************************************)
EXTENDS Sequences

CONSTANT Packets

VARIABLES
  pending,    \* accepted, not yet delivered
  delivered,  \* what the client has received
  broken      \* the connection has failed or was closed

vars == <<pending, delivered, broken>>

Init == pending = <<>> /\ delivered = <<>> /\ broken = FALSE

Send(m) ==
  /\ pending' = Append(pending, m)
  /\ UNCHANGED <<delivered, broken>>

Deliver ==
  /\ ~broken
  /\ pending # <<>>
  /\ delivered' = Append(delivered, Head(pending))
  /\ pending' = Tail(pending)
  /\ UNCHANGED broken

\* The connection breaks; what is pending is dropped now or later.
Break ==
  /\ broken' = TRUE
  /\ pending' \in {pending, <<>>}
  /\ UNCHANGED delivered

Next == (\E m \in Packets : Send(m)) \/ Deliver \/ Break

Spec == Init /\ [][Next]_vars

=============================================================================
