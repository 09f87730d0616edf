------------------------------ MODULE Receive ------------------------------
(***************************************************************************)
(* The incoming half of a Session: Read, which gets the bytes of a client   *)
(* in pieces of any size, and ProcessPackets, which cuts them into packets  *)
(* again, drops those of a client that sends too many, and dispatches the   *)
(* others.                                                                  *)
(*                                                                          *)
(* A packet is the sequence of its bytes, where a byte of the model holds a *)
(* whole field: the first is header.size, the second header.type, the rest  *)
(* is the body.  Time passes between any two steps, also while a handler    *)
(* runs.                                                                    *)
(***************************************************************************)
EXTENDS Integers, Sequences, FiniteSets

CONSTANTS
  ClientPackets,  \* what clients send
  Types,          \* types the dispatcher has a handler for
  Chunk,          \* size of m_tempBuffer
  maxPacketsPerSecond,
  Second,         \* in ticks of the clock
  packetBlockDuration,
  MaxSent,        \* bound: packets the client sends
  MaxTime         \* bound: the last time of the clock

HeaderSize == 2

\* A client that declares less than a header sends no more than the header.
\* GameServer::LoadConfig refuses a limit or a block duration of 0, and counts the
\* duration in whole seconds.
ASSUME ReceiveAssumption ==
  /\ \A p \in ClientPackets :
       /\ p \in Seq(Nat) /\ Len(p) >= HeaderSize
       /\ p[1] = Len(p) \/ (p[1] < HeaderSize /\ Len(p) = HeaderSize)
  /\ Types \subseteq Nat
  /\ {Chunk, maxPacketsPerSecond, Second} \subseteq Nat \ {0}
  /\ packetBlockDuration \in Nat /\ packetBlockDuration >= Second
  /\ MaxSent \in Nat /\ MaxTime \in Nat

VARIABLES
  incoming,       \* bytes on their way
  tempBuffer,     \* m_tempBuffer, filled by a read whose callback has not run
  receiveBuffer,  \* m_receiveBuffer
  reader,         \* "reading", "processing" in the callback, or "closed":
                  \* no read is pending and no callback will run
  disconnected,   \* m_disconnected
  timestamps,     \* m_packetTimestamps
  blockedUntil,   \* m_blockedUntil
  now,            \* steady_clock
  clientSent,     \* history: all packets of the client
  log             \* history: [packet, at, handled] of each that was taken off

netVars == <<incoming, tempBuffer>>
rateVars == <<timestamps, blockedUntil>>
receiveVars == <<incoming, tempBuffer, receiveBuffer, reader, disconnected, timestamps,
                 blockedUntil, now, clientSent, log>>

ReceiveInit ==
  /\ incoming = <<>> /\ tempBuffer = <<>> /\ receiveBuffer = <<>>
  /\ reader = "reading"
  /\ disconnected = FALSE
  /\ timestamps = <<>>
  /\ blockedUntil = 0
  /\ now = 0
  /\ clientSent = <<>>
  /\ log = <<>>

-----------------------------------------------------------------------------
(* The client, the network and the clock *)

ClientSends(p) ==
  /\ Len(clientSent) < MaxSent
  /\ incoming' = incoming \o p
  /\ clientSent' = Append(clientSent, p)
  /\ UNCHANGED <<tempBuffer, receiveBuffer, reader, disconnected, rateVars, now, log>>

\* async_read_some completes with n bytes; its callback is queued.
Arrives(n) ==
  /\ reader = "reading" /\ tempBuffer = <<>> /\ ~disconnected
  /\ n <= Len(incoming)
  /\ tempBuffer' = SubSeq(incoming, 1, n)
  /\ incoming' = SubSeq(incoming, n + 1, Len(incoming))
  /\ UNCHANGED <<receiveBuffer, reader, disconnected, rateVars, now, clientSent, log>>

TimePasses ==
  /\ now < MaxTime
  /\ now' = now + 1
  /\ UNCHANGED <<netVars, receiveBuffer, reader, disconnected, rateVars, clientSent, log>>

-----------------------------------------------------------------------------
(* Read *)

\* The connection breaks, or a Disconnect has closed the socket.
ReadFails ==
  /\ reader = "reading" /\ tempBuffer = <<>>
  /\ reader' = "closed"
  /\ disconnected' = TRUE
  /\ UNCHANGED <<netVars, receiveBuffer, rateVars, now, clientSent, log>>

\* A write's completion disconnects the session.  What has arrived will still
\* be processed, by the callback that is queued.
WriteDisconnects ==
  /\ reader = "reading" /\ ~disconnected
  /\ disconnected' = TRUE
  /\ UNCHANGED <<netVars, receiveBuffer, reader, rateVars, now, clientSent, log>>

\* The callback up to the call of ProcessPackets.
ReadDone ==
  /\ reader = "reading" /\ tempBuffer # <<>>
  /\ receiveBuffer' = receiveBuffer \o tempBuffer
  /\ tempBuffer' = <<>>
  /\ reader' = "processing"
  /\ UNCHANGED <<incoming, disconnected, rateVars, now, clientSent, log>>

-----------------------------------------------------------------------------
(* ProcessPackets: one round of its loop is a step *)

HasHeader == Len(receiveBuffer) >= HeaderSize
size == receiveBuffer[1]
type == receiveBuffer[2]

\* Mutant: the buffer must hold more than the packet.
IsComplete_Strictly == HasHeader /\ size >= HeaderSize /\ Len(receiveBuffer) > size

IsComplete == HasHeader /\ size >= HeaderSize /\ Len(receiveBuffer) >= size

\* Mutant: the size that is handed to the handler is removed.
Remove_Body == SubSeq(receiveBuffer, size - HeaderSize + 1, Len(receiveBuffer))

Remove == SubSeq(receiveBuffer, size + 1, Len(receiveBuffer))

\* The packet is taken off the buffer, after its handler has returned or thrown.
TakeOff(isHandled) ==
  /\ receiveBuffer' = Remove
  /\ log' = Append(log, [packet |-> SubSeq(receiveBuffer, 1, size),
                         at |-> now, handled |-> isHandled])

\* ProcessPackets returns, and the callback starts the next read.
NeedMore ==
  /\ reader = "processing"
  /\ ~IsComplete /\ (HasHeader => size >= HeaderSize)
  /\ reader' = IF disconnected THEN "closed" ELSE "reading"
  /\ UNCHANGED <<netVars, receiveBuffer, disconnected, rateVars, now, clientSent, log>>

\* A size that no packet has, or a type without a handler.
Refuse ==
  /\ reader = "processing"
  /\ \/ HasHeader /\ size < HeaderSize
     \/ IsComplete /\ type \notin Types
  /\ disconnected' = TRUE
  /\ reader' = "closed"
  /\ UNCHANGED <<netVars, receiveBuffer, rateVars, now, clientSent, log>>

MayDispatch == reader = "processing" /\ IsComplete /\ type \in Types

DropBlocked ==
  /\ MayDispatch
  /\ now < blockedUntil
  /\ TakeOff(FALSE)
  /\ UNCHANGED <<netVars, reader, disconnected, rateVars, now, clientSent>>

\* Mutant: old timestamps are never removed.
Recent_All == Append(timestamps, now)

IsOld(time) == now - time >= Second

\* How many timestamps the loop pops: the old ones at the front.
Popped ==
  CHOOSE n \in 0 .. Len(timestamps) :
    /\ \A k \in 1 .. n : IsOld(timestamps[k])
    /\ n < Len(timestamps) => ~IsOld(timestamps[n + 1])

\* m_packetTimestamps without these, and with this packet.
Recent == Append(SubSeq(timestamps, Popped + 1, Len(timestamps)), now)

\* Mutant: one packet more than in the code.
IsTooFast_OneMore == Len(Recent) > maxPacketsPerSecond

IsTooFast == Len(Recent) >= maxPacketsPerSecond

\* Mutant: the timestamps are kept.
Block_KeepsTimestamps ==
  /\ MayDispatch
  /\ now >= blockedUntil /\ IsTooFast
  /\ blockedUntil' = now + packetBlockDuration
  /\ timestamps' = Recent
  /\ TakeOff(FALSE)
  /\ UNCHANGED <<netVars, reader, disconnected, now, clientSent>>

Block ==
  /\ MayDispatch
  /\ now >= blockedUntil /\ IsTooFast
  /\ blockedUntil' = now + packetBlockDuration
  /\ timestamps' = <<>>
  /\ TakeOff(FALSE)
  /\ UNCHANGED <<netVars, reader, disconnected, now, clientSent>>

Dispatch ==
  /\ MayDispatch
  /\ now >= blockedUntil /\ ~IsTooFast
  /\ timestamps' = Recent
  /\ TakeOff(TRUE)
  /\ UNCHANGED <<netVars, reader, disconnected, blockedUntil, now, clientSent>>

ProcessPackets == NeedMore \/ Refuse \/ DropBlocked \/ Block \/ Dispatch

-----------------------------------------------------------------------------
ReceiveNext ==
  \/ \E p \in ClientPackets : ClientSends(p)
  \/ \E n \in 1 .. Chunk : Arrives(n)
  \/ TimePasses
  \/ ReadFails \/ WriteDisconnects \/ ReadDone
  \/ ProcessPackets

ReceiveSpec == ReceiveInit /\ [][ReceiveNext]_receiveVars

\* What was sent arrives, in pieces of any size, and the main loop polls.
FairReceiveSpec ==
  /\ ReceiveSpec
  /\ WF_receiveVars(\E n \in 1 .. Chunk : Arrives(n))
  /\ WF_receiveVars(ReadDone)
  /\ WF_receiveVars(ProcessPackets)
  /\ WF_receiveVars(disconnected /\ ReadFails)

-----------------------------------------------------------------------------
(* Properties *)

ReceiveTypeOK ==
  /\ {incoming, tempBuffer, receiveBuffer} \subseteq Seq(Nat)
  /\ Len(tempBuffer) <= Chunk
  /\ reader \in {"reading", "processing", "closed"}
  /\ disconnected \in BOOLEAN
  /\ timestamps \in Seq(0 .. now) /\ Len(timestamps) < maxPacketsPerSecond
  /\ blockedUntil \in 0 .. now + packetBlockDuration
  /\ now \in 0 .. MaxTime
  /\ clientSent \in Seq(ClientPackets) /\ Len(clientSent) <= MaxSent
  /\ log \in Seq([packet : Seq(Nat), at : 0 .. now, handled : BOOLEAN])

AsStream == INSTANCE PacketStream WITH
  Packets <- ClientPackets,
  Handleable <- {p \in ClientPackets : p[1] = Len(p) /\ p[2] \in Types},
  sent <- clientSent,
  taken <- [i \in DOMAIN log |-> [packet |-> log[i].packet, handled |-> log[i].handled]],
  over <- reader = "closed"

\* However the network cuts the stream into pieces, ProcessPackets finds the
\* packets the client has sent, in their order, each once, and none behind one
\* that it refuses.
IsStream == AsStream!Spec

Within(i, j, time) == log[i].at - log[j].at < time

\* Fewer than maxPacketsPerSecond packets are handled in any second, whether or
\* not the session was blocked in between.
RateIsLimited ==
  \A i \in DOMAIN log :
    Cardinality({j \in 1 .. i : log[j].handled /\ Within(i, j, Second)})
      < maxPacketsPerSecond

\* A packet is dropped only if not long before it, or with it, the client had
\* maxPacketsPerSecond packets processed in a second: a client that slows down
\* is heard again.
OnlyFastOnesDropped ==
  \A i \in DOMAIN log :
    log[i].handled \/ \E j \in 1 .. i :
      /\ i = j \/ Within(i, j, packetBlockDuration)
      /\ Cardinality({k \in 1 .. j : Within(j, k, Second)}) >= maxPacketsPerSecond

\* No packet stays in the buffer: once sent it is taken off, or the session ends.
EveryPacketTaken ==
  \A n \in 1 .. MaxSent : Len(clientSent) >= n ~> Len(log) >= n \/ reader = "closed"

=============================================================================
