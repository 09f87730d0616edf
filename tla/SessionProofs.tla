--------------------------- MODULE SessionProofs ---------------------------
(***************************************************************************)
(* Proofs about the two halves of a Session.                                *)
(*                                                                          *)
(* SendQueue, for any number of threads and packets: the inductive          *)
(* invariant adds to the two invariants of the run where code can run:      *)
(* workers only in a tick, the main thread only in a poll, so that no       *)
(* worker sends between a failed write and the Disconnect after it.         *)
(*                                                                          *)
(* Receive, for any packets, limits and cuts of the stream: what is still   *)
(* to come is the packets that were not taken off, one behind the other;    *)
(* the timestamps are those of packets that were handled, and of all that   *)
(* still count.                                                             *)
(***************************************************************************)
EXTENDS SendQueue, Receive, TLAPS, SequenceTheorems, FiniteSetTheorems, WellFoundedInduction

\* Who may be inside Send, DoSend or a completion in which phase.
PhaseInv ==
  /\ phase = "poll" => \A w \in Workers : pc[w] = "out"
  /\ phase = "tick" => pc[Main] = "out"
  /\ pc[Main] = "disconnect" => ~sending

Inv == TypeOK /\ OneTokenHolder /\ NothingForgotten /\ PhaseInv

USE DEF Threads, Holders

\* The front of a queue that is not empty stays where it is when a packet is
\* appended, and taking it out and appending may be swapped.
LEMMA AppendKeepsFront ==
  ASSUME NEW q \in Seq(Packets), NEW m \in Packets, q # <<>>
  PROVE  /\ Append(q, m) \in Seq(Packets)
         /\ Append(q, m) # <<>>
         /\ Head(Append(q, m)) = Head(q)
         /\ Tail(Append(q, m)) = Append(Tail(q), m)
  OBVIOUS

\* A session starts with nothing to send.
THEOREM InitInv == Init => Inv
<1> SUFFICES ASSUME Init PROVE Inv
  OBVIOUS
<1> USE ThreadsAssumption DEF Init
<1>1. TypeOK
  <2>1. <<>> \in Seq(Packets)
    BY EmptySeq
  <2>2. 0 \in 0 .. MaxSends
    OBVIOUS
  <2> QED
    BY <2>1, <2>2 DEF TypeOK
<1>2. OneTokenHolder /\ NothingForgotten /\ PhaseInv
  BY DEF OneTokenHolder, NothingForgotten, PhaseInv
<1> QED
  BY <1>1, <1>2 DEF Inv

\* Inv is inductive: one step per action.
THEOREM NextInv == Inv /\ [Next]_vars => Inv'
<1> SUFFICES ASSUME Inv, [Next]_vars
             PROVE  Inv'
  OBVIOUS
<1> USE ThreadsAssumption DEF Inv
<1>1. ASSUME NEW t \in Threads, Send(t)
      PROVE  Inv'
  <2>1. <<t, sent[t] + 1>> \in Packets
    BY <1>1 DEF Send, TypeOK, Packets
  <2>2. sendQueue' \in Seq(Packets) /\ sendQueue' # <<>>
    BY <1>1, <2>1 DEF Send, TypeOK
  <2>3. TypeOK'
    BY <1>1, <2>2 DEF Send, TypeOK
  <2>4. OneTokenHolder'
    BY <1>1 DEF Send, TypeOK, OneTokenHolder
  <2>5. NothingForgotten'
    BY <1>1, <2>2 DEF Send, NothingForgotten
  <2>6. PhaseInv'
    BY <1>1 DEF Send, Runs, TypeOK, PhaseInv
  <2> QED
    BY <2>3, <2>4, <2>5, <2>6
<1>2. ASSUME NEW t \in Threads, DoSend(t)
      PROVE  Inv'
  <2>1. sendQueue # <<>>
    BY <1>2 DEF DoSend, NothingForgotten
  <2> QED
    BY <1>2, <2>1 DEF DoSend, TypeOK, OneTokenHolder, NothingForgotten, PhaseInv
<1>3. ASSUME NEW t \in Threads, StartWrite(t)
      PROVE  Inv'
  BY <1>3 DEF StartWrite, TypeOK, OneTokenHolder, NothingForgotten, PhaseInv
<1>4. CASE Written
  <2>1. sendQueue # <<>>
    BY <1>4 DEF Written, NothingForgotten
  <2>2. wire' \in Seq(Packets)
    BY <1>4, <2>1 DEF Written, TypeOK
  <2> QED
    BY <1>4, <2>2 DEF Written, TypeOK, OneTokenHolder, NothingForgotten, PhaseInv
<1>5. CASE WriteFails
  BY <1>5 DEF WriteFails, TypeOK, OneTokenHolder, NothingForgotten, PhaseInv
<1>6. CASE OnWritten
  <2>1. sendQueue # <<>> /\ Holders = {}
    BY <1>6 DEF OnWritten, OneTokenHolder, NothingForgotten
  <2>2. sendQueue' \in Seq(Packets)
    BY <1>6, <2>1 DEF OnWritten, TypeOK
  <2> QED
    BY <1>6, <2>1, <2>2 DEF OnWritten, TypeOK, OneTokenHolder, NothingForgotten, PhaseInv
<1>7. CASE OnWriteFailed
  <2>1. TypeOK'
    BY <1>7, EmptySeq DEF OnWriteFailed, TypeOK
  <2>2. Holders' = {}
    BY <1>7 DEF OnWriteFailed, TypeOK, OneTokenHolder
  <2>3. OneTokenHolder' /\ NothingForgotten'
    BY <1>7, <2>2 DEF OnWriteFailed, OneTokenHolder, NothingForgotten
  <2>4. PhaseInv'
    BY <1>7 DEF OnWriteFailed, TypeOK, PhaseInv
  <2> QED
    BY <2>1, <2>2, <2>3, <2>4
<1>8. CASE Disconnect
  BY <1>8 DEF Disconnect, TypeOK, OneTokenHolder, NothingForgotten, PhaseInv
<1>9. CASE ReadFailed
  BY <1>9 DEF ReadFailed, TypeOK, OneTokenHolder, NothingForgotten, PhaseInv
<1>10. CASE BeginTick
  BY <1>10 DEF BeginTick, TypeOK, OneTokenHolder, NothingForgotten, PhaseInv
<1>11. CASE EndTick
  BY <1>11 DEF EndTick, TypeOK, OneTokenHolder, NothingForgotten, PhaseInv
<1>12. CASE UNCHANGED vars
  BY <1>12 DEF vars, TypeOK, OneTokenHolder, NothingForgotten, PhaseInv
<1> QED
  BY <1>1, <1>2, <1>3, <1>4, <1>5, <1>6, <1>7, <1>8, <1>9, <1>10, <1>11, <1>12 DEF Next

\* The token invariants of send_queue hold for any number of threads.
THEOREM SendQueueInv == Spec => []Inv
  BY InitInv, NextInv, PTL DEF Spec

\* TypeOK of every reachable state.
THEOREM SendQueueTypes == Spec => []TypeOK
  BY SendQueueInv, PTL DEF Inv

\* One thread or one write at a time has the token, and m_sending tells.
THEOREM SendQueueOneTokenHolder == Spec => []OneTokenHolder
  BY SendQueueInv, PTL DEF Inv

\* A queue that is not empty has somebody to write it.
THEOREM SendQueueNothingForgotten == Spec => []NothingForgotten
  BY SendQueueInv, PTL DEF Inv

-----------------------------------------------------------------------------
(* The buffer of a write stays in place *)

\* The step of BufferStays: only a completion takes the front of the queue out,
\* and none is due while a write is about to start or flies.
LEMMA StepKeepsBuffer ==
  ASSUME Inv, [Next]_vars, write = "flying" \/ \E t \in Threads : pc[t] = "start"
  PROVE  sendQueue' # <<>> /\ Head(sendQueue') = Head(sendQueue)
<1> USE ThreadsAssumption DEF Inv
<1>1. sendQueue \in Seq(Packets) /\ sendQueue # <<>>
  BY DEF TypeOK, NothingForgotten
<1>2. ~OnWritten /\ ~OnWriteFailed
  BY DEF OnWritten, OnWriteFailed, OneTokenHolder
<1>3. ASSUME NEW t \in Threads, Send(t)
      PROVE  sendQueue' # <<>> /\ Head(sendQueue') = Head(sendQueue)
  <2>1. <<t, sent[t] + 1>> \in Packets
    BY <1>3 DEF Send, TypeOK, Packets
  <2> QED
    BY <1>1, <1>3, <2>1, AppendKeepsFront DEF Send
<1>4. CASE UNCHANGED sendQueue
  BY <1>1, <1>4
<1> QED
  BY <1>2, <1>3, <1>4 DEF Next, DoSend, StartWrite, Written, WriteFails, Disconnect,
                          ReadFailed, BeginTick, EndTick, vars

\* BufferStays: async_write's buffer is not moved or freed under it.
THEOREM SendQueueBufferStays == Spec => BufferStays
<1>1. Inv /\ [Next]_vars =>
        [(write = "flying" \/ \E t \in Threads : pc[t] = "start") =>
           sendQueue' # <<>> /\ Head(sendQueue') = Head(sendQueue)]_vars
  BY StepKeepsBuffer
<1> QED
  BY <1>1, SendQueueInv, PTL DEF Spec, BufferStays

-----------------------------------------------------------------------------
(* SendQueue implements OrderedChannel *)

\* A step of a thread, of asio or of a completion is a step of the channel or
\* a stutter: Written delivers, a failure breaks, a completion changes nothing
\* the callers of Send could see.
LEMMA StepIsChannel ==
  ASSUME Inv, [Next]_vars
  PROVE  [Channel!Next]_(Channel!vars)
<1> USE ThreadsAssumption DEF Inv, Channel!vars
<1>1. ASSUME NEW t \in Threads, Send(t)
      PROVE  Channel!Next
  <2> DEFINE m == <<t, sent[t] + 1>>
  <2>1. m \in Packets
    BY <1>1 DEF Send, TypeOK, Packets
  <2>2. sendQueue \in Seq(Packets) /\ sendQueue' = Append(sendQueue, m)
    BY <1>1 DEF Send, TypeOK
  <2>3. write = "ok" => sendQueue # <<>>
    BY DEF NothingForgotten
  <2>4. write = "ok" => Tail(sendQueue') = Append(Tail(sendQueue), m)
    BY <2>1, <2>2, <2>3, AppendKeepsFront
  <2>5. /\ UNCHANGED <<write, wire, closed>>
        /\ (pc'[Main] = "disconnect") = (pc[Main] = "disconnect")
    BY <1>1 DEF Send, TypeOK
  <2>6. Channel!Send(m)
    BY <2>2, <2>4, <2>5 DEF Channel!Send
  <2> QED
    BY <2>1, <2>6 DEF Channel!Next
<1>2. ASSUME NEW t \in Threads, DoSend(t) \/ StartWrite(t)
      PROVE  UNCHANGED Channel!vars
  BY <1>2 DEF DoSend, StartWrite, TypeOK, OneTokenHolder
<1>3. CASE Written
  <2>1. sendQueue # <<>> /\ sending
    BY <1>3 DEF Written, OneTokenHolder, NothingForgotten
  <2>2. ~closed /\ pc[Main] # "disconnect"
    BY <1>3, <2>1 DEF Written, PhaseInv
  <2> QED
    BY <1>3, <2>1, <2>2 DEF Written, Channel!Deliver, Channel!Next
<1>4. CASE WriteFails
  BY <1>4 DEF WriteFails
<1>5. CASE OnWritten
  BY <1>5 DEF OnWritten, TypeOK
<1>6. CASE OnWriteFailed
  BY <1>6 DEF OnWriteFailed, TypeOK, Channel!Break, Channel!Next
<1>7. CASE Disconnect
  BY <1>7 DEF Disconnect, TypeOK
<1>8. CASE ReadFailed
  BY <1>8 DEF ReadFailed, Channel!Break, Channel!Next
<1>9. CASE BeginTick \/ EndTick \/ UNCHANGED vars
  BY <1>9 DEF BeginTick, EndTick, vars
<1> QED
  BY <1>1, <1>2, <1>3, <1>4, <1>5, <1>6, <1>7, <1>8, <1>9 DEF Next

\* IsOrderedChannel: Send's callers see an ordered channel that may break.
THEOREM SendQueueIsOrderedChannel == Spec => IsOrderedChannel
<1>1. Init => Channel!Init
  BY ThreadsAssumption DEF Init, Channel!Init
<1>2. Inv /\ [Next]_vars => [Channel!Next]_(Channel!vars)
  BY StepIsChannel
<1> QED
  BY <1>1, <1>2, SendQueueInv, PTL DEF Spec, IsOrderedChannel, Channel!Spec

HIDE DEF Threads, Holders

-----------------------------------------------------------------------------
(* Receive *)

\* A natural number of a set is the least.
LEMMA LeastNatural ==
  ASSUME NEW T, T \subseteq Nat, T # {}
  PROVE  \E x \in T : \A y \in T : x <= y
<1> DEFINE R == {ss \in Nat \X Nat : ss[1] < ss[2]}
<1>1. R = OpToRel(<, Nat)
  BY DEF OpToRel
<1>2. IsWellFoundedOn(R, Nat)
  BY <1>1, NatLessThanWellFounded
<1> HIDE DEF R
<1>3. PICK x \in T : \A y \in T : ~ (<<y, x>> \in R)
  BY <1>2, WFMin
<1>4. ASSUME NEW y \in T PROVE x <= y
  <2>1. x \in Nat /\ y \in Nat /\ ~(<<y, x>> \in R)
    BY <1>3
  <2>2. ~ (y < x)
    BY <2>1 DEF R
  <2>3. QED
    BY <2>1, <2>2
<1>5. QED
  BY <1>4

\* The loop stops, at the first timestamp that is not old or behind the last one.
LEMMA PoppedFacts ==
  ASSUME NEW S, timestamps \in Seq(S)
  PROVE  /\ Popped \in 0 .. Len(timestamps)
         /\ \A k \in 1 .. Popped : IsOld(timestamps[k])
         /\ Popped < Len(timestamps) => ~IsOld(timestamps[Popped + 1])
<1> DEFINE size0 == Len(timestamps)
           T == {n \in 0 .. size0 : n < size0 => ~IsOld(timestamps[n + 1])}
           P(n) == /\ \A k \in 1 .. n : IsOld(timestamps[k])
                   /\ n < size0 => ~IsOld(timestamps[n + 1])
<1>1. size0 \in Nat
  BY LenProperties
<1> HIDE DEF size0
<1>2. T \subseteq Nat /\ size0 \in T
  BY <1>1
<1>3. PICK x \in T : \A y \in T : x <= y
  <2> HIDE DEF T
  <2>1. QED
    BY <1>2, LeastNatural
<1>4. ASSUME NEW k \in 1 .. x PROVE IsOld(timestamps[k])
  <2>1. k - 1 \in 0 .. size0 /\ k - 1 < size0 /\ ~(x <= k - 1) /\ k - 1 + 1 = k
    BY <1>1, <1>2
  <2>2. k - 1 \notin T
    BY <1>3, <2>1
  <2>3. QED
    BY <2>1, <2>2
<1>5. x \in 0 .. size0 /\ P(x)
  BY <1>4
<1>6. Popped = CHOOSE n \in 0 .. size0 : P(n)
  BY DEF Popped, size0
<1> HIDE DEF P
<1>7. Popped \in 0 .. size0 /\ P(Popped)
  BY <1>5, <1>6
<1>8. QED
  BY <1>7 DEF P, size0

\* What the loop leaves, and the packet that has come.
LEMMA RecentFacts ==
  ASSUME NEW S, timestamps \in Seq(S), now \in S
  PROVE  /\ Recent \in Seq(S)
         /\ Len(Recent) = Len(timestamps) - Popped + 1
         /\ \A k \in 1 .. Len(timestamps) - Popped : Recent[k] = timestamps[Popped + k]
         /\ Recent[Len(timestamps) - Popped + 1] = now
<1> DEFINE left == SubSeq(timestamps, Popped + 1, Len(timestamps))
<1>1. Popped \in 0 .. Len(timestamps) /\ Len(timestamps) \in Nat
  BY PoppedFacts, LenProperties
<1>2. \A i \in Popped + 1 .. Len(timestamps) : timestamps[i] \in S
  BY <1>1, ElementOfSeq
<1>3. /\ left \in Seq(S)
      /\ Len(left) = Len(timestamps) - Popped
      /\ \A k \in 1 .. Len(timestamps) - Popped : left[k] = timestamps[Popped + k]
  <2>1. Popped + 1 \in Int /\ Len(timestamps) \in Int
    BY <1>1
  <2>2. /\ left \in Seq(S)
        /\ Len(left) = IF Popped + 1 <= Len(timestamps) THEN Len(timestamps) - (Popped + 1) + 1 ELSE 0
        /\ \A i \in 1 .. Len(timestamps) - (Popped + 1) + 1 : left[i] = timestamps[(Popped + 1) + i - 1]
    BY <1>2, <2>1, SubSeqProperties
  <2> HIDE DEF left
  <2>3. ASSUME NEW k \in 1 .. Len(timestamps) - Popped PROVE left[k] = timestamps[Popped + k]
    <3>1. k \in 1 .. Len(timestamps) - (Popped + 1) + 1 /\ (Popped + 1) + k - 1 = Popped + k
      BY <1>1
    <3>2. QED
      BY <2>2, <3>1
  <2>4. QED
    BY <1>1, <2>2, <2>3
<1>4. Recent = Append(left, now)
  BY DEF Recent
<1> HIDE DEF left
<1>5. QED
  BY <1>1, <1>3, <1>4

Entries(time) == [packet : Seq(Nat), at : 0 .. time, handled : BOOLEAN]

\* A packet is taken off, and those behind it move to the front.
LEMMA TakeOffFacts ==
  ASSUME ReceiveTypeOK, MayDispatch, NEW isHandled \in BOOLEAN, TakeOff(isHandled)
  PROVE  /\ size \in HeaderSize .. Len(receiveBuffer) /\ size \in Nat /\ Len(receiveBuffer) \in Nat
         /\ receiveBuffer' \in Seq(Nat) /\ Len(receiveBuffer') = Len(receiveBuffer) - size
         /\ \A b \in 1 .. Len(receiveBuffer') : receiveBuffer'[b] = receiveBuffer[size + b]
         /\ LET packet == SubSeq(receiveBuffer, 1, size) IN
              /\ packet \in Seq(Nat) /\ Len(packet) = size
              /\ \A b \in 1 .. size : packet[b] = receiveBuffer[b]
              /\ log' = Append(log, [packet |-> packet, at |-> now, handled |-> isHandled])
         /\ log' \in Seq(Entries(now))
<1>1. /\ receiveBuffer \in Seq(Nat) /\ log \in Seq(Entries(now)) /\ now \in Nat
      /\ Len(receiveBuffer) \in Nat
  BY DEF ReceiveTypeOK, Entries
<1>2. HasHeader /\ size >= HeaderSize /\ Len(receiveBuffer) >= size /\ HeaderSize = 2
  BY DEF MayDispatch, IsComplete, HeaderSize
<1>3. size \in HeaderSize .. Len(receiveBuffer) /\ size \in Nat
  <2>1. receiveBuffer[1] \in Nat
    BY <1>1, <1>2 DEF HasHeader
  <2>2. QED
    BY <1>1, <1>2, <2>1 DEF size
<1>4. \A i \in 1 .. Len(receiveBuffer) : receiveBuffer[i] \in Nat
  BY <1>1
<1> DEFINE packet == SubSeq(receiveBuffer, 1, size)
           behind == SubSeq(receiveBuffer, size + 1, Len(receiveBuffer))
<1>5. /\ packet \in Seq(Nat) /\ Len(packet) = size
      /\ \A b \in 1 .. size : packet[b] = receiveBuffer[b]
  <2>1. \A i \in 1 .. size : receiveBuffer[i] \in Nat
    BY <1>3, <1>4
  <2>2. 1 \in Int /\ size \in Int
    BY <1>3
  <2>3. /\ packet \in Seq(Nat) /\ Len(packet) = IF 1 <= size THEN size - 1 + 1 ELSE 0
        /\ \A b \in 1 .. size - 1 + 1 : packet[b] = receiveBuffer[1 + b - 1]
    BY <2>1, <2>2, SubSeqProperties
  <2> HIDE DEF packet
  <2>4. \A b \in 1 .. size : b \in 1 .. size - 1 + 1 /\ 1 + b - 1 = b
    BY <1>3
  <2>5. QED
    BY <1>2, <1>3, <2>3, <2>4
<1>6. /\ behind \in Seq(Nat) /\ Len(behind) = Len(receiveBuffer) - size
      /\ \A b \in 1 .. Len(receiveBuffer) - size : behind[b] = receiveBuffer[size + b]
  <2>1. \A i \in size + 1 .. Len(receiveBuffer) : receiveBuffer[i] \in Nat
    BY <1>3, <1>4
  <2>2. size + 1 \in Int /\ Len(receiveBuffer) \in Int
    BY <1>1, <1>3
  <2>3. /\ behind \in Seq(Nat)
        /\ Len(behind) = IF size + 1 <= Len(receiveBuffer) THEN Len(receiveBuffer) - (size + 1) + 1 ELSE 0
        /\ \A b \in 1 .. Len(receiveBuffer) - (size + 1) + 1 : behind[b] = receiveBuffer[(size + 1) + b - 1]
    BY <2>1, <2>2, SubSeqProperties
  <2> HIDE DEF behind
  <2>4. \A b \in 1 .. Len(receiveBuffer) - size :
          b \in 1 .. Len(receiveBuffer) - (size + 1) + 1 /\ (size + 1) + b - 1 = size + b
    BY <1>1, <1>3
  <2>5. Len(behind) = Len(receiveBuffer) - size
    BY <1>1, <1>3, <2>3
  <2>6. QED
    BY <2>3, <2>4, <2>5
<1>7. receiveBuffer' = behind /\ log' = Append(log, [packet |-> packet, at |-> now, handled |-> isHandled])
  BY DEF TakeOff, Remove
<1> HIDE DEF packet, behind
<1>8. [packet |-> packet, at |-> now, handled |-> isHandled] \in Entries(now)
  BY <1>1, <1>5 DEF Entries
<1>9. log' \in Seq(Entries(now))
  BY <1>1, <1>7, <1>8
<1>10. QED
  BY <1>1, <1>3, <1>5, <1>6, <1>7, <1>9 DEF packet

LEMMA ReceiveInitTypes == ReceiveInit => ReceiveTypeOK
<1> SUFFICES ASSUME ReceiveInit PROVE ReceiveTypeOK
  OBVIOUS
<1>1. \A S : <<>> \in Seq(S) /\ Len(<<>>) = 0
  BY EmptySeq
<1>2. /\ Chunk \in Nat /\ maxPacketsPerSecond \in Nat \ {0} /\ MaxSent \in Nat /\ MaxTime \in Nat
      /\ packetBlockDuration \in Nat
  BY ReceiveAssumption
<1>3. {incoming, tempBuffer, receiveBuffer} \subseteq Seq(Nat) /\ Len(tempBuffer) <= Chunk
  BY <1>1, <1>2 DEF ReceiveInit
<1>4. timestamps \in Seq(0 .. now) /\ Len(timestamps) < maxPacketsPerSecond
  BY <1>1, <1>2 DEF ReceiveInit
<1>5. clientSent \in Seq(ClientPackets) /\ Len(clientSent) <= MaxSent
  BY <1>1, <1>2 DEF ReceiveInit
<1>6. log \in Seq([packet : Seq(Nat), at : 0 .. now, handled : BOOLEAN])
  BY <1>1 DEF ReceiveInit
<1>7. now \in 0 .. MaxTime /\ blockedUntil \in 0 .. now + packetBlockDuration
  BY <1>2 DEF ReceiveInit
<1>8. QED
  BY <1>3, <1>4, <1>5, <1>6, <1>7 DEF ReceiveInit, ReceiveTypeOK

\* Whatever the client sends and the network cuts, the buffers hold bytes, and the
\* window of timestamps is never full.
LEMMA ReceiveTypesStep == ReceiveTypeOK /\ [ReceiveNext]_receiveVars => ReceiveTypeOK'
<1> SUFFICES ASSUME ReceiveTypeOK, [ReceiveNext]_receiveVars PROVE ReceiveTypeOK'
  OBVIOUS
<1>0. /\ incoming \in Seq(Nat) /\ tempBuffer \in Seq(Nat) /\ receiveBuffer \in Seq(Nat)
      /\ now \in Nat /\ now \in 0 .. MaxTime /\ MaxTime \in Nat
      /\ timestamps \in Seq(0 .. now) /\ log \in Seq(Entries(now))
      /\ blockedUntil \in 0 .. now + packetBlockDuration /\ packetBlockDuration \in Nat
      /\ maxPacketsPerSecond \in Nat \ {0} /\ MaxSent \in Nat
  BY ReceiveAssumption DEF ReceiveTypeOK, Entries
<1>1. ASSUME NEW p \in ClientPackets, ClientSends(p) PROVE ReceiveTypeOK'
  <2>1. p \in Seq(Nat)
    BY ReceiveAssumption
  <2>2. incoming' \in Seq(Nat)
    BY <1>0, <1>1, <2>1 DEF ClientSends
  <2>3. clientSent' \in Seq(ClientPackets) /\ Len(clientSent') <= MaxSent
    BY <1>0, <1>1 DEF ClientSends, ReceiveTypeOK
  <2>4. QED
    BY <1>1, <2>2, <2>3 DEF ClientSends, ReceiveTypeOK, rateVars
<1>2. ASSUME NEW n \in 1 .. Chunk, Arrives(n) PROVE ReceiveTypeOK'
  <2>1. n \in Nat /\ n <= Len(incoming) /\ Len(incoming) \in Nat /\ Chunk \in Nat
    BY <1>0, <1>2, ReceiveAssumption DEF Arrives
  <2>2. tempBuffer' \in Seq(Nat) /\ Len(tempBuffer') <= Chunk
    BY <1>0, <1>2, <2>1 DEF Arrives
  <2>3. incoming' \in Seq(Nat)
    BY <1>0, <1>2, <2>1 DEF Arrives
  <2>4. QED
    BY <1>2, <2>2, <2>3 DEF Arrives, ReceiveTypeOK, rateVars
<1>3. CASE TimePasses
  <2>1. now' = now + 1 /\ now' \in 0 .. MaxTime
    BY <1>0, <1>3 DEF TimePasses
  <2>2. timestamps \in Seq(0 .. now')
    <3>1. 0 .. now \subseteq 0 .. now'
      BY <1>0, <2>1
    <3>2. QED
      BY <1>0, <3>1, SeqMonotonic
  <2>3. log \in Seq(Entries(now'))
    <3>1. Entries(now) \subseteq Entries(now')
      BY <1>0, <2>1 DEF Entries
    <3>2. QED
      BY <1>0, <3>1, SeqMonotonic
  <2>4. blockedUntil \in 0 .. now' + packetBlockDuration
    BY <1>0, <2>1
  <2>5. QED
    BY <1>3, <2>1, <2>2, <2>3, <2>4 DEF TimePasses, ReceiveTypeOK, netVars, rateVars, Entries
<1>4. CASE ReadFails \/ WriteDisconnects \/ NeedMore \/ Refuse
  BY <1>4 DEF ReadFails, WriteDisconnects, NeedMore, Refuse, ReceiveTypeOK, netVars, rateVars
<1>5. CASE ReadDone
  <2>1. receiveBuffer' \in Seq(Nat) /\ tempBuffer' \in Seq(Nat) /\ Len(tempBuffer') <= Chunk
    BY <1>0, <1>5, EmptySeq, ReceiveAssumption DEF ReadDone
  <2>2. QED
    BY <1>5, <2>1 DEF ReadDone, ReceiveTypeOK, rateVars
<1>6. CASE DropBlocked
  <2>1. receiveBuffer' \in Seq(Nat) /\ log' \in Seq(Entries(now))
    BY <1>6, TakeOffFacts DEF DropBlocked
  <2>2. QED
    BY <1>6, <2>1 DEF DropBlocked, ReceiveTypeOK, netVars, rateVars, Entries
<1>7. CASE Block
  <2>1. receiveBuffer' \in Seq(Nat) /\ log' \in Seq(Entries(now))
    BY <1>7, TakeOffFacts DEF Block
  <2>2. timestamps' \in Seq(0 .. now) /\ Len(timestamps') < maxPacketsPerSecond
    BY <1>0, <1>7, EmptySeq DEF Block
  <2>3. blockedUntil' \in 0 .. now + packetBlockDuration
    BY <1>0, <1>7 DEF Block
  <2>4. QED
    BY <1>7, <2>1, <2>2, <2>3 DEF Block, ReceiveTypeOK, netVars, Entries
<1>8. CASE Dispatch
  <2>1. receiveBuffer' \in Seq(Nat) /\ log' \in Seq(Entries(now))
    BY <1>8, TakeOffFacts DEF Dispatch
  <2>2. timestamps' = Recent /\ Recent \in Seq(0 .. now) /\ Len(Recent) \in Nat
    BY <1>0, <1>8, RecentFacts DEF Dispatch
  <2>3. Len(timestamps') < maxPacketsPerSecond
    BY <1>0, <1>8, <2>2 DEF Dispatch, IsTooFast
  <2>4. QED
    BY <1>8, <2>1, <2>2, <2>3 DEF Dispatch, ReceiveTypeOK, netVars, Entries
<1>9. CASE UNCHANGED receiveVars
  BY <1>9 DEF receiveVars, ReceiveTypeOK
<1>10. QED
  BY <1>1, <1>2, <1>3, <1>4, <1>5, <1>6, <1>7, <1>8, <1>9 DEF ReceiveNext, ProcessPackets

\* Receive's variables stay in their types.
THEOREM ReceiveTypes == ReceiveSpec => []ReceiveTypeOK
  BY ReceiveInitTypes, ReceiveTypesStep, PTL DEF ReceiveSpec

-----------------------------------------------------------------------------
(* Counting *)

LEMMA AtMostSoMany ==
  ASSUME NEW n \in Nat, NEW g, NEW S, \A x \in S : \E k \in 1 .. n : g[k] = x
  PROVE  IsFiniteSet(S) /\ Cardinality(S) <= n /\ Cardinality(S) \in Nat
<1> DEFINE h == [k \in 1 .. n |-> g[k]]
           T == {g[k] : k \in 1 .. n}
<1>1. IsFiniteSet(1 .. n) /\ Cardinality(1 .. n) = n
  BY FS_Interval
<1>2. h \in Surjection(1 .. n, T)
  BY DEF Surjection
<1>3. S \in SUBSET T
  OBVIOUS
<1> HIDE DEF h, T
<1>4. IsFiniteSet(T) /\ Cardinality(T) <= n
  BY <1>1, <1>2, FS_Surjection
<1>5. IsFiniteSet(S) /\ Cardinality(S) <= Cardinality(T)
  BY <1>3, <1>4, FS_Subset
<1>6. Cardinality(S) \in Nat /\ Cardinality(T) \in Nat
  BY <1>4, <1>5, FS_CardinalityType
<1>7. QED
  BY <1>4, <1>5, <1>6

LEMMA AtLeastSoMany ==
  ASSUME NEW n \in Nat, NEW S, IsFiniteSet(S), NEW g, \A k \in 1 .. n : g[k] \in S,
         \A k, l \in 1 .. n : g[k] = g[l] => k = l
  PROVE  Cardinality(S) >= n /\ Cardinality(S) \in Nat
<1> DEFINE h == [k \in 1 .. n |-> g[k]]
<1>1. Cardinality(1 .. n) = n
  BY FS_Interval
<1>2. h \in Injection(1 .. n, S)
  BY DEF Injection, IsInjective
<1> HIDE DEF h
<1>3. Cardinality(1 .. n) <= Cardinality(S)
  BY <1>2, FS_Injection
<1>4. Cardinality(S) \in Nat
  BY FS_CardinalityType
<1>5. QED
  BY <1>1, <1>3, <1>4

\* A set of indices is finite.
LEMMA FewIndices ==
  ASSUME NEW n \in Nat, NEW S \in SUBSET (1 .. n), NEW T \in SUBSET S
  PROVE  /\ IsFiniteSet(S) /\ IsFiniteSet(T)
         /\ Cardinality(S) \in Nat /\ Cardinality(T) \in Nat
         /\ Cardinality(T) <= Cardinality(S)
<1>1. IsFiniteSet(1 .. n)
  BY FS_Interval
<1>2. IsFiniteSet(S)
  BY <1>1, FS_Subset
<1>3. IsFiniteSet(T) /\ Cardinality(T) <= Cardinality(S)
  BY <1>2, FS_Subset
<1>4. QED
  BY <1>2, <1>3, FS_CardinalityType

-----------------------------------------------------------------------------
(* The rate of a session *)

\* The timestamps are the times of different entries of the log, and of each
\* handled one that is not too old to count, or from before the end of a block.
Counted(g, times, entries, time, until) ==
  /\ g \in [1 .. Len(times) -> 1 .. Len(entries)]
  /\ \A i, j \in 1 .. Len(times) : g[i] = g[j] => i = j
  /\ \A i \in 1 .. Len(times) : entries[g[i]].at = times[i]
  /\ \A j \in 1 .. Len(entries) : entries[j].handled =>
       \/ \E i \in 1 .. Len(times) : g[i] = j
       \/ entries[j].at + Second <= time
       \/ entries[j].at + Second <= until

InOrder(times) == \A i, j \in 1 .. Len(times) : i <= j => times[i] <= times[j]

HandledLately(entries, time) ==
  {j \in 1 .. Len(entries) : entries[j].handled /\ time - entries[j].at < Second}

LatelyBefore(entries, j) == {k \in 1 .. j : entries[j].at - entries[k].at < Second}

WasFast(entries, j) == Cardinality(LatelyBefore(entries, j)) >= maxPacketsPerSecond

BlockedByFast(entries, until) ==
  \E j \in 1 .. Len(entries) : until = entries[j].at + packetBlockDuration /\ WasFast(entries, j)

RateInv ==
  /\ \E g : Counted(g, timestamps, log, now, blockedUntil)
  /\ InOrder(timestamps)
  /\ Cardinality(HandledLately(log, now)) < maxPacketsPerSecond
  /\ now < blockedUntil => BlockedByFast(log, blockedUntil)
  /\ RateIsLimited
  /\ OnlyFastOnesDropped

\* What an entry that is added to the log has to bring.
LEMMA LogGrows ==
  ASSUME ReceiveTypeOK, RateIsLimited, OnlyFastOnesDropped, NEW entry,
         log' = Append(log, entry), entry.at = now, now' = now,
         Cardinality(HandledLately(log', now)) < maxPacketsPerSecond,
         \/ entry.handled
         \/ \E j \in 1 .. Len(log') :
              /\ j = Len(log') \/ now - log'[j].at < packetBlockDuration
              /\ WasFast(log', j)
  PROVE  RateIsLimited' /\ OnlyFastOnesDropped'
<1> DEFINE n == Len(log)
<1>1. /\ n \in Nat /\ Len(log') = n + 1 /\ log'[n + 1] = entry
      /\ \A j \in 1 .. n : log'[j] = log[j]
      /\ DOMAIN log = 1 .. n /\ DOMAIN log' = 1 .. n + 1
  BY DEF ReceiveTypeOK
<1>2. RateIsLimited'
  <2>1. ASSUME NEW i \in 1 .. n
        PROVE  Cardinality({j \in 1 .. i : log'[j].handled /\ log'[i].at - log'[j].at < Second})
                 < maxPacketsPerSecond
    <3>1. {j \in 1 .. i : log'[j].handled /\ log'[i].at - log'[j].at < Second}
            = {j \in 1 .. i : log[j].handled /\ log[i].at - log[j].at < Second}
      BY <1>1
    <3>2. QED
      BY <1>1, <3>1 DEF RateIsLimited, Within
  <2>2. {j \in 1 .. n + 1 : log'[j].handled /\ log'[n + 1].at - log'[j].at < Second}
          = HandledLately(log', now)
    BY <1>1 DEF HandledLately
  <2>3. ASSUME NEW i \in 1 .. n + 1
        PROVE  Cardinality({j \in 1 .. i : log'[j].handled /\ log'[i].at - log'[j].at < Second})
                 < maxPacketsPerSecond
    <3>1. CASE i = n + 1
      BY <2>2, <3>1
    <3>2. CASE i # n + 1
      BY <1>1, <2>1, <3>2
    <3>3. QED
      BY <3>1, <3>2
  <2>4. QED
    BY <1>1, <2>3 DEF RateIsLimited, Within
<1>3. OnlyFastOnesDropped'
  <2>1. \A i \in 1 .. n : \A j \in 1 .. i :
          {k \in 1 .. j : log'[j].at - log'[k].at < Second} = {k \in 1 .. j : log[j].at - log[k].at < Second}
    BY <1>1
  <2>2. ASSUME NEW i \in 1 .. n
        PROVE  log'[i].handled \/ \E j \in 1 .. i :
                 /\ i = j \/ log'[i].at - log'[j].at < packetBlockDuration
                 /\ Cardinality({k \in 1 .. j : log'[j].at - log'[k].at < Second}) >= maxPacketsPerSecond
    <3>1. log[i].handled \/ \E j \in 1 .. i :
            /\ i = j \/ log[i].at - log[j].at < packetBlockDuration
            /\ Cardinality({k \in 1 .. j : log[j].at - log[k].at < Second}) >= maxPacketsPerSecond
      BY <1>1 DEF OnlyFastOnesDropped, Within
    <3>2. CASE log[i].handled
      BY <1>1, <3>2
    <3>3. CASE ~log[i].handled
      <4>1. PICK j \in 1 .. i :
              /\ i = j \/ log[i].at - log[j].at < packetBlockDuration
              /\ Cardinality({k \in 1 .. j : log[j].at - log[k].at < Second}) >= maxPacketsPerSecond
        BY <3>1, <3>3
      <4>2. log'[i] = log[i] /\ log'[j] = log[j]
        BY <1>1
      <4>3. QED
        BY <2>1, <4>1, <4>2
    <3>4. QED
      BY <3>2, <3>3
  <2>3. log'[n + 1].handled \/ \E j \in 1 .. n + 1 :
          /\ n + 1 = j \/ log'[n + 1].at - log'[j].at < packetBlockDuration
          /\ Cardinality({k \in 1 .. j : log'[j].at - log'[k].at < Second}) >= maxPacketsPerSecond
    BY <1>1 DEF WasFast, LatelyBefore
  <2>4. ASSUME NEW i \in 1 .. n + 1
        PROVE  log'[i].handled \/ \E j \in 1 .. i :
                 /\ i = j \/ log'[i].at - log'[j].at < packetBlockDuration
                 /\ Cardinality({k \in 1 .. j : log'[j].at - log'[k].at < Second}) >= maxPacketsPerSecond
    <3>1. CASE i = n + 1
      BY <2>3, <3>1
    <3>2. CASE i # n + 1
      <4>1. i \in 1 .. n
        BY <1>1, <3>2
      <4>2. QED
        BY <2>2, <4>1
    <3>3. QED
      BY <3>1, <3>2
  <2>5. QED
    BY <1>1, <2>4 DEF OnlyFastOnesDropped, Within
<1>4. QED
  BY <1>2, <1>3

\* The timestamps after the loop and this packet's are young and in order, those
\* of different entries, and of all handled ones of the last second.
LEMMA RecentIsCounted ==
  ASSUME ReceiveTypeOK, NEW g, Counted(g, timestamps, log, now, blockedUntil),
         InOrder(timestamps), now >= blockedUntil,
         NEW entry, entry.at = now, log' = Append(log, entry)
  PROVE  /\ Len(Recent) \in Nat /\ Recent \in Seq(0 .. now) /\ InOrder(Recent)
         /\ \A k \in 1 .. Len(Recent) : now - Recent[k] < Second
         /\ \E f : /\ Counted(f, Recent, log', now, blockedUntil)
                   /\ \A j \in HandledLately(log', now) : \E k \in 1 .. Len(Recent) : f[k] = j
<1> DEFINE n == Len(log)
           old == Popped
           rest == Len(timestamps) - old
           f == [k \in 1 .. rest + 1 |-> IF k <= rest THEN g[old + k] ELSE n + 1]
<1>1. /\ n \in Nat /\ Len(log') = n + 1 /\ log'[n + 1] = entry
      /\ \A j \in 1 .. n : log'[j] = log[j] /\ log[j].at \in 0 .. now
      /\ now \in Nat /\ Second \in Nat \ {0} /\ blockedUntil \in Int
  <2>1. log \in Seq(Entries(now))
    BY DEF ReceiveTypeOK, Entries
  <2>2. n \in Nat /\ Len(log') = n + 1 /\ log'[n + 1] = entry /\ \A j \in 1 .. n : log'[j] = log[j]
    BY <2>1
  <2>3. \A j \in 1 .. n : log[j] \in Entries(now)
    BY <2>1
  <2>4. \A j \in 1 .. n : log[j].at \in 0 .. now
    BY <2>3 DEF Entries
  <2>5. now \in Nat /\ Second \in Nat \ {0} /\ packetBlockDuration \in Nat
    BY ReceiveAssumption DEF ReceiveTypeOK
  <2>6. blockedUntil \in Int
    BY <2>5 DEF ReceiveTypeOK
  <2>7. QED
    BY <2>2, <2>4, <2>5, <2>6
<1>2. /\ old \in 0 .. Len(timestamps) /\ Len(timestamps) \in Nat
      /\ \A k \in 1 .. old : IsOld(timestamps[k])
      /\ old < Len(timestamps) => ~IsOld(timestamps[old + 1])
      /\ timestamps \in Seq(0 .. now)
  BY PoppedFacts DEF ReceiveTypeOK
<1>3. /\ Recent \in Seq(0 .. now)
      /\ Len(Recent) = rest + 1
      /\ \A k \in 1 .. rest : Recent[k] = timestamps[old + k]
      /\ Recent[rest + 1] = now
  <2>1. now \in 0 .. now
    BY <1>1
  <2>2. QED
    BY <1>2, <2>1, RecentFacts
<1>4. /\ g \in [1 .. Len(timestamps) -> 1 .. n]
      /\ \A i, j \in 1 .. Len(timestamps) : g[i] = g[j] => i = j
      /\ \A i \in 1 .. Len(timestamps) : log[g[i]].at = timestamps[i]
      /\ \A j \in 1 .. n : log[j].handled =>
           \/ \E i \in 1 .. Len(timestamps) : g[i] = j
           \/ log[j].at + Second <= now
           \/ log[j].at + Second <= blockedUntil
  BY DEF Counted
<1> HIDE DEF n, old
<1>5. rest \in Nat /\ old \in Nat /\ old + rest = Len(timestamps)
      /\ \A k \in 1 .. rest : old + k \in 1 .. Len(timestamps)
  BY <1>2
<1>6. \A i \in 1 .. Len(timestamps) : timestamps[i] \in 0 .. now
  BY <1>2, ElementOfSeq
<1> HIDE DEF rest
<1>7. \A k \in 1 .. rest + 1 : k \in 1 .. rest \/ k = rest + 1
  BY <1>5
<1>8. InOrder(Recent)
  <2>1. ASSUME NEW i \in 1 .. rest + 1, NEW j \in 1 .. rest + 1, i <= j
        PROVE  Recent[i] <= Recent[j]
    <3>1. CASE i \in 1 .. rest /\ j \in 1 .. rest
      <4>1. old + i \in 1 .. Len(timestamps) /\ old + j \in 1 .. Len(timestamps) /\ old + i <= old + j
        BY <1>5, <2>1, <3>1
      <4>2. timestamps[old + i] <= timestamps[old + j]
        BY <4>1 DEF InOrder
      <4>3. QED
        BY <1>3, <3>1, <4>2
    <3>2. CASE i \in 1 .. rest /\ j = rest + 1
      <4>1. timestamps[old + i] \in 0 .. now
        BY <1>5, <1>6, <3>2
      <4>2. QED
        BY <1>1, <1>3, <3>2, <4>1
    <3>3. CASE i = rest + 1
      <4>1. j = rest + 1
        BY <1>5, <2>1, <3>3
      <4>2. QED
        BY <1>1, <1>3, <3>3, <4>1
    <3>4. QED
      BY <1>7, <3>1, <3>2, <3>3
  <2>2. QED
    BY <1>3, <2>1 DEF InOrder
<1>9. ASSUME NEW k \in 1 .. rest + 1 PROVE now - Recent[k] < Second
  <2>1. CASE k \in 1 .. rest
    <3>1. /\ old < Len(timestamps) /\ old + k \in 1 .. Len(timestamps)
          /\ old + 1 \in 1 .. Len(timestamps) /\ old + 1 <= old + k
      BY <1>5, <2>1
    <3>2. /\ timestamps[old + 1] <= timestamps[old + k]
          /\ timestamps[old + 1] \in 0 .. now /\ timestamps[old + k] \in 0 .. now
      BY <1>6, <3>1 DEF InOrder
    <3>3. now - timestamps[old + 1] < Second
      BY <1>1, <1>2, <3>1, <3>2 DEF IsOld
    <3>4. QED
      BY <1>1, <1>3, <2>1, <3>2, <3>3
  <2>2. CASE k = rest + 1
    BY <1>1, <1>3, <2>2
  <2>3. QED
    BY <1>7, <2>1, <2>2
<1>10. \A k \in 1 .. rest : f[k] = g[old + k] /\ f[k] \in 1 .. n
  BY <1>4, <1>5
<1>11. f[rest + 1] = n + 1
  BY <1>5
<1>12. f \in [1 .. rest + 1 -> 1 .. n + 1]
  <2>1. f = [k \in 1 .. rest + 1 |-> f[k]]
    OBVIOUS
  <2> HIDE DEF f
  <2>2. \A k \in 1 .. rest + 1 : f[k] \in 1 .. n + 1
    BY <1>1, <1>7, <1>10, <1>11
  <2>3. QED
    BY <2>1, <2>2
<1> HIDE DEF f
<1>13. ASSUME NEW i \in 1 .. rest + 1, NEW j \in 1 .. rest + 1, f[i] = f[j] PROVE i = j
  <2>1. CASE i \in 1 .. rest /\ j \in 1 .. rest
    BY <1>4, <1>5, <1>10, <1>13, <2>1
  <2>2. CASE i = rest + 1 /\ j \in 1 .. rest
    BY <1>1, <1>10, <1>11, <1>13, <2>2
  <2>3. CASE j = rest + 1 /\ i \in 1 .. rest
    BY <1>1, <1>10, <1>11, <1>13, <2>3
  <2>4. QED
    BY <1>7, <2>1, <2>2, <2>3
<1>14. ASSUME NEW k \in 1 .. rest + 1 PROVE log'[f[k]].at = Recent[k]
  <2>1. CASE k \in 1 .. rest
    BY <1>1, <1>3, <1>4, <1>5, <1>10, <2>1
  <2>2. CASE k = rest + 1
    BY <1>1, <1>3, <1>11, <2>2
  <2>3. QED
    BY <1>7, <2>1, <2>2
<1>15. ASSUME NEW j \in 1 .. n + 1, log'[j].handled
       PROVE  (\E k \in 1 .. rest + 1 : f[k] = j) \/ log'[j].at + Second <= now
  <2>1. CASE j = n + 1
    <3>1. rest + 1 \in 1 .. rest + 1
      BY <1>5
    <3>2. QED
      BY <1>11, <2>1, <3>1
  <2>2. CASE j # n + 1
    <3>1. j \in 1 .. n /\ log'[j] = log[j]
      BY <1>1, <2>2
    <3>2. CASE log[j].at + Second <= now \/ log[j].at + Second <= blockedUntil
      <4>1. log[j].at \in Int
        BY <1>1, <3>1
      <4>2. QED
        BY <1>1, <3>1, <3>2, <4>1
    <3>3. CASE \E i \in 1 .. Len(timestamps) : g[i] = j
      <4>1. PICK i \in 1 .. Len(timestamps) : g[i] = j
        BY <3>3
      <4>2. CASE i <= old
        <5>1. IsOld(timestamps[i]) /\ log[j].at = timestamps[i] /\ log[j].at \in Int
          BY <1>1, <1>2, <1>4, <1>5, <3>1, <4>1, <4>2
        <5>2. QED
          BY <1>1, <3>1, <5>1 DEF IsOld
      <4>3. CASE ~(i <= old)
        <5>1. i - old \in 1 .. rest /\ old + (i - old) = i
          BY <1>5, <4>3
        <5>2. f[i - old] = j /\ i - old \in 1 .. rest + 1
          BY <1>5, <1>10, <4>1, <5>1
        <5>3. QED
          BY <5>2
      <4>4. QED
        BY <4>2, <4>3
    <3>4. QED
      BY <1>4, <1>15, <3>1, <3>2, <3>3
  <2>3. QED
    BY <2>1, <2>2
<1>16. Counted(f, Recent, log', now, blockedUntil)
  BY <1>1, <1>3, <1>12, <1>13, <1>14, <1>15 DEF Counted
<1>17. ASSUME NEW j \in HandledLately(log', now) PROVE \E k \in 1 .. rest + 1 : f[k] = j
  <2>1. j \in 1 .. n + 1 /\ log'[j].handled /\ now - log'[j].at < Second
    BY <1>1 DEF HandledLately
  <2>2. log'[j].at \in Int
    BY <1>1, <2>1
  <2>3. ~(log'[j].at + Second <= now)
    BY <1>1, <2>1, <2>2
  <2>4. QED
    BY <1>15, <2>1, <2>3
<1>18. QED
  BY <1>3, <1>5, <1>8, <1>9, <1>16, <1>17

LEMMA InitRate == ReceiveInit => RateInv
<1> SUFFICES ASSUME ReceiveInit PROVE RateInv
  OBVIOUS
<1>1. log = <<>> /\ timestamps = <<>> /\ Len(<<>>) = 0 /\ now = 0 /\ blockedUntil = 0 /\ 1 .. 0 = {}
  BY EmptySeq DEF ReceiveInit
<1>2. Counted([i \in 1 .. 0 |-> 1], timestamps, log, now, blockedUntil)
  BY <1>1 DEF Counted
<1>3. HandledLately(log, now) = {}
  BY <1>1 DEF HandledLately
<1>4. Cardinality(HandledLately(log, now)) < maxPacketsPerSecond
  BY <1>3, FS_EmptySet, ReceiveAssumption
<1>5. InOrder(timestamps) /\ ~(now < blockedUntil)
  BY <1>1 DEF InOrder
<1>6. DOMAIN log = {}
  BY <1>1
<1>7. RateIsLimited /\ OnlyFastOnesDropped
  BY <1>6 DEF RateIsLimited, OnlyFastOnesDropped
<1>8. QED
  BY <1>2, <1>4, <1>5, <1>7 DEF RateInv

\* Time makes entries old, never young.
LEMMA QuietRate ==
  ASSUME ReceiveTypeOK, RateInv, UNCHANGED <<timestamps, blockedUntil, log>>,
         now' = now \/ now' = now + 1
  PROVE  RateInv'
<1>1. /\ now \in Nat /\ now' \in Nat /\ now <= now' /\ Len(log) \in Nat
      /\ \A j \in 1 .. Len(log) : log[j].at \in Int
      /\ blockedUntil \in Int /\ Second \in Nat /\ maxPacketsPerSecond \in Nat
  <2>1. log \in Seq(Entries(now)) /\ now \in Nat
    BY ReceiveAssumption DEF ReceiveTypeOK, Entries
  <2>2. \A j \in 1 .. Len(log) : log[j] \in Entries(now)
    BY <2>1
  <2>3. \A j \in 1 .. Len(log) : log[j].at \in Int
    BY <2>1, <2>2 DEF Entries
  <2>4. packetBlockDuration \in Nat /\ Second \in Nat /\ maxPacketsPerSecond \in Nat
    BY ReceiveAssumption
  <2>5. blockedUntil \in Int
    BY <2>1, <2>4 DEF ReceiveTypeOK
  <2>6. QED
    BY <2>1, <2>3, <2>4, <2>5
<1>2. \E g : Counted(g, timestamps, log, now', blockedUntil)
  <2>1. PICK g : Counted(g, timestamps, log, now, blockedUntil)
    BY DEF RateInv
  <2>2. ASSUME NEW j \in 1 .. Len(log), log[j].at + Second <= now PROVE log[j].at + Second <= now'
    BY <1>1, <2>2
  <2>3. Counted(g, timestamps, log, now', blockedUntil)
    BY <2>1, <2>2 DEF Counted
  <2>4. QED
    BY <2>3
<1>3. Cardinality(HandledLately(log, now')) < maxPacketsPerSecond
  <2>1. HandledLately(log, now) \in SUBSET (1 .. Len(log))
    BY DEF HandledLately
  <2>2. HandledLately(log, now') \in SUBSET HandledLately(log, now)
    BY <1>1 DEF HandledLately
  <2>3. /\ Cardinality(HandledLately(log, now')) <= Cardinality(HandledLately(log, now))
        /\ Cardinality(HandledLately(log, now')) \in Nat /\ Cardinality(HandledLately(log, now)) \in Nat
    BY <1>1, <2>1, <2>2, FewIndices
  <2>4. QED
    BY <1>1, <2>3 DEF RateInv
<1>4. now' < blockedUntil => BlockedByFast(log, blockedUntil)
  BY <1>1 DEF RateInv
<1>5. RateIsLimited' /\ OnlyFastOnesDropped'
  BY DEF RateInv, RateIsLimited, OnlyFastOnesDropped, Within
<1>6. InOrder(timestamps')
  BY DEF RateInv
<1>7. QED
  BY <1>2, <1>3, <1>4, <1>5, <1>6 DEF RateInv

\* What an entry that was not handled leaves as it was.
LEMMA DropFacts ==
  ASSUME ReceiveTypeOK, NEW entry, log' = Append(log, entry), ~entry.handled
  PROVE  /\ HandledLately(log', now) = HandledLately(log, now)
         /\ \A j \in 1 .. Len(log) : WasFast(log', j) <=> WasFast(log, j)
<1>1. /\ Len(log) \in Nat /\ Len(log') = Len(log) + 1 /\ log'[Len(log) + 1] = entry
      /\ \A j \in 1 .. Len(log) : log'[j] = log[j]
  BY DEF ReceiveTypeOK
<1>2. HandledLately(log', now) = HandledLately(log, now)
  <2>1. \A j \in 1 .. Len(log') : j \in 1 .. Len(log) \/ j = Len(log) + 1
    BY <1>1
  <2>2. \A j \in 1 .. Len(log) : j \in 1 .. Len(log')
    BY <1>1
  <2>3. QED
    BY <1>1, <2>1, <2>2 DEF HandledLately
<1>3. ASSUME NEW j \in 1 .. Len(log) PROVE LatelyBefore(log', j) = LatelyBefore(log, j)
  BY <1>1 DEF LatelyBefore
<1>4. QED
  BY <1>2, <1>3 DEF WasFast

LEMMA DropBlockedRate == ASSUME ReceiveTypeOK, RateInv, DropBlocked PROVE RateInv'
<1> DEFINE entry == [packet |-> SubSeq(receiveBuffer, 1, size), at |-> now, handled |-> FALSE]
           n == Len(log)
<1>1. /\ now < blockedUntil /\ log' = Append(log, entry) /\ UNCHANGED <<timestamps, blockedUntil, now>>
      /\ entry.at = now /\ ~entry.handled
  BY DEF DropBlocked, TakeOff, rateVars
<1> HIDE DEF entry
<1>2. /\ n \in Nat /\ Len(log') = n + 1 /\ log'[n + 1] = entry
      /\ \A j \in 1 .. n : log'[j] = log[j]
      /\ \A j \in 1 .. n : j \in 1 .. n + 1
  BY <1>1 DEF ReceiveTypeOK
<1>3. /\ HandledLately(log', now) = HandledLately(log, now)
      /\ \A j \in 1 .. n : WasFast(log', j) <=> WasFast(log, j)
  BY <1>1, DropFacts
<1>4. Cardinality(HandledLately(log', now)) < maxPacketsPerSecond
  BY <1>3 DEF RateInv
<1>5. PICK j \in 1 .. n : blockedUntil = log[j].at + packetBlockDuration /\ WasFast(log, j)
  BY <1>1 DEF RateInv, BlockedByFast
<1>6. now - log[j].at < packetBlockDuration
  <2>1. log \in Seq(Entries(now)) /\ now \in Nat /\ packetBlockDuration \in Nat
    BY ReceiveAssumption DEF ReceiveTypeOK, Entries
  <2>2. log[j] \in Entries(now)
    BY <2>1
  <2>3. log[j].at \in Int
    BY <2>1, <2>2 DEF Entries
  <2>4. QED
    BY <1>1, <1>5, <2>1, <2>3
<1>7. BlockedByFast(log', blockedUntil)
  BY <1>2, <1>3, <1>5 DEF BlockedByFast
<1>8. RateIsLimited' /\ OnlyFastOnesDropped'
  <2>1. RateIsLimited /\ OnlyFastOnesDropped
    BY DEF RateInv
  <2>2. j \in 1 .. Len(log') /\ now - log'[j].at < packetBlockDuration /\ WasFast(log', j)
    BY <1>2, <1>3, <1>5, <1>6
  <2>3. QED
    BY <1>1, <1>4, <2>1, <2>2, LogGrows
<1>9. \E g : Counted(g, timestamps, log', now, blockedUntil)
  <2>1. PICK g : Counted(g, timestamps, log, now, blockedUntil)
    BY DEF RateInv
  <2>2. g \in [1 .. Len(timestamps) -> 1 .. n + 1]
    BY <1>2, <2>1 DEF Counted
  <2>3. \A i \in 1 .. Len(timestamps) : log'[g[i]].at = timestamps[i]
    BY <1>2, <2>1 DEF Counted
  <2>4. \A i \in 1 .. n + 1 : log'[i].handled => i \in 1 .. n
    BY <1>1, <1>2
  <2>5. Counted(g, timestamps, log', now, blockedUntil)
    BY <1>2, <2>1, <2>2, <2>3, <2>4 DEF Counted
  <2>6. QED
    BY <2>5
<1>10. InOrder(timestamps)
  BY DEF RateInv
<1>11. QED
  BY <1>1, <1>4, <1>7, <1>8, <1>9, <1>10 DEF RateInv

\* Times of the log and of the session are numbers.
LEMMA TimesAreNumbers ==
  ASSUME ReceiveTypeOK
  PROVE  /\ now \in Nat /\ Second \in Nat \ {0} /\ packetBlockDuration \in Nat
         /\ packetBlockDuration >= Second /\ maxPacketsPerSecond \in Nat \ {0}
         /\ blockedUntil \in Int /\ Len(log) \in Nat
         /\ \A j \in 1 .. Len(log) : log[j].at \in 0 .. now
<1>1. log \in Seq(Entries(now)) /\ now \in Nat
  BY ReceiveAssumption DEF ReceiveTypeOK, Entries
<1>2. \A j \in 1 .. Len(log) : log[j] \in Entries(now)
  BY <1>1
<1>3. \A j \in 1 .. Len(log) : log[j].at \in 0 .. now
  BY <1>2 DEF Entries
<1>4. /\ Second \in Nat \ {0} /\ packetBlockDuration \in Nat
      /\ packetBlockDuration >= Second /\ maxPacketsPerSecond \in Nat \ {0}
  BY ReceiveAssumption
<1>5. blockedUntil \in Int
  BY <1>1, <1>4 DEF ReceiveTypeOK
<1>6. QED
  BY <1>1, <1>3, <1>4, <1>5

\* The packet that is one too many: with those of the timestamps there were enough
\* in its last second, and all that were handled are old when the block ends.
LEMMA BlockRate == ASSUME ReceiveTypeOK, RateInv, Block PROVE RateInv'
<1> DEFINE entry == [packet |-> SubSeq(receiveBuffer, 1, size), at |-> now, handled |-> FALSE]
           n == Len(log)
<1>1. /\ now >= blockedUntil /\ IsTooFast
      /\ log' = Append(log, entry) /\ now' = now
      /\ timestamps' = <<>> /\ blockedUntil' = now + packetBlockDuration
      /\ entry.at = now /\ ~entry.handled
  BY DEF Block, TakeOff
<1> HIDE DEF entry
<1>2. /\ n \in Nat /\ Len(log') = n + 1 /\ log'[n + 1] = entry
      /\ \A j \in 1 .. n : log'[j] = log[j]
      /\ n + 1 \in 1 .. n + 1
  BY <1>1 DEF ReceiveTypeOK
<1>3. /\ now \in Nat /\ Second \in Nat \ {0} /\ packetBlockDuration \in Nat
      /\ packetBlockDuration >= Second /\ maxPacketsPerSecond \in Nat \ {0}
      /\ \A j \in 1 .. n : log[j].at \in 0 .. now
  BY TimesAreNumbers
<1>4. PICK g : Counted(g, timestamps, log, now, blockedUntil)
  BY DEF RateInv
<1>5. InOrder(timestamps)
  BY DEF RateInv
<1>6. /\ Len(Recent) \in Nat
      /\ \A k \in 1 .. Len(Recent) : now - Recent[k] < Second
      /\ \E f : Counted(f, Recent, log', now, blockedUntil)
  BY <1>1, <1>4, <1>5, RecentIsCounted
<1>7. PICK f : Counted(f, Recent, log', now, blockedUntil)
  BY <1>6
<1>8. WasFast(log', n + 1)
  <2> DEFINE S == LatelyBefore(log', n + 1)
  <2>1. S \in SUBSET (1 .. n + 1)
    BY DEF LatelyBefore
  <2>2. IsFiniteSet(S)
    <3>1. n + 1 \in Nat /\ {} \in SUBSET S
      BY <1>2
    <3> HIDE DEF S
    <3>2. QED
      BY <2>1, <3>1, FewIndices
  <2>3. ASSUME NEW k \in 1 .. Len(Recent) PROVE f[k] \in S
    <3>1. f[k] \in 1 .. n + 1 /\ log'[f[k]].at = Recent[k]
      BY <1>2, <1>7 DEF Counted
    <3>2. log'[n + 1].at - log'[f[k]].at < Second
      BY <1>1, <1>2, <1>6, <3>1
    <3>3. QED
      BY <3>1, <3>2 DEF LatelyBefore
  <2>4. \A k, l \in 1 .. Len(Recent) : f[k] = f[l] => k = l
    BY <1>7 DEF Counted
  <2> HIDE DEF S
  <2>5. Cardinality(S) >= Len(Recent) /\ Cardinality(S) \in Nat
    BY <1>6, <2>2, <2>3, <2>4, AtLeastSoMany
  <2>6. Cardinality(S) >= maxPacketsPerSecond
    BY <1>1, <1>3, <1>6, <2>5 DEF IsTooFast
  <2>7. QED
    BY <2>6 DEF WasFast, S
<1>9. Cardinality(HandledLately(log', now)) < maxPacketsPerSecond
  BY <1>1, DropFacts DEF RateInv
<1>10. RateIsLimited' /\ OnlyFastOnesDropped'
  <2>1. RateIsLimited /\ OnlyFastOnesDropped
    BY DEF RateInv
  <2>2. n + 1 \in 1 .. Len(log') /\ n + 1 = Len(log')
    BY <1>2
  <2>3. QED
    BY <1>1, <1>8, <1>9, <2>1, <2>2, LogGrows
<1>11. BlockedByFast(log', blockedUntil')
  BY <1>1, <1>2, <1>8 DEF BlockedByFast
<1>12. Counted([i \in 1 .. 0 |-> 1], <<>>, log', now, blockedUntil')
  <2>1. Len(<<>>) = 0 /\ 1 .. 0 = {}
    BY EmptySeq
  <2>2. ASSUME NEW j \in 1 .. n + 1, log'[j].handled PROVE log'[j].at + Second <= blockedUntil'
    <3>1. j \in 1 .. n /\ log'[j] = log[j]
      BY <1>1, <1>2, <2>2
    <3>2. QED
      BY <1>1, <1>3, <3>1
  <2>3. QED
    BY <1>2, <2>1, <2>2 DEF Counted
<1>13. InOrder(<<>>)
  BY EmptySeq DEF InOrder
<1>14. QED
  BY <1>1, <1>9, <1>10, <1>11, <1>12, <1>13 DEF RateInv

\* The packet that is handled: all that were handled in its last second have a
\* timestamp, with its own, and these are fewer than the limit.
LEMMA DispatchRate == ASSUME ReceiveTypeOK, RateInv, Dispatch PROVE RateInv'
<1> DEFINE entry == [packet |-> SubSeq(receiveBuffer, 1, size), at |-> now, handled |-> TRUE]
<1>1. /\ now >= blockedUntil /\ ~IsTooFast
      /\ log' = Append(log, entry) /\ UNCHANGED <<now, blockedUntil>>
      /\ timestamps' = Recent
      /\ entry.at = now /\ entry.handled
  BY DEF Dispatch, TakeOff
<1> HIDE DEF entry
<1>2. now \in Nat /\ maxPacketsPerSecond \in Nat /\ blockedUntil \in Int
  BY TimesAreNumbers
<1>3. PICK g : Counted(g, timestamps, log, now, blockedUntil)
  BY DEF RateInv
<1>4. InOrder(timestamps)
  BY DEF RateInv
<1>5. /\ Len(Recent) \in Nat /\ InOrder(Recent)
      /\ \E f : /\ Counted(f, Recent, log', now, blockedUntil)
                /\ \A j \in HandledLately(log', now) : \E k \in 1 .. Len(Recent) : f[k] = j
  BY <1>1, <1>3, <1>4, RecentIsCounted
<1>6. PICK f : /\ Counted(f, Recent, log', now, blockedUntil)
               /\ \A j \in HandledLately(log', now) : \E k \in 1 .. Len(Recent) : f[k] = j
  BY <1>5
<1>7. Cardinality(HandledLately(log', now)) < maxPacketsPerSecond
  <2>1. /\ Cardinality(HandledLately(log', now)) <= Len(Recent)
        /\ Cardinality(HandledLately(log', now)) \in Nat
    <3> DEFINE S == HandledLately(log', now)
    <3>1. \A x \in S : \E k \in 1 .. Len(Recent) : f[k] = x
      BY <1>6
    <3>2. Len(Recent) \in Nat
      BY <1>5
    <3> HIDE DEF S
    <3>3. Cardinality(S) <= Len(Recent) /\ Cardinality(S) \in Nat
      BY ONLY <3>1, <3>2, AtMostSoMany
    <3>4. QED
      BY <3>3 DEF S
  <2>2. QED
    BY <1>1, <1>2, <1>5, <2>1 DEF IsTooFast
<1>8. RateIsLimited' /\ OnlyFastOnesDropped'
  <2>1. RateIsLimited /\ OnlyFastOnesDropped
    BY DEF RateInv
  <2>2. QED
    BY <1>1, <1>7, <2>1, LogGrows
<1>9. ~(now < blockedUntil)
  BY <1>1, <1>2
<1>10. QED
  BY <1>1, <1>5, <1>6, <1>7, <1>8, <1>9 DEF RateInv

LEMMA StepRate == ReceiveTypeOK /\ RateInv /\ [ReceiveNext]_receiveVars => RateInv'
<1> SUFFICES ASSUME ReceiveTypeOK, RateInv, [ReceiveNext]_receiveVars PROVE RateInv'
  OBVIOUS
<1>1. CASE DropBlocked
  BY <1>1, DropBlockedRate
<1>2. CASE Block
  BY <1>2, BlockRate
<1>3. CASE Dispatch
  BY <1>3, DispatchRate
<1>4. CASE TimePasses
  BY <1>4, QuietRate DEF TimePasses, rateVars
<1>5. CASE ReadFails \/ WriteDisconnects \/ ReadDone \/ NeedMore \/ Refuse \/ UNCHANGED receiveVars
  BY <1>5, QuietRate
  DEF ReadFails, WriteDisconnects, ReadDone, NeedMore, Refuse, receiveVars, rateVars
<1>6. ASSUME NEW p \in ClientPackets, ClientSends(p) PROVE RateInv'
  BY <1>6, QuietRate DEF ClientSends, rateVars
<1>7. ASSUME NEW n \in 1 .. Chunk, Arrives(n) PROVE RateInv'
  BY <1>7, QuietRate DEF Arrives, rateVars
<1>8. QED
  BY <1>1, <1>2, <1>3, <1>4, <1>5, <1>6, <1>7 DEF ReceiveNext, ProcessPackets

LEMMA ReceiveRateInv == ReceiveSpec => []RateInv
  BY InitRate, StepRate, ReceiveTypes, PTL DEF ReceiveSpec

\* ProcessPackets lets fewer than maxPacketsPerSecond packets through in any second,
\* although a block forgets the timestamps it was based on.
THEOREM ReceiveRateIsLimited == ReceiveSpec => []RateIsLimited
<1>1. RateInv => RateIsLimited
  BY DEF RateInv
<1>2. QED
  BY <1>1, ReceiveRateInv, PTL

\* ProcessPackets drops no packet of a client that was slow: there was a second
\* with too many, not longer ago than a block lasts.
THEOREM ReceiveOnlyFastOnesDropped == ReceiveSpec => []OnlyFastOnesDropped
<1>1. RateInv => OnlyFastOnesDropped
  BY DEF RateInv
<1>2. QED
  BY <1>1, ReceiveRateInv, PTL

-----------------------------------------------------------------------------
(* The stream and its packets *)

\* All bytes that have not been dealt with.
Stream == (receiveBuffer \o tempBuffer) \o incoming

\* Packet i of those sent is the bytes behind at[i - 1] up to at[i] of all bytes, and
\* stream is what follows the first taken packets.
Framing(at, packets, taken, stream) ==
  /\ at \in [0 .. Len(packets) -> Nat]
  /\ \A i \in 1 .. Len(packets) : at[i] = at[i - 1] + Len(packets[i])
  /\ \A i, j \in 0 .. Len(packets) : i <= j => at[i] <= at[j]
  /\ taken \in 0 .. Len(packets)
  /\ Len(stream) = at[Len(packets)] - at[taken]
  /\ \A i \in taken + 1 .. Len(packets) : \A b \in 1 .. Len(packets[i]) :
       stream[at[i - 1] - at[taken] + b] = packets[i][b]

StreamInv ==
  /\ \E at : Framing(at, clientSent, Len(log), Stream)
  /\ \A i \in 1 .. Len(log) : log[i].packet = clientSent[i]

LEMMA StreamIsBytes ==
  ASSUME NEW a \in Seq(Nat), NEW b \in Seq(Nat), NEW c \in Seq(Nat)
  PROVE  /\ (a \o b) \o c \in Seq(Nat)
         /\ Len(a) \in Nat /\ Len(b) \in Nat /\ Len(c) \in Nat
         /\ Len((a \o b) \o c) = Len(a) + Len(b) + Len(c)
         /\ \A i \in 1 .. Len(a) : ((a \o b) \o c)[i] = a[i]
<1>1. /\ a \o b \in Seq(Nat) /\ Len(a \o b) = Len(a) + Len(b)
      /\ \A i \in 1 .. Len(a) + Len(b) : (a \o b)[i] = IF i <= Len(a) THEN a[i] ELSE b[i - Len(a)]
  BY ConcatProperties
<1>2. /\ (a \o b) \o c \in Seq(Nat) /\ Len((a \o b) \o c) = Len(a \o b) + Len(c)
      /\ \A i \in 1 .. Len(a \o b) + Len(c) :
           ((a \o b) \o c)[i] = IF i <= Len(a \o b) THEN (a \o b)[i] ELSE c[i - Len(a \o b)]
  BY <1>1, ConcatProperties
<1>3. Len(a) \in Nat /\ Len(b) \in Nat /\ Len(c) \in Nat
  BY LenProperties
<1>4. QED
  BY <1>1, <1>2, <1>3

\* Bytes that are removed from the buffer are removed from the stream.
LEMMA StreamMoves ==
  ASSUME receiveBuffer \in Seq(Nat), tempBuffer \in Seq(Nat), incoming \in Seq(Nat),
         NEW n \in 0 .. Len(receiveBuffer), receiveBuffer' \in Seq(Nat),
         Len(receiveBuffer') = Len(receiveBuffer) - n,
         \A i \in 1 .. Len(receiveBuffer') : receiveBuffer'[i] = receiveBuffer[n + i],
         UNCHANGED <<tempBuffer, incoming>>
  PROVE  /\ Len(Stream') = Len(Stream) - n
         /\ \A i \in 1 .. Len(Stream') : Stream'[i] = Stream[n + i]
<1>1. PICK a \in Seq(Nat) : a = receiveBuffer
  OBVIOUS
<1>2. PICK b \in Seq(Nat) : b = tempBuffer
  OBVIOUS
<1>3. PICK c \in Seq(Nat) : c = incoming
  OBVIOUS
<1>4. PICK d \in Seq(Nat) : d = receiveBuffer'
  OBVIOUS
<1>5. PICK x \in Nat : x = Len(a)
  BY LenProperties
<1>6. PICK y \in Nat : y = Len(b)
  BY LenProperties
<1>7. PICK z \in Nat : z = Len(c)
  BY LenProperties
<1>8. PICK w \in Nat : w = Len(d)
  BY LenProperties
<1>9. PICK m \in Nat : m = n /\ x = w + m /\ \A i \in 1 .. w : d[i] = a[m + i]
  <2>1. n \in Nat /\ n <= Len(receiveBuffer)
    OBVIOUS
  <2>2. PICK m \in Nat : m = n
    BY <2>1
  <2>3. x = w + m
    BY <1>1, <1>4, <1>5, <1>8, <2>2
  <2>4. \A i \in 1 .. w : d[i] = a[m + i]
    BY ONLY <1>1, <1>4, <1>8, <2>2, \A i \in 1 .. Len(receiveBuffer') : receiveBuffer'[i] = receiveBuffer[n + i]
  <2>5. QED
    BY <2>2, <2>3, <2>4
<1>10. Stream = (a \o b) \o c /\ Stream' = (d \o b) \o c
  BY <1>1, <1>2, <1>3, <1>4 DEF Stream
<1>11. /\ a \o b \in Seq(Nat) /\ Len(a \o b) = x + y
       /\ \A i \in 1 .. x + y : (a \o b)[i] = IF i <= x THEN a[i] ELSE b[i - x]
  BY ONLY a \in Seq(Nat), b \in Seq(Nat), <1>5, <1>6, ConcatProperties
<1>12. /\ d \o b \in Seq(Nat) /\ Len(d \o b) = w + y
       /\ \A i \in 1 .. w + y : (d \o b)[i] = IF i <= w THEN d[i] ELSE b[i - w]
  BY ONLY d \in Seq(Nat), b \in Seq(Nat), <1>6, <1>8, ConcatProperties
<1>13. PICK v \in Nat : v = x + y
  OBVIOUS
<1>14. PICK u \in Nat : u = w + y
  OBVIOUS
<1>15. PICK e \in Seq(Nat) : e = a \o b
  BY <1>11
<1>16. PICK f \in Seq(Nat) : f = d \o b
  BY <1>12
<1>17. /\ Len(Stream) = v + z
       /\ \A i \in 1 .. v + z : Stream[i] = IF i <= v THEN (a \o b)[i] ELSE c[i - v]
  <2>1. Len(e) = v /\ Stream = e \o c
    BY <1>10, <1>11, <1>13, <1>15
  <2>2. Len(Stream) = v + z /\ \A i \in 1 .. v + z : Stream[i] = IF i <= v THEN e[i] ELSE c[i - v]
    BY ONLY <1>7, <2>1, e \in Seq(Nat), c \in Seq(Nat), ConcatProperties
  <2>3. QED
    BY ONLY <1>15, <2>2
<1>18. /\ Len(Stream') = u + z
       /\ \A i \in 1 .. u + z : Stream'[i] = IF i <= u THEN (d \o b)[i] ELSE c[i - u]
  <2>1. Len(f) = u /\ Stream' = f \o c
    BY <1>10, <1>12, <1>14, <1>16
  <2>2. Len(Stream') = u + z /\ \A i \in 1 .. u + z : Stream'[i] = IF i <= u THEN f[i] ELSE c[i - u]
    BY ONLY <1>7, <2>1, f \in Seq(Nat), c \in Seq(Nat), ConcatProperties
  <2>3. QED
    BY ONLY <1>16, <2>2
<1>19. x \in Nat /\ y \in Nat /\ z \in Nat /\ w \in Nat /\ m \in Nat /\ u \in Nat /\ v \in Nat
  OBVIOUS
<1>20. Len(Stream') = Len(Stream) - m
  BY <1>9, <1>13, <1>14, <1>17, <1>18
<1>21. ASSUME NEW i \in 1 .. u + z PROVE Stream'[i] = Stream[m + i]
  <2>9. x = w + m /\ v = x + y /\ u = w + y
    BY ONLY <1>9, <1>13, <1>14
  <2>1. i \in Int /\ 1 <= i /\ i <= u + z /\ m + i \in 1 .. v + z
    BY ONLY <1>19, <2>9, i \in 1 .. u + z
  <2>2. CASE i <= w
    <3>1. i \in 1 .. w /\ i \in 1 .. u /\ i <= u /\ m + i \in 1 .. v /\ m + i <= x /\ m + i <= v
      BY ONLY <1>19, <2>9, <2>1, <2>2
    <3>2. Stream'[i] = (d \o b)[i] /\ Stream[m + i] = (a \o b)[m + i]
      BY <1>17, <1>18, <2>1, <3>1
    <3>3. (d \o b)[i] = d[i] /\ (a \o b)[m + i] = a[m + i]
      BY <1>11, <1>12, <1>13, <1>14, <2>2, <3>1
    <3>4. QED
      BY <1>9, <3>1, <3>2, <3>3
  <2>3. CASE w < i /\ i <= u
    <3>1. i \in 1 .. u /\ m + i \in 1 .. v /\ ~(m + i <= x) /\ m + i <= v /\ m + i - x = i - w
      BY ONLY <1>19, <2>9, <2>1, <2>3
    <3>2. Stream'[i] = (d \o b)[i] /\ Stream[m + i] = (a \o b)[m + i]
      BY <1>17, <1>18, <2>1, <2>3, <3>1
    <3>3. (d \o b)[i] = b[i - w] /\ (a \o b)[m + i] = b[m + i - x]
      <4>1. i \in 1 .. w + y /\ ~(i <= w) /\ m + i \in 1 .. x + y
        BY ONLY <1>19, <2>3, <2>9, <3>1
      <4>2. (d \o b)[i] = b[i - w]
        BY ONLY <1>12, <4>1
      <4>3. PICK j \in 1 .. x + y : j = m + i
        BY ONLY <4>1
      <4>4. ~(j <= x)
        BY ONLY <3>1, <4>3
      <4>5. (a \o b)[j] = b[j - x]
        BY ONLY <1>11, <4>4, j \in 1 .. x + y
      <4>6. (a \o b)[m + i] = (a \o b)[j] /\ b[m + i - x] = b[j - x]
        BY ONLY <4>3
      <4>7. (a \o b)[m + i] = b[m + i - x]
        BY ONLY <4>5, <4>6, Zenon
      <4>8. QED
        BY ONLY <4>2, <4>7, Zenon
    <3>4. QED
      BY <3>1, <3>2, <3>3
  <2>4. CASE u < i
    <3>1. ~(m + i <= v) /\ ~(i <= u) /\ m + i - v = i - u
      BY ONLY <1>19, <2>9, <2>1, <2>4
    <3>2. Stream'[i] = c[i - u] /\ Stream[m + i] = c[m + i - v]
      BY ONLY <1>17, <1>18, <2>1, <3>1, i \in 1 .. u + z
    <3>3. QED
      BY <3>1, <3>2
  <2>5. i <= w \/ (w < i /\ i <= u) \/ u < i
    BY ONLY <1>19, <2>1
  <2>6. QED
    BY ONLY <2>2, <2>3, <2>4, <2>5
<1>22. ASSUME NEW i \in 1 .. Len(Stream') PROVE Stream'[i] = Stream[m + i]
  <2>1. i \in 1 .. u + z
    BY ONLY <1>18, i \in 1 .. Len(Stream')
  <2>2. QED
    BY ONLY <1>21, <2>1
<1>23. QED
  BY ONLY <1>9, <1>20, <1>22

LEMMA InitStream == ReceiveInit => StreamInv
<1> SUFFICES ASSUME ReceiveInit PROVE StreamInv
  OBVIOUS
<1> DEFINE at == [i \in 0 .. 0 |-> 0]
<1>1. /\ Len(clientSent) = 0 /\ Len(log) = 0 /\ 1 .. 0 = {} /\ 0 .. 0 = {0}
      /\ receiveBuffer = <<>> /\ tempBuffer = <<>> /\ incoming = <<>>
  BY EmptySeq DEF ReceiveInit
<1>2. Len(Stream) = 0
  <2>1. <<>> \in Seq(Nat) /\ Len(<<>>) = 0
    BY EmptySeq
  <2>2. Len((<<>> \o <<>>) \o <<>>) = Len(<<>>) + Len(<<>>) + Len(<<>>)
    BY <2>1, StreamIsBytes
  <2>3. QED
    BY <1>1, <2>1, <2>2 DEF Stream
<1>3. Framing(at, clientSent, Len(log), Stream)
  BY <1>1, <1>2 DEF Framing
<1>4. QED
  BY <1>1, <1>3 DEF StreamInv

\* Nothing is added or taken off, though it may move on.
LEMMA QuietStream ==
  ASSUME StreamInv, UNCHANGED <<clientSent, log>>, Stream' = Stream
  PROVE  StreamInv'
  BY DEF StreamInv

\* A packet goes behind all others.
LEMMA SendsStream ==
  ASSUME ReceiveTypeOK, StreamInv, NEW p \in ClientPackets, ClientSends(p)
  PROVE  StreamInv'
<1> DEFINE n == Len(clientSent)
<1>1. /\ clientSent' = Append(clientSent, p) /\ UNCHANGED log
      /\ receiveBuffer' = receiveBuffer /\ tempBuffer' = tempBuffer /\ incoming' = incoming \o p
  BY DEF ClientSends
<1>2. p \in Seq(Nat) /\ Len(p) \in Nat
  BY ReceiveAssumption
<1>3. /\ n \in Nat /\ Len(clientSent') = n + 1 /\ clientSent'[n + 1] = p
      /\ \A i \in 1 .. n : clientSent'[i] = clientSent[i]
  BY <1>1 DEF ReceiveTypeOK
<1>4. receiveBuffer \in Seq(Nat) /\ tempBuffer \in Seq(Nat) /\ incoming \in Seq(Nat)
  BY DEF ReceiveTypeOK
<1>5. /\ Stream \in Seq(Nat) /\ Stream' = Stream \o p
      /\ Len(Stream) \in Nat /\ Len(Stream') = Len(Stream) + Len(p)
      /\ \A b \in 1 .. Len(Stream) : Stream'[b] = Stream[b]
      /\ \A b \in 1 .. Len(p) : Stream'[Len(Stream) + b] = p[b]
  <2> DEFINE front == receiveBuffer \o tempBuffer
  <2>1. front \in Seq(Nat)
    BY <1>4, ConcatProperties
  <2>2. Stream \in Seq(Nat)
    BY <1>4, StreamIsBytes DEF Stream
  <2>3. Stream = front \o incoming /\ Stream' = front \o (incoming \o p)
    BY <1>1 DEF Stream
  <2> HIDE DEF front
  <2>4. Stream' = Stream \o p
    <3>1. incoming \in Seq(Nat) /\ p \in Seq(Nat)
      BY <1>2, <1>4
    <3>2. (front \o incoming) \o p = front \o (incoming \o p)
      BY ONLY <2>1, <3>1, ConcatAssociative
    <3>3. QED
      BY ONLY <2>3, <3>2
  <2>5. /\ Len(Stream \o p) = Len(Stream) + Len(p)
        /\ \A b \in 1 .. Len(Stream) + Len(p) :
             (Stream \o p)[b] = IF b <= Len(Stream) THEN Stream[b] ELSE p[b - Len(Stream)]
    BY <1>2, <2>2, ConcatProperties
  <2>6. Len(Stream) \in Nat
    BY <2>2, LenProperties
  <2>7. QED
    BY <1>2, <2>2, <2>4, <2>5, <2>6
<1>6. PICK at : Framing(at, clientSent, Len(log), Stream)
  BY DEF StreamInv
<1>7. /\ at \in [0 .. n -> Nat] /\ Len(log) \in 0 .. n
      /\ \A i \in 1 .. n : at[i] = at[i - 1] + Len(clientSent[i])
      /\ \A i, j \in 0 .. n : i <= j => at[i] <= at[j]
      /\ Len(Stream) = at[n] - at[Len(log)]
      /\ \A i \in Len(log) + 1 .. n : \A b \in 1 .. Len(clientSent[i]) :
           Stream[at[i - 1] - at[Len(log)] + b] = clientSent[i][b]
  BY <1>6 DEF Framing
<1> DEFINE new == [i \in 0 .. n + 1 |-> IF i <= n THEN at[i] ELSE at[n] + Len(p)]
<1> HIDE DEF n
<1>8. /\ new \in [0 .. n + 1 -> Nat] /\ new[n + 1] = at[n] + Len(p) /\ at[n] \in Nat
      /\ \A i \in 0 .. n : new[i] = at[i] /\ at[i] \in Nat
  BY <1>2, <1>3, <1>7
<1> HIDE DEF new
<1>9. \A i \in 0 .. n + 1 : i \in 0 .. n \/ i = n + 1
  BY <1>3
<1>10. ASSUME NEW i \in 1 .. n + 1 PROVE new[i] = new[i - 1] + Len(clientSent'[i])
  <2>1. CASE i = n + 1
    <3>1. i - 1 = n /\ n \in 0 .. n
      BY <1>3, <2>1
    <3>2. QED
      BY <1>3, <1>8, <2>1, <3>1
  <2>2. CASE i # n + 1
    <3>1. i \in 1 .. n /\ i - 1 \in 0 .. n /\ i \in 0 .. n
      BY <1>3, <2>2
    <3>2. QED
      BY <1>3, <1>7, <1>8, <3>1
  <2>3. QED
    BY <2>1, <2>2
<1>11. ASSUME NEW i \in 0 .. n + 1, NEW j \in 0 .. n + 1, i <= j PROVE new[i] <= new[j]
  <2>1. CASE i \in 0 .. n /\ j \in 0 .. n
    BY <1>7, <1>8, <1>11, <2>1
  <2>2. CASE i \in 0 .. n /\ j = n + 1
    <3>1. at[i] <= at[n] /\ n \in 0 .. n
      BY <1>3, <1>7, <2>2
    <3>2. QED
      BY <1>2, <1>8, <2>2, <3>1
  <2>3. CASE i = n + 1
    <3>1. j = n + 1
      BY <1>3, <1>11, <2>3
    <3>2. new[n + 1] \in Nat
      BY <1>3, <1>8
    <3>3. QED
      BY <2>3, <3>1, <3>2
  <2>4. QED
    BY <1>9, <2>1, <2>2, <2>3
<1>12. Len(Stream') = new[n + 1] - new[Len(log)]
  <2>1. Len(log) \in 0 .. n
    BY <1>7
  <2>2. QED
    BY <1>2, <1>5, <1>7, <1>8, <2>1
<1>13. ASSUME NEW i \in Len(log) + 1 .. n + 1, NEW b \in 1 .. Len(clientSent'[i])
       PROVE  Stream'[new[i - 1] - new[Len(log)] + b] = clientSent'[i][b]
  <2>1. Len(log) \in 0 .. n /\ i - 1 \in 0 .. n
    BY <1>3, <1>7
  <2>2. new[i - 1] = at[i - 1] /\ new[Len(log)] = at[Len(log)] /\ at[Len(log)] \in Nat /\ at[i - 1] \in Nat
    BY <1>8, <2>1
  <2>3. CASE i = n + 1
    <3>1. at[i - 1] - at[Len(log)] = Len(Stream)
      BY <1>3, <1>7, <2>3
    <3>2. QED
      BY <1>3, <1>5, <2>2, <2>3, <3>1
  <2>4. CASE i # n + 1
    <3>1. i \in Len(log) + 1 .. n /\ i \in 1 .. n /\ i \in 0 .. n /\ n \in 0 .. n
      BY <1>3, <1>7, <2>4
    <3>2. clientSent'[i] = clientSent[i] /\ Len(clientSent[i]) \in Nat
      <4>1. clientSent[i] \in ClientPackets
        BY <3>1 DEF n, ReceiveTypeOK
      <4>2. QED
        BY <1>3, <3>1, <4>1, ReceiveAssumption
    <3>3. at[i] = at[i - 1] + Len(clientSent[i]) /\ at[i] <= at[n] /\ at[i] \in Nat
      BY <1>7, <1>8, <3>1
    <3>4. at[Len(log)] <= at[i - 1]
      BY <1>3, <1>7, <2>1
    <3>5. b \in 1 .. Len(clientSent[i])
      BY <3>2
    <3>6. at[i - 1] - at[Len(log)] + b \in 1 .. Len(Stream)
      <4>1. at[n] \in Nat /\ Len(Stream) = at[n] - at[Len(log)]
        BY <1>7, <1>8
      <4>2. at[i - 1] + Len(clientSent[i]) <= at[n]
        BY <3>3
      <4>3. b \in Int /\ 1 <= b /\ b <= Len(clientSent[i])
        BY <3>2, <3>5
      <4>4. QED
        BY ONLY <2>2, <3>2, <3>4, <4>1, <4>2, <4>3
    <3>7. QED
      BY <1>5, <1>7, <2>2, <3>1, <3>2, <3>5, <3>6
  <2>5. QED
    BY <2>3, <2>4
<1>14. Framing(new, clientSent', Len(log'), Stream')
  <2>1. Len(log') \in 0 .. n + 1 /\ Len(log') = Len(log)
    BY <1>1, <1>3, <1>7
  <2>2. QED
    BY <1>3, <1>8, <1>10, <1>11, <1>12, <1>13, <2>1 DEF Framing
<1>15. \A i \in 1 .. Len(log') : log'[i].packet = clientSent'[i]
  <2>1. \A i \in 1 .. Len(log) : i \in 1 .. n
    BY <1>3, <1>7
  <2>2. QED
    BY <1>1, <1>3, <2>1 DEF StreamInv
<1>16. QED
  BY <1>14, <1>15 DEF StreamInv

\* A read takes the first bytes there are: the stream is not changed by where it is cut.
LEMMA ArrivesStream ==
  ASSUME ReceiveTypeOK, NEW n \in 1 .. Chunk, Arrives(n)
  PROVE  Stream' = Stream
<1> DEFINE first == SubSeq(incoming, 1, n)
           others == SubSeq(incoming, n + 1, Len(incoming))
<1>1. /\ receiveBuffer \in Seq(Nat) /\ incoming \in Seq(Nat) /\ Len(incoming) \in Nat
      /\ tempBuffer = <<>> /\ n \in 1 .. Len(incoming)
      /\ tempBuffer' = first /\ incoming' = others /\ receiveBuffer' = receiveBuffer
  <2>1. n \in Nat /\ n >= 1
    BY ReceiveAssumption
  <2>2. incoming \in Seq(Nat) /\ Len(incoming) \in Nat /\ receiveBuffer \in Seq(Nat)
    BY DEF ReceiveTypeOK
  <2>3. n <= Len(incoming)
    BY DEF Arrives
  <2>4. QED
    BY <2>1, <2>2, <2>3 DEF Arrives
<1>2. first \o others = incoming
  <2>1. /\ 1 \in 1 .. Len(incoming) + 1 /\ n \in 1 - 1 .. Len(incoming)
        /\ Len(incoming) \in n .. Len(incoming)
    BY <1>1
  <2>2. first \o others = SubSeq(incoming, 1, Len(incoming))
    BY <1>1, <2>1, ConcatAdjacentSubSeq
  <2>3. SubSeq(incoming, 1, Len(incoming)) = incoming
    BY <1>1, SubSeqFull
  <2>4. QED
    BY <2>2, <2>3
<1>3. first \in Seq(Nat) /\ others \in Seq(Nat)
  BY <1>1
<1> HIDE DEF first, others
<1>4. (receiveBuffer \o first) \o others = receiveBuffer \o (first \o others)
  <2>1. PICK a \in Seq(Nat) : a = receiveBuffer
    BY <1>1
  <2>2. PICK b \in Seq(Nat) : b = first
    BY <1>3
  <2>3. PICK c \in Seq(Nat) : c = others
    BY <1>3
  <2>4. (a \o b) \o c = a \o (b \o c)
    BY ONLY a \in Seq(Nat), b \in Seq(Nat), c \in Seq(Nat), ConcatAssociative
  <2>5. QED
    BY ONLY <2>1, <2>2, <2>3, <2>4, Zenon
<1>5. receiveBuffer \o <<>> = receiveBuffer
  BY <1>1, ConcatEmptySeq
<1>6. QED
  BY <1>1, <1>2, <1>4, <1>5 DEF Stream

LEMMA ReadDoneStream == ASSUME ReceiveTypeOK, ReadDone PROVE Stream' = Stream
<1>1. /\ receiveBuffer' = receiveBuffer \o tempBuffer /\ tempBuffer' = <<>> /\ incoming' = incoming
      /\ receiveBuffer \in Seq(Nat) /\ tempBuffer \in Seq(Nat)
  BY DEF ReadDone, ReceiveTypeOK
<1>2. receiveBuffer \o tempBuffer \in Seq(Nat)
  BY <1>1, ConcatProperties
<1>3. (receiveBuffer \o tempBuffer) \o <<>> = receiveBuffer \o tempBuffer
  BY <1>2, ConcatEmptySeq
<1>4. QED
  BY <1>1, <1>3 DEF Stream

\* The bytes that ProcessPackets takes for a packet are the first packet that has
\* not been dealt with.
LEMMA TakeOffStream ==
  ASSUME ReceiveTypeOK, StreamInv, MayDispatch, NEW isHandled \in BOOLEAN, TakeOff(isHandled),
         UNCHANGED <<clientSent, tempBuffer, incoming>>
  PROVE  /\ StreamInv'
         /\ Len(log) < Len(clientSent) /\ Len(log) \in Nat
         /\ LET packet == clientSent[Len(log) + 1] IN
              /\ packet \in ClientPackets /\ packet[1] = Len(packet) /\ packet[2] \in Types
              /\ log' = Append(log, [packet |-> packet, at |-> now, handled |-> isHandled])
<1> DEFINE n == Len(clientSent)
           l == Len(log)
           q == clientSent[l + 1]
<1>1. /\ size \in HeaderSize .. Len(receiveBuffer) /\ size \in Nat /\ Len(receiveBuffer) \in Nat
      /\ receiveBuffer' \in Seq(Nat) /\ Len(receiveBuffer') = Len(receiveBuffer) - size
      /\ \A b \in 1 .. Len(receiveBuffer') : receiveBuffer'[b] = receiveBuffer[size + b]
  BY TakeOffFacts
<1>2. PICK packet \in Seq(Nat) :
        /\ Len(packet) = size
        /\ \A b \in 1 .. size : packet[b] = receiveBuffer[b]
        /\ log' = Append(log, [packet |-> packet, at |-> now, handled |-> isHandled])
  BY TakeOffFacts
<1>3. /\ receiveBuffer \in Seq(Nat) /\ tempBuffer \in Seq(Nat) /\ incoming \in Seq(Nat)
      /\ n \in Nat /\ l \in Nat /\ \A i \in 1 .. n : clientSent[i] \in ClientPackets
  BY DEF ReceiveTypeOK
<1>4. /\ Len(Stream) = Len(receiveBuffer) + Len(tempBuffer) + Len(incoming)
      /\ Len(tempBuffer) \in Nat /\ Len(incoming) \in Nat
      /\ \A b \in 1 .. Len(receiveBuffer) : Stream[b] = receiveBuffer[b]
  BY <1>3, StreamIsBytes DEF Stream
<1>5. /\ Len(Stream') = Len(Stream) - size
      /\ \A b \in 1 .. Len(Stream') : Stream'[b] = Stream[size + b]
  <2>1. PICK k \in 0 .. Len(receiveBuffer) : k = size
    BY <1>1
  <2>2. Len(receiveBuffer') = Len(receiveBuffer) - k
    BY <1>1, <2>1
  <2>3. \A i \in 1 .. Len(receiveBuffer') : receiveBuffer'[i] = receiveBuffer[k + i]
    BY <1>1, <2>1
  <2>4. receiveBuffer' \in Seq(Nat) /\ UNCHANGED <<tempBuffer, incoming>>
    BY <1>1
  <2>5. Len(Stream') = Len(Stream) - k /\ \A b \in 1 .. Len(Stream') : Stream'[b] = Stream[k + b]
    BY <1>3, <2>2, <2>3, <2>4, StreamMoves
  <2>6. QED
    BY <2>1, <2>5
<1>6. PICK at : Framing(at, clientSent, Len(log), Stream)
  BY DEF StreamInv
<1>7. /\ at \in [0 .. n -> Nat] /\ l \in 0 .. n
      /\ \A i \in 1 .. n : at[i] = at[i - 1] + Len(clientSent[i])
      /\ \A i, j \in 0 .. n : i <= j => at[i] <= at[j]
      /\ Len(Stream) = at[n] - at[l]
      /\ \A i \in l + 1 .. n : \A b \in 1 .. Len(clientSent[i]) :
           Stream[at[i - 1] - at[l] + b] = clientSent[i][b]
  BY <1>6 DEF Framing
<1> HIDE DEF n, l
<1>8. HeaderSize = 2 /\ type = receiveBuffer[2] /\ size = receiveBuffer[1] /\ type \in Types
  BY DEF HeaderSize, type, size, MayDispatch
<1>9. l < n
  <2>1. l = n => Len(Stream) = 0
    BY <1>3, <1>7
  <2>2. Len(Stream) >= 2
    BY <1>1, <1>4, <1>8
  <2>3. QED
    BY <1>3, <1>7, <2>1, <2>2
<1>10. l + 1 \in 1 .. n /\ l + 1 \in l + 1 .. n /\ l + 1 \in 0 .. n /\ l + 1 - 1 = l
  BY <1>3, <1>9
<1>11. /\ q \in ClientPackets /\ q \in Seq(Nat) /\ Len(q) \in Nat /\ Len(q) >= 2
       /\ (q[1] = Len(q) \/ (q[1] < 2 /\ Len(q) = 2))
  <2>1. q \in ClientPackets
    BY <1>3, <1>10
  <2>2. q \in Seq(Nat) /\ Len(q) >= 2 /\ (q[1] = Len(q) \/ (q[1] < 2 /\ Len(q) = 2))
    BY <1>8, <2>1, ReceiveAssumption
  <2>3. Len(q) \in Nat
    BY <2>2, LenProperties
  <2>4. QED
    BY <2>1, <2>2, <2>3
<1>12. \A b \in 1 .. Len(q) : Stream[b] = q[b]
  <2>1. at[l] \in Nat /\ at[l + 1 - 1] = at[l]
    BY <1>7, <1>10
  <2>2. ASSUME NEW b \in 1 .. Len(q) PROVE Stream[b] = q[b]
    <3>1. Stream[at[l + 1 - 1] - at[l] + b] = q[b]
      BY <1>7, <1>10
    <3>2. at[l + 1 - 1] - at[l] + b = b
      BY <1>11, <2>1
    <3>3. QED
      BY <3>1, <3>2
  <2>3. QED
    BY <2>2
<1>13. size = q[1] /\ type = q[2]
  <2>1. 1 \in 1 .. Len(q) /\ 2 \in 1 .. Len(q) /\ 1 \in 1 .. Len(receiveBuffer) /\ 2 \in 1 .. Len(receiveBuffer)
    BY <1>1, <1>8, <1>11
  <2>2. QED
    BY <1>4, <1>8, <1>12, <2>1
<1>14. size = Len(q)
  BY <1>1, <1>8, <1>11, <1>13
<1>15. packet = q
  <2>1. ASSUME NEW b \in 1 .. size PROVE packet[b] = q[b]
    <3>1. b \in 1 .. Len(receiveBuffer) /\ b \in 1 .. Len(q)
      BY <1>1, <1>14
    <3>2. QED
      BY <1>2, <1>4, <1>12, <3>1
  <2>2. QED
    BY ONLY <1>2, <1>11, <1>14, <2>1, SeqEqual
<1>16. /\ Len(log') = l + 1 /\ log'[l + 1] = [packet |-> q, at |-> now, handled |-> isHandled]
       /\ \A i \in 1 .. l : log'[i] = log[i]
  <2>1. log \in Seq(Entries(now))
    BY DEF ReceiveTypeOK, Entries
  <2>2. QED
    BY <1>2, <1>15, <2>1 DEF l
<1>17. at[l + 1] = at[l] + size /\ at[l] \in Nat /\ at[l + 1] \in Nat
  BY <1>7, <1>10, <1>14
<1>18. Framing(at, clientSent, l + 1, Stream')
  <2>1. Len(Stream') = at[n] - at[l + 1]
    <3>1. at[n] \in Nat
      BY <1>3, <1>7
    <3>2. QED
      BY ONLY <1>1, <1>5, <1>7, <1>17, <3>1
  <2>2. ASSUME NEW i \in l + 1 + 1 .. n, NEW b \in 1 .. Len(clientSent[i])
        PROVE  Stream'[at[i - 1] - at[l + 1] + b] = clientSent[i][b]
    <3>1. /\ i \in l + 1 .. n /\ i \in 1 .. n /\ i \in 0 .. n /\ n \in 0 .. n
          /\ i - 1 \in 0 .. n /\ l + 1 <= i - 1
      BY <1>3, <1>9
    <3>2. Len(clientSent[i]) \in Nat
      BY <1>3, <3>1, ReceiveAssumption
    <3>3. /\ at[i] = at[i - 1] + Len(clientSent[i]) /\ at[i] <= at[n] /\ at[l + 1] <= at[i - 1]
          /\ at[i] \in Nat /\ at[i - 1] \in Nat /\ at[n] \in Nat
      <4>1. at[i] \in Nat /\ at[i - 1] \in Nat /\ at[n] \in Nat
        BY <1>7, <3>1
      <4>2. at[l + 1] <= at[i - 1]
        BY <1>7, <1>10, <3>1
      <4>3. i <= n
        BY <1>3, <3>1
      <4>4. at[i] = at[i - 1] + Len(clientSent[i]) /\ at[i] <= at[n]
        BY <1>7, <3>1, <4>3
      <4>5. QED
        BY <4>1, <4>2, <4>4
    <3>4. b \in Int /\ 1 <= b /\ b <= Len(clientSent[i])
      BY <3>2
    <3>5. /\ at[i - 1] - at[l + 1] + b \in 1 .. Len(Stream')
          /\ size + (at[i - 1] - at[l + 1] + b) = at[i - 1] - at[l] + b
      <4>1. /\ Len(clientSent[i]) \in Nat /\ at[i - 1] \in Nat /\ at[l + 1] \in Nat /\ at[n] \in Nat
            /\ size \in Nat /\ at[l] \in Nat /\ b \in Int
        BY <1>1, <1>17, <3>2, <3>3, <3>4
      <4>2. at[l + 1] = at[l] + size /\ at[l + 1] <= at[i - 1]
        BY <1>17, <3>3
      <4>3. at[i - 1] + Len(clientSent[i]) <= at[n]
        BY <3>3
      <4>4. /\ at[i - 1] - at[l + 1] + b \in 1 .. at[n] - at[l + 1]
            /\ size + (at[i - 1] - at[l + 1] + b) = at[i - 1] - at[l] + b
        <5>1. PICK x \in Nat : x = at[i - 1]
          BY <4>1
        <5>2. PICK y \in Nat : y = at[l]
          BY <4>1
        <5>3. PICK z \in Nat : z = at[n]
          BY <4>1
        <5>4. PICK w \in Nat : w = at[l + 1]
          BY <4>1
        <5>5. PICK len \in Nat : len = Len(clientSent[i])
          BY <4>1
        <5>6. w = y + size /\ w <= x /\ x + len <= z /\ b <= len
          BY <3>4, <4>2, <4>3, <5>1, <5>2, <5>3, <5>4, <5>5
        <5>7. x - w + b \in 1 .. z - w /\ size + (x - w + b) = x - y + b
          BY <3>4, <4>1, <5>6
        <5>8. QED
          BY <5>1, <5>2, <5>3, <5>4, <5>7
      <4>5. QED
        BY <2>1, <4>4
    <3>6. Stream[at[i - 1] - at[l] + b] = clientSent[i][b]
      BY <1>7, <3>1
    <3>7. QED
      BY <1>5, <3>5, <3>6
  <2>3. l + 1 \in 0 .. n
    BY <1>10
  <2>4. QED
    BY <1>7, <2>1, <2>2, <2>3 DEF Framing, n
<1>19. \A i \in 1 .. l + 1 : log'[i].packet = clientSent[i]
  <2>1. \A i \in 1 .. l : log[i].packet = clientSent[i]
    BY DEF StreamInv, l
  <2>2. \A i \in 1 .. l + 1 : i \in 1 .. l \/ i = l + 1
    BY <1>3
  <2>3. log'[l + 1].packet = q
    BY <1>16
  <2>4. QED
    BY <1>16, <2>1, <2>2, <2>3
<1>20. StreamInv'
  BY <1>16, <1>18, <1>19 DEF StreamInv
<1>21. log' = Append(log, [packet |-> q, at |-> now, handled |-> isHandled])
  BY <1>2, <1>15
<1>22. q[1] = Len(q) /\ q[2] \in Types
  BY <1>8, <1>13, <1>14
<1>23. QED
  BY <1>3, <1>9, <1>11, <1>20, <1>21, <1>22 DEF n, l

LEMMA StepStream == ReceiveTypeOK /\ StreamInv /\ [ReceiveNext]_receiveVars => StreamInv'
<1> SUFFICES ASSUME ReceiveTypeOK, StreamInv, [ReceiveNext]_receiveVars PROVE StreamInv'
  OBVIOUS
<1>1. ASSUME NEW p \in ClientPackets, ClientSends(p) PROVE StreamInv'
  BY <1>1, SendsStream
<1>2. ASSUME NEW n \in 1 .. Chunk, Arrives(n) PROVE StreamInv'
  <2>1. Stream' = Stream
    BY <1>2, ArrivesStream
  <2>2. QED
    BY <1>2, <2>1, QuietStream DEF Arrives
<1>3. CASE ReadDone
  <2>1. Stream' = Stream
    BY <1>3, ReadDoneStream
  <2>2. QED
    BY <1>3, <2>1, QuietStream DEF ReadDone
<1>4. CASE TimePasses \/ ReadFails \/ WriteDisconnects \/ NeedMore \/ Refuse \/ UNCHANGED receiveVars
  <2>1. UNCHANGED <<receiveBuffer, tempBuffer, incoming, clientSent, log>>
    BY <1>4 DEF TimePasses, ReadFails, WriteDisconnects, NeedMore, Refuse, receiveVars, netVars
  <2>2. Stream' = Stream
    BY <2>1 DEF Stream
  <2>3. QED
    BY <2>1, <2>2, QuietStream
<1>5. CASE DropBlocked \/ Block
  BY <1>5, TakeOffStream DEF DropBlocked, Block, netVars
<1>6. CASE Dispatch
  BY <1>6, TakeOffStream DEF Dispatch, netVars
<1>7. QED
  BY <1>1, <1>2, <1>3, <1>4, <1>5, <1>6 DEF ReceiveNext, ProcessPackets

LEMMA ReceiveStreamInv == ReceiveSpec => []StreamInv
  BY InitStream, StepStream, ReceiveTypes, PTL DEF ReceiveSpec

\* What ProcessPackets has dealt with are the first packets of the client, each as it
\* was sent, and nothing else.
PacketsAreWhole ==
  /\ Len(log) <= Len(clientSent)
  /\ \A i \in 1 .. Len(log) : log[i].packet = clientSent[i]

\* No packet that ProcessPackets takes off is made of pieces of two, wherever the
\* network cuts the stream and however many packets are dropped.
THEOREM ReceivePacketsAreWhole == ReceiveSpec => []PacketsAreWhole
<1>1. ASSUME ReceiveTypeOK, StreamInv PROVE PacketsAreWhole
  <2>1. PICK at : Framing(at, clientSent, Len(log), Stream)
    BY <1>1 DEF StreamInv
  <2>2. Len(log) \in 0 .. Len(clientSent) /\ Len(clientSent) \in Nat
    BY <1>1, <2>1 DEF Framing, ReceiveTypeOK
  <2>3. Len(log) <= Len(clientSent)
    BY <2>2
  <2>4. QED
    BY <1>1, <2>3 DEF StreamInv, PacketsAreWhole
<1>2. QED
  BY <1>1, ReceiveTypes, ReceiveStreamInv, PTL

-----------------------------------------------------------------------------
(* Receive implements PacketStream *)

Outcomes(entries) ==
  [i \in DOMAIN entries |-> [packet |-> entries[i].packet, handled |-> entries[i].handled]]

\* One entry more is one outcome more.
LEMMA OutcomesGrow ==
  ASSUME NEW time, NEW entries \in Seq(Entries(time)), NEW entry,
         entry.packet \in Seq(Nat), entry.handled \in BOOLEAN,
         NEW more, more = Append(entries, entry)
  PROVE  /\ Len(Outcomes(entries)) = Len(entries)
         /\ Outcomes(more) =
              Append(Outcomes(entries), [packet |-> entry.packet, handled |-> entry.handled])
<1> DEFINE S == [packet : Seq(Nat), handled : BOOLEAN]
           n == Len(entries)
           new == [packet |-> entry.packet, handled |-> entry.handled]
           old == [i \in 1 .. n |-> [packet |-> entries[i].packet, handled |-> entries[i].handled]]
           all == [i \in 1 .. n + 1 |-> [packet |-> more[i].packet, handled |-> more[i].handled]]
<1>1. /\ n \in Nat /\ DOMAIN entries = 1 .. n /\ DOMAIN more = 1 .. n + 1
      /\ \A i \in 1 .. n : more[i] = entries[i]
      /\ more[n + 1] = entry
  OBVIOUS
<1>2. Outcomes(entries) = old /\ Outcomes(more) = all
  BY <1>1 DEF Outcomes
<1>3. new \in S
  OBVIOUS
<1>4. \A i \in 1 .. n : [packet |-> entries[i].packet, handled |-> entries[i].handled] \in S
  <2>1. \A i \in 1 .. n : entries[i] \in Entries(time)
    BY <1>1
  <2>2. QED
    BY <2>1 DEF Entries
<1> HIDE DEF new, S
<1>5. old \in Seq(S) /\ Len(old) = n
  BY <1>1, <1>4
<1>6. /\ \A i \in 1 .. n : all[i] = old[i]
      /\ all[n + 1] = new
  BY <1>1 DEF new
<1>7. all \in Seq(S) /\ Len(all) = n + 1
  <2>1. all \in [1 .. n + 1 -> S]
    <3>1. \A i \in 1 .. n + 1 : i \in 1 .. n \/ i = n + 1
      BY <1>1
    <3>2. \A i \in 1 .. n + 1 : all[i] \in S
      BY <1>3, <1>4, <1>6, <3>1
    <3> DEFINE F(i) == [packet |-> more[i].packet, handled |-> more[i].handled]
    <3>3. all = [i \in 1 .. n + 1 |-> F(i)]
      OBVIOUS
    <3> HIDE DEF F
    <3>4. \A i \in 1 .. n + 1 : F(i) \in S
      BY <3>2 DEF F
    <3>5. QED
      BY <3>3, <3>4
  <2> HIDE DEF all
  <2>2. QED
    BY <1>1, <2>1
<1> HIDE DEF old, all, n
<1>8. all = Append(old, new)
  <2>1. /\ Append(old, new) \in Seq(S) /\ Len(Append(old, new)) = n + 1
        /\ \A i \in 1 .. n : Append(old, new)[i] = old[i]
        /\ Append(old, new)[n + 1] = new
    BY <1>3, <1>5, AppendProperties
  <2>2. \A i \in 1 .. n + 1 : i \in 1 .. n \/ i = n + 1
    BY <1>1
  <2>3. \A i \in 1 .. n + 1 : all[i] = Append(old, new)[i]
    BY <1>6, <2>1, <2>2
  <2>4. QED
    BY ONLY <1>7, <2>1, <2>3, SeqEqual
<1>9. QED
  BY <1>2, <1>5, <1>8 DEF new, n

LEMMA InitIsStream == ReceiveInit => AsStream!Init
<1> SUFFICES ASSUME ReceiveInit PROVE AsStream!Init
  OBVIOUS
<1>1. clientSent = <<>> /\ log = <<>> /\ reader # "closed"
  BY DEF ReceiveInit
<1>2. [i \in DOMAIN log |-> [packet |-> log[i].packet, handled |-> log[i].handled]] = <<>>
  BY <1>1
<1>3. QED
  BY <1>1, <1>2 DEF AsStream!Init

\* The packet that is taken off is the next one of those sent.
LEMMA TakeOffIsTake ==
  ASSUME ReceiveTypeOK, StreamInv, MayDispatch, NEW isHandled \in BOOLEAN, TakeOff(isHandled),
         UNCHANGED <<clientSent, tempBuffer, incoming, reader>>
  PROVE  AsStream!Take(isHandled)
<1> DEFINE packet == clientSent[Len(log) + 1]
           entry == [packet |-> packet, at |-> now, handled |-> isHandled]
<1>1. /\ Len(log) < Len(clientSent) /\ packet \in ClientPackets
      /\ packet[1] = Len(packet) /\ packet[2] \in Types
      /\ log' = Append(log, entry)
  BY TakeOffStream
<1>2. /\ log \in Seq(Entries(now)) /\ packet \in Seq(Nat)
      /\ entry.packet = packet /\ entry.handled = isHandled
  BY <1>1, ReceiveAssumption DEF ReceiveTypeOK, Entries
<1> HIDE DEF packet, entry
<1>3. /\ Len(Outcomes(log)) = Len(log)
      /\ Outcomes(log') = Append(Outcomes(log), [packet |-> packet, handled |-> isHandled])
  BY <1>1, <1>2, OutcomesGrow
<1>4. packet \in {p \in ClientPackets : p[1] = Len(p) /\ p[2] \in Types}
  BY <1>1
<1>5. reader = "processing" /\ reader' = reader /\ clientSent' = clientSent
  BY DEF MayDispatch
<1>6. QED
  BY <1>1, <1>3, <1>4, <1>5 DEF AsStream!Take, Outcomes, packet

LEMMA StepIsStream ==
  ReceiveTypeOK /\ StreamInv /\ [ReceiveNext]_receiveVars => [AsStream!Next]_(AsStream!vars)
<1> SUFFICES ASSUME ReceiveTypeOK, StreamInv, [ReceiveNext]_receiveVars
             PROVE  [AsStream!Next]_(AsStream!vars)
  OBVIOUS
<1>1. ASSUME NEW p \in ClientPackets, ClientSends(p) PROVE AsStream!Next
  <2>1. AsStream!Send(p)
    BY <1>1 DEF ClientSends, AsStream!Send
  <2>2. QED
    BY <2>1 DEF AsStream!Next
<1>2. ASSUME UNCHANGED <<clientSent, log, reader>> PROVE UNCHANGED AsStream!vars
  BY <1>2 DEF AsStream!vars
<1>3. ASSUME UNCHANGED <<clientSent, log>>, reader' = "closed" PROVE AsStream!Next
  BY <1>3 DEF AsStream!Next, AsStream!End
<1>4. ASSUME NEW n \in 1 .. Chunk, Arrives(n) PROVE UNCHANGED AsStream!vars
  BY <1>2, <1>4 DEF Arrives
<1>5. CASE TimePasses \/ WriteDisconnects \/ UNCHANGED receiveVars
  BY <1>2, <1>5 DEF TimePasses, WriteDisconnects, receiveVars
<1>6. CASE ReadDone
  <2>1. UNCHANGED <<clientSent, log>> /\ reader # "closed" /\ reader' # "closed"
    BY <1>6 DEF ReadDone
  <2>2. QED
    BY <2>1 DEF AsStream!vars
<1>7. CASE ReadFails \/ Refuse
  BY <1>3, <1>7 DEF ReadFails, Refuse
<1>8. CASE NeedMore
  <2>1. UNCHANGED <<clientSent, log>> /\ reader = "processing" /\ reader' \in {"closed", "reading"}
    BY <1>8 DEF NeedMore
  <2>2. CASE reader' = "closed"
    BY <1>3, <2>1, <2>2
  <2>3. CASE reader' = "reading"
    BY <2>1, <2>3 DEF AsStream!vars
  <2>4. QED
    BY <2>1, <2>2, <2>3
<1>9. CASE DropBlocked \/ Block
  <2>1. AsStream!Take(FALSE)
    BY <1>9, TakeOffIsTake DEF DropBlocked, Block, netVars
  <2>2. QED
    BY <2>1 DEF AsStream!Next
<1>10. CASE Dispatch
  <2>1. AsStream!Take(TRUE)
    BY <1>10, TakeOffIsTake DEF Dispatch, netVars
  <2>2. QED
    BY <2>1 DEF AsStream!Next
<1>11. QED
  BY <1>1, <1>4, <1>5, <1>6, <1>7, <1>8, <1>9, <1>10 DEF ReceiveNext, ProcessPackets

\* Wherever the network cuts the stream, ProcessPackets hands over whole packets of the
\* client, in their order and each once, and none behind one that ends the session.
THEOREM ReceiveIsStream == ReceiveSpec => IsStream
<1>1. QED
  BY InitIsStream, StepIsStream, ReceiveTypes, ReceiveStreamInv, PTL
  DEF ReceiveSpec, IsStream, AsStream!Spec

=============================================================================
