----------------------------- MODULE SendQueue -----------------------------
(***************************************************************************)
(* The outgoing half of a Session: Send, DoSend, the completion of a write  *)
(* and Disconnect.  Any number of threads call Send: the main thread from   *)
(* packet handlers, the workers from room updates (a player can be in a     *)
(* room twice left behind, so two rooms may send to one session at a time). *)
(* m_sending is a token: whoever sets it makes the next async_write, and a   *)
(* write hands it to its completion, which runs on the main thread.  Each   *)
(* section under m_sendMutex is one step, and so is a call into asio.       *)
(*                                                                         *)
(* GameServer::Run alternates between polling (handlers and completions)    *)
(* and the tick that waits for the workers.                                *)
(***************************************************************************)
EXTENDS Naturals, Sequences, FiniteSets

CONSTANTS
  Main,      \* the thread that polls
  Workers,   \* the threads of the pool
  MaxSends   \* bound: packets each thread sends

Threads == Workers \cup {Main}

ASSUME ThreadsAssumption == Main \notin Workers /\ MaxSends \in Nat

\* A packet is known by who sent it and as which of its packets.
Packets == Threads \X (1 .. MaxSends)

VARIABLES
  sendQueue,  \* m_sendQueue
  sending,    \* m_sending
  closed,     \* m_disconnected, and the socket closed with it
  write,      \* the async_write under way: "none", "flying", "ok", "failed"
  wire,       \* the packets the client has received
  pc,         \* where a thread is: "out", "doSend", "start", "disconnect"
  sent,       \* how many packets a thread has sent
  phase       \* "poll" or "tick"

vars == <<sendQueue, sending, closed, write, wire, pc, sent, phase>>

Init ==
  /\ sendQueue = <<>>
  /\ sending = FALSE
  /\ closed = FALSE
  /\ write = "none"
  /\ wire = <<>>
  /\ pc = [t \in Threads |-> "out"]
  /\ sent = [t \in Threads |-> 0]
  /\ phase = "poll"

\* Code of thread t runs: the main thread's while it polls, a worker's while
\* the main thread waits for the tick.
Runs(t) == (t = Main) <=> (phase = "poll")

\* Mutant: Send does not look at m_sending.
Send_AlwaysStarts(t) ==
  /\ Runs(t) /\ pc[t] = "out"
  /\ sent[t] < MaxSends
  /\ sent' = [sent EXCEPT ![t] = @ + 1]
  /\ sendQueue' = Append(sendQueue, <<t, sent[t] + 1>>)
  /\ sending' = TRUE
  /\ pc' = [pc EXCEPT ![t] = "doSend"]
  /\ UNCHANGED <<closed, write, wire, phase>>

\* Session::Send: whoever finds no write under way takes the token.
Send(t) ==
  /\ Runs(t) /\ pc[t] = "out"
  /\ sent[t] < MaxSends
  /\ sent' = [sent EXCEPT ![t] = @ + 1]
  /\ sendQueue' = Append(sendQueue, <<t, sent[t] + 1>>)
  /\ sending' = TRUE
  /\ pc' = [pc EXCEPT ![t] = IF sending THEN "out" ELSE "doSend"]
  /\ UNCHANGED <<closed, write, wire, phase>>

\* DoSend under the lock: points at the front of the queue.
DoSend(t) ==
  /\ pc[t] = "doSend"
  /\ IF sendQueue = <<>>
     THEN sending' = FALSE /\ pc' = [pc EXCEPT ![t] = "out"]
     ELSE UNCHANGED sending /\ pc' = [pc EXCEPT ![t] = "start"]
  /\ UNCHANGED <<sendQueue, closed, write, wire, sent, phase>>

\* DoSend calls async_write, which returns at once.
StartWrite(t) ==
  /\ pc[t] = "start"
  /\ write' = "flying"
  /\ pc' = [pc EXCEPT ![t] = "out"]
  /\ UNCHANGED <<sendQueue, sending, closed, wire, sent, phase>>

\* The socket takes all bytes of the buffer, the front of the queue.
Written ==
  /\ write = "flying" /\ ~closed
  /\ wire' = Append(wire, Head(sendQueue))
  /\ write' = "ok"
  /\ UNCHANGED <<sendQueue, sending, closed, pc, sent, phase>>

\* The connection fails, or the socket was closed.
WriteFails ==
  /\ write = "flying"
  /\ write' = "failed"
  /\ UNCHANGED <<sendQueue, sending, closed, wire, pc, sent, phase>>

\* Mutant: the completion drops the token without a look at the queue.
OnWritten_DropsToken ==
  /\ phase = "poll" /\ pc[Main] = "out"
  /\ write = "ok"
  /\ sendQueue' = Tail(sendQueue)
  /\ sending' = FALSE
  /\ write' = "none"
  /\ UNCHANGED <<closed, wire, pc, sent, phase>>

\* The completion handler of async_write, on the main thread: the section
\* under the lock decides who keeps the token.
OnWritten ==
  /\ phase = "poll" /\ pc[Main] = "out"
  /\ write = "ok"
  /\ sendQueue' = Tail(sendQueue)
  /\ sending' = (sendQueue' # <<>>)
  /\ pc' = [pc EXCEPT ![Main] = IF sendQueue' # <<>> THEN "doSend" ELSE "out"]
  /\ write' = "none"
  /\ UNCHANGED <<closed, wire, sent, phase>>

\* Mutant: after a failed write the next packet is tried.
OnWriteFailed_GoesOn ==
  /\ phase = "poll" /\ pc[Main] = "out"
  /\ write = "failed"
  /\ sendQueue' = Tail(sendQueue)
  /\ sending' = (sendQueue' # <<>>)
  /\ pc' = [pc EXCEPT ![Main] = IF sendQueue' # <<>> THEN "doSend" ELSE "out"]
  /\ write' = "none"
  /\ UNCHANGED <<closed, wire, sent, phase>>

OnWriteFailed ==
  /\ phase = "poll" /\ pc[Main] = "out"
  /\ write = "failed"
  /\ sendQueue' = <<>>
  /\ sending' = FALSE
  /\ pc' = [pc EXCEPT ![Main] = "disconnect"]
  /\ write' = "none"
  /\ UNCHANGED <<closed, wire, sent, phase>>

\* Disconnect after a failed write.
Disconnect ==
  /\ pc[Main] = "disconnect"
  /\ closed' = TRUE
  /\ pc' = [pc EXCEPT ![Main] = "out"]
  /\ UNCHANGED <<sendQueue, sending, write, wire, sent, phase>>

\* Mutant: Disconnect clears the send queue.
ReadFailed_Clears ==
  /\ phase = "poll" /\ pc[Main] = "out"
  /\ ~closed
  /\ closed' = TRUE
  /\ sendQueue' = <<>>
  /\ UNCHANGED <<sending, write, wire, pc, sent, phase>>

\* Disconnect after a failed read or a bad packet: a write under way is left
\* to fail, and its completion to clear the queue.
ReadFailed ==
  /\ phase = "poll" /\ pc[Main] = "out"
  /\ ~closed
  /\ closed' = TRUE
  /\ UNCHANGED <<sendQueue, sending, write, wire, pc, sent, phase>>

\* poll returns and the tick begins; it ends when all workers are done.
BeginTick ==
  /\ phase = "poll" /\ pc[Main] = "out"
  /\ phase' = "tick"
  /\ UNCHANGED <<sendQueue, sending, closed, write, wire, pc, sent>>

EndTick ==
  /\ phase = "tick" /\ \A w \in Workers : pc[w] = "out"
  /\ phase' = "poll"
  /\ UNCHANGED <<sendQueue, sending, closed, write, wire, pc, sent>>

Next ==
  \/ \E t \in Threads : Send(t) \/ DoSend(t) \/ StartWrite(t)
  \/ Written \/ WriteFails \/ OnWritten \/ OnWriteFailed \/ Disconnect
  \/ ReadFailed \/ BeginTick \/ EndTick

Spec == Init /\ [][Next]_vars

\* Threads run, the main loop goes round and round, and the completion of a
\* write is called in some poll (io_context runs ready handlers in order, and a
\* poll does not return before they have run).
Fairness ==
  /\ \A t \in Threads : WF_vars(DoSend(t)) /\ WF_vars(StartWrite(t))
  /\ WF_vars(Written \/ WriteFails)
  /\ SF_vars(OnWritten) /\ SF_vars(OnWriteFailed)
  /\ WF_vars(Disconnect) /\ WF_vars(BeginTick) /\ WF_vars(EndTick)

FairSpec == Spec /\ Fairness

-----------------------------------------------------------------------------
(* Properties *)

\* Every variable stays in its type.
TypeOK ==
  /\ sendQueue \in Seq(Packets)
  /\ sending \in BOOLEAN
  /\ closed \in BOOLEAN
  /\ write \in {"none", "flying", "ok", "failed"}
  /\ wire \in Seq(Packets)
  /\ pc \in [Threads -> {"out", "doSend", "start", "disconnect"}]
  /\ sent \in [Threads -> 0 .. MaxSends]
  /\ phase \in {"poll", "tick"}

\* Threads on their way through DoSend.
Holders == {t \in Threads : pc[t] \in {"doSend", "start"}}

\* The token is in one place: at most one thread is in DoSend, none is while a
\* write is under way (two writes at a time would mix their bytes on the
\* stream), and m_sending says whether there is a holder at all.
OneTokenHolder ==
  /\ \A t1, t2 \in Holders : t1 = t2
  /\ write # "none" => Holders = {}
  /\ sending <=> (Holders # {} \/ write # "none")

\* No packet is forgotten: as long as the queue holds one, somebody has the
\* token and will write it; and whoever is about to write finds one.
NothingForgotten ==
  /\ sendQueue # <<>> => sending
  /\ write # "none" \/ Holders # {} => sendQueue # <<>>

\* The buffer handed to async_write is the front element of m_sendQueue, by
\* address: it stays there until the completion of that write takes it out,
\* whatever other threads append in the meantime.
BufferStays ==
  [][(write = "flying" \/ \E t \in Threads : pc[t] = "start") =>
        sendQueue' # <<>> /\ Head(sendQueue') = Head(sendQueue)]_vars

\* The queue as its callers know it: without the packet whose bytes are gone
\* already, and broken from the moment a failure is known.
Channel == INSTANCE OrderedChannel WITH
  pending <- IF write = "ok" THEN Tail(sendQueue) ELSE sendQueue,
  delivered <- wire,
  broken <- closed \/ pc[Main] = "disconnect"

\* Session's sending implements the ordered channel.
IsOrderedChannel == Channel!Spec

\* Every accepted packet reaches the client unless the connection is closed.
EveryPacketArrives ==
  \A t \in Threads : \A i \in 1 .. MaxSends :
    sent[t] = i ~> closed \/ \E k \in 1 .. Len(wire) : wire[k] = <<t, i>>

=============================================================================
