------------------------------ MODULE Registry ------------------------------
(***************************************************************************)
(* What a client may conclude from the answers of AccountManager: accounts  *)
(* are opened once and for all; a registration that is answered with        *)
(* success has opened one or, if MySQL was out of reach, has done nothing   *)
(* at all; a login is judged by the account as it is when the answer is     *)
(* found; and only trouble with MySQL is an excuse.  Of Redis there is no   *)
(* word: a login means the same with and without its cache.                 *)
(*                                                                          *)
(* Ids and passwords are those the server has read.                         *)
(***************************************************************************)
EXTENDS FiniteSets

CONSTANTS Ids, Passwords, NoAccount, NoCall

VARIABLES
  accounts,  \* login id |-> password, or NoAccount
  lost,      \* registrations nobody waits for that may still open an account
  call       \* the request that is being handled

vars == <<accounts, lost, call>>

Operations == {"register", "login"}
Outcomes == {"none", "ok", "duplicate id", "invalid id", "invalid password", "failed"}

\* What has come of the row that a registration adds: nothing yet, nobody knows,
\* or this call has opened its account.
Inserts == {"unsent", "sent", "done"}

\* troubled: MySQL has failed the call
Calls == [op : Operations, id : Ids, pw : Passwords, outcome : Outcomes,
          insert : Inserts, troubled : BOOLEAN]

Request(op, id, pw) ==
  [op |-> op, id |-> id, pw |-> pw, outcome |-> "none", insert |-> "unsent",
   troubled |-> FALSE]

Init ==
  /\ accounts \in [Ids -> Passwords \cup {NoAccount}]
  /\ lost = {}
  /\ call = NoCall

Ask(op, id, pw) ==
  /\ call = NoCall
  /\ call' = Request(op, id, pw)
  /\ UNCHANGED <<accounts, lost>>

Undecided == call # NoCall /\ call.outcome = "none"

\* A registration opens its account, and may be answered at once or not.
Open ==
  /\ Undecided /\ call.op = "register" /\ accounts[call.id] = NoAccount
  /\ accounts' = [accounts EXCEPT ![call.id] = call.pw]
  /\ \/ call' = [call EXCEPT !.insert = "done", !.outcome = "ok"]
     \/ call' = [call EXCEPT !.insert = "done", !.troubled = TRUE]
     \/ call' = [call EXCEPT !.insert = "done", !.troubled = TRUE, !.outcome = "failed"]
  /\ UNCHANGED lost

\* MySQL fails the call.
Trouble ==
  /\ Undecided
  /\ \/ call' = [call EXCEPT !.troubled = TRUE]
     \/ call' = [call EXCEPT !.troubled = TRUE, !.outcome = "failed"]
  /\ UNCHANGED <<accounts, lost>>

Sent(c) == [c EXCEPT !.insert = IF @ = "done" THEN @ ELSE "sent"]

\* MySQL fails a registration that has sent its row, which may be on its way.
SentInVain ==
  /\ Undecided /\ call.op = "register"
  /\ \/ call' = [Sent(call) EXCEPT !.troubled = TRUE]
     \/ call' = [Sent(call) EXCEPT !.troubled = TRUE, !.outcome = "failed"]
  /\ lost' \in {lost, lost \cup {<<call.id, call.pw>>}}
  /\ UNCHANGED accounts

\* MySQL is out of reach: a registration is answered with success although it has
\* sent nothing.
Unreached ==
  /\ Undecided /\ call.op = "register" /\ call.insert = "unsent"
  /\ call' = [call EXCEPT !.troubled = TRUE, !.outcome = "ok"]
  /\ UNCHANGED <<accounts, lost>>

\* The answers that are true of the accounts as they are now.
Truth ==
  IF call.op = "register"
  THEN IF accounts[call.id] # NoAccount /\ call.insert # "done" THEN {"duplicate id"} ELSE {}
  ELSE {CASE accounts[call.id] = NoAccount -> "invalid id"
          [] accounts[call.id] = call.pw -> "ok"
          [] OTHER -> "invalid password"}

Decide ==
  /\ Undecided
  /\ \E outcome \in Truth \cup (IF call.troubled THEN {"failed"} ELSE {}) :
       call' = [call EXCEPT !.outcome = outcome]
  /\ UNCHANGED <<accounts, lost>>

Reply ==
  /\ call # NoCall /\ call.outcome # "none"
  /\ call' = NoCall
  /\ UNCHANGED <<accounts, lost>>

\* The server stops in the middle of a call.
Abandon ==
  /\ call # NoCall
  /\ call' = NoCall
  /\ \/ UNCHANGED lost
     \/ call.op = "register" /\ lost' = lost \cup {<<call.id, call.pw>>}
  /\ UNCHANGED accounts

\* A lost registration opens its account if nobody has, or never arrives.
LateOpen(id, pw) ==
  /\ <<id, pw>> \in lost
  /\ lost' = lost \ {<<id, pw>>}
  /\ accounts' = [accounts EXCEPT ![id] = IF @ = NoAccount THEN pw ELSE @]
  /\ UNCHANGED call

Vanish(id, pw) ==
  /\ <<id, pw>> \in lost
  /\ lost' = lost \ {<<id, pw>>}
  /\ UNCHANGED <<accounts, call>>

Next ==
  \/ \E op \in Operations, id \in Ids, pw \in Passwords : Ask(op, id, pw)
  \/ Open \/ Trouble \/ SentInVain \/ Unreached \/ Decide \/ Reply \/ Abandon
  \/ \E id \in Ids, pw \in Passwords : LateOpen(id, pw) \/ Vanish(id, pw)

Spec == Init /\ [][Next]_vars

=============================================================================
