--------------------------- MODULE AccountProofs ---------------------------
(***************************************************************************)
(* Proofs about Account for any login ids and passwords.  TypeOK, with what *)
(* it says of the cache, is inductive together with StepInv, which ties the *)
(* statement that comes next to the call it is made for; the refinement of  *)
(* Registry needs both, the first for the answers Redis gives.              *)
(***************************************************************************)
EXTENDS Account, TLAPS

RegisterSteps == {"ping", "count", "insert"}
LoginSteps == {"get", "delete", "load", "set"}

\* The statement that comes next fits the call.
StepInv ==
  /\ step = "idle" <=> call = NoCall
  /\ step \in RegisterSteps => call.op = "register" /\ call.outcome = "none"
  /\ step \in {"ping", "count"} => call.insert = "unsent"
  /\ step \in LoginSteps => call.op = "login"
  /\ step \in LoginSteps \ {"set"} => call.outcome = "none"
  /\ step = "set" => call.outcome = "ok" /\ users[call.id] = call.pw
  /\ step = "reply" => call.outcome # "none"

Inv == TypeOK /\ StepInv

USE AccountAssumption DEF Api!Operations, Api!Outcomes, Api!Inserts, Api!Calls, SqlSteps,
  RedisSteps, RegisterSteps, LoginSteps

-----------------------------------------------------------------------------
(* The steps the operations are put together from *)

\* A call record with other flags is a call record.
LEMMA CallUpdates ==
  ASSUME NEW c \in Api!Calls
  PROVE  /\ [c EXCEPT !.insert = "done"] \in Api!Calls
         /\ [c EXCEPT !.troubled = TRUE] \in Api!Calls
         /\ \A o \in Api!Outcomes :
              /\ [c EXCEPT !.outcome = o] \in Api!Calls
              /\ [c EXCEPT !.troubled = TRUE, !.outcome = o] \in Api!Calls
              /\ [c EXCEPT !.insert = "done", !.outcome = o] \in Api!Calls
  OBVIOUS

\* GiveUp and TryAgain keep what the next statement says of the call.
LEMMA ThrowsKeeps ==
  ASSUME NEW c \in Api!Calls, Throws(c), c.outcome = "none",
         call # NoCall, c.op = call.op, c.id = call.id, c.pw = call.pw,
         step \in {"ping", "count", "insert", "load"}, StepInv,
         step \in {"ping", "count"} => c.insert = "unsent",
         attempt \in {0, 1}
  PROVE  /\ call' \in Api!Calls
         /\ session' \in BOOLEAN
         /\ step' \in {step, "reply"}
         /\ attempt' \in {0, 1}
         /\ StepInv'
<1>1. CASE GiveUp(c)
  <2>1. /\ call' = [c EXCEPT !.troubled = TRUE, !.outcome = FailedAnswer]
        /\ step' = "reply" /\ attempt' = 0
    BY <1>1 DEF GiveUp, GoOn
  <2>2. call' \in Api!Calls /\ call'.outcome # "none" /\ call' # NoCall
    BY <2>1 DEF FailedAnswer
  <2> QED
    BY <2>1, <2>2 DEF StepInv, Throws
<1>2. CASE TryAgain(c)
  <2>1. /\ call' = [c EXCEPT !.troubled = TRUE]
        /\ step' = step /\ attempt' = 1
    BY <1>2 DEF TryAgain
  <2>2. /\ call' \in Api!Calls /\ call' # NoCall
        /\ call'.op = c.op /\ call'.outcome = "none" /\ call'.insert = c.insert
    BY <2>1
  <2> QED
    BY <2>1, <2>2 DEF StepInv, Throws
<1> QED
  BY <1>1, <1>2 DEF Throws

\* The steps that leave the stores alone keep what TypeOK says of them.
LEMMA StoresKept ==
  ASSUME TypeOK, UNCHANGED storeVars,
         session' \in BOOLEAN, call' \in Api!Calls \cup {NoCall},
         step' \in SqlSteps \cup RedisSteps \cup {"reply", "idle"}, attempt' \in {0, 1}
  PROVE  TypeOK'
  BY DEF TypeOK, storeVars, Entry

\* Rows are only added, so that what is cached stays true.
LEMMA RowsAdded ==
  ASSUME TypeOK, NEW id \in Names, NEW pw \in Secrets, UNCHANGED cache,
         users' = [users EXCEPT ![id] = IF @ = NoAccount THEN pw ELSE @]
  PROVE  /\ users' \in [Names -> Secrets \cup {NoAccount}]
         /\ \A k \in Names : users[k] # NoAccount => users'[k] = users[k]
         /\ \A k \in Names : \/ cache'[k] \in {NoEntry, Garbage}
                             \/ users'[k] # NoAccount /\ cache'[k] = Entry(k)'
  BY DEF TypeOK, Entry

\* What a lost registration leaves behind is a registration.
LEMMA LostGrows ==
  ASSUME lost \in SUBSET (Names \X Secrets), call.id \in Names, call.pw \in Secrets
  PROVE  lost \cup {<<call.id, call.pw>>} \in SUBSET (Names \X Secrets)
<1>1. <<call.id, call.pw>> \in Names \X Secrets
  OBVIOUS
<1> QED
  BY <1>1, ZenonT(20)

-----------------------------------------------------------------------------
(* Every step keeps the invariant *)

\* A server that has just started satisfies the invariant.
THEOREM InitInv == Init => Inv
<1> SUFFICES ASSUME Init PROVE Inv
  OBVIOUS
<1>1. TypeOK
  BY DEF Init, TypeOK
<1>2. StepInv
  BY DEF Init, StepInv
<1> QED
  BY <1>1, <1>2 DEF Inv

\* Whatever is read as id and password is in the types of the table.
LEMMA RegisterAsks ==
  ASSUME NEW id \in Ids, NEW pw \in Passwords, NEW secret \in ReadPassword(pw)
  PROVE  ReadLoginId(id, secret) \in Names /\ secret \in Secrets
<1>1. secret \in Secrets
  BY DEF ReadPassword, Secrets
<1>2. id \in FullIds => <<id, secret>> \in FullIds \X Secrets
  BY <1>1
<1> QED
  BY <1>1, <1>2 DEF ReadLoginId, Names

LEMMA LoginAsks ==
  ASSUME NEW id \in Ids, NEW pw \in Passwords
  PROVE  id \in Names /\ pw \in Secrets
  BY DEF Names, Secrets

\* A call that is being handled is a call record.
LEMMA CallIsRecord ==
  ASSUME Inv, step # "idle"
  PROVE  /\ call \in Api!Calls /\ call # NoCall
         /\ call.id \in Names /\ call.pw \in Secrets
         /\ call.op \in {"register", "login"} /\ call.insert \in Api!Inserts
<1>1. call # NoCall
  BY DEF Inv, StepInv
<1>2. call \in Api!Calls
  BY <1>1 DEF Inv, TypeOK
<1> QED
  BY <1>1, <1>2

\* Answer ends a call, whatever the outcome.
LEMMA AnswerKeeps ==
  ASSUME Inv, step # "idle", NEW o \in Api!Outcomes \ {"none"}, Answer(o),
         UNCHANGED <<storeVars, session>>
  PROVE  Inv'
<1>0. call \in Api!Calls /\ call' = [call EXCEPT !.outcome = o]
  BY CallIsRecord DEF Answer
<1>1. call' \in Api!Calls /\ call'.outcome = o /\ call' # NoCall
  BY <1>0
<1>2. step' = "reply" /\ attempt' = 0
  BY DEF Answer, GoOn
<1>3. TypeOK'
  BY <1>1, <1>2, StoresKept DEF Inv, TypeOK
<1>4. StepInv'
  BY <1>1, <1>2 DEF StepInv
<1> QED
  BY <1>3, <1>4 DEF Inv

\* Inv is inductive: no statement, failure, cache event or restart breaks it.
THEOREM NextInv == Inv /\ [Next]_vars => Inv'
<1> SUFFICES ASSUME Inv, [Next]_vars
             PROVE  Inv'
  OBVIOUS
<1> USE DEF Inv
<1>1. ASSUME NEW id \in Ids, NEW pw \in Passwords, Register(id, pw) \/ Login(id, pw)
      PROVE  Inv'
  <2>1. /\ call' \in Api!Calls /\ call'.outcome = "none" /\ call'.insert = "unsent"
        /\ \/ call'.op = "register" /\ step' = "ping"
           \/ call'.op = "login" /\ step' = "get"
    <3>1. CASE Register(id, pw)
      <4>1. PICK secret \in ReadPassword(pw) :
              call' = Api!Request("register", ReadLoginId(id, secret), secret)
        BY <3>1 DEF Register
      <4>2. ReadLoginId(id, secret) \in Names /\ secret \in Secrets
        BY RegisterAsks
      <4> QED
        BY <3>1, <4>1, <4>2 DEF Register, Api!Request
    <3>2. CASE Login(id, pw)
      BY <3>2, LoginAsks DEF Login, Api!Request
    <3> QED
      BY <1>1, <3>1, <3>2
  <2>2. TypeOK'
    BY <1>1, <2>1, StoresKept DEF Register, Login, TypeOK
  <2>3. StepInv'
    BY <2>1 DEF StepInv
  <2> QED
    BY <2>2, <2>3
<1>2. CASE Reply
  <2>1. TypeOK'
    BY <1>2, StoresKept DEF Reply, TypeOK
  <2>2. StepInv'
    BY <1>2 DEF Reply, StepInv
  <2> QED
    BY <2>1, <2>2
<1>3. CASE Connect
  <2>1. CASE UNCHANGED <<call, step, attempt>> /\ session' = TRUE
    <3>1. TypeOK'
      BY <1>3, <2>1, StoresKept DEF Connect, TypeOK
    <3> QED
      BY <1>3, <2>1, <3>1 DEF Connect, StepInv, storeVars
  <2>2. CASE UNCHANGED session /\ (GiveUp(call) \/ TryAgain(call))
    <3>1. call \in Api!Calls /\ call # NoCall /\ call.outcome = "none"
      <4>1. step # "idle"
        BY <1>3 DEF Connect
      <4> QED
        BY <1>3, <4>1, CallIsRecord DEF Connect, StepInv
    <3>2. /\ call' \in Api!Calls /\ call' # NoCall
          /\ call'.op = call.op /\ call'.insert = call.insert
          /\ \/ step' = step /\ call'.outcome = "none" /\ attempt' = 1
             \/ step' = "reply" /\ call'.outcome # "none" /\ attempt' = 0
      <4>1. CASE GiveUp(call)
        BY <3>1, <4>1 DEF GiveUp, GoOn, FailedAnswer
      <4>2. CASE TryAgain(call)
        BY <3>1, <4>2 DEF TryAgain
      <4> QED
        BY <2>2, <4>1, <4>2
    <3>3. TypeOK'
      BY <1>3, <2>2, <3>2, StoresKept DEF Connect, TypeOK
    <3>4. StepInv'
      BY <1>3, <3>2 DEF Connect, StepInv
    <3> QED
      BY <3>3, <3>4
  <2> QED
    BY <1>3, <2>1, <2>2 DEF Connect
<1>4. CASE SelectFails
  <2>1. call \in Api!Calls /\ call # NoCall /\ call.outcome = "none"
    <3>1. step # "idle"
      BY <1>4 DEF SelectFails
    <3> QED
      BY <1>4, <3>1, CallIsRecord DEF SelectFails, StepInv
  <2>2. /\ call' \in Api!Calls /\ session' \in BOOLEAN /\ step' \in {step, "reply"}
        /\ attempt' \in {0, 1} /\ StepInv'
    BY <1>4, <2>1, ThrowsKeeps DEF SelectFails, StepInv, TypeOK
  <2>3. TypeOK'
    BY <1>4, <2>2, StoresKept DEF SelectFails, TypeOK
  <2> QED
    BY <2>2, <2>3
<1>5. CASE Ping
  <2>1. TypeOK'
    BY <1>5, StoresKept DEF Ping, GoOn, TypeOK
  <2> QED
    BY <1>5, <2>1 DEF Ping, GoOn, StepInv
<1>6. CASE Count
  <2>1. CASE Answer("duplicate id")
    BY <1>6, <2>1, AnswerKeeps DEF Count
  <2>2. CASE GoOn("insert") /\ UNCHANGED call
    <3>1. TypeOK'
      BY <1>6, <2>2, StoresKept DEF Count, GoOn, TypeOK
    <3> QED
      BY <1>6, <2>2, <3>1 DEF Count, GoOn, StepInv
  <2> QED
    BY <1>6, <2>1, <2>2 DEF Count
<1>7. CASE Insert
  <2>1. call \in Api!Calls /\ call.id \in Names /\ call.pw \in Secrets
    BY <1>7, CallIsRecord DEF Insert
  <2>2. users' = [users EXCEPT ![call.id] = IF @ = NoAccount THEN call.pw ELSE @]
    BY <1>7, <2>1 DEF Insert
  <2>3. call' \in Api!Calls /\ call'.outcome = "ok" /\ call' # NoCall
    BY <1>7, <2>1 DEF Insert
  <2>4. TypeOK'
    BY <1>7, <2>1, <2>2, <2>3, RowsAdded DEF Insert, GoOn, TypeOK
  <2>5. StepInv'
    BY <1>7, <2>3 DEF Insert, GoOn, StepInv
  <2> QED
    BY <2>4, <2>5
<1>8. CASE InsertUnanswered \/ InsertFails
  <2>1. call \in Api!Calls /\ call # NoCall /\ call.outcome = "none"
    <3>1. step # "idle" /\ step = "insert"
      BY <1>8 DEF InsertUnanswered, InsertFails
    <3> QED
      BY <3>1, CallIsRecord DEF StepInv
  <2>2. call.id \in Names /\ call.pw \in Secrets
    BY <2>1
  <2>3. PICK d \in {Api!Sent(call), [call EXCEPT !.insert = "done"]} : Throws(d)
    BY <1>8 DEF InsertUnanswered, InsertFails
  <2>4. /\ d \in Api!Calls /\ d.outcome = "none"
        /\ d.op = call.op /\ d.id = call.id /\ d.pw = call.pw
    BY <2>1 DEF Api!Sent
  <2>5. /\ call' \in Api!Calls /\ session' \in BOOLEAN /\ step' \in {step, "reply"}
        /\ attempt' \in {0, 1} /\ StepInv'
    BY <1>8, <2>1, <2>3, <2>4, ThrowsKeeps DEF InsertUnanswered, InsertFails, TypeOK
  <2>6. TypeOK'
    <3>1. CASE InsertUnanswered
      <4>1. users' = [users EXCEPT ![call.id] = IF @ = NoAccount THEN call.pw ELSE @]
        BY <2>2, <3>1 DEF InsertUnanswered
      <4> QED
        BY <2>2, <2>5, <3>1, <4>1, RowsAdded DEF InsertUnanswered, TypeOK
    <3>2. CASE InsertFails
      <4>1. lost' \in SUBSET (Names \X Secrets)
        BY <2>2, <3>2, LostGrows DEF InsertFails, MayLinger, TypeOK
      <4> QED
        BY <2>5, <3>2, <4>1 DEF InsertFails, TypeOK, Entry
    <3> QED
      BY <1>8, <3>1, <3>2
  <2> QED
    BY <2>5, <2>6
<1>9. CASE CacheHit
  BY <1>9, AnswerKeeps DEF CacheHit
<1>10. CASE CacheGarbage \/ CacheMiss
  <2>1. TypeOK'
    BY <1>10, StoresKept DEF CacheGarbage, CacheMiss, GoOn, TypeOK
  <2> QED
    BY <1>10, <2>1 DEF CacheGarbage, CacheMiss, GoOn, StepInv
<1>11. CASE DeleteEntry
  <2>1. TypeOK'
    BY <1>11, CallIsRecord DEF DeleteEntry, GoOn, TypeOK, Entry, LoginCacheKey
  <2> QED
    BY <1>11, <2>1 DEF DeleteEntry, GoOn, StepInv
<1>12. CASE LoadAccount
  <2>1. CASE Answer("invalid id") \/ Answer("invalid password")
    BY <1>12, <2>1, AnswerKeeps DEF LoadAccount
  <2>2. CASE /\ users[call.id] = call.pw
             /\ call' = [call EXCEPT !.outcome = "ok"]
             /\ GoOn("set")
    <3>1. call' \in Api!Calls /\ call' # NoCall /\ call'.outcome = "ok"
          /\ call'.op = call.op /\ call'.id = call.id /\ call'.pw = call.pw
      <4>1. call \in Api!Calls
        BY <1>12, CallIsRecord DEF LoadAccount
      <4> QED
        BY <2>2, <4>1
    <3>2. TypeOK'
      BY <1>12, <2>2, <3>1, StoresKept DEF LoadAccount, GoOn, TypeOK
    <3>3. StepInv'
      BY <1>12, <2>2, <3>1 DEF LoadAccount, GoOn, StepInv, storeVars
    <3> QED
      BY <3>2, <3>3
  <2> QED
    BY <1>12, <2>1, <2>2 DEF LoadAccount
<1>13. CASE SetEntry
  <2>1. call.id \in Names /\ call.pw \in Secrets /\ users[call.id] = call.pw
    BY <1>13, CallIsRecord DEF SetEntry, StepInv
  <2>2. TypeOK'
    BY <1>13, <2>1 DEF SetEntry, GoOn, TypeOK, Entry, LoginCacheKey
  <2> QED
    BY <1>13, <2>2 DEF SetEntry, GoOn, StepInv
<1>14. ASSUME NEW k \in Names, Expire(k) \/ Damage(k)
       PROVE  Inv'
  <2>1. TypeOK'
    BY <1>14 DEF Expire, Damage, TypeOK, Entry
  <2> QED
    BY <1>14, <2>1 DEF Expire, Damage, StepInv
<1>15. ASSUME NEW id \in Names, NEW pw \in Secrets, LateInsert(id, pw)
       PROVE  Inv'
  <2>1. CASE UNCHANGED users
    <3>1. TypeOK'
      BY <1>15, <2>1 DEF LateInsert, TypeOK, Entry
    <3> QED
      BY <1>15, <2>1, <3>1 DEF LateInsert, StepInv
  <2>2. CASE users' = [users EXCEPT ![id] = IF @ = NoAccount THEN pw ELSE @]
    <3>1. TypeOK'
      <4>1. /\ UNCHANGED cache /\ UNCHANGED <<session, call, step, attempt>>
            /\ lost' \subseteq lost /\ TypeOK
        BY <1>15 DEF LateInsert
      <4>2. /\ users' \in [Names -> Secrets \cup {NoAccount}]
            /\ \A k \in Names : \/ cache'[k] \in {NoEntry, Garbage}
                                \/ users'[k] # NoAccount /\ cache'[k] = Entry(k)'
        BY <2>2, <4>1, RowsAdded
      <4> QED
        BY <4>1, <4>2 DEF TypeOK
    <3>2. step = "set" => users'[call.id] = call.pw
      BY <1>15, <2>2, RowsAdded, CallIsRecord DEF LateInsert, StepInv
    <3> QED
      BY <1>15, <3>1, <3>2 DEF LateInsert, StepInv
  <2> QED
    BY <1>15, <2>1, <2>2 DEF LateInsert
<1>16. CASE Restart
  <2>1. step = "insert" => call.id \in Names /\ call.pw \in Secrets
    BY CallIsRecord
  <2>2. TypeOK'
    <3>1. lost' \in SUBSET (Names \X Secrets)
      BY <1>16, <2>1, LostGrows DEF Restart, MayLinger, TypeOK
    <3> QED
      BY <1>16, <3>1 DEF Restart, TypeOK, Entry
  <2> QED
    BY <1>16, <2>2 DEF Restart, StepInv
<1>17. CASE UNCHANGED vars
  BY <1>17 DEF vars, TypeOK, StepInv, Entry
<1>18. CASE \E id \in Ids, pw \in Passwords :
              Register(id, pw) \/ Login(id, pw)
  BY <1>1, <1>18
<1>19. CASE Proceed
  BY <1>2, <1>3, <1>4, <1>5, <1>6, <1>7, <1>8, <1>9, <1>10, <1>11, <1>12, <1>13, <1>19
  DEF Proceed
<1>20. CASE \E k \in Names : Expire(k) \/ Damage(k)
  BY <1>14, <1>20
<1>21. CASE \E id \in Names, pw \in Secrets : LateInsert(id, pw)
  BY <1>15, <1>21
<1> QED
  BY <1>16, <1>17, <1>18, <1>19, <1>20, <1>21 DEF Next

\* Types, and the truth of what Redis holds, in every reachable state.
THEOREM AccountTypes == Spec => []TypeOK
  BY InitInv, NextInv, PTL DEF Spec, Inv

-----------------------------------------------------------------------------
(* Every step is a step of Registry, or none *)

\* The steps that are made for a call find it undecided.
LEMMA CallIsUndecided ==
  ASSUME Inv, step \in RegisterSteps \cup (LoginSteps \ {"set"})
  PROVE  /\ Api!Undecided
         /\ call \in Api!Calls /\ call # NoCall /\ call.outcome = "none"
         /\ call.op = IF step \in RegisterSteps THEN "register" ELSE "login"
<1>1. call \in Api!Calls /\ call # NoCall
  BY CallIsRecord
<1> QED
  BY <1>1 DEF Inv, StepInv, Api!Undecided

\* A failed statement is trouble with MySQL, and at worst the end of the call.
LEMMA ThrowsTroubles ==
  ASSUME NEW c, step # "ping", GiveUp(c) \/ TryAgain(c)
  PROVE  \/ call' = [c EXCEPT !.troubled = TRUE]
         \/ call' = [c EXCEPT !.troubled = TRUE, !.outcome = "failed"]
  BY DEF GiveUp, TryAgain, FailedAnswer

\* If it is the ping that fails for the second time, the registration has sent
\* nothing yet.
LEMMA FailureIsTrouble ==
  ASSUME Inv, Api!Undecided, GiveUp(call) \/ TryAgain(call), UNCHANGED <<users, lost>>
  PROVE  Api!Trouble \/ Api!Unreached
<1>1. CASE step # "ping"
  BY <1>1, ThrowsTroubles DEF Api!Trouble
<1>2. CASE step = "ping"
  <2>1. call.op = "register" /\ call.insert = "unsent"
    BY <1>2 DEF Inv, StepInv
  <2> QED
    BY <1>2, <2>1 DEF GiveUp, TryAgain, FailedAnswer, Api!Trouble, Api!Unreached
<1> QED
  BY <1>1, <1>2

\* An answer is allowed by Registry if it is true.
LEMMA AnswerIsDecision ==
  ASSUME Api!Undecided, NEW o \in Api!Truth, Answer(o), UNCHANGED <<users, lost>>
  PROVE  Api!Decide
  BY DEF Answer, Api!Decide

\* Init and every step of Account under the refinement mapping.
THEOREM InitRefines == Init => Api!Init
  BY DEF Init, Api!Init

THEOREM StepRefines == Inv /\ [Next]_vars => [Api!Next]_(Api!vars)
<1> SUFFICES ASSUME Inv, [Next]_vars
             PROVE  Api!Next \/ UNCHANGED <<users, lost, call>>
  BY DEF Api!vars
<1>1. ASSUME NEW id \in Ids, NEW pw \in Passwords, Register(id, pw)
      PROVE  Api!Next
  <2>1. PICK secret \in ReadPassword(pw) :
          call' = Api!Request("register", ReadLoginId(id, secret), secret)
    BY <1>1 DEF Register
  <2>2. Api!Ask("register", ReadLoginId(id, secret), secret)
    BY <1>1, <2>1 DEF Register, Api!Ask, storeVars
  <2> QED
    BY <2>2, RegisterAsks DEF Api!Next
<1>2. ASSUME NEW id \in Ids, NEW pw \in Passwords, Login(id, pw)
      PROVE  Api!Next
  <2>1. Api!Ask("login", id, pw)
    BY <1>2 DEF Login, Api!Ask, storeVars
  <2> QED
    BY <2>1, LoginAsks DEF Api!Next
<1>3. ASSUME NEW id \in Names, NEW pw \in Secrets, LateInsert(id, pw)
      PROVE  Api!Next
  <2>1. Api!LateOpen(id, pw) \/ Api!Vanish(id, pw)
    BY <1>3 DEF LateInsert, Api!LateOpen, Api!Vanish
  <2> QED
    BY <2>1 DEF Api!Next
<1>4. CASE Reply
  <2>1. Api!Reply
    BY <1>4 DEF Reply, Inv, StepInv, Api!Reply, storeVars
  <2> QED
    BY <2>1 DEF Api!Next
<1>5. CASE Connect \/ SelectFails
  <2>1. CASE UNCHANGED <<users, lost, call>>
    BY <2>1
  <2>2. CASE GiveUp(call) \/ TryAgain(call)
    <3>1. Api!Undecided
      BY <1>5, CallIsUndecided DEF Connect, SelectFails
    <3>2. Api!Trouble \/ Api!Unreached
      BY <1>5, <2>2, <3>1, FailureIsTrouble DEF Connect, SelectFails, storeVars
    <3> QED
      BY <3>2 DEF Api!Next
  <2> QED
    BY <1>5, <2>1, <2>2 DEF Connect, SelectFails, Throws, storeVars
<1>6. CASE Ping \/ CacheGarbage \/ CacheMiss \/ DeleteEntry \/ SetEntry
  BY <1>6 DEF Ping, CacheGarbage, CacheMiss, DeleteEntry, SetEntry, storeVars
<1>7. CASE Count
  <2>1. CASE users[call.id] = NoAccount
    BY <1>7, <2>1 DEF Count, storeVars
  <2>2. CASE users[call.id] # NoAccount
    <3>1. Api!Undecided /\ call.op = "register" /\ call.insert # "done"
      BY <1>7, CallIsUndecided DEF Count, Inv, StepInv
    <3>2. "duplicate id" \in Api!Truth
      BY <2>2, <3>1 DEF Api!Truth
    <3>3. Api!Decide
      BY <1>7, <2>2, <3>1, <3>2, AnswerIsDecision DEF Count, storeVars
    <3> QED
      BY <3>3 DEF Api!Next
  <2> QED
    BY <2>1, <2>2
<1>8. CASE Insert \/ InsertUnanswered
  <2>1. /\ Api!Undecided /\ call \in Api!Calls /\ call.op = "register"
        /\ users[call.id] = NoAccount
        /\ users' = [users EXCEPT ![call.id] = call.pw]
        /\ UNCHANGED lost
    BY <1>8, CallIsUndecided DEF Insert, InsertUnanswered
  <2>2. \/ call' = [call EXCEPT !.insert = "done", !.outcome = "ok"]
        \/ call' = [call EXCEPT !.insert = "done", !.troubled = TRUE]
        \/ call' = [call EXCEPT !.insert = "done", !.troubled = TRUE, !.outcome = "failed"]
    <3>1. CASE Insert
      BY <3>1 DEF Insert
    <3>2. CASE InsertUnanswered
      <4> DEFINE c == [call EXCEPT !.insert = "done"]
      <4>1. \/ call' = [c EXCEPT !.troubled = TRUE]
            \/ call' = [c EXCEPT !.troubled = TRUE, !.outcome = "failed"]
        BY <3>2, ThrowsTroubles DEF InsertUnanswered, Throws
      <4> QED
        BY <2>1, <4>1
    <3> QED
      BY <1>8, <3>1, <3>2
  <2>3. Api!Open
    BY <2>1, <2>2 DEF Api!Open
  <2> QED
    BY <2>3 DEF Api!Next
<1>9. CASE InsertFails
  <2>1. Api!Undecided /\ call.op = "register"
    BY <1>9, CallIsUndecided DEF InsertFails
  <2>2. \/ call' = [Api!Sent(call) EXCEPT !.troubled = TRUE]
        \/ call' = [Api!Sent(call) EXCEPT !.troubled = TRUE, !.outcome = "failed"]
    BY <1>9, ThrowsTroubles DEF InsertFails, Throws
  <2>3. Api!SentInVain
    BY <1>9, <2>1, <2>2 DEF InsertFails, MayLinger, Api!SentInVain
  <2> QED
    BY <2>3 DEF Api!Next
<1>10. CASE CacheHit
  <2>1. Api!Undecided /\ call.op = "login" /\ call \in Api!Calls
    BY <1>10, CallIsUndecided DEF CacheHit
  <2>2. users[call.id] # NoAccount /\ Cached = [loginId |-> call.id, password |-> users[call.id]]
    BY <1>10, <2>1 DEF CacheHit, Inv, TypeOK, Cached, LoginCacheKey, Entry
  <2>3. Matches(Cached) <=> users[call.id] = call.pw
    BY <2>2 DEF Matches
  <2>4. (IF Matches(Cached) THEN "ok" ELSE "invalid password") \in Api!Truth
    BY <2>1, <2>2, <2>3 DEF Api!Truth
  <2>5. Api!Decide
    BY <1>10, <2>1, <2>4, AnswerIsDecision DEF CacheHit, storeVars
  <2> QED
    BY <2>5 DEF Api!Next
<1>11. CASE LoadAccount
  <2>1. Api!Undecided /\ call.op = "login" /\ call \in Api!Calls
    BY <1>11, CallIsUndecided DEF LoadAccount
  <2>2. PICK o : o \in Api!Truth /\ call' = [call EXCEPT !.outcome = o]
    <3>1. CASE users[call.id] = NoAccount /\ Answer("invalid id")
      BY <2>1, <3>1 DEF Answer, Api!Truth
    <3>2. CASE users[call.id] \notin {NoAccount, call.pw} /\ Answer("invalid password")
      BY <2>1, <3>2 DEF Answer, Api!Truth
    <3>3. CASE users[call.id] = call.pw /\ call' = [call EXCEPT !.outcome = "ok"]
      BY <2>1, <3>3 DEF Api!Truth
    <3> QED
      BY <1>11, <3>1, <3>2, <3>3 DEF LoadAccount
  <2>3. Api!Decide
    BY <1>11, <2>1, <2>2 DEF LoadAccount, Api!Decide, storeVars
  <2> QED
    BY <2>3 DEF Api!Next
<1>12. CASE \E k \in Names : Expire(k) \/ Damage(k)
  BY <1>12 DEF Expire, Damage
<1>13. CASE Restart
  <2>1. step = "insert" => call.op = "register"
    BY DEF Inv, StepInv
  <2>2. Api!Abandon
    BY <1>13, <2>1 DEF Restart, MayLinger, Api!Abandon
  <2> QED
    BY <2>2 DEF Api!Next
<1>14. CASE UNCHANGED vars
  BY <1>14 DEF vars, storeVars
<1>15. CASE \E id \in Ids, pw \in Passwords :
              Register(id, pw) \/ Login(id, pw)
  BY <1>1, <1>2, <1>15
<1>16. CASE Proceed
  BY <1>4, <1>5, <1>6, <1>7, <1>8, <1>9, <1>10, <1>11, <1>16 DEF Proceed
<1>17. CASE \E id \in Names, pw \in Secrets : LateInsert(id, pw)
  BY <1>3, <1>17
<1> QED
  BY <1>12, <1>13, <1>14, <1>15, <1>16, <1>17 DEF Next

\* Registration and login answer what Registry allows through every failure,
\* whatever the ids, the passwords and the state of Redis: in particular an answer
\* of success to a registration means that its account is open or that nothing
\* was ever sent (AccountManager::Register returns no error code when the ping
\* fails), and never that the row is on its way.
THEOREM AccountIsRegistry == Spec => IsRegistry
<1>1. Inv /\ [Next]_vars => Inv'
  BY NextInv
<1>2. Inv /\ [Next]_vars => [Api!Next]_(Api!vars)
  BY StepRefines
<1> QED
  BY InitInv, InitRefines, <1>1, <1>2, PTL DEF Spec, IsRegistry, Api!Spec

=============================================================================
