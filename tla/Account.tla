------------------------------ MODULE Account ------------------------------
(***************************************************************************)
(* Registration and login: AccountManager over Database (MySQL, with one    *)
(* session that is made anew when a statement fails) and RedisManager (a    *)
(* cache of accounts that have logged in).                                  *)
(*                                                                          *)
(* The packet handlers run on the main thread, so there is one call at a    *)
(* time, and it blocks.  Between two of its statements anything can happen  *)
(* to the two external stores: a cache entry expires or is damaged, Redis   *)
(* or MySQL cannot be reached, a statement whose session was lost is        *)
(* executed after all, the server is restarted.                             *)
(*                                                                          *)
(* A password stands for itself, its salt and its hash; the row of an       *)
(* account for its password and UUID.                                       *)
(*                                                                          *)
(* Requests hold an id and a password in two arrays of 32 bytes each, one   *)
(* after the other.  A login reads at most the array, a registration up to  *)
(* the next NUL, wherever that is.                                          *)
(***************************************************************************)
EXTENDS Naturals, FiniteSets

CONSTANTS
  Ids,        \* login ids of up to 32 bytes
  FullIds,    \* those that fill the array and leave no room for a NUL
  Passwords,
  FullPasswords,
  Blank,      \* the password of no bytes
  Tails,      \* what may be in memory between a request and the next NUL
  MaxLost,    \* bound: no more statements linger at a time
  NoAccount,  \* no row of the table Users
  NoCall,
  NoEntry,    \* nothing cached under a key
  Garbage     \* a cached value that is not the JSON of an account

VARIABLES
  users,    \* the table Users: login id |-> password, or NoAccount
  lost,     \* INSERT statements sent on a session that was lost since
  cache,    \* Redis: key |-> [loginId, password], NoEntry or Garbage
  session,  \* Database::m_session is there
  call,     \* the call as its caller sees it (a record of Registry, history)
  step,     \* the statement that comes next, "reply" or "idle"
  attempt   \* RunWithReconnect's counter

storeVars == <<users, lost, cache>>
vars == <<users, lost, cache, session, call, step, attempt>>

\* A password as a registration may have read it ...
Secrets == Passwords \cup (FullPasswords \X Tails)

\* ... and the login ids of the table Users.
Names == Ids \cup (FullIds \X Secrets)

Api == INSTANCE Registry WITH accounts <- users, Ids <- Names, Passwords <- Secrets

\* The table Users, which is not in the repository, keeps LoginId unique and
\* compares it as the cache does, byte by byte.
ASSUME AccountAssumption ==
  /\ FullIds \subseteq Ids /\ FullPasswords \subseteq Passwords
  /\ NoAccount \notin Secrets
  /\ NoCall \notin Api!Calls
  /\ {NoEntry, Garbage} \cap [loginId : Names, password : Secrets] = {}
  /\ NoEntry # Garbage

SqlSteps == {"ping", "count", "insert", "load"}
RedisSteps == {"get", "delete", "set"}
Entry(id) == [loginId |-> id, password |-> users[id]]

\* What std::string reads of request.password, and of request.loginId.
ReadPassword(pw) == {pw} \cup (({pw} \cap FullPasswords) \X Tails)

ReadLoginId(id, secret) ==
  IF id \in FullIds /\ secret # Blank THEN <<id, secret>> ELSE id

\* The rows that registrations can add.
Row(id, pw) == {<<ReadLoginId(id, secret), secret>> : secret \in ReadPassword(pw)}

Rows == UNION {Row(id, pw) : id \in Ids, pw \in Passwords}

Init ==
  /\ users \in [Names -> Secrets \cup {NoAccount}]
  /\ \A name \in Names : users[name] # NoAccount => <<name, users[name]>> \in Rows
  /\ lost = {}
  /\ cache = [k \in Names |-> NoEntry]
  /\ session = TRUE
  /\ call = NoCall
  /\ step = "idle"
  /\ attempt = 0

-----------------------------------------------------------------------------
(* RegisterHandler and LoginHandler *)

\* Of a packet that is too short the rest is what else the buffer holds.
Register(id, pw) ==
  /\ call = NoCall
  /\ \E secret \in ReadPassword(pw) :
       call' = Api!Request("register", ReadLoginId(id, secret), secret)
  /\ step' = "ping" /\ attempt' = 0
  /\ UNCHANGED <<storeVars, session>>

Login(id, pw) ==
  /\ call = NoCall
  /\ call' = Api!Request("login", id, pw)
  /\ step' = "get" /\ attempt' = 0
  /\ UNCHANGED <<storeVars, session>>

\* The handler sends its response.
Reply ==
  /\ step = "reply"
  /\ call' = NoCall
  /\ step' = "idle" /\ attempt' = 0
  /\ UNCHANGED <<storeVars, session>>

-----------------------------------------------------------------------------
(* RunWithReconnect around a statement *)

\* RunWithReconnect has returned true; what comes next starts at attempt 0.
GoOn(s) == step' = s /\ attempt' = 0

Answer(outcome) == call' = [call EXCEPT !.outcome = outcome] /\ GoOn("reply")

\* The answer after RunWithReconnect has returned false: InternalServerError, but
\* for ExistsAccount no error code at all, as after a registration that succeeded.
\* (The UUID of the response is always empty.)
FailedAnswer == IF step = "ping" THEN "ok" ELSE "failed"

GiveUp(c) ==
  /\ call' = [c EXCEPT !.troubled = TRUE, !.outcome = FailedAnswer]
  /\ GoOn("reply")

\* Mutant: the retry counts as the first attempt again.
TryAgain_Uncounted(c) ==
  /\ call' = [c EXCEPT !.troubled = TRUE]
  /\ UNCHANGED <<step, attempt>>

TryAgain(c) ==
  /\ call' = [c EXCEPT !.troubled = TRUE]
  /\ attempt' = 1
  /\ UNCHANGED step

\* There is no session from an earlier call.
Connect ==
  /\ step \in SqlSteps /\ ~session
  /\ \/ session' = TRUE /\ UNCHANGED <<call, step, attempt>>
     \/ /\ UNCHANGED session
        /\ IF attempt = 1 THEN GiveUp(call) ELSE TryAgain(call)
  /\ UNCHANGED storeVars

\* The statement of call c fails with an exception; the session is dropped, and
\* made anew at once if this was the first attempt.
Throws(c) ==
  \/ session' = FALSE /\ GiveUp(c)
  \/ attempt = 0 /\ session' = TRUE /\ TryAgain(c)

\* A SELECT is not executed, or its result is lost.
SelectFails ==
  /\ step \in {"ping", "count", "load"} /\ session
  /\ Throws(call)
  /\ UNCHANGED storeVars

-----------------------------------------------------------------------------
(* AccountManager::Register *)

\* ExistsAccount, which only asks whether MySQL answers.
Ping ==
  /\ step = "ping" /\ session
  /\ GoOn("count")
  /\ UNCHANGED <<storeVars, session, call>>

\* InsertAccount: SELECT COUNT( * ).
Count ==
  /\ step = "count" /\ session
  /\ IF users[call.id] # NoAccount
     THEN Answer("duplicate id")
     ELSE GoOn("insert") /\ UNCHANGED call
  /\ UNCHANGED <<storeVars, session>>

Insert ==
  /\ step = "insert" /\ session /\ users[call.id] = NoAccount
  /\ users' = [users EXCEPT ![call.id] = call.pw]
  /\ call' = [call EXCEPT !.insert = "done", !.outcome = "ok"]
  /\ GoOn("reply")
  /\ UNCHANGED <<lost, cache, session>>

\* MySQL executes the INSERT, but its answer is lost.
InsertUnanswered ==
  /\ step = "insert" /\ session /\ users[call.id] = NoAccount
  /\ users' = [users EXCEPT ![call.id] = call.pw]
  /\ Throws([call EXCEPT !.insert = "done"])
  /\ UNCHANGED <<lost, cache>>

\* What the INSERT leaves behind when nobody has seen its end: nothing, or a
\* statement that MySQL may execute later.
MayLinger ==
  /\ lost' \in {lost, lost \cup {<<call.id, call.pw>>}}
  /\ Cardinality(lost') <= MaxLost

\* Mutant: an INSERT that fails is taken for a row that is there already.
InsertFails_Duplicate ==
  /\ step = "insert" /\ session
  /\ IF users[call.id] # NoAccount
     THEN session' = FALSE /\ Answer("duplicate id")
     ELSE Throws(Api!Sent(call))
  /\ MayLinger
  /\ UNCHANGED <<users, cache>>

\* MySQL refuses a second row, or has not executed the INSERT, so far.
InsertFails ==
  /\ step = "insert" /\ session
  /\ Throws(Api!Sent(call))
  /\ MayLinger
  /\ UNCHANGED <<users, cache>>

-----------------------------------------------------------------------------
(* AccountManager::Login *)

\* Mutant: one cache entry for everybody.
LoginCacheKey_Shared(id) == CHOOSE k \in Ids : TRUE

LoginCacheKey(id) == id

Cached == cache[LoginCacheKey(call.id)]

Matches(entry) == entry.loginId = call.id /\ entry.password = call.pw

\* Redis has an account under the key.
CacheHit ==
  /\ step = "get" /\ Cached \notin {NoEntry, Garbage}
  /\ Answer(IF Matches(Cached) THEN "ok" ELSE "invalid password")
  /\ UNCHANGED <<storeVars, session>>

CacheGarbage ==
  /\ step = "get" /\ Cached = Garbage
  /\ GoOn("delete")
  /\ UNCHANGED <<storeVars, session, call>>

\* There is nothing under the key, or Redis does not answer.
CacheMiss ==
  /\ step = "get"
  /\ GoOn("load")
  /\ UNCHANGED <<storeVars, session, call>>

\* Delete, which may fail, or succeed without an answer.
DeleteEntry ==
  /\ step = "delete"
  /\ cache' \in {cache, [cache EXCEPT ![LoginCacheKey(call.id)] = NoEntry]}
  /\ GoOn("load")
  /\ UNCHANGED <<users, lost, session, call>>

LoadAccount ==
  /\ step = "load" /\ session
  /\ \/ users[call.id] = NoAccount /\ Answer("invalid id")
     \/ users[call.id] \notin {NoAccount, call.pw} /\ Answer("invalid password")
     \/ /\ users[call.id] = call.pw
        /\ call' = [call EXCEPT !.outcome = "ok"]
        /\ GoOn("set")
  /\ UNCHANGED <<storeVars, session>>

\* The account is cached for five minutes, unless Redis fails.
SetEntry ==
  /\ step = "set"
  /\ cache' \in {cache, [cache EXCEPT ![LoginCacheKey(call.id)] =
                            [loginId |-> call.id, password |-> call.pw]]}
  /\ GoOn("reply")
  /\ UNCHANGED <<users, lost, session, call>>

-----------------------------------------------------------------------------
(* What happens outside the server, at any time *)

Expire(k) ==
  /\ cache[k] # NoEntry
  /\ cache' = [cache EXCEPT ![k] = NoEntry]
  /\ UNCHANGED <<users, lost, session, call, step, attempt>>

Damage(k) ==
  /\ cache[k] \notin {NoEntry, Garbage}
  /\ cache' = [cache EXCEPT ![k] = Garbage]
  /\ UNCHANGED <<users, lost, session, call, step, attempt>>

\* MySQL comes to an INSERT whose session is gone, or never does.
LateInsert(id, pw) ==
  /\ <<id, pw>> \in lost
  /\ lost' = lost \ {<<id, pw>>}
  /\ \/ users' = [users EXCEPT ![id] = IF @ = NoAccount THEN pw ELSE @]
     \/ UNCHANGED users
  /\ UNCHANGED <<cache, session, call, step, attempt>>

\* The server is stopped in the middle of a call, and started again: Start gets
\* no further than a failed Connect.
Restart ==
  /\ call # NoCall
  /\ call' = NoCall /\ step' = "idle" /\ attempt' = 0 /\ session' = TRUE
  /\ lost' = lost \/ (step = "insert" /\ MayLinger)
  /\ UNCHANGED <<users, cache>>

-----------------------------------------------------------------------------
Proceed ==
  \/ Connect \/ SelectFails
  \/ Ping \/ Count \/ Insert \/ InsertUnanswered \/ InsertFails
  \/ CacheHit \/ CacheGarbage \/ CacheMiss \/ DeleteEntry \/ LoadAccount \/ SetEntry
  \/ Reply

Next ==
  \/ \E id \in Ids, pw \in Passwords : Register(id, pw) \/ Login(id, pw)
  \/ Proceed
  \/ \E id \in Names, pw \in Secrets : LateInsert(id, pw)
  \/ \E k \in Names : Expire(k) \/ Damage(k)
  \/ Restart

Spec == Init /\ [][Next]_vars

\* Every statement and every Redis command returns or throws.
FairSpec == Spec /\ WF_vars(Proceed)

-----------------------------------------------------------------------------
(* Properties *)

\* Every variable stays in its type, and a cached account is the account: Redis
\* never knows a login id or a password that MySQL does not.
TypeOK ==
  /\ users \in [Names -> Secrets \cup {NoAccount}]
  /\ lost \in SUBSET (Names \X Secrets)
  /\ DOMAIN cache = Names
  /\ \A k \in Names : \/ cache[k] \in {NoEntry, Garbage}
                      \/ users[k] # NoAccount /\ cache[k] = Entry(k)
  /\ session \in BOOLEAN
  /\ call \in Api!Calls \cup {NoCall}
  /\ step \in SqlSteps \cup RedisSteps \cup {"reply", "idle"}
  /\ attempt \in {0, 1}

\* What Registry says of the answers, through every cache entry, reconnect, retry
\* and lost answer: a registration that is answered with success has opened its
\* account, or has not got as far as sending a row; a retry never reports the row
\* of its own first attempt as a duplicate id; a login is judged by the row,
\* whoever answers it; and a failure of Redis is no excuse.
IsRegistry == Api!Spec

\* Every call comes to an end, however often MySQL and Redis fail: no retry goes
\* on for ever (RunWithReconnect tries twice).
EveryCallEnds == call # NoCall ~> call = NoCall

=============================================================================
