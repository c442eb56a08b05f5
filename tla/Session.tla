------------------------------- MODULE Session -------------------------------
(***************************************************************************)
(* AuthService.login and refresh for one account, over RedisService: the   *)
(* failure counter that locks the account, and the refresh tokens, each    *)
(* good for one use.  RedisService falls back to the memory of the process *)
(* at the first call that fails, and stays there until the process is      *)
(* started again; what it has in one store is not in the other.            *)
(*                                                                         *)
(* pc[r] names the await request r is suspended in.  A token is named by   *)
(* the request that it was issued to.                                      *)
(***************************************************************************)
EXTENDS Integers

CONSTANTS
    Logins,         \* one element per sign-in
    Refreshes,      \* one element per use of a refresh token
    MaxFailures,    \* rateLimit.loginMaxFailures
    Lockout,        \* rateLimit.loginLockoutSec
    MaxTime,        \* bound: the last instant of the model
    FailKey         \* login-fail:<email>

Requests == Logins \cup Refreshes
Keys     == Requests \cup {FailKey}

ASSUME RequestsAssumption == Logins \cap Refreshes = {} /\ FailKey \notin Requests

ASSUME LimitsAssumption ==
    MaxFailures \in Nat \ {0} /\ Lockout \in Nat \ {0} /\ MaxTime \in Nat

VARIABLES
    now,
    up,         \* client is not null: Redis is used
    redis,      \* the values in Redis, 0 for none; it outlives the process
    memory,     \* the values in the process
    pc,         \* the await a request is suspended in
    saw,        \* the failure count a sign-in has read
    token,      \* the token a refresh presents
    issued,     \* history: tokens handed out
    uses,       \* history: refreshes each token has paid for
    guesses,    \* history: wrong passwords since the count was last reset
    shared,     \* history: tokens two refreshes were holding at once
    overlapped, \* history: two sign-ins overlapped
    switched,   \* history: the store in use changed, or its content was lost
    restarted   \* history: the process was started again

stores  == <<up, redis, memory>>
history == <<issued, uses, guesses, shared, overlapped, switched, restarted>>
vars    == <<now, stores, pc, saw, token, history>>

Value == [n : 0 .. MaxFailures, exp : 0 .. MaxTime + Lockout]
Nothing == [n |-> 0, exp |-> 0]

TypeOK ==
    /\ now \in 0 .. MaxTime
    /\ up \in BOOLEAN
    /\ redis \in [Keys -> Value] /\ memory \in [Keys -> Value]
    /\ pc \in [Requests -> {"idle", "compare", "drop", "issue", "done"}]
    /\ saw \in [Logins -> 0 .. MaxFailures]
    /\ token \in [Refreshes -> Requests]
    /\ issued \subseteq Requests /\ shared \subseteq Requests
    /\ uses \in [Requests -> Nat] /\ guesses \in Nat
    /\ overlapped \in BOOLEAN /\ switched \in BOOLEAN /\ restarted \in BOOLEAN

Init ==
    /\ now = 0
    /\ up \in BOOLEAN
    /\ redis = [k \in Keys |-> Nothing]
    /\ memory = [k \in Keys |-> Nothing]
    /\ pc = [r \in Requests |-> "idle"]
    /\ saw = [l \in Logins |-> 0]
    /\ token \in [Refreshes -> Requests]
    /\ issued = {} /\ shared = {}
    /\ uses = [r \in Requests |-> 0] /\ guesses = 0
    /\ overlapped = FALSE /\ switched = FALSE /\ restarted = FALSE

Goto(r, step) == pc' = [pc EXCEPT ![r] = step]

-----------------------------------------------------------------------------
(* RedisService.  A token is kept for seven days, longer than the model.   *)

\* Redis drops a value the moment its time is up; the memory one later.
InRedis(k)  == IF k = FailKey /\ redis[k].exp <= now THEN 0 ELSE redis[k].n
InMemory(k) == IF k = FailKey /\ memory[k].exp < now THEN 0 ELSE memory[k].n

\* A call to Redis fails: fallback, for good.
FallBack == up /\ up' = FALSE /\ switched' = TRUE

\* get answers v.
Get(k, v) ==
    /\ \/ up /\ v = InRedis(k) /\ UNCHANGED <<up, switched>>
       \/ ~up /\ v = InMemory(k) /\ UNCHANGED <<up, switched>>
       \/ FallBack /\ v = InMemory(k)
    /\ UNCHANGED <<redis, memory>>

\* set and del: a call that fails may have been carried out.
Write(k, v) ==
    \/ /\ up
       /\ redis' = [redis EXCEPT ![k] = v]
       /\ UNCHANGED <<up, memory, switched>>
    \/ /\ ~up
       /\ memory' = [memory EXCEPT ![k] = v]
       /\ UNCHANGED <<up, redis, switched>>
    \/ /\ FallBack
       /\ redis' \in {redis, [redis EXCEPT ![k] = v]}
       /\ memory' = [memory EXCEPT ![k] = v]

-----------------------------------------------------------------------------
(* AuthService.login. *)

\* The failure count is read; at the limit the sign-in is refused unseen.
CountRead(r) ==
    /\ pc[r] = "idle" /\ r \in Logins
    /\ \E n \in 0 .. MaxFailures :
          /\ Get(FailKey, n)
          /\ saw' = [saw EXCEPT ![r] = n]
          /\ Goto(r, IF n >= MaxFailures THEN "done" ELSE "compare")
    /\ overlapped' = (overlapped \/ \E l \in Logins : pc[l] = "compare")
    /\ UNCHANGED <<now, token, issued, uses, guesses, shared, restarted>>

\* Slip: the count is read back unchanged.
WrongUncounted(r) ==
    /\ pc[r] = "compare"
    /\ Write(FailKey, [n |-> saw[r], exp |-> now + Lockout])
    /\ guesses' = guesses + 1
    /\ Goto(r, "done")
    /\ UNCHANGED <<now, saw, token, issued, uses, shared, overlapped, restarted>>

\* No such user, or the wrong password: one more failure, and a new lockout
\* window.
Wrong(r) ==
    /\ pc[r] = "compare"
    /\ Write(FailKey, [n |-> saw[r] + 1, exp |-> now + Lockout])
    /\ guesses' = guesses + 1
    /\ Goto(r, "done")
    /\ UNCHANGED <<now, saw, token, issued, uses, shared, overlapped, restarted>>

\* The right password: the count is deleted.
Right(r) ==
    /\ pc[r] = "compare"
    /\ Write(FailKey, Nothing)
    /\ guesses' = 0
    /\ Goto(r, "issue")
    /\ UNCHANGED <<now, saw, token, issued, uses, shared, overlapped, restarted>>

\* Slip: the token is handed out and not stored.
IssueUnstored(r) ==
    /\ pc[r] = "issue"
    /\ issued' = issued \cup {r}
    /\ Goto(r, "done")
    /\ UNCHANGED <<now, stores, saw, token, uses, guesses, shared, overlapped, switched, restarted>>

\* issueUserTokens: the new refresh token is stored and handed out.
Issue(r) ==
    /\ pc[r] = "issue"
    /\ Write(r, [n |-> 1, exp |-> 0])
    /\ issued' = issued \cup {r}
    /\ Goto(r, "done")
    /\ UNCHANGED <<now, saw, token, uses, guesses, shared, overlapped, restarted>>

-----------------------------------------------------------------------------
(* AuthService.refresh. *)

\* The token is looked up; unknown, the refresh is refused.
TokenRead(r) ==
    /\ pc[r] = "idle" /\ r \in Refreshes
    /\ token[r] \in issued
    /\ \E n \in {0, 1} :
          /\ Get(token[r], n)
          /\ Goto(r, IF n = 0 THEN "done" ELSE "drop")
    /\ shared' = IF \E q \in Refreshes : pc[q] = "drop" /\ token[q] = token[r]
                 THEN shared \cup {token[r]}
                 ELSE shared
    /\ UNCHANGED <<now, saw, token, issued, uses, guesses, overlapped, restarted>>

\* Slip: the token is not deleted.
TokenDropNot(r) ==
    /\ pc[r] = "drop"
    /\ uses' = [uses EXCEPT ![token[r]] = @ + 1]
    /\ Goto(r, "issue")
    /\ UNCHANGED <<now, stores, saw, token, issued, guesses, shared, overlapped, switched, restarted>>

\* The user is found, and the token deleted: a new one will be issued.
TokenDrop(r) ==
    /\ pc[r] = "drop"
    /\ Write(token[r], Nothing)
    /\ uses' = [uses EXCEPT ![token[r]] = @ + 1]
    /\ Goto(r, "issue")
    /\ UNCHANGED <<now, saw, token, issued, guesses, shared, overlapped, restarted>>

\* A throw: the user is gone, or the database is.
Throw(r) ==
    /\ pc[r] \notin {"idle", "done"}
    /\ Goto(r, "done")
    /\ UNCHANGED <<now, stores, saw, token, history>>

-----------------------------------------------------------------------------
\* The process is started again, with or without Redis.
Restart ==
    /\ up' \in BOOLEAN
    /\ memory' = [k \in Keys |-> Nothing]
    /\ pc' = [r \in Requests |-> IF pc[r] = "idle" THEN "idle" ELSE "done"]
    /\ restarted' = TRUE
    /\ switched' = (switched \/ ~up \/ ~up')
    /\ UNCHANGED <<now, redis, saw, token, issued, uses, guesses, shared, overlapped>>

\* Time passes; with the count its guesses expire.
Tick ==
    /\ now < MaxTime
    /\ now' = now + 1
    /\ guesses' = IF up /\ redis[FailKey].exp <= now + 1 THEN 0
                  ELSE IF ~up /\ memory[FailKey].exp < now + 1 THEN 0
                  ELSE guesses
    /\ UNCHANGED <<stores, pc, saw, token, issued, uses, shared, overlapped, switched, restarted>>

Next ==
    \/ \E r \in Requests :
          \/ CountRead(r) \/ Wrong(r) \/ Right(r)
          \/ TokenRead(r) \/ TokenDrop(r) \/ Issue(r) \/ Throw(r)
    \/ Restart
    \/ Tick

Spec == Init /\ [][Next]_vars

-----------------------------------------------------------------------------
(* Properties. *)

\* No more than MaxFailures wrong passwords are compared within one lockout
\* window, unless sign-ins overlapped (each writes back what it read, plus
\* one) or the store of the count changed under it.
LockHolds == guesses <= MaxFailures \/ overlapped \/ switched

\* A refresh token pays for one refresh, unless two of them held it at once
\* between its get and its del, or its del failed and a restart returned to
\* the Redis that still had it.
UsedOnce ==
    \A t \in Requests : uses[t] <= 1 \/ t \in shared \/ (switched /\ restarted)

\* A token that was handed out and not used is still known, so that the
\* session can go on, unless the store in use has changed.
SessionKept ==
    \/ \A t \in issued : uses[t] = 0 => (IF up THEN InRedis(t) ELSE InMemory(t)) = 1
    \/ switched
=============================================================================
