---------------------------- MODULE Session_proofs ----------------------------
(***************************************************************************)
(* Proofs about module Session, for any number of sign-ins and refreshes,  *)
(* any limit on failures and any lockout window.                           *)
(***************************************************************************)
EXTENDS Session, TLAPS

-----------------------------------------------------------------------------
(* The inductive invariant. *)

\* The store in use.
Current(k) == IF up THEN redis[k] ELSE memory[k]

\* The failure count a sign-in would read.
Count == IF up THEN InRedis(FailKey) ELSE InMemory(FailKey)

Holds(r, t) == r \in Refreshes /\ pc[r] = "drop" /\ token[r] = t

\* What each await has behind it.
Awaits ==
    /\ \A r \in Requests : pc[r] = "compare" => r \in Logins /\ saw[r] < MaxFailures
    /\ \A r \in Requests : pc[r] = "drop" => r \in Refreshes /\ token[r] \in issued
    /\ \A r \in Requests : pc[r] # "done" => r \notin issued

\* The memory is empty until it is fallen back to.
MemoryEmpty == up => \A k \in Keys : memory[k] = Nothing

\* A sign-in that compares a password is alone and has read all the guesses.
CountInv ==
    overlapped \/ switched \/
        /\ guesses <= Count
        /\ \A l, m \in Logins : pc[l] = "compare" /\ pc[m] = "compare" => l = m
        /\ \A l \in Logins : pc[l] = "compare" => guesses <= saw[l]

\* A token that was used is in the store no more, and nobody holds it.
UseInv ==
    /\ \A t \in Requests \ issued : uses[t] = 0
    /\ \A t \in Requests :
        \/ t \in shared \/ (switched /\ restarted)
        \/ /\ uses[t] <= 1
           /\ \A q, r \in Refreshes : Holds(q, t) /\ Holds(r, t) => q = r
           /\ uses[t] = 1 => Current(t).n = 0 /\ \A r \in Refreshes : ~Holds(r, t)

IInv == Awaits /\ MemoryEmpty /\ CountInv /\ UseInv /\ SessionKept

-----------------------------------------------------------------------------
(* The calls to the store. *)

\* After a write the store in use has the value; elsewhere it has what it had, or
\* nothing where it was changed for the empty memory.
LEMMA WriteFacts ==
    ASSUME TypeOK, MemoryEmpty, NEW k \in Keys, NEW v \in Value, Write(k, v)
    PROVE  /\ up' \in BOOLEAN /\ switched' \in BOOLEAN
           /\ redis' \in [Keys -> Value] /\ memory' \in [Keys -> Value]
           /\ Current(k)' = v
           /\ \A j \in Keys \ {k} : Current(j)' \in {Current(j), Nothing}
           /\ MemoryEmpty'
           /\ switched => switched'
           /\ ~switched' => up' = up /\ \A j \in Keys \ {k} : Current(j)' = Current(j)
<1> USE DEF TypeOK, Current, MemoryEmpty
<1>1. CASE up /\ redis' = [redis EXCEPT ![k] = v] /\ UNCHANGED <<up, memory, switched>>
  BY <1>1
<1>2. CASE ~up /\ memory' = [memory EXCEPT ![k] = v] /\ UNCHANGED <<up, redis, switched>>
  BY <1>2
<1>3. CASE /\ FallBack
           /\ redis' \in {redis, [redis EXCEPT ![k] = v]}
           /\ memory' = [memory EXCEPT ![k] = v]
  BY <1>3 DEF FallBack
<1> QED
  BY <1>1, <1>2, <1>3 DEF Write

\* What a read answers is what the store in use has by then.
LEMMA GetFacts ==
    ASSUME TypeOK, MemoryEmpty, NEW k \in Keys, NEW v, Get(k, v)
    PROVE  /\ up' \in BOOLEAN /\ switched' \in BOOLEAN
           /\ UNCHANGED <<redis, memory>>
           /\ \A j \in Keys : Current(j)' \in {Current(j), Nothing}
           /\ MemoryEmpty'
           /\ switched => switched'
           /\ ~switched' => up' = up
           /\ k # FailKey => v = Current(k)'.n
           /\ k = FailKey /\ ~switched' => v = Count
<1> USE DEF TypeOK, Current, MemoryEmpty, Get, InRedis, InMemory, Count
<1>1. CASE up' = up /\ switched' = switched
  BY <1>1 DEF FallBack
<1>2. CASE FallBack
  BY <1>2 DEF FallBack
<1> QED
  BY <1>1, <1>2

\* The values that are written.
LEMMA Written ==
    ASSUME TypeOK, Awaits
    PROVE  /\ Nothing \in Value
           /\ [n |-> 1, exp |-> 0] \in Value
           /\ \A r \in Requests : pc[r] = "compare" =>
                 /\ saw[r] \in 0 .. MaxFailures - 1
                 /\ [n |-> saw[r] + 1, exp |-> now + Lockout] \in Value
BY LimitsAssumption DEF TypeOK, Awaits, Value, Nothing

LEMMA KeyFacts ==
    /\ FailKey \in Keys /\ FailKey \notin Requests
    /\ Requests \subseteq Keys /\ Keys \ {FailKey} = Requests
    /\ Logins \subseteq Requests /\ Refreshes \subseteq Requests
BY RequestsAssumption DEF Keys, Requests

-----------------------------------------------------------------------------
(* Every step keeps the types, what the awaits have behind them, and the   *)
(* empty memory.                                                           *)

Base == TypeOK /\ Awaits /\ MemoryEmpty

LEMMA BaseStep ==
    ASSUME Base, [Next]_vars
    PROVE  Base'
<1> USE KeyFacts, LimitsAssumption DEF Base, stores, history
<1>1. ASSUME NEW r \in Requests, CountRead(r)
      PROVE  Base'
  <2>1. MemoryEmpty' /\ up' \in BOOLEAN /\ switched' \in BOOLEAN /\ UNCHANGED <<redis, memory>>
    BY <1>1, GetFacts DEF CountRead
  <2>2. TypeOK'
    BY <1>1, <2>1 DEF CountRead, TypeOK, Goto
  <2>3. Awaits'
    BY <1>1 DEF CountRead, TypeOK, Awaits, Goto
  <2> QED
    BY <2>1, <2>2, <2>3
<1>2. ASSUME NEW r \in Requests, Wrong(r) \/ Right(r)
      PROVE  Base'
  <2>1. PICK v \in Value : Write(FailKey, v)
    BY <1>2, Written DEF Wrong, Right
  <2>2. /\ MemoryEmpty' /\ up' \in BOOLEAN /\ switched' \in BOOLEAN
        /\ redis' \in [Keys -> Value] /\ memory' \in [Keys -> Value]
    BY <2>1, WriteFacts
  <2>3. TypeOK'
    BY <1>2, <2>2 DEF Wrong, Right, TypeOK, Goto
  <2>4. Awaits'
    BY <1>2 DEF Wrong, Right, TypeOK, Awaits, Goto
  <2> QED
    BY <2>2, <2>3, <2>4
<1>3. ASSUME NEW r \in Requests, Issue(r)
      PROVE  Base'
  <2>1. /\ MemoryEmpty' /\ up' \in BOOLEAN /\ switched' \in BOOLEAN
        /\ redis' \in [Keys -> Value] /\ memory' \in [Keys -> Value]
    BY <1>3, Written, WriteFacts DEF Issue
  <2>2. TypeOK'
    BY <1>3, <2>1 DEF Issue, TypeOK, Goto
  <2>3. Awaits'
    BY <1>3 DEF Issue, TypeOK, Awaits, Goto
  <2> QED
    BY <2>1, <2>2, <2>3
<1>4. ASSUME NEW r \in Requests, TokenRead(r)
      PROVE  Base'
  <2>1. token[r] \in Requests
    BY <1>4 DEF TokenRead, TypeOK
  <2>2. MemoryEmpty' /\ up' \in BOOLEAN /\ switched' \in BOOLEAN /\ UNCHANGED <<redis, memory>>
    BY <1>4, <2>1, GetFacts DEF TokenRead
  <2>3. TypeOK'
    BY <1>4, <2>1, <2>2 DEF TokenRead, TypeOK, Goto
  <2>4. Awaits'
    BY <1>4 DEF TokenRead, TypeOK, Awaits, Goto
  <2> QED
    BY <2>2, <2>3, <2>4
<1>5. ASSUME NEW r \in Requests, TokenDrop(r)
      PROVE  Base'
  <2>1. token[r] \in Requests
    BY <1>5 DEF TokenDrop, Awaits, TypeOK
  <2>2. /\ MemoryEmpty' /\ up' \in BOOLEAN /\ switched' \in BOOLEAN
        /\ redis' \in [Keys -> Value] /\ memory' \in [Keys -> Value]
    BY <1>5, <2>1, Written, WriteFacts DEF TokenDrop
  <2>3. TypeOK'
    BY <1>5, <2>1, <2>2 DEF TokenDrop, TypeOK, Goto
  <2>4. Awaits'
    BY <1>5 DEF TokenDrop, TypeOK, Awaits, Goto
  <2> QED
    BY <2>2, <2>3, <2>4
<1>6. ASSUME NEW r \in Requests, Throw(r)
      PROVE  Base'
  BY <1>6 DEF Throw, TypeOK, Awaits, MemoryEmpty, Goto
<1>7. CASE Restart
  <2>1. TypeOK'
    BY <1>7, Written DEF Restart, TypeOK
  <2>2. Awaits' /\ MemoryEmpty'
    BY <1>7 DEF Restart, TypeOK, Awaits, MemoryEmpty
  <2> QED
    BY <2>1, <2>2
<1>8. CASE Tick
  BY <1>8 DEF Tick, TypeOK, Awaits, MemoryEmpty
<1>9. CASE UNCHANGED vars
  BY <1>9 DEF vars, TypeOK, Awaits, MemoryEmpty
<1> QED
  BY <1>1, <1>2, <1>3, <1>4, <1>5, <1>6, <1>7, <1>8, <1>9 DEF Next

-----------------------------------------------------------------------------
(* The failure count. *)

LEMMA CountStep ==
    ASSUME Base, CountInv, [Next]_vars
    PROVE  CountInv'
<1> SUFFICES ASSUME ~overlapped', ~switched'
             PROVE  CountInv'
  BY DEF CountInv
<1> USE KeyFacts, LimitsAssumption DEF Base
<1>0. Base'
  BY BaseStep
<1>1. ASSUME NEW r \in Requests, CountRead(r)
      PROVE  CountInv'
  <2>1. r \in Logins /\ saw' = [saw EXCEPT ![r] = Count] /\ UNCHANGED <<redis, memory, up>>
    BY <1>1, GetFacts DEF CountRead
  <2>2. \A l \in Logins : pc[l] # "compare"
    BY <1>1 DEF CountRead
  <2>3. ~overlapped /\ ~switched /\ guesses <= Count
    BY <1>1, <2>2, GetFacts DEF CountRead, CountInv
  <2>4. Count' = Count /\ guesses' = guesses
    BY <1>1, <2>1 DEF CountRead, Count, InRedis, InMemory
  <2>5. \A l \in Logins : pc'[l] = "compare" => l = r
    BY <1>1, <2>2 DEF CountRead, Goto, TypeOK
  <2> QED
    BY <2>1, <2>3, <2>4, <2>5 DEF CountInv, TypeOK
<1>2. ASSUME NEW r \in Requests, Wrong(r)
      PROVE  CountInv'
  <2>1. r \in Logins /\ saw[r] \in 0 .. MaxFailures - 1 /\ ~overlapped /\ ~switched
    BY <1>2, Written, WriteFacts DEF Wrong, Awaits, TypeOK
  <2>2. guesses <= saw[r] /\ \A l \in Logins : pc'[l] # "compare"
    BY <1>2, <2>1 DEF Wrong, Goto, TypeOK, CountInv
  <2>3. Current(FailKey)' = [n |-> saw[r] + 1, exp |-> now + Lockout] /\ now' = now
    BY <1>2, Written, WriteFacts DEF Wrong
  <2>4. Count' = saw[r] + 1
    BY <2>3 DEF Current, Count, InRedis, InMemory, TypeOK
  <2> QED
    BY <1>2, <2>1, <2>2, <2>4 DEF Wrong, CountInv, TypeOK
<1>3. ASSUME NEW r \in Requests, Right(r)
      PROVE  CountInv'
  <2>1. r \in Logins /\ ~overlapped /\ ~switched
    BY <1>3, Written, WriteFacts DEF Right, Awaits
  <2>2. \A l \in Logins : pc'[l] # "compare"
    BY <1>3, <2>1 DEF Right, Goto, TypeOK, CountInv
  <2>3. Count' \in Nat
    BY <1>0 DEF Count, InRedis, InMemory, TypeOK, Value
  <2> QED
    BY <1>3, <2>2, <2>3 DEF Right, CountInv
<1>4. ASSUME NEW r \in Requests, Issue(r) \/ TokenRead(r) \/ TokenDrop(r)
      PROVE  CountInv'
  <2>1. /\ ~overlapped /\ ~switched
        /\ Current(FailKey)' = Current(FailKey) /\ up' = up
    <3>1. CASE Issue(r)
      BY <1>4, <3>1, Written, WriteFacts DEF Issue
    <3>2. CASE TokenRead(r)
      <4>1. token[r] \in Requests
        BY <3>2 DEF TokenRead, TypeOK
      <4> QED
        BY <3>2, <4>1, GetFacts DEF TokenRead, Current
    <3>3. CASE TokenDrop(r)
      <4>1. token[r] \in Requests
        BY <3>3 DEF TokenDrop, Awaits, TypeOK
      <4> QED
        BY <3>3, <4>1, Written, WriteFacts DEF TokenDrop
    <3> QED
      BY <1>4, <3>1, <3>2, <3>3
  <2>2. UNCHANGED <<now, saw, guesses>> /\ \A l \in Requests : pc'[l] = "compare" => pc[l] = "compare"
    BY <1>4 DEF Issue, TokenRead, TokenDrop, Goto, TypeOK
  <2>3. Count' = Count
    BY <2>1, <2>2 DEF Current, Count, InRedis, InMemory
  <2> QED
    BY <2>1, <2>2, <2>3 DEF CountInv
<1>5. ASSUME NEW r \in Requests, Throw(r)
      PROVE  CountInv'
  BY <1>5 DEF Throw, stores, history, CountInv, Goto, TypeOK, Count, InRedis, InMemory
<1>6. CASE Restart
  <2>1. ~overlapped /\ ~switched /\ up' = up /\ up /\ redis' = redis /\ guesses' = guesses /\ now' = now
    BY <1>6 DEF Restart
  <2>2. \A l \in Requests : pc'[l] # "compare"
    BY <1>6 DEF Restart
  <2>3. Count' = Count
    BY <2>1 DEF Count, InRedis
  <2> QED
    BY <2>1, <2>2, <2>3 DEF CountInv
<1>7. CASE Tick
  <2>1. ~overlapped /\ ~switched /\ UNCHANGED <<up, redis, memory, pc, saw>>
    BY <1>7 DEF Tick, stores
  <2>2. guesses' <= guesses /\ guesses' <= Count'
    BY <1>7, <2>1 DEF Tick, Count, InRedis, InMemory, CountInv, TypeOK, Value
  <2>3. guesses' \in Nat
    BY <1>0 DEF TypeOK
  <2> QED
    BY <2>1, <2>2, <2>3 DEF CountInv, TypeOK
<1>8. CASE UNCHANGED vars
  BY <1>8 DEF vars, stores, history, CountInv, Count, InRedis, InMemory
<1> QED
  BY <1>1, <1>2, <1>3, <1>4, <1>5, <1>6, <1>7, <1>8 DEF Next

-----------------------------------------------------------------------------
(* The uses of a token. *)

\* A step that uses no token, hands none out to hold, and puts none back.
LEMMA UseFrame ==
    ASSUME Base, UseInv,
           uses' = uses, issued \subseteq issued', shared \subseteq shared',
           switched => switched', restarted => restarted',
           \A t \in Requests : uses[t] = 1 =>
              \/ Current(t)' \in {Current(t), Nothing}
              \/ switched' /\ restarted',
           \A t \in Requests, r \in Refreshes : Holds(r, t)' => Holds(r, t)
    PROVE  UseInv'
BY DEF UseInv, Nothing

LEMMA UseStep ==
    ASSUME Base, UseInv, [Next]_vars
    PROVE  UseInv'
<1> USE KeyFacts DEF Base
<1>1. ASSUME NEW r \in Requests, CountRead(r)
      PROVE  UseInv'
  <2>1. /\ \A t \in Requests : Current(t)' \in {Current(t), Nothing}
        /\ switched => switched'
    BY <1>1, GetFacts DEF CountRead
  <2>2. \A t \in Requests, q \in Refreshes : Holds(q, t)' => Holds(q, t)
    BY <1>1 DEF CountRead, Holds, Goto, TypeOK
  <2> QED
    BY <1>1, <2>1, <2>2, UseFrame DEF CountRead
<1>2. ASSUME NEW r \in Requests, Wrong(r) \/ Right(r)
      PROVE  UseInv'
  <2>1. PICK v \in Value : Write(FailKey, v)
    BY <1>2, Written DEF Wrong, Right
  <2>2. /\ \A t \in Requests : Current(t)' \in {Current(t), Nothing}
        /\ switched => switched'
    BY <2>1, WriteFacts
  <2>3. \A t \in Requests, q \in Refreshes : Holds(q, t)' => Holds(q, t)
    BY <1>2 DEF Wrong, Right, Holds, Goto, TypeOK
  <2>4. UNCHANGED <<uses, issued, shared, restarted>>
    BY <1>2 DEF Wrong, Right
  <2> QED
    BY <2>2, <2>3, <2>4, UseFrame
<1>3. ASSUME NEW r \in Requests, Issue(r)
      PROVE  UseInv'
  <2>1. /\ \A t \in Requests \ {r} : Current(t)' \in {Current(t), Nothing}
        /\ switched => switched'
    BY <1>3, Written, WriteFacts DEF Issue
  <2>2. uses[r] = 0
    BY <1>3 DEF Issue, Awaits, UseInv
  <2>3. \A t \in Requests, q \in Refreshes : Holds(q, t)' => Holds(q, t)
    BY <1>3 DEF Issue, Holds, Goto, TypeOK
  <2> QED
    BY <1>3, <2>1, <2>2, <2>3, UseFrame DEF Issue
<1>4. ASSUME NEW r \in Requests, TokenRead(r)
      PROVE  UseInv'
  <2>1. /\ r \in Refreshes /\ token[r] \in Requests
        /\ UNCHANGED <<token, issued, uses, restarted>>
        /\ shared \subseteq shared'
    BY <1>4 DEF TokenRead, TypeOK
  <2>2. /\ \A t \in Requests : Current(t)' \in {Current(t), Nothing}
        /\ switched => switched'
        /\ pc' = [pc EXCEPT ![r] = IF Current(token[r])'.n = 0 THEN "done" ELSE "drop"]
    BY <1>4, <2>1, GetFacts DEF TokenRead, Goto
  <2>3. CASE pc'[r] = "done"
    <3>1. \A t \in Requests, q \in Refreshes : Holds(q, t)' => Holds(q, t)
      BY <2>1, <2>2, <2>3 DEF Holds, TypeOK
    <3> QED
      BY <2>1, <2>2, <3>1, UseFrame
  <2>4. CASE pc'[r] = "drop"
    <3>1. Current(token[r])'.n # 0 /\ Current(token[r]).n # 0
      BY <2>1, <2>2, <2>4 DEF TypeOK, Nothing
    <3>2. \A t \in Requests \ {token[r]}, q \in Refreshes : Holds(q, t)' => Holds(q, t)
      BY <2>1, <2>2 DEF Holds, TypeOK
    <3>3. \A q \in Refreshes \ {r} : Holds(q, token[r])' => token[r] \in shared'
      BY <1>4, <2>1, <2>2 DEF TokenRead, Holds, TypeOK
    <3>4. ASSUME NEW t \in Requests, t \notin shared', ~(switched' /\ restarted')
          PROVE  /\ uses[t] <= 1
                 /\ \A q, s \in Refreshes : Holds(q, t)' /\ Holds(s, t)' => q = s
                 /\ uses[t] = 1 => Current(t)'.n = 0 /\ \A q \in Refreshes : ~Holds(q, t)'
      <4>1. t \notin shared /\ ~(switched /\ restarted)
        BY <2>1, <2>2, <3>4
      <4>2. CASE t = token[r]
        BY <2>1, <3>1, <3>3, <3>4, <4>1, <4>2 DEF UseInv, TypeOK
      <4>3. CASE t # token[r]
        BY <2>1, <2>2, <3>2, <4>1, <4>3 DEF UseInv, Nothing
      <4> QED
        BY <4>2, <4>3
    <3> QED
      BY <2>1, <3>4 DEF UseInv
  <2> QED
    BY <2>2, <2>3, <2>4 DEF TypeOK
<1>5. ASSUME NEW r \in Requests, TokenDrop(r)
      PROVE  UseInv'
  <2>1. /\ r \in Refreshes /\ token[r] \in issued /\ token[r] \in Requests
        /\ UNCHANGED <<token, issued, shared, restarted>>
        /\ uses' = [uses EXCEPT ![token[r]] = @ + 1]
        /\ Holds(r, token[r])
    BY <1>5 DEF TokenDrop, Awaits, TypeOK, Holds
  <2>2. /\ Current(token[r])' = Nothing
        /\ \A t \in Requests \ {token[r]} : Current(t)' \in {Current(t), Nothing}
        /\ switched => switched'
    BY <1>5, <2>1, Written, WriteFacts DEF TokenDrop
  <2>3. \A t \in Requests, q \in Refreshes : Holds(q, t)' => q # r /\ Holds(q, t)
    BY <1>5, <2>1 DEF TokenDrop, Holds, Goto, TypeOK
  <2>4. ASSUME NEW t \in Requests, t \notin shared', ~(switched' /\ restarted')
        PROVE  /\ uses'[t] <= 1
               /\ \A q, s \in Refreshes : Holds(q, t)' /\ Holds(s, t)' => q = s
               /\ uses'[t] = 1 => Current(t)'.n = 0 /\ \A q \in Refreshes : ~Holds(q, t)'
    <3>1. t \notin shared /\ ~(switched /\ restarted)
      BY <2>1, <2>2, <2>4
    <3>2. /\ uses[t] <= 1
          /\ \A q, s \in Refreshes : Holds(q, t) /\ Holds(s, t) => q = s
          /\ uses[t] = 1 => Current(t).n = 0 /\ \A q \in Refreshes : ~Holds(q, t)
      BY <3>1 DEF UseInv
    <3>3. CASE t = token[r]
      <4>1. uses[t] \in Nat /\ uses'[t] = uses[t] + 1
        BY <2>1, <3>3 DEF TypeOK
      <4>2. uses[t] # 1
        BY <2>1, <3>2, <3>3
      <4>3. \A q \in Refreshes : ~Holds(q, t)'
        BY <2>1, <2>3, <3>2, <3>3
      <4>4. uses'[t] <= 1 /\ Current(t)' = Nothing
        BY <2>1, <2>2, <3>2, <3>3, <4>1, <4>2
      <4> QED
        BY <4>3, <4>4 DEF Nothing
    <3>4. CASE t # token[r]
      BY <2>1, <2>2, <2>3, <3>2, <3>4 DEF TypeOK, Nothing
    <3> QED
      BY <3>3, <3>4
  <2> QED
    BY <2>1, <2>4 DEF UseInv, TypeOK
<1>6. ASSUME NEW r \in Requests, Throw(r)
      PROVE  UseInv'
  <2>1. \A t \in Requests, q \in Refreshes : Holds(q, t)' => Holds(q, t)
    BY <1>6 DEF Throw, Holds, Goto, TypeOK
  <2> QED
    BY <1>6, <2>1, UseFrame DEF Throw, stores, history, Current
<1>7. CASE Restart
  <2>1. \A t \in Requests, q \in Refreshes : ~Holds(q, t)'
    BY <1>7 DEF Restart, Holds
  <2> QED
    BY <1>7, <2>1, UseFrame DEF Restart, Current
<1>8. CASE Tick \/ UNCHANGED vars
  BY <1>8, UseFrame DEF Tick, vars, stores, history, Current, Holds
<1> QED
  BY <1>1, <1>2, <1>3, <1>4, <1>5, <1>6, <1>7, <1>8 DEF Next

-----------------------------------------------------------------------------
(* The tokens that were not used. *)

\* Of a token, the store in use answers what it has.
LEMMA KeptIsCurrent ==
    ASSUME Base
    PROVE  SessionKept <=> switched \/ \A t \in issued : uses[t] = 0 => Current(t).n = 1
BY KeyFacts DEF SessionKept, Base, TypeOK, InRedis, InMemory, Current

LEMMA KeptStep ==
    ASSUME Base, SessionKept, [Next]_vars
    PROVE  SessionKept'
<1> USE KeyFacts DEF Base
<1>0. Base' /\ (SessionKept' <=>
        switched' \/ \A t \in issued' : uses'[t] = 0 => Current(t)'.n = 1)
  <2>1. Base'
    BY BaseStep
  <2> QED
    BY <2>1 DEF SessionKept, TypeOK, InRedis, InMemory, Current
<1> SUFFICES ASSUME ~switched', NEW t \in issued', uses'[t] = 0
             PROVE  Current(t)'.n = 1
  BY <1>0
<1>1. ASSUME NEW r \in Requests, CountRead(r)
      PROVE  Current(t)'.n = 1
  BY <1>1, GetFacts, KeptIsCurrent DEF CountRead, Current, TypeOK
<1>2. ASSUME NEW r \in Requests, Wrong(r) \/ Right(r)
      PROVE  Current(t)'.n = 1
  <2>1. PICK v \in Value : Write(FailKey, v)
    BY <1>2, Written DEF Wrong, Right
  <2>2. UNCHANGED <<issued, uses>>
    BY <1>2 DEF Wrong, Right
  <2> QED
    BY <2>1, <2>2, WriteFacts, KeptIsCurrent DEF TypeOK
<1>3. ASSUME NEW r \in Requests, Issue(r)
      PROVE  Current(t)'.n = 1
  BY <1>3, Written, WriteFacts, KeptIsCurrent DEF Issue, TypeOK
<1>4. ASSUME NEW r \in Requests, TokenRead(r)
      PROVE  Current(t)'.n = 1
  <2>1. token[r] \in Requests
    BY <1>4 DEF TokenRead, TypeOK
  <2> QED
    BY <1>4, <2>1, GetFacts, KeptIsCurrent DEF TokenRead, Current, TypeOK
<1>5. ASSUME NEW r \in Requests, TokenDrop(r)
      PROVE  Current(t)'.n = 1
  <2>1. token[r] \in Requests /\ uses' = [uses EXCEPT ![token[r]] = @ + 1] /\ issued' = issued
    BY <1>5 DEF TokenDrop, Awaits, TypeOK
  <2>2. t # token[r] /\ uses[t] = 0
    BY <2>1 DEF TypeOK
  <2> QED
    BY <1>5, <2>1, <2>2, Written, WriteFacts, KeptIsCurrent DEF TokenDrop, TypeOK
<1>6. ASSUME NEW r \in Requests, Throw(r)
      PROVE  Current(t)'.n = 1
  BY <1>6, KeptIsCurrent DEF Throw, stores, history, Current
<1>7. CASE Restart
  BY <1>7, KeptIsCurrent DEF Restart, Current
<1>8. CASE Tick \/ UNCHANGED vars
  BY <1>8, KeptIsCurrent DEF Tick, vars, stores, history, Current
<1> QED
  BY <1>1, <1>2, <1>3, <1>4, <1>5, <1>6, <1>7, <1>8 DEF Next

-----------------------------------------------------------------------------
(* The theorems. *)

LEMMA Invariance == Spec => [](TypeOK /\ IInv)
<1>1. Init => TypeOK /\ IInv
  <2> USE KeyFacts, LimitsAssumption DEF Init
  <2>1. Init => TypeOK
    <3>1. Nothing \in Value /\ 0 \in 0 .. MaxTime /\ 0 \in 0 .. MaxFailures
      BY DEF Value, Nothing
    <3>2. Init => redis \in [Keys -> Value] /\ memory \in [Keys -> Value]
      BY <3>1
    <3>3. Init => /\ pc \in [Requests -> {"idle", "compare", "drop", "issue", "done"}]
                  /\ saw \in [Logins -> 0 .. MaxFailures]
                  /\ uses \in [Requests -> Nat]
      BY <3>1
    <3>4. Init => now \in 0 .. MaxTime /\ guesses \in Nat
      BY <3>1
    <3>5. Init => /\ overlapped \in BOOLEAN /\ switched \in BOOLEAN /\ restarted \in BOOLEAN
                  /\ issued \subseteq Requests /\ shared \subseteq Requests
                  /\ up \in BOOLEAN /\ token \in [Refreshes -> Requests]
      OBVIOUS
    <3> HIDE DEF Init
    <3> QED
      BY <3>2, <3>3, <3>4, <3>5 DEF TypeOK
  <2>2. Init => Awaits
    BY DEF Awaits
  <2>3. Init => MemoryEmpty
    BY DEF MemoryEmpty
  <2>4. Init => SessionKept
    BY DEF SessionKept
  <2>5. Init => CountInv
    BY DEF CountInv, Count, InRedis, InMemory, Nothing
  <2>6. Init => UseInv
    BY DEF UseInv, Holds
  <2> QED
    BY <2>1, <2>2, <2>3, <2>4, <2>5, <2>6 DEF IInv
<1>2. TypeOK /\ IInv /\ [Next]_vars => (TypeOK /\ IInv)'
  BY BaseStep, CountStep, UseStep, KeptStep DEF IInv, Base
<1> QED
  BY <1>1, <1>2, PTL DEF Spec

\* The state of AuthService and of the two stores of RedisService keeps its types:
\* no failure count passes the limit, whatever overlaps, falls back or restarts.
THEOREM TypeCorrect == Spec => []TypeOK
BY Invariance, PTL

\* Whatever the limit and the number of sign-ins, no more wrong passwords than
\* rateLimit.loginMaxFailures are compared within a lockout window, unless
\* sign-ins overlapped or the store of the count changed (AuthService.login).
THEOREM LockHoldsCorrect == Spec => []LockHolds
<1>1. TypeOK => guesses \in Nat /\ Count \in 0 .. MaxFailures
  BY KeyFacts, LimitsAssumption DEF Count, InRedis, InMemory, TypeOK, Value
<1>2. TypeOK /\ IInv => LockHolds
  BY <1>1, LimitsAssumption DEF IInv, CountInv, LockHolds
<1> QED
  BY <1>2, Invariance, PTL

\* A refresh token pays for one refresh, unless two held it at once or its del
\* failed and a restart returned to the Redis that still had it
\* (AuthService.refresh, RedisService).
THEOREM UsedOnceCorrect == Spec => []UsedOnce
<1>1. IInv => UsedOnce
  BY DEF IInv, UseInv, UsedOnce
<1> QED
  BY <1>1, Invariance, PTL

\* A token that was handed out and not used is still known, unless the store in
\* use has changed (AuthService.issueUserTokens, RedisService).
THEOREM SessionKeptCorrect == Spec => []SessionKept
<1>1. IInv => SessionKept
  BY DEF IInv
<1> QED
  BY <1>1, Invariance, PTL

=============================================================================
