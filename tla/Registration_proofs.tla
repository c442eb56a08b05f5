------------------------- MODULE Registration_proofs -------------------------
(***************************************************************************)
(* Proofs about module Registration, for any number of addresses and       *)
(* calls, and any limits and times.                                        *)
(***************************************************************************)
EXTENDS Registration, TLAPS, FiniteSetTheorems

-----------------------------------------------------------------------------
(* The inductive invariant. *)

\* A record that was built has a code of its own call, for its own address.
Unbuilt == {"idle", "read"}
Unsaved == Unbuilt \cup {"save"}

\* What each await has behind it.
Stages ==
    \A r \in Requests :
        /\ pc[r] \in {"save", "mail"} => copy[r] # None /\ copy[r].code = r /\ copy[r].attempts = 0
        /\ pc[r] = "count" => copy[r] # None /\ copy[r].attempts < MaxAttempts
        /\ pc[r] \in {"consume", "user", "codes", "commit"} =>
              copy[r] # None /\ guess[r] = copy[r].code
        /\ pc[r] \in {"codes", "commit"} => tries[r] < MaxTries
        /\ pc[r] \in {"idle", "pending", "consume", "user"} => tries[r] = 0

Genuine(record, e) ==
    record # None => email[record.code] = e /\ lineage[record.code] = record.owner

\* Records and guesses are of the address they are kept for, and a code that has
\* a lineage was built.
RecordsInv ==
    /\ \A e \in Emails : Genuine(store[e], e)
    /\ \A r \in Requests : Genuine(copy[r], email[r])
    /\ \A c \in Requests : lineage[c] # None => pc[c] \notin Unbuilt
    /\ \A r \in Requests : guess[r] # None =>
          email[guess[r]] = email[r] /\ mailedAt[guess[r]] >= 0

\* The employee codes in use have no gap, so that whoever finds the next one
\* taken has met one more rival than before.
NumbersInv ==
    LET top == Highest(codes) IN
    /\ top \in Nat /\ codes = 1 .. top
    /\ \A r \in Requests : /\ seen[r] <= top /\ tries[r] <= top
                           /\ pc[r] = "commit" => tries[r] <= seen[r]

Alone ==
    \A q, r \in Requests :
        InFlight(q) /\ InFlight(r) /\ email[q] = email[r] /\ email[r] \notin raced => q = r

\* The code that works is the one last mailed, or the one about to be mailed.
NewestInv ==
    \A e \in Emails \ (raced \cup failed) :
        /\ \A r \in Requests : email[r] = e =>
              /\ pc[r] = "mail" => store[e] # None /\ store[e].code = r
              /\ pc[r] = "count" => copy[r].code = newest[e]
        /\ \/ \E r \in Requests : email[r] = e /\ pc[r] = "mail"
           \/ store[e] # None => store[e].code = newest[e]

\* Wrong answers are counted in the record of the code, as long as it has one.
WrongsInv ==
    /\ \A e \in Emails : store[e] # None => pc[store[e].code] \notin Unsaved
    /\ \A r \in Requests : pc[r] = "count" => pc[copy[r].code] \notin Unsaved
    /\ \A c \in Requests : pc[c] \in Unsaved => wrongs[c] = 0
    /\ \A c \in Requests : email[c] \notin raced =>
          /\ wrongs[c] <= MaxAttempts
          /\ store[email[c]] # None /\ store[email[c]].code = c =>
                wrongs[c] <= store[email[c]].attempts
          /\ \A r \in Requests : pc[r] = "count" /\ copy[r].code = c =>
                wrongs[c] <= copy[r].attempts

IInv ==
    /\ TypeOK /\ Stages /\ RecordsInv /\ NumbersInv
    /\ Alone /\ NewestInv /\ WrongsInv
    /\ OwnEmployee /\ OwnPassword

-----------------------------------------------------------------------------
(* Records. *)

LEMMA PendingFacts ==
    ASSUME TypeOK, NEW r \in Requests
    PROVE  /\ Pending(email[r]) \in Record \cup {None}
           /\ Pending(email[r]) # None => /\ Pending(email[r]) = store[email[r]]
                                          /\ Pending(email[r]).owner \in Requests
BY DEF TypeOK, Pending, Record

LEMMA NewFacts ==
    ASSUME TypeOK, NEW r \in Requests, NEW p \in Record \cup {None},
           CanSend(p), NEW o \in Requests
    PROVE  /\ NewRecord(r, p) \in Record
           /\ NewRecord(r, p).code = r /\ NewRecord(r, p).owner = r
           /\ NewRecord(r, p).attempts = 0
           /\ [NewRecord(r, p) EXCEPT !.owner = o] \in Record
           /\ [NewRecord(r, p) EXCEPT !.owner = o].code = r
           /\ [NewRecord(r, p) EXCEPT !.owner = o].owner = o
           /\ [NewRecord(r, p) EXCEPT !.owner = o].attempts = 0
<1>1. NewRecord(r, p) \in Record
  BY BoundsAssumption DEF TypeOK, CanSend, NewRecord, Record
<1>2. /\ NewRecord(r, p).code = r /\ NewRecord(r, p).owner = r
      /\ NewRecord(r, p).attempts = 0
  BY DEF NewRecord
<1>3. ASSUME NEW n \in Record
      PROVE  /\ [n EXCEPT !.owner = o] \in Record
             /\ [n EXCEPT !.owner = o].owner = o
             /\ [n EXCEPT !.owner = o].code = n.code
             /\ [n EXCEPT !.owner = o].attempts = n.attempts
  BY DEF Record
<1> QED
  BY <1>1, <1>2, <1>3

LEMMA SavedFacts ==
    ASSUME TypeOK, NEW n \in Record
    PROVE  /\ Saved(n) \in Record
           /\ Saved(n).code = n.code /\ Saved(n).owner = n.owner
           /\ Saved(n).attempts = n.attempts
<1>1. now + Ttl \in 0 .. (MaxTime + Ttl)
  BY BoundsAssumption DEF TypeOK
<1> QED
  BY <1>1 DEF Saved, Record

LEMMA SentFacts ==
    ASSUME TypeOK, NEW q \in Record
    PROVE  /\ Saved([q EXCEPT !.sentAt = now]) \in Record
           /\ Saved([q EXCEPT !.sentAt = now]).code = q.code
           /\ Saved([q EXCEPT !.sentAt = now]).owner = q.owner
           /\ Saved([q EXCEPT !.sentAt = now]).attempts = q.attempts
<1> DEFINE n == [q EXCEPT !.sentAt = now]
<1>1. n \in Record /\ n.code = q.code /\ n.owner = q.owner /\ n.attempts = q.attempts
  BY DEF TypeOK, Record
<1> HIDE DEF n
<1>2. /\ Saved(n) \in Record /\ Saved(n).code = q.code /\ Saved(n).owner = q.owner
      /\ Saved(n).attempts = q.attempts
  BY <1>1, SavedFacts
<1> QED
  BY <1>2 DEF n

LEMMA CountedFacts ==
    ASSUME TypeOK, NEW q \in Record, q.attempts < MaxAttempts
    PROVE  /\ Saved([q EXCEPT !.attempts = @ + 1]) \in Record
           /\ Saved([q EXCEPT !.attempts = @ + 1]).code = q.code
           /\ Saved([q EXCEPT !.attempts = @ + 1]).owner = q.owner
           /\ Saved([q EXCEPT !.attempts = @ + 1]).attempts = q.attempts + 1
<1> DEFINE n == [q EXCEPT !.attempts = @ + 1]
<1>1. q.attempts + 1 \in 0 .. MaxAttempts
  BY BoundsAssumption DEF Record
<1>2. n \in Record /\ n.code = q.code /\ n.owner = q.owner /\ n.attempts = q.attempts + 1
  BY <1>1 DEF Record
<1> HIDE DEF n
<1>3. /\ Saved(n) \in Record /\ Saved(n).code = q.code /\ Saved(n).owner = q.owner
      /\ Saved(n).attempts = q.attempts + 1
  BY <1>2, SavedFacts
<1> QED
  BY <1>3 DEF n

\* The record that start and resend build.
LEMMA BuiltFacts ==
    ASSUME TypeOK, NEW r \in Requests, ReadForStart(r) \/ ReadForResend(r)
    PROVE  \E p \in Record :
              /\ copy' = [copy EXCEPT ![r] = p]
              /\ lineage' = [lineage EXCEPT ![r] = p.owner]
              /\ p.code = r /\ p.attempts = 0 /\ p.owner \in Requests
              /\ pc[r] = "read" /\ pc' = [pc EXCEPT ![r] = "save"]
              /\ UNCHANGED <<now, call, guess, store, mailedAt, newest, accounts, seen,
                             tries, confirmed, wrongs, raced, failed>>
<1> DEFINE n == NewRecord(r, Pending(email[r]))
<1>1. CASE ReadForStart(r)
  <2>1. n \in Record /\ n.code = r /\ n.owner = r /\ n.attempts = 0
    BY <1>1, PendingFacts, NewFacts DEF ReadForStart
  <2> QED
    BY <1>1, <2>1 DEF ReadForStart, Goto
<1>2. CASE ReadForResend(r)
  <2> DEFINE o == Pending(email[r]).owner
             m == [n EXCEPT !.owner = o]
  <2>1. m \in Record /\ m.code = r /\ m.owner = o /\ m.attempts = 0 /\ o \in Requests
    BY <1>2, PendingFacts, NewFacts DEF ReadForResend
  <2> QED
    BY <1>2, <2>1 DEF ReadForResend, Goto
<1> QED
  BY <1>1, <1>2

\* What a verification makes of the record it reads.
LEMMA ReadFacts ==
    ASSUME TypeOK, NEW r \in Requests, ReadForVerify(r)
    PROVE  /\ pc[r] = "pending"
           /\ copy' = [copy EXCEPT ![r] = Pending(email[r])]
           /\ \E step \in {"done", "drop", "count", "consume"} : pc' = [pc EXCEPT ![r] = step]
           /\ pc'[r] = "count" => Pending(email[r]) # None
           /\ UNCHANGED <<now, call, guess, store, mailedAt, newest, accounts, seen, tries,
                          history>>
<1> DEFINE p == Pending(email[r])
           step == CASE p = None -> "done"
                     [] p # None /\ p.attempts >= MaxAttempts -> "drop"
                     [] p # None /\ p.attempts < MaxAttempts /\ guess[r] # p.code -> "count"
                     [] OTHER -> "consume"
<1>1. pc' = [pc EXCEPT ![r] = step]
  BY DEF ReadForVerify, Goto
<1>2. step \in {"done", "drop", "count", "consume"} /\ (step = "count" => p # None)
  <2>1. CASE p = None
    BY <2>1
  <2>2. CASE p # None
    BY <2>2
  <2> QED
    BY <2>1, <2>2
<1> QED
  BY <1>1, <1>2 DEF ReadForVerify, TypeOK

LEMMA HighestOfInterval ==
    ASSUME NEW n \in Nat
    PROVE  Highest(1 .. n) = n
<1>1. CASE n = 0
  BY <1>1 DEF Highest
<1>2. CASE n # 0
  <2>1. n \in 1 .. n /\ \A m \in 1 .. n : m <= n
    BY <1>2
  <2>2. \A k \in 1 .. n : (\A m \in 1 .. n : m <= k) => k = n
    BY <2>1
  <2> QED
    BY <2>1, <2>2 DEF Highest
<1> QED
  BY <1>1, <1>2

-----------------------------------------------------------------------------
(* Types and stages. *)

LEMMA TypeStep ==
    ASSUME TypeOK, Stages, NumbersInv, [Next]_vars
    PROVE  TypeOK'
<1> USE BoundsAssumption, NoneAssumption DEF TypeOK, Goto, Steps, call, accounts, history
<1>1. ASSUME NEW r \in Requests, Begin(r)
      PROVE  TypeOK'
  BY <1>1 DEF Begin, MailedTo
<1>2. ASSUME NEW r \in Requests, ReadForStart(r) \/ ReadForResend(r)
      PROVE  TypeOK'
  <2>1. PICK p \in Record :
           /\ copy' = [copy EXCEPT ![r] = p]
           /\ lineage' = [lineage EXCEPT ![r] = p.owner]
           /\ p.code = r /\ p.attempts = 0 /\ p.owner \in Requests
           /\ pc[r] = "read" /\ pc' = [pc EXCEPT ![r] = "save"]
           /\ UNCHANGED <<now, call, guess, store, mailedAt, newest, accounts, seen,
                          tries, confirmed, wrongs, raced, failed>>
    BY <1>2, BuiltFacts
  <2> QED
    BY <2>1
<1>3. ASSUME NEW r \in Requests, Save(r)
      PROVE  TypeOK'
  <2>1. store' \in [Emails -> Record \cup {None}]
    BY <1>3, SentFacts DEF Save, Stages
  <2> QED
    BY <1>3, <2>1 DEF Save
<1>4. ASSUME NEW r \in Requests, Mail(r)
      PROVE  TypeOK'
  BY <1>4 DEF Mail
<1>5. ASSUME NEW r \in Requests, ReadForVerify(r)
      PROVE  TypeOK'
  BY <1>5, PendingFacts DEF ReadForVerify
<1>6. ASSUME NEW r \in Requests, Drop(r) \/ Consume(r) \/ CheckUser(r) \/ Refuse(r) \/ Fail(r)
      PROVE  TypeOK'
  <2>1. CASE Drop(r) \/ Consume(r)
    BY <2>1 DEF Drop, Consume
  <2>2. CASE CheckUser(r)
    BY <2>2 DEF CheckUser
  <2>3. CASE Refuse(r)
    BY <2>3 DEF Refuse
  <2>4. CASE Fail(r)
    BY <2>4 DEF Fail
  <2> QED
    BY <1>6, <2>1, <2>2, <2>3, <2>4
<1>7. ASSUME NEW r \in Requests, Count(r)
      PROVE  TypeOK'
  <2>1. copy[r] \in Record /\ copy[r].code \in Requests
    BY <1>7 DEF Count, Stages, Record
  <2>2. store' \in [Emails -> Record \cup {None}]
    BY <1>7, <2>1, CountedFacts DEF Count, Stages
  <2> QED
    BY <1>7, <2>1, <2>2 DEF Count
<1>8. ASSUME NEW r \in Requests, ReadCodes(r)
      PROVE  TypeOK'
  BY <1>8 DEF ReadCodes, NumbersInv
<1>9. ASSUME NEW r \in Requests, Commit(r)
      PROVE  TypeOK'
  <2>1. copy[r].code \in Requests /\ copy[r].owner \in Requests
    BY <1>9 DEF Commit, Stages, Record
  <2>2. codes' \subseteq Nat /\ number' \in [Emails -> Nat]
    <3>1. seen[r] + 1 \in Nat
      OBVIOUS
    <3>2. codes' = codes \cup {seen[r] + 1} /\ number' = [number EXCEPT ![email[r]] = seen[r] + 1]
      BY <1>9 DEF Commit
    <3> QED
      BY <3>1, <3>2
  <2>3. /\ account' \in [Emails -> Requests \cup {None}]
        /\ confirmed' \in [Emails -> Requests \cup {None}]
    BY <1>9, <2>1 DEF Commit
  <2> QED
    BY <1>9, <2>2, <2>3 DEF Commit
<1>10. ASSUME NEW r \in Requests, Retry(r)
       PROVE  TypeOK'
  BY <1>10 DEF Retry, Stages
<1>11. CASE Tick
  BY <1>11 DEF Tick
<1>12. CASE UNCHANGED vars
  BY <1>12 DEF vars
<1> QED
  BY <1>1, <1>2, <1>3, <1>4, <1>5, <1>6, <1>7, <1>8, <1>9, <1>10, <1>11, <1>12 DEF Next, Call

LEMMA StagesStep ==
    ASSUME TypeOK, Stages, [Next]_vars
    PROVE  Stages'
<1> USE BoundsAssumption, NoneAssumption DEF TypeOK, Stages, Goto, call, accounts, history
<1>1. ASSUME NEW r \in Requests, Begin(r)
      PROVE  Stages'
  BY <1>1 DEF Begin
<1>2. ASSUME NEW r \in Requests, ReadForStart(r) \/ ReadForResend(r)
      PROVE  Stages'
  <2>1. PICK p \in Record :
           /\ copy' = [copy EXCEPT ![r] = p]
           /\ lineage' = [lineage EXCEPT ![r] = p.owner]
           /\ p.code = r /\ p.attempts = 0 /\ p.owner \in Requests
           /\ pc[r] = "read" /\ pc' = [pc EXCEPT ![r] = "save"]
           /\ UNCHANGED <<now, call, guess, store, mailedAt, newest, accounts, seen,
                          tries, confirmed, wrongs, raced, failed>>
    BY <1>2, BuiltFacts
  <2> QED
    BY <2>1
<1>3. ASSUME NEW r \in Requests,
             Save(r) \/ Mail(r) \/ Drop(r) \/ Count(r) \/ Consume(r) \/ Refuse(r) \/ Fail(r)
      PROVE  Stages'
  BY <1>3 DEF Save, Mail, Drop, Count, Consume, Refuse, Fail
<1>4. ASSUME NEW r \in Requests, ReadForVerify(r)
      PROVE  Stages'
  BY <1>4, PendingFacts DEF ReadForVerify, Record
<1>5. ASSUME NEW r \in Requests, CheckUser(r)
      PROVE  Stages'
  BY <1>5 DEF CheckUser
<1>6. ASSUME NEW r \in Requests, ReadCodes(r) \/ Commit(r)
      PROVE  Stages'
  BY <1>6 DEF ReadCodes, Commit
<1>7. ASSUME NEW r \in Requests, Retry(r)
      PROVE  Stages'
  BY <1>7 DEF Retry
<1>8. CASE Tick \/ UNCHANGED vars
  BY <1>8 DEF Tick, vars
<1> QED
  BY <1>1, <1>2, <1>3, <1>4, <1>5, <1>6, <1>7, <1>8 DEF Next, Call

-----------------------------------------------------------------------------
(* Records, and the password of an account. *)

\* What is stored and copied is of the right address, as records and guesses are.
LEMMA RecordsStep ==
    ASSUME TypeOK, Stages, RecordsInv, OwnPassword, [Next]_vars
    PROVE  RecordsInv' /\ OwnPassword'
<1> USE BoundsAssumption, NoneAssumption DEF TypeOK, Goto, call, accounts, history
<1>0. \A n \in Record : n.code \in Requests /\ n.owner \in Requests
  BY DEF Record
<1>1. ASSUME NEW r \in Requests, Begin(r)
      PROVE  RecordsInv' /\ OwnPassword'
  <2>1. /\ UNCHANGED <<now, call, copy, store, mailedAt, newest, accounts, seen, tries,
                       lineage, confirmed, wrongs, failed>>
        /\ \A c \in Requests : pc'[c] \in Unbuilt => pc[c] \in Unbuilt
    BY <1>1 DEF Begin, Unbuilt
  <2>2. \A q \in Requests : guess'[q] # None =>
           email[guess'[q]] = email[q] /\ mailedAt[guess'[q]] >= 0
    <3>1. CASE guess' = guess
      BY <3>1 DEF RecordsInv
    <3>2. CASE \E g \in MailedTo(email[r]) \cup {None} : guess' = [guess EXCEPT ![r] = g]
      BY <3>2 DEF RecordsInv, MailedTo
    <3> QED
      BY <1>1, <3>1, <3>2 DEF Begin
  <2>3. OwnPassword'
    BY <2>1 DEF OwnPassword
  <2> QED
    BY <2>1, <2>2, <2>3 DEF RecordsInv, Genuine
<1>2. ASSUME NEW r \in Requests, ReadForStart(r) \/ ReadForResend(r)
      PROVE  RecordsInv' /\ OwnPassword'
  <2>1. PICK p \in Record :
           /\ copy' = [copy EXCEPT ![r] = p]
           /\ lineage' = [lineage EXCEPT ![r] = p.owner]
           /\ p.code = r /\ p.attempts = 0 /\ p.owner \in Requests
           /\ pc[r] = "read" /\ pc' = [pc EXCEPT ![r] = "save"]
           /\ UNCHANGED <<now, call, guess, store, mailedAt, newest, accounts, seen,
                          tries, confirmed, wrongs, raced, failed>>
    BY <1>2, BuiltFacts
  <2>2. lineage[r] = None /\ \A c \in Requests \ {r} : lineage'[c] = lineage[c]
    BY <2>1 DEF RecordsInv, Unbuilt
  <2>3. \A e \in Emails : Genuine(store[e], e)'
    BY <1>0, <2>1, <2>2 DEF RecordsInv, Genuine
  <2>4. \A q \in Requests : Genuine(copy[q], email[q])'
    BY <1>0, <2>1, <2>2 DEF RecordsInv, Genuine
  <2>5. /\ \A c \in Requests : lineage'[c] # None => pc'[c] \notin Unbuilt
        /\ \A q \in Requests : guess'[q] # None =>
              email'[guess'[q]] = email'[q] /\ mailedAt'[guess'[q]] >= 0
    BY <2>1 DEF RecordsInv, Unbuilt
  <2>6. OwnPassword'
    BY <2>1, <2>2 DEF OwnPassword
  <2> QED
    BY <2>3, <2>4, <2>5, <2>6 DEF RecordsInv
<1>3. ASSUME NEW r \in Requests, Save(r)
      PROVE  RecordsInv' /\ OwnPassword'
  <2> DEFINE n == Saved([copy[r] EXCEPT !.sentAt = now])
  <2>1. /\ store' = [store EXCEPT ![email[r]] = n]
        /\ n \in Record /\ n.code = copy[r].code /\ n.owner = copy[r].owner
    BY <1>3, SentFacts DEF Save, Stages
  <2> HIDE DEF n
  <2>2. /\ copy[r] # None /\ pc[r] = "save" /\ pc' = [pc EXCEPT ![r] = "mail"]
        /\ UNCHANGED <<now, call, guess, copy, mailedAt, newest, accounts, seen, tries, history>>
    BY <1>3 DEF Save, Stages
  <2> QED
    BY <2>1, <2>2 DEF RecordsInv, Genuine, Unbuilt, OwnPassword
<1>4. ASSUME NEW r \in Requests, Mail(r)
      PROVE  RecordsInv' /\ OwnPassword'
  BY <1>4 DEF Mail, RecordsInv, Genuine, Unbuilt, OwnPassword
<1>5. ASSUME NEW r \in Requests, ReadForVerify(r)
      PROVE  RecordsInv' /\ OwnPassword'
  BY <1>5, PendingFacts DEF ReadForVerify, RecordsInv, Genuine, Unbuilt, OwnPassword
<1>6. ASSUME NEW r \in Requests, Drop(r) \/ Consume(r)
      PROVE  RecordsInv' /\ OwnPassword'
  BY <1>6 DEF Drop, Consume, RecordsInv, Genuine, Unbuilt, OwnPassword
<1>7. ASSUME NEW r \in Requests, Count(r)
      PROVE  RecordsInv' /\ OwnPassword'
  <2> DEFINE n == Saved([copy[r] EXCEPT !.attempts = @ + 1])
  <2>1. /\ store' = [store EXCEPT ![email[r]] = n]
        /\ n \in Record /\ n.code = copy[r].code /\ n.owner = copy[r].owner
    BY <1>7, CountedFacts DEF Count, Stages
  <2> HIDE DEF n
  <2>2. /\ copy[r] # None /\ pc[r] = "count" /\ pc' = [pc EXCEPT ![r] = "done"]
        /\ UNCHANGED <<now, call, guess, copy, mailedAt, newest, accounts, seen, tries,
                       lineage, confirmed, raced, failed>>
    BY <1>7 DEF Count, Stages
  <2> QED
    BY <2>1, <2>2 DEF RecordsInv, Genuine, Unbuilt, OwnPassword
<1>8. ASSUME NEW r \in Requests,
             CheckUser(r) \/ ReadCodes(r) \/ Retry(r) \/ Refuse(r) \/ Fail(r)
      PROVE  RecordsInv' /\ OwnPassword'
  <2>1. /\ UNCHANGED <<now, call, guess, copy, store, mailedAt, newest, accounts,
                       lineage, confirmed, wrongs, raced>>
        /\ \A c \in Requests : pc[c] \notin Unbuilt => pc'[c] \notin Unbuilt
    BY <1>8 DEF CheckUser, ReadCodes, Retry, Refuse, Fail, Unbuilt
  <2>2. \A c \in Requests : pc'[c] \in Unbuilt => pc[c] \in Unbuilt
    BY <2>1
  <2> QED
    BY <2>1, <2>2 DEF RecordsInv, Genuine, OwnPassword
<1>9. ASSUME NEW r \in Requests, Commit(r)
      PROVE  RecordsInv' /\ OwnPassword'
  <2>1. /\ copy[r] # None /\ copy[r] \in Record /\ guess[r] = copy[r].code
        /\ account' = [account EXCEPT ![email[r]] = copy[r].owner]
        /\ confirmed' = [confirmed EXCEPT ![email[r]] = copy[r].code]
        /\ pc[r] = "commit" /\ pc' = [pc EXCEPT ![r] = "done"]
        /\ UNCHANGED <<now, call, guess, copy, store, mailedAt, newest, lineage>>
    BY <1>9 DEF Commit, Stages
  <2>2. /\ lineage[copy[r].code] = copy[r].owner /\ email[copy[r].code] = email[r]
        /\ mailedAt[copy[r].code] >= 0
    BY <1>0, <2>1 DEF RecordsInv, Genuine
  <2>3. OwnPassword'
    BY <2>1, <2>2 DEF OwnPassword
  <2>4. RecordsInv'
    BY <2>1 DEF RecordsInv, Genuine, Unbuilt
  <2> QED
    BY <2>3, <2>4
<1>10. CASE Tick \/ UNCHANGED vars
  BY <1>10 DEF Tick, vars, RecordsInv, Genuine, OwnPassword
<1> QED
  BY <1>1, <1>2, <1>3, <1>4, <1>5, <1>6, <1>7, <1>8, <1>9, <1>10 DEF Next, Call

-----------------------------------------------------------------------------
(* Employee numbers. *)

LEMMA NumbersStep ==
    ASSUME TypeOK, Stages, NumbersInv, OwnEmployee, [Next]_vars
    PROVE  NumbersInv' /\ OwnEmployee'
<1> USE BoundsAssumption, NoneAssumption DEF TypeOK, Goto, call, accounts, history
<1>1. ASSUME NEW r \in Requests, Begin(r) \/ ReadForStart(r) \/ ReadForResend(r) \/ Save(r)
                \/ Mail(r) \/ ReadForVerify(r) \/ Drop(r) \/ Count(r) \/ Consume(r)
                \/ CheckUser(r) \/ Refuse(r) \/ Fail(r)
      PROVE  NumbersInv' /\ OwnEmployee'
  <2>1. /\ UNCHANGED <<accounts, seen, tries>>
        /\ \A q \in Requests : pc'[q] = "commit" => pc[q] = "commit"
    BY <1>1 DEF Begin, ReadForStart, ReadForResend, Save, Mail, ReadForVerify, Drop, Count,
       Consume, CheckUser, Refuse, Fail
  <2> QED
    BY <2>1 DEF NumbersInv, OwnEmployee
<1>2. ASSUME NEW r \in Requests, ReadCodes(r)
      PROVE  NumbersInv' /\ OwnEmployee'
  BY <1>2 DEF ReadCodes, NumbersInv, OwnEmployee
<1>3. ASSUME NEW r \in Requests, Commit(r)
      PROVE  NumbersInv' /\ OwnEmployee'
  <2> DEFINE top == Highest(codes)
             next == seen[r] + 1
  <2>1. next \notin codes /\ account[email[r]] = None
    BY <1>3 DEF Commit
  <2>2. next = top + 1 /\ top \in Nat /\ codes = 1 .. top
    BY <2>1 DEF NumbersInv
  <2>3. /\ codes' = codes \cup {next}
        /\ account' = [account EXCEPT ![email[r]] = copy[r].owner]
        /\ number' = [number EXCEPT ![email[r]] = next]
        /\ pc' = [pc EXCEPT ![r] = "done"]
        /\ UNCHANGED <<seen, tries>>
        /\ copy[r].owner # None
    BY <1>3 DEF Commit, Stages, Record
  <2> HIDE DEF top, next
  <2>4. codes' = 1 .. top + 1
    BY <2>2, <2>3
  <2>5. Highest(codes') = top + 1
    BY <2>2, <2>4, HighestOfInterval
  <2>6. NumbersInv'
    <3>1. \A q \in Requests : /\ seen[q] <= top /\ tries[q] <= top
                              /\ pc[q] = "commit" => tries[q] <= seen[q]
      BY DEF NumbersInv, top
    <3>2. \A q \in Requests : seen[q] \in Nat /\ tries[q] \in Nat
      OBVIOUS
    <3>3. \A q \in Requests : /\ seen'[q] <= top + 1 /\ tries'[q] <= top + 1
                              /\ pc'[q] = "commit" => tries'[q] <= seen'[q]
      <4> SUFFICES ASSUME NEW q \in Requests
                   PROVE  /\ seen[q] <= top + 1 /\ tries[q] <= top + 1
                          /\ pc'[q] = "commit" => tries[q] <= seen[q]
        BY <2>3
      <4>1. seen[q] \in Nat /\ tries[q] \in Nat /\ seen[q] <= top /\ tries[q] <= top
        BY <3>1, <3>2
      <4>2. seen[q] <= top + 1 /\ tries[q] <= top + 1
        <5>1. top \in Nat
          BY <2>2
        <5> HIDE DEF TypeOK
        <5> QED
          BY <4>1, <5>1
      <4>3. pc'[q] = "commit" => pc[q] = "commit"
        BY <2>3
      <4> QED
        BY <3>1, <4>2, <4>3
    <3> QED
      BY <2>2, <2>4, <2>5, <3>3 DEF NumbersInv
  <2>7. OwnEmployee'
    <3>1. \A e \in Emails \ {email[r]} : account'[e] = account[e] /\ number'[e] = number[e]
      BY <2>3
    <3>2. account'[email[r]] # None /\ number'[email[r]] = next
      BY <2>3
    <3>3. \A e \in Emails : account[e] # None => number[e] \in codes
      BY DEF OwnEmployee
    <3>4. codes' = {number'[e] : e \in {f \in Emails : account'[f] # None}}
      BY <2>1, <2>3, <3>1, <3>2 DEF OwnEmployee
    <3>5. \A e, f \in Emails : account'[e] # None /\ account'[f] # None
                               /\ number'[e] = number'[f] => e = f
      BY <2>1, <3>1, <3>2, <3>3 DEF OwnEmployee, next
    <3> QED
      BY <3>4, <3>5 DEF OwnEmployee
  <2> QED
    BY <2>6, <2>7
<1>4. ASSUME NEW r \in Requests, Retry(r)
      PROVE  NumbersInv' /\ OwnEmployee'
  <2> DEFINE top == Highest(codes)
  <2>1. /\ seen[r] + 1 \in codes /\ pc[r] = "commit" /\ UNCHANGED <<accounts, seen>>
        /\ tries' = [tries EXCEPT ![r] = @ + 1]
        /\ \A q \in Requests : pc'[q] = "commit" => pc[q] = "commit" /\ q # r
    BY <1>4 DEF Retry
  <2>2. /\ top \in Nat /\ codes = 1 .. top
        /\ \A q \in Requests : /\ seen[q] <= top /\ tries[q] <= top
                               /\ pc[q] = "commit" => tries[q] <= seen[q]
    BY DEF NumbersInv
  <2> HIDE DEF top
  <2>3. seen[r] \in Nat /\ tries[r] \in Nat /\ tries[r] + 1 <= top
    BY <2>1, <2>2
  <2>4. \A q \in Requests : tries'[q] <= top /\ (q # r => tries'[q] = tries[q])
    BY <2>1, <2>2, <2>3
  <2>5. OwnEmployee'
    BY <2>1 DEF OwnEmployee
  <2>6. NumbersInv'
    <3>1. \A q \in Requests : pc'[q] = "commit" => tries'[q] <= seen'[q]
      BY <2>1, <2>2, <2>4
    <3> QED
      BY <2>1, <2>2, <2>4, <3>1 DEF NumbersInv, top
  <2> QED
    BY <2>5, <2>6
<1>5. CASE Tick \/ UNCHANGED vars
  BY <1>5 DEF Tick, vars, NumbersInv, OwnEmployee
<1> QED
  BY <1>1, <1>2, <1>3, <1>4, <1>5 DEF Next, Call

-----------------------------------------------------------------------------
(* One call at a time: the code that works, and its wrong answers. *)

\* Only the beginning of a call brings one into flight.
LEMMA AloneStep ==
    ASSUME TypeOK, Alone, [Next]_vars
    PROVE  Alone'
<1> USE DEF TypeOK, Goto, call, accounts, history
<1>1. ASSUME NEW r \in Requests, Begin(r)
      PROVE  Alone'
  BY <1>1 DEF Begin, Alone, InFlight, Quiet
<1>2. ASSUME NEW r \in Requests, Call(r), ~Begin(r)
      PROVE  Alone'
  <2>1. /\ email' = email /\ raced' = raced
        /\ \A q \in Requests : InFlight(q)' => InFlight(q)
    <3>1. CASE ReadForStart(r) \/ ReadForResend(r) \/ Save(r) \/ Mail(r)
      BY <3>1 DEF ReadForStart, ReadForResend, Save, Mail, InFlight
    <3>2. CASE ReadForVerify(r) \/ Drop(r) \/ Count(r) \/ Consume(r)
      BY <3>2 DEF ReadForVerify, Drop, Count, Consume, InFlight
    <3>3. CASE CheckUser(r) \/ ReadCodes(r) \/ Commit(r) \/ Retry(r)
      BY <3>3 DEF CheckUser, ReadCodes, Commit, Retry, InFlight
    <3>4. CASE Refuse(r) \/ Fail(r)
      BY <3>4 DEF Refuse, Fail, InFlight
    <3> QED
      BY <1>2, <3>1, <3>2, <3>3, <3>4 DEF Call
  <2> QED
    BY <2>1 DEF Alone
<1>3. CASE Tick \/ UNCHANGED vars
  BY <1>3 DEF Tick, vars, Alone, InFlight
<1> QED
  BY <1>1, <1>2, <1>3 DEF Next

\* A step that neither writes a record nor mails, and sends no call to "mail" or
\* "count".
LEMMA NewestFrame ==
    ASSUME TypeOK, NewestInv, email' = email, store' = store, newest' = newest,
           raced \subseteq raced', failed \subseteq failed',
           \A r \in Requests : email[r] \notin raced' \cup failed' =>
              /\ pc'[r] \in {"mail", "count"} => pc'[r] = pc[r] /\ copy'[r] = copy[r]
              /\ pc[r] = "mail" => pc'[r] = "mail"
    PROVE  NewestInv'
BY DEF TypeOK, NewestInv

LEMMA NewestStep ==
    ASSUME TypeOK, Stages, RecordsInv, Alone, NewestInv, [Next]_vars
    PROVE  NewestInv'
<1> USE NoneAssumption DEF TypeOK, Goto, call, accounts, history
<1>1. ASSUME NEW r \in Requests,
             Begin(r) \/ CheckUser(r) \/ ReadCodes(r) \/ Commit(r) \/ Retry(r) \/ Refuse(r)
      PROVE  NewestInv'
  BY <1>1, NewestFrame DEF Begin, CheckUser, ReadCodes, Commit, Retry, Refuse, Refused
<1>2. ASSUME NEW r \in Requests, ReadForStart(r) \/ ReadForResend(r)
      PROVE  NewestInv'
  <2>1. PICK p \in Record :
           /\ copy' = [copy EXCEPT ![r] = p]
           /\ lineage' = [lineage EXCEPT ![r] = p.owner]
           /\ p.code = r /\ p.attempts = 0 /\ p.owner \in Requests
           /\ pc[r] = "read" /\ pc' = [pc EXCEPT ![r] = "save"]
           /\ UNCHANGED <<now, call, guess, store, mailedAt, newest, accounts, seen,
                          tries, confirmed, wrongs, raced, failed>>
    BY <1>2, BuiltFacts
  <2> QED
    BY <2>1, NewestFrame
<1>3. ASSUME NEW r \in Requests, Fail(r)
      PROVE  NewestInv'
  BY <1>3, NewestFrame DEF Fail
<1>4. ASSUME NEW r \in Requests, Save(r)
      PROVE  NewestInv'
  <2> DEFINE n == Saved([copy[r] EXCEPT !.sentAt = now])
  <2>1. /\ store' = [store EXCEPT ![email[r]] = n]
        /\ n \in Record /\ n # None /\ n.code = r
    BY <1>4, SentFacts DEF Save, Stages
  <2> HIDE DEF n
  <2>2. /\ pc[r] = "save" /\ pc' = [pc EXCEPT ![r] = "mail"] /\ InFlight(r)
        /\ UNCHANGED <<email, copy, newest, raced, failed>>
    BY <1>4 DEF Save, InFlight
  <2>3. \A q \in Requests \ {r} : email[q] = email[r] /\ email[q] \notin raced =>
           pc'[q] \notin {"mail", "count"}
    BY <2>2 DEF Alone, InFlight
  <2> QED
    BY <2>1, <2>2, <2>3 DEF NewestInv
<1>5. ASSUME NEW r \in Requests, Mail(r)
      PROVE  NewestInv'
  <2>1. /\ pc[r] = "mail" /\ pc' = [pc EXCEPT ![r] = "done"] /\ InFlight(r)
        /\ newest' = [newest EXCEPT ![email[r]] = r]
        /\ UNCHANGED <<email, copy, store, raced, failed>>
    BY <1>5 DEF Mail, InFlight
  <2>2. \A q \in Requests \ {r} : email[q] = email[r] /\ email[q] \notin raced =>
           pc'[q] \notin {"mail", "count"}
    BY <2>1 DEF Alone, InFlight
  <2> QED
    BY <2>1, <2>2 DEF NewestInv
<1>6. ASSUME NEW r \in Requests, ReadForVerify(r)
      PROVE  NewestInv'
  <2>1. /\ pc[r] = "pending" /\ InFlight(r)
        /\ UNCHANGED <<email, newest, store, raced, failed>>
        /\ copy' = [copy EXCEPT ![r] = Pending(email[r])]
        /\ \E step \in {"done", "drop", "count", "consume"} : pc' = [pc EXCEPT ![r] = step]
        /\ pc'[r] = "count" => Pending(email[r]) # None
    BY <1>6, ReadFacts DEF InFlight
  <2>2. \A q \in Requests : email[q] = email[r] /\ email[q] \notin raced => pc[q] # "mail"
    BY <2>1 DEF Alone, InFlight
  <2>3. pc'[r] = "count" /\ email[r] \notin raced \cup failed =>
           Pending(email[r]).code = newest[email[r]]
    BY <2>1, <2>2, PendingFacts DEF NewestInv
  <2> QED
    BY <2>1, <2>2, <2>3 DEF NewestInv
<1>7. ASSUME NEW r \in Requests, Drop(r) \/ Consume(r)
      PROVE  NewestInv'
  <2>1. /\ InFlight(r) /\ store' = [store EXCEPT ![email[r]] = None]
        /\ \E step \in {"done", "user"} : pc' = [pc EXCEPT ![r] = step]
        /\ UNCHANGED <<email, copy, newest, raced, failed>>
    BY <1>7 DEF Drop, Consume, InFlight
  <2>2. \A q \in Requests \ {r} : email[q] = email[r] /\ email[q] \notin raced =>
           pc[q] \notin {"mail", "count"}
    BY <2>1 DEF Alone, InFlight
  <2> QED
    BY <2>1, <2>2 DEF NewestInv
<1>8. ASSUME NEW r \in Requests, Count(r)
      PROVE  NewestInv'
  <2> DEFINE n == Saved([copy[r] EXCEPT !.attempts = @ + 1])
  <2>1. /\ store' = [store EXCEPT ![email[r]] = n]
        /\ n \in Record /\ n # None /\ n.code = copy[r].code
    BY <1>8, CountedFacts DEF Count, Stages
  <2> HIDE DEF n
  <2>2. /\ pc[r] = "count" /\ pc' = [pc EXCEPT ![r] = "done"] /\ InFlight(r)
        /\ UNCHANGED <<email, copy, newest, raced, failed>>
    BY <1>8 DEF Count, InFlight
  <2>3. \A q \in Requests \ {r} : email[q] = email[r] /\ email[q] \notin raced =>
           pc'[q] \notin {"mail", "count"}
    BY <2>2 DEF Alone, InFlight
  <2> QED
    BY <2>1, <2>2, <2>3 DEF NewestInv
<1>9. CASE Tick \/ UNCHANGED vars
  BY <1>9 DEF Tick, vars, NewestInv
<1> QED
  BY <1>1, <1>2, <1>3, <1>4, <1>5, <1>6, <1>7, <1>8, <1>9 DEF Next, Call

\* A step that writes no record and counts no answer.
LEMMA WrongsFrame ==
    ASSUME TypeOK, Stages, WrongsInv, email' = email, store' = store, wrongs' = wrongs,
           raced \subseteq raced',
           \A c \in Requests : pc'[c] \in Unsaved => pc[c] \in Unsaved,
           \A r \in Requests : pc'[r] = "count" => pc[r] = "count" /\ copy'[r] = copy[r]
    PROVE  WrongsInv'
<1>1. \A n \in Record : n.code \in Requests
  BY DEF Record
<1>2. \A r \in Requests : pc'[r] = "count" => copy[r].code \in Requests
  BY <1>1 DEF TypeOK, Stages
<1>3. \A e \in Emails : store[e] # None => store[e].code \in Requests
  BY <1>1 DEF TypeOK
<1> QED
  BY <1>2, <1>3 DEF TypeOK, WrongsInv

LEMMA WrongsStep ==
    ASSUME TypeOK, Stages, RecordsInv, Alone, WrongsInv, [Next]_vars
    PROVE  WrongsInv'
<1> USE NoneAssumption, BoundsAssumption DEF TypeOK, Goto, call, accounts, history
<1>0. \A n \in Record : n.code \in Requests /\ n.attempts \in 0 .. MaxAttempts
  BY DEF Record
<1>1. ASSUME NEW r \in Requests,
             Begin(r) \/ CheckUser(r) \/ ReadCodes(r) \/ Commit(r) \/ Retry(r) \/ Refuse(r)
             \/ Mail(r) \/ Fail(r)
      PROVE  WrongsInv'
  <2>1. /\ UNCHANGED <<email, store, wrongs, copy>> /\ raced \subseteq raced'
        /\ \A c \in Requests : pc'[c] \in Unsaved => pc[c] \in Unsaved
        /\ \A c \in Requests : pc'[c] = "count" => pc[c] = "count"
    <3>1. CASE Begin(r) \/ CheckUser(r) \/ ReadCodes(r)
      BY <3>1 DEF Begin, CheckUser, ReadCodes, Unsaved, Unbuilt
    <3>2. CASE Commit(r) \/ Retry(r) \/ Refuse(r)
      BY <3>2 DEF Commit, Retry, Refuse, Unsaved, Unbuilt
    <3>3. CASE Mail(r) \/ Fail(r)
      BY <3>3 DEF Mail, Fail, Unsaved, Unbuilt
    <3> QED
      BY <1>1, <3>1, <3>2, <3>3
  <2> QED
    BY <2>1, WrongsFrame
<1>2. ASSUME NEW r \in Requests, ReadForStart(r) \/ ReadForResend(r)
      PROVE  WrongsInv'
  <2>1. PICK p \in Record :
           /\ copy' = [copy EXCEPT ![r] = p]
           /\ lineage' = [lineage EXCEPT ![r] = p.owner]
           /\ p.code = r /\ p.attempts = 0 /\ p.owner \in Requests
           /\ pc[r] = "read" /\ pc' = [pc EXCEPT ![r] = "save"]
           /\ UNCHANGED <<now, call, guess, store, mailedAt, newest, accounts, seen,
                          tries, confirmed, wrongs, raced, failed>>
    BY <1>2, BuiltFacts
  <2>2. \A c \in Requests : pc'[c] \in Unsaved => pc[c] \in Unsaved
    BY <2>1 DEF Unsaved, Unbuilt
  <2> QED
    BY <2>1, <2>2, WrongsFrame
<1>3. ASSUME NEW r \in Requests, Save(r)
      PROVE  WrongsInv'
  <2> DEFINE n == Saved([copy[r] EXCEPT !.sentAt = now])
             e == email[r]
  <2>1. /\ store' = [store EXCEPT ![email[r]] = n]
        /\ n \in Record /\ n # None /\ n.code = r /\ n.attempts = 0
    BY <1>3, SentFacts DEF Save, Stages
  <2> HIDE DEF n
  <2>2. /\ pc[r] = "save" /\ pc' = [pc EXCEPT ![r] = "mail"]
        /\ UNCHANGED <<email, copy, wrongs, raced>>
        /\ wrongs[r] = 0
    BY <1>3 DEF Save, WrongsInv, Unsaved
  <2>3. \A c \in Requests : pc'[c] \in Unsaved => pc[c] \in Unsaved /\ c # r
    BY <2>2 DEF Unsaved, Unbuilt
  <2>4. \A q \in Requests : pc'[q] = "count" => pc[q] = "count" /\ copy[q] \in Record
    BY <2>2 DEF Stages
  <2>5. \A f \in Emails : store'[f] # None => pc'[store'[f].code] \notin Unsaved
    BY <1>0, <2>1, <2>3 DEF WrongsInv
  <2> QED
    BY <1>0, <2>1, <2>2, <2>3, <2>4, <2>5 DEF WrongsInv
<1>4. ASSUME NEW r \in Requests, ReadForVerify(r)
      PROVE  WrongsInv'
  <2>1. /\ pc[r] = "pending"
        /\ copy' = [copy EXCEPT ![r] = Pending(email[r])]
        /\ \E step \in {"done", "drop", "count", "consume"} : pc' = [pc EXCEPT ![r] = step]
        /\ pc'[r] = "count" => Pending(email[r]) # None
        /\ UNCHANGED <<email, store, wrongs, raced>>
    BY <1>4, ReadFacts
  <2>2. \A c \in Requests : pc'[c] \in Unsaved => pc[c] \in Unsaved
    BY <2>1 DEF Unsaved, Unbuilt
  <2>3. pc'[r] = "count" =>
           /\ copy'[r] = store[email[r]] /\ store[email[r]] # None
           /\ store[email[r]] \in Record
    BY <2>1, PendingFacts
  <2>4. \A q \in Requests \ {r} : pc'[q] = "count" =>
           pc[q] = "count" /\ copy'[q] = copy[q] /\ copy[q] \in Record
    BY <2>1 DEF Stages
  <2>5. pc'[r] = "count" => /\ pc'[copy'[r].code] \notin Unsaved
                            /\ email[copy'[r].code] = email[r]
    BY <1>0, <2>2, <2>3 DEF WrongsInv, RecordsInv, Genuine
  <2>6. \A q \in Requests : pc'[q] = "count" => pc'[copy'[q].code] \notin Unsaved
    BY <1>0, <2>2, <2>4, <2>5 DEF WrongsInv
  <2>7. \A f \in Emails : store'[f] # None => pc'[store'[f].code] \notin Unsaved
    BY <1>0, <2>1, <2>2 DEF WrongsInv
  <2>8. ASSUME NEW c \in Requests, email[c] \notin raced, NEW q \in Requests,
               pc'[q] = "count", copy'[q].code = c
        PROVE  wrongs[c] <= copy'[q].attempts
    BY <2>3, <2>4, <2>5, <2>8 DEF WrongsInv
  <2> QED
    BY <2>1, <2>2, <2>6, <2>7, <2>8 DEF WrongsInv
<1>5. ASSUME NEW r \in Requests, Drop(r) \/ Consume(r)
      PROVE  WrongsInv'
  <2>1. /\ store' = [store EXCEPT ![email[r]] = None]
        /\ \E step \in {"done", "user"} : pc' = [pc EXCEPT ![r] = step]
        /\ UNCHANGED <<email, copy, wrongs, raced>>
    BY <1>5 DEF Drop, Consume
  <2>2. \A c \in Requests : pc'[c] \in Unsaved => pc[c] \in Unsaved
    BY <2>1 DEF Unsaved, Unbuilt
  <2>3. \A q \in Requests : pc'[q] = "count" => pc[q] = "count" /\ copy[q] \in Record
    BY <2>1 DEF Stages
  <2> QED
    BY <1>0, <2>1, <2>2, <2>3 DEF WrongsInv
<1>6. ASSUME NEW r \in Requests, Count(r)
      PROVE  WrongsInv'
  <2> DEFINE n == Saved([copy[r] EXCEPT !.attempts = @ + 1])
             c == copy[r].code
             e == email[r]
  <2>1. /\ copy[r] \in Record /\ copy[r] # None /\ c \in Requests
        /\ copy[r].attempts < MaxAttempts /\ copy[r].attempts \in Nat
        /\ pc[r] = "count"
    BY <1>0, <1>6 DEF Count, Stages
  <2>2. /\ store' = [store EXCEPT ![e] = n]
        /\ n \in Record /\ n # None /\ n.code = c /\ n.attempts = copy[r].attempts + 1
    BY <1>6, <2>1, CountedFacts DEF Count
  <2> HIDE DEF n
  <2>3. email[c] = e /\ pc[c] \notin Unsaved
    BY <2>1 DEF RecordsInv, Genuine, WrongsInv
  <2>4. /\ pc' = [pc EXCEPT ![r] = "done"]
        /\ wrongs' = [wrongs EXCEPT ![c] = @ + 1]
        /\ UNCHANGED <<email, copy, raced>>
    BY <1>6 DEF Count
  <2>5. \A d \in Requests : pc'[d] \in Unsaved => pc[d] \in Unsaved /\ d # c
    BY <2>3, <2>4 DEF Unsaved, Unbuilt
  <2>6. \A q \in Requests : pc'[q] = "count" =>
           q # r /\ pc[q] = "count" /\ copy[q] \in Record /\ copy[q] # None
    BY <2>4 DEF Stages
  <2>7. ASSUME NEW q \in Requests, pc'[q] = "count", e \notin raced
        PROVE  copy[q].code # c
    <3>1. email[q] # e
      BY <2>1, <2>6, <2>7 DEF Alone, InFlight
    <3> QED
      BY <2>3, <2>6, <2>7, <3>1 DEF RecordsInv, Genuine
  <2>8. e \notin raced => wrongs[c] + 1 <= copy[r].attempts + 1 /\ wrongs[c] + 1 <= MaxAttempts
    <3>1. e \notin raced => wrongs[c] <= copy[r].attempts
      BY <2>1, <2>3 DEF WrongsInv
    <3>2. wrongs[c] \in Nat
      BY <2>1
    <3> QED
      BY <2>1, <3>1, <3>2
  <2>9. \A f \in Emails : store'[f] # None => pc'[store'[f].code] \notin Unsaved
    BY <1>0, <2>2, <2>3, <2>4, <2>5 DEF WrongsInv
  <2>10. \A q \in Requests : pc'[q] = "count" => pc'[copy'[q].code] \notin Unsaved
    BY <1>0, <2>4, <2>5, <2>6 DEF WrongsInv
  <2>11. \A d \in Requests : pc'[d] \in Unsaved => wrongs'[d] = 0
    BY <2>4, <2>5 DEF WrongsInv
  <2>12. ASSUME NEW d \in Requests, email[d] \notin raced
         PROVE  /\ wrongs'[d] <= MaxAttempts
                /\ store'[email[d]] # None /\ store'[email[d]].code = d =>
                      wrongs'[d] <= store'[email[d]].attempts
                /\ \A q \in Requests : pc'[q] = "count" /\ copy[q].code = d =>
                      wrongs'[d] <= copy[q].attempts
    <3>1. CASE d = c
      BY <2>2, <2>3, <2>4, <2>7, <2>8, <2>12, <3>1
    <3>2. CASE d # c
      BY <2>2, <2>4, <2>6, <2>12, <3>2 DEF WrongsInv
    <3> QED
      BY <3>1, <3>2
  <2> QED
    BY <2>4, <2>9, <2>10, <2>11, <2>12 DEF WrongsInv
<1>7. CASE Tick \/ UNCHANGED vars
  BY <1>7 DEF Tick, vars, WrongsInv
<1> QED
  BY <1>1, <1>2, <1>3, <1>4, <1>5, <1>6, <1>7 DEF Next, Call

-----------------------------------------------------------------------------
(* The theorems. *)

LEMMA Initially == Init => IInv
<1> SUFFICES ASSUME Init
             PROVE  IInv
  OBVIOUS
<1> USE BoundsAssumption, NoneAssumption DEF Init
<1>1. TypeOK
  <2>1. 0 \in 0 .. MaxTime /\ 0 \in 0 .. MaxTries /\ -1 \in -1 .. MaxTime
    OBVIOUS
  <2>2. /\ pc \in [Requests -> Steps]
        /\ copy \in [Requests -> Record \cup {None}]
        /\ store \in [Emails -> Record \cup {None}]
        /\ mailedAt \in [Requests -> -1 .. MaxTime]
        /\ tries \in [Requests -> 0 .. MaxTries]
    BY <2>1 DEF Steps
  <2>3. /\ guess \in [Requests -> Requests \cup {None}]
        /\ newest \in [Emails -> Requests \cup {None}]
        /\ account \in [Emails -> Requests \cup {None}]
        /\ number \in [Emails -> Nat]
        /\ seen \in [Requests -> Nat]
        /\ lineage \in [Requests -> Requests \cup {None}]
        /\ confirmed \in [Emails -> Requests \cup {None}]
        /\ wrongs \in [Requests -> Nat]
    OBVIOUS
  <2>4. now \in 0 .. MaxTime /\ codes \subseteq Nat /\ raced \subseteq Emails /\ failed \subseteq Emails
    BY <2>1
  <2>5. /\ kind \in [Requests -> {"start", "resend", "verify"}]
        /\ email \in [Requests -> Emails]
    OBVIOUS
  <2> HIDE DEF Init
  <2> QED
    BY <2>2, <2>3, <2>4, <2>5 DEF TypeOK
<1>2. Stages
  BY DEF Stages
<1>3. RecordsInv /\ OwnPassword
  BY DEF RecordsInv, Genuine, OwnPassword
<1>4. NumbersInv
  <2>1. codes = 1 .. 0
    OBVIOUS
  <2>2. Highest(codes) = 0
    BY <2>1, HighestOfInterval
  <2> QED
    BY <2>1, <2>2 DEF NumbersInv
<1>5. OwnEmployee
  BY DEF OwnEmployee
<1>6. Alone /\ NewestInv
  BY DEF Alone, InFlight, NewestInv
<1>7. WrongsInv
  BY DEF WrongsInv
<1> QED
  BY <1>1, <1>2, <1>3, <1>4, <1>5, <1>6, <1>7 DEF IInv

LEMMA Invariance == Spec => []IInv
<1>1. IInv /\ [Next]_vars => IInv'
  BY TypeStep, StagesStep, RecordsStep, NumbersStep, AloneStep, NewestStep, WrongsStep DEF IInv
<1> QED
  BY <1>1, Initially, PTL DEF Spec

\* The records in Redis, the calls and the accounts keep their types: no record has
\* more attempts or resends than the limits (AuthService, PendingRegistration).
THEOREM TypeCorrect == Spec => []TypeOK
<1>1. IInv => TypeOK
  BY DEF IInv
<1> QED
  BY <1>1, Invariance, PTL

\* Every account has an employee and a password of its own, and whoever finds an
\* employee code taken n times has met n other employees (verifyRegistration,
\* createRegisteredUser), for any number of calls and any limits.
THEOREM AccountsAreRightCorrect == Spec => []AccountsAreRight
<1>1. IInv => AccountsAreRight
  <2> SUFFICES ASSUME IInv
               PROVE  RetriesNeedRivals
    BY DEF IInv, AccountsAreRight
  <2> DEFINE top == Highest(codes)
  <2>1. top \in Nat /\ codes = 1 .. top /\ \A r \in Requests : tries[r] <= top
    BY DEF IInv, NumbersInv
  <2>2. Cardinality(1 .. top) = top
    BY <2>1, FS_Interval
  <2> QED
    BY <2>1, <2>2 DEF RetriesNeedRivals
<1> QED
  BY <1>1, Invariance, PTL

\* The code last mailed is the one that works, unless calls for the address
\* overlapped or failed half-way (startRegistration, resendRegistrationOtp).
THEOREM NewestCodeWorksCorrect == Spec => []NewestCodeWorks
<1>1. IInv => NewestCodeWorks
  <2> SUFFICES ASSUME IInv, NEW e \in Emails \ (raced \cup failed), Quiet(e), Pending(e) # None
               PROVE  Pending(e).code = newest[e]
    BY DEF NewestCodeWorks
  <2>1. Pending(e) = store[e] /\ store[e] # None
    BY DEF Pending
  <2>2. \A r \in Requests : email[r] = e => pc[r] # "mail"
    BY DEF Quiet, InFlight
  <2> QED
    BY <2>1, <2>2 DEF IInv, NewestInv
<1> QED
  BY <1>1, Invariance, PTL

\* A code is tried at most REGISTER_OTP_MAX_ATTEMPTS times, unless verifications
\* overlapped (verifyRegistration).
THEOREM AttemptsBoundedCorrect == Spec => []AttemptsBounded
<1>1. IInv => AttemptsBounded
  BY DEF IInv, WrongsInv, AttemptsBounded
<1> QED
  BY <1>1, Invariance, PTL
=============================================================================
