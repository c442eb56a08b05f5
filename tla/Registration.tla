---------------------------- MODULE Registration ----------------------------
(***************************************************************************)
(* Self-registration with an e-mailed code: AuthService.startRegistration, *)
(* resendRegistrationOtp and verifyRegistration, which keep one pending    *)
(* record per e-mail address under a time-to-live in Redis, and            *)
(* createRegisteredUser, which makes the employee and the user in one      *)
(* transaction guarded by the unique columns employees.code, users.email.  *)
(*                                                                         *)
(* Redis gives each handler a GET and a later SET or DEL, nothing atomic.  *)
(* The code that a start or resend call generates is named by the call,    *)
(* and so are the password and display name that a start call brings.      *)
(***************************************************************************)
EXTENDS Integers, FiniteSets

CONSTANTS
    Emails,
    Requests,       \* one element per call that is ever made
    Ttl,            \* REGISTER_OTP_TTL_SEC
    ResendWait,     \* REGISTER_OTP_RESEND_SEC
    MaxAttempts,    \* REGISTER_OTP_MAX_ATTEMPTS
    MaxResends,     \* REGISTER_OTP_MAX_RESENDS
    MaxTries,       \* attempts of createRegisteredUser
    MaxTime,        \* bound: the last instant of the model
    None

ASSUME BoundsAssumption ==
    /\ {Ttl, ResendWait, MaxAttempts, MaxResends, MaxTries, MaxTime} \subseteq Nat
    /\ MaxTries # 0

VARIABLES
    now,
    kind,       \* what a call asks for
    email,      \* the address it is about
    guess,      \* the code a verify call brings, None for a wrong one
    pc,         \* the await a call is suspended in
    copy,       \* the record a call has read or built
    store,      \* the pending record of each address
    mailedAt,   \* when a code was mailed, -1 before
    newest,     \* the code last mailed to an address
    codes,      \* employees.code: the numbers in use
    account,    \* the start call whose password an account has
    number,     \* the employee number of an account
    seen,       \* the highest number a call has read
    tries,      \* code conflicts a call has met
    lineage,    \* history: the start call a code was generated for
    confirmed,  \* history: the code that made an account, and when
    wrongs,     \* history: wrong answers that were counted for a code
    raced,      \* history: addresses with two calls in flight at once
    failed      \* history: addresses for which a call failed half-way

call     == <<kind, email>>
accounts == <<codes, account, number>>
history  == <<lineage, confirmed, wrongs, raced, failed>>
vars     == <<now, call, guess, pc, copy, store, mailedAt, newest, accounts,
              seen, tries, history>>

Steps == {"idle", "read", "save", "mail", "pending", "drop", "count",
          "consume", "user", "codes", "commit", "done"}

Record ==
    [code : Requests, owner : Requests, attempts : 0 .. MaxAttempts,
     sentAt : 0 .. MaxTime, resends : 0 .. MaxResends, exp : 0 .. (MaxTime + Ttl)]

ASSUME NoneAssumption == None \notin Requests \cup Record

TypeOK ==
    /\ now \in 0 .. MaxTime
    /\ kind \in [Requests -> {"start", "resend", "verify"}]
    /\ email \in [Requests -> Emails]
    /\ guess \in [Requests -> Requests \cup {None}]
    /\ pc \in [Requests -> Steps]
    /\ copy \in [Requests -> Record \cup {None}]
    /\ store \in [Emails -> Record \cup {None}]
    /\ mailedAt \in [Requests -> -1 .. MaxTime]
    /\ newest \in [Emails -> Requests \cup {None}]
    /\ codes \subseteq Nat
    /\ account \in [Emails -> Requests \cup {None}]
    /\ number \in [Emails -> Nat]
    /\ seen \in [Requests -> Nat]
    /\ tries \in [Requests -> 0 .. MaxTries]
    /\ lineage \in [Requests -> Requests \cup {None}]
    /\ confirmed \in [Emails -> Requests \cup {None}]
    /\ wrongs \in [Requests -> Nat]
    /\ raced \subseteq Emails
    /\ failed \subseteq Emails

Init ==
    /\ now = 0
    /\ kind \in [Requests -> {"start", "resend", "verify"}]
    /\ email \in [Requests -> Emails]
    /\ guess = [r \in Requests |-> None]
    /\ pc = [r \in Requests |-> "idle"]
    /\ copy = [r \in Requests |-> None]
    /\ store = [e \in Emails |-> None]
    /\ mailedAt = [r \in Requests |-> -1]
    /\ newest = [e \in Emails |-> None]
    /\ codes = {}
    /\ account = [e \in Emails |-> None]
    /\ number = [e \in Emails |-> 0]
    /\ seen = [r \in Requests |-> 0]
    /\ tries = [r \in Requests |-> 0]
    /\ lineage = [r \in Requests |-> None]
    /\ confirmed = [e \in Emails |-> None]
    /\ wrongs = [r \in Requests |-> 0]
    /\ raced = {}
    /\ failed = {}

Goto(r, step) == pc' = [pc EXCEPT ![r] = step]

InFlight(r) == pc[r] \notin {"idle", "done"}

Quiet(e) == \A r \in Requests : email[r] = e => ~InFlight(r)

\* redis.get: the record, unless it has expired.
Pending(e) == IF store[e] # None /\ store[e].exp >= now THEN store[e] ELSE None

\* redis.set: every write starts a new time-to-live.
Saved(record) == [record EXCEPT !.exp = now + Ttl]

MailedTo(e) == {c \in Requests : email[c] = e /\ mailedAt[c] >= 0}

-----------------------------------------------------------------------------

\* start and resend look the user up first, verify goes to Redis at once.
Begin(r) ==
    /\ pc[r] = "idle"
    /\ kind[r] # "verify" => account[email[r]] = None
    /\ Goto(r, IF kind[r] = "verify" THEN "pending" ELSE "read")
    /\ IF kind[r] = "verify"
       THEN \E g \in MailedTo(email[r]) \cup {None} : guess' = [guess EXCEPT ![r] = g]
       ELSE UNCHANGED guess
    /\ raced' = IF Quiet(email[r]) THEN raced ELSE raced \cup {email[r]}
    /\ UNCHANGED <<now, call, copy, store, mailedAt, newest, accounts, seen, tries,
                   lineage, confirmed, wrongs, failed>>

\* assertCanSendOtp
CanSend(pending) ==
    pending # None => /\ pending.resends < MaxResends
                      /\ ResendWait <= now - pending.sentAt

NewRecord(r, pending) ==
    [code |-> r, owner |-> r, attempts |-> 0, sentAt |-> 0, exp |-> 0,
     resends |-> IF pending = None THEN 0 ELSE pending.resends + 1]

\* The pending record is read, the new one is built; the hash is awaited.
ReadForStart(r) ==
    /\ pc[r] = "read" /\ kind[r] = "start"
    /\ CanSend(Pending(email[r]))
    /\ copy' = [copy EXCEPT ![r] = NewRecord(r, Pending(email[r]))]
    /\ lineage' = [lineage EXCEPT ![r] = r]
    /\ Goto(r, "save")
    /\ UNCHANGED <<now, call, guess, store, mailedAt, newest, accounts, seen, tries,
                   confirmed, wrongs, raced, failed>>

\* Slip: the pending record is spread over the new code.
ReadForResendOldCode(r) ==
    /\ pc[r] = "read" /\ kind[r] = "resend"
    /\ Pending(email[r]) # None
    /\ CanSend(Pending(email[r]))
    /\ copy' = [copy EXCEPT ![r] = [NewRecord(r, Pending(email[r])) EXCEPT
                                        !.owner = Pending(email[r]).owner,
                                        !.code = Pending(email[r]).code]]
    /\ lineage' = [lineage EXCEPT ![r] = Pending(email[r]).owner]
    /\ Goto(r, "save")
    /\ UNCHANGED <<now, call, guess, store, mailedAt, newest, accounts, seen, tries,
                   confirmed, wrongs, raced, failed>>

ReadForResend(r) ==
    /\ pc[r] = "read" /\ kind[r] = "resend"
    /\ Pending(email[r]) # None
    /\ CanSend(Pending(email[r]))
    /\ copy' = [copy EXCEPT ![r] = [NewRecord(r, Pending(email[r])) EXCEPT
                                        !.owner = Pending(email[r]).owner]]
    /\ lineage' = [lineage EXCEPT ![r] = Pending(email[r]).owner]
    /\ Goto(r, "save")
    /\ UNCHANGED <<now, call, guess, store, mailedAt, newest, accounts, seen, tries,
                   confirmed, wrongs, raced, failed>>

Save(r) ==
    /\ pc[r] = "save"
    /\ store' = [store EXCEPT ![email[r]] = Saved([copy[r] EXCEPT !.sentAt = now])]
    /\ Goto(r, "mail")
    /\ UNCHANGED <<now, call, guess, copy, mailedAt, newest, accounts, seen, tries, history>>

Mail(r) ==
    /\ pc[r] = "mail"
    /\ mailedAt' = [mailedAt EXCEPT ![r] = now]
    /\ newest' = [newest EXCEPT ![email[r]] = r]
    /\ Goto(r, "done")
    /\ UNCHANGED <<now, call, guess, copy, store, accounts, seen, tries, history>>

-----------------------------------------------------------------------------
(* verifyRegistration *)

\* Slip: the limit is tested one too late.
ReadForVerifyLate(r) ==
    LET p == Pending(email[r]) IN
    /\ pc[r] = "pending"
    /\ copy' = [copy EXCEPT ![r] = p]
    /\ Goto(r, CASE p = None -> "done"
                 [] p # None /\ p.attempts > MaxAttempts -> "drop"
                 [] p # None /\ p.attempts <= MaxAttempts /\ guess[r] # p.code -> "count"
                 [] OTHER -> "consume")
    /\ UNCHANGED <<now, call, guess, store, mailedAt, newest, accounts, seen, tries, history>>

\* The record is read, its limit tested, the code compared.
ReadForVerify(r) ==
    LET p == Pending(email[r]) IN
    /\ pc[r] = "pending"
    /\ copy' = [copy EXCEPT ![r] = p]
    /\ Goto(r, CASE p = None -> "done"
                 [] p # None /\ p.attempts >= MaxAttempts -> "drop"
                 [] p # None /\ p.attempts < MaxAttempts /\ guess[r] # p.code -> "count"
                 [] OTHER -> "consume")
    /\ UNCHANGED <<now, call, guess, store, mailedAt, newest, accounts, seen, tries, history>>

\* The record is deleted; the call ends with 401.
Drop(r) ==
    /\ pc[r] = "drop"
    /\ store' = [store EXCEPT ![email[r]] = None]
    /\ Goto(r, "done")
    /\ UNCHANGED <<now, call, guess, copy, mailedAt, newest, accounts, seen, tries, history>>

\* A wrong answer: the record as it was read is written back with one more.
Count(r) ==
    /\ pc[r] = "count"
    /\ store' = [store EXCEPT ![email[r]] = Saved([copy[r] EXCEPT !.attempts = @ + 1])]
    /\ wrongs' = [wrongs EXCEPT ![copy[r].code] = @ + 1]
    /\ Goto(r, "done")
    /\ UNCHANGED <<now, call, guess, copy, mailedAt, newest, accounts, seen, tries,
                   lineage, confirmed, raced, failed>>

Consume(r) ==
    /\ pc[r] = "consume"
    /\ store' = [store EXCEPT ![email[r]] = None]
    /\ Goto(r, "user")
    /\ UNCHANGED <<now, call, guess, copy, mailedAt, newest, accounts, seen, tries, history>>

-----------------------------------------------------------------------------
(* createRegisteredUser *)

CheckUser(r) ==
    /\ pc[r] = "user"
    /\ account[email[r]] = None
    /\ Goto(r, "codes")
    /\ UNCHANGED <<now, call, guess, copy, store, mailedAt, newest, accounts, seen, tries, history>>

Highest(S) == IF S = {} THEN 0 ELSE CHOOSE n \in S : \A m \in S : m <= n

\* nextEmployeeCode of the codes the transaction reads.
ReadCodes(r) ==
    /\ pc[r] = "codes"
    /\ seen' = [seen EXCEPT ![r] = Highest(codes)]
    /\ Goto(r, "commit")
    /\ UNCHANGED <<now, call, guess, copy, store, mailedAt, newest, accounts, tries, history>>

\* Slip: the employee is inserted outside the transaction.
CommitEmployeeFirst(r) ==
    /\ pc[r] = "commit"
    /\ seen[r] + 1 \notin codes
    /\ codes' = codes \cup {seen[r] + 1}
    /\ account' = [account EXCEPT ![email[r]] = IF @ = None THEN copy[r].owner ELSE @]
    /\ number' = [number EXCEPT ![email[r]] = IF account[email[r]] = None THEN seen[r] + 1 ELSE @]
    /\ confirmed' = [confirmed EXCEPT ![email[r]] = IF @ = None THEN copy[r].code ELSE @]
    /\ Goto(r, "done")
    /\ UNCHANGED <<now, call, guess, copy, store, mailedAt, newest, seen, tries,
                   lineage, wrongs, raced, failed>>

\* Employee and user are inserted together.  A taken code comes first.
Commit(r) ==
    /\ pc[r] = "commit"
    /\ seen[r] + 1 \notin codes
    /\ account[email[r]] = None
    /\ codes' = codes \cup {seen[r] + 1}
    /\ account' = [account EXCEPT ![email[r]] = copy[r].owner]
    /\ number' = [number EXCEPT ![email[r]] = seen[r] + 1]
    /\ confirmed' = [confirmed EXCEPT ![email[r]] = copy[r].code]
    /\ Goto(r, "done")
    /\ UNCHANGED <<now, call, guess, copy, store, mailedAt, newest, seen, tries,
                   lineage, wrongs, raced, failed>>

\* The unique code: the transaction rolls back and is tried again.
Retry(r) ==
    /\ pc[r] = "commit"
    /\ seen[r] + 1 \in codes
    /\ tries' = [tries EXCEPT ![r] = @ + 1]
    /\ Goto(r, IF tries[r] + 1 < MaxTries THEN "codes" ELSE "done")
    /\ UNCHANGED <<now, call, guess, copy, store, mailedAt, newest, accounts, seen, history>>

-----------------------------------------------------------------------------

\* The call is refused (409, 400, 429) and nothing has changed.
Refused(r) ==
    \/ pc[r] = "idle" /\ kind[r] # "verify" /\ account[email[r]] # None
    \/ pc[r] = "read" /\ \/ ~CanSend(Pending(email[r]))
                         \/ kind[r] = "resend" /\ Pending(email[r]) = None
    \/ pc[r] = "user" /\ account[email[r]] # None
    \/ pc[r] = "commit" /\ seen[r] + 1 \notin codes /\ account[email[r]] # None

Refuse(r) ==
    /\ Refused(r)
    /\ Goto(r, "done")
    /\ UNCHANGED <<now, call, guess, copy, store, mailedAt, newest, accounts, seen, tries, history>>

\* Redis, the database or the mail server throws, or the process stops.
Fail(r) ==
    /\ InFlight(r)
    /\ Goto(r, "done")
    /\ failed' = failed \cup {email[r]}
    /\ UNCHANGED <<now, call, guess, copy, store, mailedAt, newest, accounts, seen, tries,
                   lineage, confirmed, wrongs, raced>>

Tick ==
    /\ now < MaxTime
    /\ now' = now + 1
    /\ UNCHANGED <<call, guess, pc, copy, store, mailedAt, newest, accounts, seen, tries, history>>

Call(r) ==
    \/ Begin(r) \/ ReadForStart(r) \/ ReadForResend(r) \/ Save(r) \/ Mail(r)
    \/ ReadForVerify(r) \/ Drop(r) \/ Count(r) \/ Consume(r)
    \/ CheckUser(r) \/ ReadCodes(r) \/ Commit(r) \/ Retry(r)
    \/ Refuse(r) \/ Fail(r)

Next == (\E r \in Requests : Call(r)) \/ Tick

Spec == Init /\ [][Next]_vars

-----------------------------------------------------------------------------
(* Properties *)

\* Every account has one employee of its own and every employee an account: the
\* transaction leaves nothing half-made.
OwnEmployee ==
    LET registered == {e \in Emails : account[e] # None} IN
    /\ codes = {number[e] : e \in registered}
    /\ \A e, f \in registered : number[e] = number[f] => e = f

\* The account gets the password of the start call whose code was entered, and
\* that code had been mailed, whatever stale records calls write back.
OwnPassword ==
    \A e \in Emails : account[e] # None =>
        /\ lineage[confirmed[e]] = account[e]
        /\ email[confirmed[e]] = e
        /\ mailedAt[confirmed[e]] >= 0

\* createRegisteredUser runs out of attempts only if that many other employees
\* were created meanwhile.
RetriesNeedRivals ==
    \A r \in Requests : tries[r] <= Cardinality(codes)

\* However verifications overlap, an account has an employee and a password of
\* its own, and only rivals keep a call from making one (verifyRegistration and
\* the transaction of createRegisteredUser).
AccountsAreRight == OwnEmployee /\ OwnPassword /\ RetriesNeedRivals

\* The code last mailed is the one that works, unless calls for the address
\* overlapped or one failed between its steps.
NewestCodeWorks ==
    \A e \in Emails \ (raced \cup failed) :
        Quiet(e) /\ Pending(e) # None => Pending(e).code = newest[e]

\* A code is tried MaxAttempts times, unless verifications overlapped.
AttemptsBounded ==
    \A c \in Requests : email[c] \notin raced => wrongs[c] <= MaxAttempts
=============================================================================
