-------------------------- MODULE Enrollment_proofs --------------------------
(***************************************************************************)
(* Proofs about module Enrollment, for any number of employees, poses,     *)
(* requests and days.                                                      *)
(***************************************************************************)
EXTENDS Enrollment, TLAPS

\* Every step keeps the types.
LEMMA TypeStep ==
    ASSUME TypeOK, [Next]_vars
    PROVE  TypeOK'
<1> USE FlagAssumption, DaysAssumption, NoImageAssumption
    DEF TypeOK, Steps, Goto, stores, history, request, Cleanup, Blank
<1>1. ASSUME NEW r \in Requests, Begin(r)
      PROVE  TypeOK'
  BY <1>1 DEF Begin, FirstStep
<1>2. ASSUME NEW r \in Requests, Refuse(r)
      PROVE  TypeOK'
  BY <1>2 DEF Refuse
<1>3. ASSUME NEW r \in Requests, Fail(r)
      PROVE  TypeOK'
  BY <1>3 DEF Fail
<1>4. ASSUME NEW r \in Requests, CheckDiversity(r)
      PROVE  TypeOK'
  BY <1>4 DEF CheckDiversity
<1>5. ASSUME NEW r \in Requests, AddExample(r)
      PROVE  TypeOK'
  BY <1>5 DEF AddExample
<1>6. ASSUME NEW r \in Requests, ReadExisting(r)
      PROVE  TypeOK'
  BY <1>6 DEF ReadExisting
<1>7. ASSUME NEW r \in Requests, Put(r)
      PROVE  TypeOK'
  BY <1>7 DEF Put
<1>8. ASSUME NEW r \in Requests, Upsert(r)
      PROVE  TypeOK'
  BY <1>8 DEF Upsert
<1>9. ASSUME NEW r \in Requests, Unlink(r)
      PROVE  TypeOK'
  BY <1>9 DEF Unlink
<1>10. ASSUME NEW r \in Requests, Forget(r)
       PROVE  TypeOK'
  BY <1>10 DEF Forget
<1>11. ASSUME NEW r \in Requests, SelectUrls(r)
       PROVE  TypeOK'
  <2>1. Images(emp[r]) \subseteq Requests
    BY DEF Images
  <2> QED
    BY <1>11, <2>1 DEF SelectUrls
<1>12. ASSUME NEW r \in Requests, DeleteTemplates(r)
       PROVE  TypeOK'
  BY <1>12 DEF DeleteTemplates
<1>13. ASSUME NEW r \in Requests, RemoveTemplates(r)
       PROVE  TypeOK'
  BY <1>13 DEF RemoveTemplates
<1>14. ASSUME NEW r \in Requests, RemoveEmployee(r)
       PROVE  TypeOK'
  BY <1>14 DEF RemoveEmployee
<1>15. CASE NextDay
  BY <1>15 DEF NextDay
<1>16. CASE Purge
  BY <1>16 DEF Purge, Expired
<1>17. CASE UNCHANGED vars
  BY <1>17 DEF vars
<1> QED
  BY <1>1, <1>2, <1>3, <1>4, <1>5, <1>6, <1>7, <1>8, <1>9, <1>10, <1>11,
     <1>12, <1>13, <1>14, <1>15, <1>16, <1>17
     DEF Next, Handler

-----------------------------------------------------------------------------
(* Request r goes to step x and the templates and their files stay.         *)

Moves(r, x) ==
    /\ pc' = [pc EXCEPT ![r] = x]
    /\ tpl' = tpl /\ files' = files /\ purged' = purged
    /\ kind' = kind /\ emp' = emp /\ pose' = pose /\ look' = look
    /\ pc[r] # "done"
    /\ pc[r] = "unlink" => x = "done"
    /\ x \in {"diversity"} \cup Window => kind[r] = "enroll"
    /\ x \in {"forget", "select", "delete"} => kind[r] = "reset"
    /\ x \notin {"unlink", "upsert"}

LEMMA MovesKeepsPlaces ==
    ASSUME TypeOK, IInv, NEW r \in Requests, NEW x, Moves(r, x)
    PROVE  Provenance' /\ StoredFirst' /\ OwnSteps' /\ (unlink' = unlink => UnlinkStale')
<1> USE DEF IInv, Moves
<1>1. Provenance'
  BY DEF Provenance, BelongsTo, TypeOK
<1>2. StoredFirst'
  BY DEF StoredFirst, TypeOK
<1>3. OwnSteps'
  BY DEF OwnSteps, TypeOK
<1>4. ASSUME unlink' = unlink
      PROVE  UnlinkStale'
  BY <1>4 DEF UnlinkStale, Images, TypeOK
<1> QED
  BY <1>1, <1>2, <1>3, <1>4

LEMMA MovesKeepsIInv ==
    ASSUME TypeOK, IInv, NEW r \in Requests, NEW x, Moves(r, x),
           unlink' = unlink, raced' = raced, x \in Window => pc[r] \in Window
    PROVE  IInv'
<1>1. WindowsDiverse'
  BY DEF IInv, Moves, WindowsDiverse, Diverse, TypeOK
<1>2. SimilarNeedsRace'
  BY DEF IInv, Moves, SimilarNeedsRace, AreSimilar
<1> QED
  BY <1>1, <1>2, MovesKeepsPlaces DEF IInv

\* The steps that only move the handler on, or touch CompreFace.
LEMMA MovingSteps ==
    ASSUME TypeOK, IInv, NEW r \in Requests,
           Begin(r) \/ Refuse(r) \/ Fail(r) \/ AddExample(r) \/ Forget(r)
    PROVE  IInv'
<1> USE DEF Goto, stores, history, request, Window
<1>1. CASE Begin(r)
  <2>1. Moves(r, FirstStep(r))
    BY <1>1 DEF Begin, Moves, FirstStep, TypeOK
  <2> QED
    BY <1>1, <2>1, MovesKeepsIInv DEF Begin, FirstStep
<1>2. CASE Refuse(r)
  <2>1. Moves(r, "done")
    BY <1>2 DEF Refuse, Moves
  <2> QED
    BY <1>2, <2>1, MovesKeepsIInv DEF Refuse
<1>3. CASE Fail(r)
  <2>1. Moves(r, "done")
    BY <1>3 DEF Fail, Moves, InFlight
  <2> QED
    BY <1>3, <2>1, MovesKeepsIInv DEF Fail
<1>4. CASE AddExample(r)
  <2>1. Moves(r, "existing")
    BY <1>4 DEF AddExample, Moves, IInv, OwnSteps
  <2> QED
    BY <1>4, <2>1, MovesKeepsIInv DEF AddExample
<1>5. CASE Forget(r)
  <2>1. Moves(r, "select")
    BY <1>5 DEF Forget, Moves, IInv, OwnSteps
  <2> QED
    BY <1>5, <2>1, MovesKeepsIInv DEF Forget
<1> QED
  BY <1>1, <1>2, <1>3, <1>4, <1>5

-----------------------------------------------------------------------------
(* enrollInternal *)

LEMMA CheckStep ==
    ASSUME TypeOK, IInv, NEW r \in Requests, CheckDiversity(r)
    PROVE  IInv'
<1> DEFINE x == IF UseCompreFace THEN "example" ELSE "existing"
<1>1. Moves(r, x)
  BY DEF CheckDiversity, Moves, Goto, stores, request, IInv, OwnSteps, Window
<1>2. unlink' = unlink /\ raced \subseteq raced'
  BY DEF CheckDiversity
<1>3. WindowsDiverse'
  <2> SUFFICES ASSUME NEW s \in Requests, pc'[s] \in Window, emp[s] \notin raced'
               PROVE  /\ Diverse(s)'
                      /\ \A q \in Requests : pc'[q] \in Window /\ emp[q] = emp[s]
                                                => pose[q] = pose[s]
    BY <1>1 DEF WindowsDiverse, Moves
  <2>1. Diverse(s)' <=> Diverse(s)
    BY <1>1 DEF Moves, Diverse
  <2>2. \A q \in Requests : q # r => pc'[q] = pc[q]
    BY <1>1 DEF Moves, TypeOK
  <2>3. CASE s = r
    BY <2>1, <2>2, <2>3 DEF CheckDiversity
  <2>4. CASE s # r
    <3>1. pc[s] \in Window /\ emp[s] \notin raced
      BY <1>2, <2>2, <2>4
    <3>2. emp[r] = emp[s] => pose[r] = pose[s]
      BY <3>1 DEF CheckDiversity
    <3> QED
      BY <2>1, <2>2, <3>1, <3>2 DEF IInv, WindowsDiverse
  <2> QED
    BY <2>3, <2>4
<1>4. SimilarNeedsRace'
  BY <1>1, <1>2 DEF IInv, Moves, SimilarNeedsRace, AreSimilar
<1> QED
  BY <1>1, <1>2, <1>3, <1>4, MovesKeepsPlaces DEF IInv

LEMMA ReadStep ==
    ASSUME TypeOK, IInv, NEW r \in Requests, ReadExisting(r) \/ SelectUrls(r)
    PROVE  IInv'
<1> DEFINE x == IF pc[r] = "existing" THEN "put" ELSE "delete"
<1>1. Moves(r, x) /\ raced' = raced /\ (x \in Window => pc[r] \in Window)
  BY DEF ReadExisting, SelectUrls, Moves, Goto, stores, request, history, IInv, OwnSteps, Window
<1>2. UnlinkStale'
  <2> SUFFICES ASSUME NEW s \in Requests, NEW u \in unlink'[s]
               PROVE  /\ emp[u] = emp[s]
                      /\ pc'[u] \in {"unlink", "done"}
                      /\ kind[s] = "enroll" => pose[u] = pose[s]
                      /\ pc'[s] = "unlink" => u \notin Images(emp[u])
    BY <1>1 DEF Moves, UnlinkStale, Images
  <2>1. CASE s = r
    <3>1. PICK p \in Poses : /\ tpl[emp[r]][p] = u /\ u \in Requests
                             /\ kind[r] = "enroll" => p = pose[r]
      BY <2>1, NoImageAssumption DEF ReadExisting, SelectUrls, TypeOK, Images, IInv, OwnSteps, Window
    <3>2. emp[u] = emp[r] /\ pose[u] = p /\ pc[u] \in {"unlink", "done"}
      BY <3>1, NoImageAssumption DEF IInv, Provenance, BelongsTo, TypeOK
    <3> QED
      BY <1>1, <2>1, <3>1, <3>2 DEF Moves, TypeOK, ReadExisting, SelectUrls
  <2>2. CASE s # r
    <3>1. u \in unlink[s] /\ pc'[s] = pc[s]
      BY <1>1, <2>2 DEF ReadExisting, SelectUrls, TypeOK, Moves
    <3> QED
      BY <1>1, <3>1 DEF IInv, UnlinkStale, Moves, TypeOK
  <2> QED
    BY <2>1, <2>2
<1>3. WindowsDiverse'
  BY <1>1 DEF IInv, Moves, WindowsDiverse, Diverse, TypeOK
<1>4. SimilarNeedsRace'
  BY <1>1 DEF IInv, Moves, SimilarNeedsRace, AreSimilar
<1> QED
  BY <1>1, <1>2, <1>3, <1>4, MovesKeepsPlaces DEF IInv

LEMMA PutStep ==
    ASSUME TypeOK, IInv, NEW r \in Requests, Put(r)
    PROVE  IInv'
<1> USE DEF IInv, Put, Goto, request, history, TypeOK
<1>1. Provenance'
  BY DEF Provenance, BelongsTo
<1>2. StoredFirst'
  BY DEF StoredFirst
<1>3. UnlinkStale'
  BY DEF UnlinkStale, Images
<1>4. OwnSteps'
  BY DEF OwnSteps, Window
<1>5. WindowsDiverse'
  BY DEF WindowsDiverse, Diverse, Window
<1>6. SimilarNeedsRace'
  BY DEF SimilarNeedsRace, AreSimilar
<1> QED
  BY <1>1, <1>2, <1>3, <1>4, <1>5, <1>6

LEMMA UpsertStep ==
    ASSUME TypeOK, IInv, NEW r \in Requests, Upsert(r)
    PROVE  IInv'
<1> DEFINE e == emp[r]
<1>1. /\ kind' = kind /\ emp' = emp /\ pose' = pose /\ look' = look /\ raced' = raced
      /\ files' = files /\ purged' = purged /\ unlink' = unlink
      /\ pc[r] = "upsert" /\ pc'[r] \in {"unlink", "done"}
      /\ \A s \in Requests \ {r} : pc'[s] = pc[s]
      /\ kind[r] = "enroll" /\ r \in files \cup purged
  BY DEF Upsert, Goto, Cleanup, request, history, TypeOK, IInv, OwnSteps, Window, StoredFirst
<1>2. \A d \in Employees, p \in Poses :
        tpl'[d][p] = IF d = e /\ p = pose[r] THEN r ELSE tpl[d][p]
  BY DEF Upsert, TypeOK
<1>3. Provenance'
  BY <1>1, <1>2 DEF IInv, Provenance, BelongsTo, TypeOK
<1>4. StoredFirst'
  BY <1>1 DEF IInv, StoredFirst
<1>5. UnlinkStale'
  <2> SUFFICES ASSUME NEW s \in Requests, NEW u \in unlink[s]
               PROVE  /\ emp[u] = emp[s]
                      /\ pc'[u] \in {"unlink", "done"}
                      /\ kind[s] = "enroll" => pose[u] = pose[s]
                      /\ pc'[s] = "unlink" => u \notin Images(emp[u])'
    BY <1>1 DEF UnlinkStale, Images
  <2>1. /\ u \in Requests /\ u # r /\ emp[u] = emp[s] /\ pc'[u] \in {"unlink", "done"}
        /\ kind[s] = "enroll" => pose[u] = pose[s]
    BY <1>1 DEF IInv, UnlinkStale, TypeOK
  <2>2. ASSUME pc'[s] = "unlink", NEW p \in Poses, tpl'[emp[u]][p] = u
        PROVE  FALSE
    <3>1. tpl[emp[u]][p] = u /\ ~(emp[u] = e /\ p = pose[r])
      BY <1>2, <2>1, <2>2 DEF TypeOK
    <3>2. CASE s = r
      BY <1>1, <2>1, <3>1, <3>2, NoImageAssumption DEF IInv, Provenance, BelongsTo, TypeOK
    <3>3. CASE s # r
      BY <1>1, <2>1, <2>2, <3>1, <3>3, NoImageAssumption DEF IInv, UnlinkStale, Images
    <3> QED
      BY <3>2, <3>3
  <2> QED
    BY <2>1, <2>2, <1>1 DEF Images
<1>6. OwnSteps'
  BY <1>1 DEF IInv, OwnSteps, Window
<1>7. WindowsDiverse'
  <2> SUFFICES ASSUME NEW s \in Requests, pc'[s] \in Window, emp[s] \notin raced
               PROVE  /\ Diverse(s)'
                      /\ \A q \in Requests : pc'[q] \in Window /\ emp[q] = emp[s]
                                                => pose[q] = pose[s]
    BY <1>1 DEF WindowsDiverse
  <2>1. s # r /\ pc[s] \in Window
    BY <1>1 DEF Window
  <2>2. \A q \in Requests : pc'[q] \in Window => pc[q] \in Window
    BY <1>1 DEF Window
  <2>3. emp[r] = emp[s] => pose[r] = pose[s]
    BY <1>1, <2>1 DEF IInv, WindowsDiverse, Window
  <2>4. Diverse(s)
    BY <2>1 DEF IInv, WindowsDiverse
  <2>5. Diverse(s)'
    BY <1>1, <1>2, <2>3, <2>4 DEF Diverse, TypeOK
  <2> QED
    BY <2>1, <2>2, <2>5 DEF IInv, WindowsDiverse
<1>8. SimilarNeedsRace'
  <2> SUFFICES ASSUME NEW d \in Employees \ raced, NEW p \in Poses, NEW o \in Poses, p # o,
                      AreSimilar(tpl'[d][p], tpl'[d][o])
               PROVE  FALSE
    BY <1>1 DEF SimilarNeedsRace, AreSimilar
  <2>1. d = e => Diverse(r)
    BY <1>1 DEF IInv, WindowsDiverse, Window
  <2>2. CASE d = e /\ p = pose[r]
    BY <1>2, <2>1, <2>2 DEF Diverse, AreSimilar
  <2>3. CASE d = e /\ o = pose[r]
    <3>1. tpl'[d][o] = r /\ tpl'[d][p] = tpl[d][p] /\ tpl[d][p] \in Requests
      BY <1>2, <2>3, NoImageAssumption DEF AreSimilar, TypeOK
    <3>2. <<look[r], look[tpl[d][p]]>> \in TooSimilar
      BY <3>1, SimilarAssumption DEF AreSimilar, TypeOK
    <3> QED
      BY <2>1, <2>3, <3>1, <3>2, NoImageAssumption DEF Diverse
  <2>4. CASE ~(d = e /\ p = pose[r]) /\ ~(d = e /\ o = pose[r])
    BY <1>2, <2>4 DEF IInv, SimilarNeedsRace, AreSimilar
  <2> QED
    BY <2>2, <2>3, <2>4
<1> QED
  BY <1>3, <1>4, <1>5, <1>6, <1>7, <1>8 DEF IInv

\* An unlinked file is stale, so no template points to it.
LEMMA UnlinkStep ==
    ASSUME TypeOK, IInv, NEW r \in Requests, Unlink(r)
    PROVE  IInv'
<1>1. PICK u \in unlink[r] :
        /\ unlink' = [unlink EXCEPT ![r] = @ \ {u}]
        /\ pc' = [pc EXCEPT ![r] = Cleanup(unlink[r] \ {u})]
        /\ files' = files \ {u} \/ files' = files
  BY DEF Unlink, Goto
<1>2. /\ tpl' = tpl /\ purged' = purged /\ kind' = kind /\ emp' = emp /\ pose' = pose
      /\ look' = look /\ raced' = raced /\ pc[r] = "unlink"
  BY DEF Unlink, request
<1>3. /\ pc'[r] \in {"unlink", "done"}
      /\ \A s \in Requests \ {r} : pc'[s] = pc[s]
      /\ \A s \in Requests : unlink'[s] \subseteq unlink[s]
  BY <1>1 DEF Cleanup, TypeOK
<1>4. u \in Requests /\ pc[u] # "upsert" /\ u \notin Images(emp[u])
  BY <1>1, <1>2 DEF IInv, UnlinkStale, TypeOK
<1>5. Provenance'
  BY <1>1, <1>2, <1>3, <1>4, NoImageAssumption DEF IInv, Provenance, BelongsTo, Images, TypeOK
<1>6. StoredFirst'
  BY <1>1, <1>2, <1>3, <1>4 DEF IInv, StoredFirst
<1>7. UnlinkStale'
  <2> SUFFICES ASSUME NEW s \in Requests, NEW v \in unlink'[s]
               PROVE  /\ emp[v] = emp[s]
                      /\ pc'[v] \in {"unlink", "done"}
                      /\ kind[s] = "enroll" => pose[v] = pose[s]
                      /\ pc'[s] = "unlink" => v \notin Images(emp[v])
    BY <1>2 DEF UnlinkStale, Images
  <2>1. v \in unlink[s] /\ v \in Requests
    BY <1>3 DEF TypeOK
  <2>2. pc'[s] = "unlink" => pc[s] = "unlink"
    BY <1>2, <1>3
  <2> QED
    BY <1>2, <1>3, <2>1, <2>2 DEF IInv, UnlinkStale
<1>8. OwnSteps'
  BY <1>2, <1>3 DEF IInv, OwnSteps, Window
<1>9. WindowsDiverse'
  BY <1>2, <1>3 DEF IInv, WindowsDiverse, Diverse, Window
<1>10. SimilarNeedsRace'
  BY <1>2 DEF IInv, SimilarNeedsRace, AreSimilar
<1> QED
  BY <1>5, <1>6, <1>7, <1>8, <1>9, <1>10 DEF IInv

-----------------------------------------------------------------------------
(* The steps that delete every template of an employee. *)

LEMMA DeletingStep ==
    ASSUME TypeOK, IInv, NEW r \in Requests,
           DeleteTemplates(r) \/ RemoveTemplates(r) \/ RemoveEmployee(r)
    PROVE  IInv'
<1>1. /\ kind' = kind /\ emp' = emp /\ pose' = pose /\ look' = look /\ raced' = raced
      /\ files' = files /\ purged' = purged /\ unlink' = unlink
      /\ pc[r] \in {"delete", "templates", "employee"}
      /\ pc'[r] \in {"unlink", "employee", "done"}
      /\ \A s \in Requests \ {r} : pc'[s] = pc[s]
  BY DEF DeleteTemplates, RemoveTemplates, RemoveEmployee, Goto, Cleanup, request, history, TypeOK
<1>2. \A d \in Employees, p \in Poses :
        tpl'[d][p] = IF d = emp[r] THEN NoImage ELSE tpl[d][p]
  BY DEF DeleteTemplates, RemoveTemplates, RemoveEmployee, TypeOK, Blank
<1>3. Provenance'
  BY <1>1, <1>2, NoImageAssumption DEF IInv, Provenance, BelongsTo, TypeOK
<1>4. StoredFirst'
  BY <1>1 DEF IInv, StoredFirst
<1>5. UnlinkStale'
  <2> SUFFICES ASSUME NEW s \in Requests, NEW u \in unlink[s]
               PROVE  /\ emp[u] = emp[s]
                      /\ pc'[u] \in {"unlink", "done"}
                      /\ kind[s] = "enroll" => pose[u] = pose[s]
                      /\ pc'[s] = "unlink" => u \notin Images(emp[u])'
    BY <1>1 DEF UnlinkStale, Images
  <2>1. /\ u \in Requests /\ emp[u] = emp[s] /\ pc'[u] \in {"unlink", "done"}
        /\ kind[s] = "enroll" => pose[u] = pose[s]
    BY <1>1 DEF IInv, UnlinkStale, TypeOK
  <2>2. ASSUME pc'[s] = "unlink", NEW p \in Poses, tpl'[emp[u]][p] = u
        PROVE  FALSE
    <3>1. tpl[emp[u]][p] = u /\ s # r
      BY <1>2, <2>1, <2>2, NoImageAssumption DEF TypeOK
    <3> QED
      BY <1>1, <2>1, <2>2, <3>1, NoImageAssumption DEF IInv, UnlinkStale, Images
  <2> QED
    BY <2>1, <2>2, <1>1 DEF Images
<1>6. OwnSteps'
  BY <1>1 DEF IInv, OwnSteps, Window
<1>7. WindowsDiverse'
  <2> SUFFICES ASSUME NEW s \in Requests, pc'[s] \in Window, emp[s] \notin raced
               PROVE  /\ Diverse(s)'
                      /\ \A q \in Requests : pc'[q] \in Window /\ emp[q] = emp[s]
                                                => pose[q] = pose[s]
    BY <1>1 DEF WindowsDiverse
  <2>1. \A q \in Requests : pc'[q] \in Window => pc[q] \in Window
    BY <1>1 DEF Window
  <2>2. Diverse(s)
    BY <2>1 DEF IInv, WindowsDiverse
  <2>3. Diverse(s)'
    BY <1>1, <1>2, <2>2 DEF Diverse, TypeOK
  <2> QED
    BY <2>1, <2>3 DEF IInv, WindowsDiverse
<1>8. SimilarNeedsRace'
  BY <1>1, <1>2 DEF IInv, SimilarNeedsRace, AreSimilar
<1> QED
  BY <1>3, <1>4, <1>5, <1>6, <1>7, <1>8 DEF IInv

-----------------------------------------------------------------------------
(* The retention job moves files to `purged`. *)

LEMMA OtherStep ==
    ASSUME TypeOK, IInv, NextDay \/ Purge \/ UNCHANGED vars
    PROVE  IInv'
<1>1. /\ kind' = kind /\ emp' = emp /\ pose' = pose /\ look' = look /\ raced' = raced
      /\ tpl' = tpl /\ pc' = pc /\ unlink' = unlink
      /\ files \cup purged \subseteq files' \cup purged'
  BY DEF NextDay, Purge, Expired, vars, stores, request, history
<1>2. Provenance' /\ StoredFirst'
  BY <1>1 DEF IInv, Provenance, BelongsTo, StoredFirst
<1>3. UnlinkStale' /\ OwnSteps'
  BY <1>1 DEF IInv, UnlinkStale, Images, OwnSteps
<1>4. WindowsDiverse' /\ SimilarNeedsRace'
  BY <1>1 DEF IInv, WindowsDiverse, Diverse, SimilarNeedsRace, AreSimilar
<1> QED
  BY <1>2, <1>3, <1>4 DEF IInv

LEMMA Inductive == Spec => [](TypeOK /\ IInv)
<1>1. Init => TypeOK /\ IInv
  <2> SUFFICES ASSUME Init
               PROVE  TypeOK /\ IInv
    OBVIOUS
  <2>1. TypeOK
    BY DaysAssumption DEF Init, TypeOK, Steps, Blank
  <2>2. IInv
    BY NoImageAssumption DEF Init, IInv, Provenance, BelongsTo, StoredFirst, UnlinkStale, OwnSteps,
       WindowsDiverse, SimilarNeedsRace, AreSimilar, Blank, Window
  <2> QED
    BY <2>1, <2>2
<1>2. TypeOK /\ IInv /\ [Next]_vars => (TypeOK /\ IInv)'
  <2> SUFFICES ASSUME TypeOK, IInv, [Next]_vars
               PROVE  TypeOK' /\ IInv'
    OBVIOUS
  <2>1. ASSUME NEW r \in Requests, Handler(r)
        PROVE  IInv'
    BY <2>1, MovingSteps, CheckStep, ReadStep, PutStep, UpsertStep, UnlinkStep,
       DeletingStep DEF Handler
  <2> QED
    BY <2>1, TypeStep, OtherStep DEF Next
<1> QED
  BY <1>1, <1>2, PTL DEF Spec

\* Every reachable state is well typed; in particular no handler is ever about
\* to remove a url that is not there.
THEOREM TypeCorrect == Spec => []TypeOK
BY Inductive, PTL

\* Whatever enrolls, resets, removals and failures overlap, a template's
\* photograph is in the storage unless the retention job took it.
THEOREM ImagesExistCorrect == Spec => []ImagesExist
<1>1. TypeOK /\ IInv => ImagesExist
  <2> SUFFICES ASSUME TypeOK, IInv, NEW e \in Employees, NEW p \in Poses,
                      tpl[e][p] # NoImage
               PROVE  tpl[e][p] \in files \cup purged
    BY DEF ImagesExist, Images
  <2> QED
    BY DEF IInv, Provenance, BelongsTo
<1> QED
  BY <1>1, Inductive, PTL

\* Two look-alike poses of an employee need two overlapping enrolls, for any
\* symmetric similarity of photographs.
THEOREM SimilarNeedsRaceCorrect == Spec => []SimilarNeedsRace
<1>1. IInv => SimilarNeedsRace
  BY DEF IInv
<1> QED
  BY <1>1, Inductive, PTL

-----------------------------------------------------------------------------
(* Employees whose handlers neither overlapped nor failed.                  *)

Tended == staff \ (overlapped \cup faulty)

OneHandler ==
    \A r, q \in Requests :
        emp[r] = emp[q] /\ emp[r] \in Tended /\ InFlight(r) /\ InFlight(q) => r = q

FilesOf(e) == {r \in files : emp[r] = e}

Agrees(e) == Images(e) \subseteq examples[e] /\ (Images(e) = {} => examples[e] = {})

\* The photographs that handler r accounts for, next to those in the table.
Owed(r) ==
    CASE pc[r] = "upsert" -> {r}
      [] pc[r] = "unlink" -> unlink[r]
      [] OTHER -> {}

\* What holds of its employee while r is the only handler.
FilesOnTrack(r) == pc[r] # "employee" => FilesOf(emp[r]) \subseteq Images(emp[r]) \cup Owed(r)

ReadOnTrack(r) ==
    /\ pc[r] \in {"put", "upsert"} => unlink[r] = {tpl[emp[r]][pose[r]]} \ {NoImage}
    /\ pc[r] = "delete" => unlink[r] = Images(emp[r])

SubjectOnTrack(r) ==
    CASE pc[r] \in {"existing", "put", "upsert"} ->
            Images(emp[r]) \cup {r} \subseteq examples[emp[r]]
      [] pc[r] \in {"select", "delete"} -> examples[emp[r]] = {}
      [] pc[r] = "employee" -> TRUE
      [] OTHER -> Agrees(emp[r])

OnTrack(r) ==
    /\ FilesOnTrack(r)
    /\ ReadOnTrack(r)
    /\ UseCompreFace => SubjectOnTrack(r)

TInv ==
    /\ OneHandler
    /\ \A r \in Requests : emp[r] \in Tended /\ InFlight(r) => OnTrack(r)
    /\ NoOrphans
    /\ SubjectFollowsTemplates

\* A handler's step touches its own employee only, who is tended after it only
\* if he was before.
Frame(r) ==
    /\ emp' = emp /\ pose' = pose /\ staff' \subseteq staff
    /\ overlapped \subseteq overlapped' /\ faulty \subseteq faulty'
    /\ \A s \in Requests \ {r} : pc'[s] = pc[s] /\ unlink'[s] = unlink[s]
    /\ \A e \in Employees \ {emp[r]} : tpl'[e] = tpl[e] /\ examples'[e] = examples[e]
    /\ \A u \in Requests : emp[u] # emp[r] => (u \in files' <=> u \in files)

LEMMA HandlerFrame ==
    ASSUME TypeOK, IInv, NEW r \in Requests, Handler(r)
    PROVE  Frame(r)
<1> USE DEF Frame, Goto, stores, request, history, TypeOK
<1>1. CASE Begin(r)
  BY <1>1 DEF Begin
<1>2. CASE Refuse(r) \/ Fail(r)
  BY <1>2 DEF Refuse, Fail
<1>3. CASE CheckDiversity(r)
  BY <1>3 DEF CheckDiversity
<1>4. CASE AddExample(r) \/ ReadExisting(r) \/ Put(r)
  BY <1>4 DEF AddExample, ReadExisting, Put
<1>5. CASE Upsert(r)
  BY <1>5 DEF Upsert
<1>6. CASE Unlink(r)
  <2>1. PICK u \in unlink[r] :
          /\ unlink' = [unlink EXCEPT ![r] = @ \ {u}]
          /\ pc' = [pc EXCEPT ![r] = Cleanup(unlink[r] \ {u})]
          /\ \/ files' = files \ {u} /\ UNCHANGED faulty
             \/ faulty' = faulty \cup {emp[r]} /\ UNCHANGED files
    BY <1>6 DEF Unlink
  <2>2. emp[u] = emp[r]
    BY <2>1 DEF IInv, UnlinkStale
  <2> QED
    BY <1>6, <2>1, <2>2 DEF Unlink
<1>7. CASE Forget(r) \/ SelectUrls(r) \/ DeleteTemplates(r)
  BY <1>7 DEF Forget, SelectUrls, DeleteTemplates
<1>8. CASE RemoveTemplates(r) \/ RemoveEmployee(r)
  BY <1>8 DEF RemoveTemplates, RemoveEmployee
<1> QED
  BY <1>1, <1>2, <1>3, <1>4, <1>5, <1>6, <1>7, <1>8 DEF Handler

\* A handler that steps for a tended employee is alone, and on track.
LEMMA HandlerAlone ==
    ASSUME TypeOK, IInv, TInv, NEW r \in Requests, Handler(r), emp[r] \in Tended'
    PROVE  /\ emp[r] \in Tended
           /\ \A s \in Requests \ {r} : emp[s] = emp[r] => ~InFlight(s)
           /\ OnTrack(r)
<1>1. emp[r] \in Tended
  BY HandlerFrame DEF Frame, Tended
<1>2. CASE InFlight(r)
  BY <1>1, <1>2 DEF TInv, OneHandler
<1>3. CASE ~InFlight(r)
  <2>1. Begin(r)
    <3>1. pc[r] \in {"idle", "done"}
      BY <1>3 DEF InFlight
    <3>2. ~Refuse(r)
      BY <1>1, <3>1 DEF Refuse, Tended
    <3>3. ~Fail(r)
      BY <1>3 DEF Fail
    <3> QED
      BY <3>1, <3>2, <3>3 DEF Handler, CheckDiversity, AddExample, ReadExisting, Put, Upsert,
         Unlink, Forget, SelectUrls, DeleteTemplates, RemoveTemplates, RemoveEmployee
  <2>2. Quiet(emp[r])
    BY <2>1 DEF Begin, Tended, TypeOK
  <2>3. FilesOf(emp[r]) \subseteq Images(emp[r])
    BY <1>1, <2>2 DEF TInv, NoOrphans, FilesOf, Tended
  <2>4. UseCompreFace => Agrees(emp[r])
    BY <1>1, <2>2 DEF TInv, SubjectFollowsTemplates, Agrees, Tended
  <2>5. OnTrack(r)
    BY <2>1, <2>3, <2>4 DEF Begin, OnTrack, FilesOnTrack, ReadOnTrack, SubjectOnTrack
  <2> QED
    BY <1>1, <2>2, <2>5 DEF Quiet
<1> QED
  BY <1>2, <1>3

\* The steps that leave the three stores as they are.
LEMMA ReadsStayOnTrack ==
    ASSUME TypeOK, IInv, NEW r \in Requests, OnTrack(r), emp[r] \in Tended,
           emp[r] \in Tended',
           Begin(r) \/ Refuse(r) \/ Fail(r) \/ CheckDiversity(r) \/ ReadExisting(r)
              \/ SelectUrls(r)
    PROVE  OnTrack(r)'
<1>1. /\ emp' = emp /\ pose' = pose /\ tpl' = tpl /\ files' = files /\ examples' = examples
  BY DEF Begin, Refuse, Fail, CheckDiversity, ReadExisting, SelectUrls, stores, request
<1>2. Images(emp[r])' = Images(emp[r]) /\ FilesOf(emp[r])' = FilesOf(emp[r])
      /\ Agrees(emp[r])' = Agrees(emp[r])
  BY <1>1 DEF Images, FilesOf, Agrees
<1>3. ~Fail(r)
  BY DEF Fail, Tended, TypeOK
<1>4. CASE Begin(r)
  <2>1. pc[r] = "idle" /\ pc'[r] = FirstStep(r) /\ unlink' = unlink
    BY <1>4 DEF Begin, Goto, TypeOK
  <2>2. pc'[r] \in {"diversity", "templates", "forget", "select"}
        /\ (UseCompreFace => pc'[r] # "select")
    BY <2>1 DEF FirstStep
  <2> QED
    BY <1>1, <1>2, <2>1, <2>2 DEF OnTrack, FilesOnTrack, ReadOnTrack, SubjectOnTrack, Owed
<1>5. CASE Refuse(r)
  <2>1. pc[r] = "diversity" /\ pc'[r] = "done"
    BY <1>5 DEF Refuse, Goto, TypeOK, Tended
  <2> QED
    BY <1>1, <1>2, <2>1 DEF OnTrack, FilesOnTrack, ReadOnTrack, SubjectOnTrack, Owed
<1>6. CASE CheckDiversity(r)
  <2>1. pc[r] = "diversity" /\ pc'[r] = IF UseCompreFace THEN "example" ELSE "existing"
    BY <1>6 DEF CheckDiversity, Goto, TypeOK
  <2> QED
    BY <1>1, <1>2, <2>1 DEF OnTrack, FilesOnTrack, ReadOnTrack, SubjectOnTrack, Owed
<1>7. CASE ReadExisting(r)
  <2>1. /\ pc[r] = "existing" /\ pc'[r] = "put"
        /\ unlink'[r] = {tpl[emp[r]][pose[r]]} \ {NoImage}
    BY <1>7 DEF ReadExisting, Goto, TypeOK
  <2> QED
    BY <1>1, <1>2, <2>1 DEF OnTrack, FilesOnTrack, ReadOnTrack, SubjectOnTrack, Owed
<1>8. CASE SelectUrls(r)
  <2>1. pc[r] = "select" /\ pc'[r] = "delete" /\ unlink'[r] = Images(emp[r])
    BY <1>8 DEF SelectUrls, Goto, TypeOK
  <2> QED
    BY <1>1, <1>2, <2>1 DEF OnTrack, FilesOnTrack, ReadOnTrack, SubjectOnTrack, Owed
<1> QED
  BY <1>3, <1>4, <1>5, <1>6, <1>7, <1>8
\* enrollInternal: the row of the new photograph takes the place of the old one,
\* which is what the handler has read and goes on to unlink.
LEMMA EnrollStaysOnTrack ==
    ASSUME TypeOK, IInv, NEW r \in Requests, OnTrack(r), emp[r] \in Tended,
           emp[r] \in Tended',
           AddExample(r) \/ Put(r) \/ Upsert(r) \/ Unlink(r)
    PROVE  OnTrack(r)'
<1> DEFINE e == emp[r]
<1> USE DEF OnTrack, FilesOnTrack, ReadOnTrack, SubjectOnTrack, Owed, FilesOf
<1>1. emp' = emp /\ pose' = pose /\ emp[r] \in Employees /\ pose[r] \in Poses
  BY DEF AddExample, Put, Upsert, Unlink, request, TypeOK
<1>2. CASE AddExample(r)
  <2>1. /\ pc[r] = "example" /\ pc'[r] = "existing" /\ tpl' = tpl /\ files' = files
        /\ examples'[e] = examples[e] \cup {r}
    BY <1>2 DEF AddExample, Goto, TypeOK
  <2>2. Images(e)' = Images(e)
    BY <1>1, <2>1 DEF Images
  <2> QED
    BY <1>1, <2>1, <2>2 DEF Agrees
<1>3. CASE Put(r)
  <2>1. /\ pc[r] = "put" /\ pc'[r] = "upsert" /\ tpl' = tpl /\ files' = files \cup {r}
        /\ examples' = examples /\ unlink' = unlink
    BY <1>3 DEF Put, Goto, TypeOK
  <2>2. Images(e)' = Images(e)
    BY <1>1, <2>1 DEF Images
  <2> QED
    BY <1>1, <2>1, <2>2
<1>4. CASE Upsert(r)
  <2>1. /\ pc[r] = "upsert" /\ files' = files /\ examples' = examples /\ unlink' = unlink
        /\ pc'[r] = Cleanup(unlink[r])
    BY <1>4 DEF Upsert, Goto, TypeOK
  <2>2. \A p \in Poses : tpl'[e][p] = IF p = pose[r] THEN r ELSE tpl[e][p]
    BY <1>1, <1>4 DEF Upsert, TypeOK
  <2>3. Images(e) \subseteq Images(e)' \cup unlink[r] /\ r \in Images(e)'
        /\ Images(e)' \subseteq Images(e) \cup {r}
    BY <1>1, <2>1, <2>2, NoImageAssumption DEF Images
  <2>4. FilesOf(e)' \subseteq Images(e)' \cup unlink[r]
    BY <1>1, <2>1, <2>3
  <2>5. UseCompreFace => Agrees(e)'
    BY <1>1, <2>1, <2>3 DEF Agrees
  <2>6. CASE unlink[r] = {}
    BY <1>1, <2>1, <2>4, <2>5, <2>6 DEF Cleanup
  <2>7. CASE unlink[r] # {}
    BY <1>1, <2>1, <2>4, <2>5, <2>7 DEF Cleanup
  <2> QED
    BY <2>6, <2>7
<1>5. CASE Unlink(r)
  <2>1. PICK u \in unlink[r] :
          /\ unlink' = [unlink EXCEPT ![r] = @ \ {u}]
          /\ pc' = [pc EXCEPT ![r] = Cleanup(unlink[r] \ {u})]
          /\ \/ files' = files \ {u} /\ UNCHANGED faulty
             \/ faulty' = faulty \cup {emp[r]} /\ UNCHANGED files
    BY <1>5 DEF Unlink, Goto
  <2>2. files' = files \ {u}
    BY <1>1, <2>1 DEF Tended
  <2>3. /\ pc[r] = "unlink" /\ tpl' = tpl /\ examples' = examples
        /\ unlink'[r] = unlink[r] \ {u} /\ pc'[r] = Cleanup(unlink[r] \ {u})
    BY <1>5, <2>1 DEF Unlink, TypeOK
  <2>4. Images(e)' = Images(e) /\ (UseCompreFace => Agrees(e)')
    BY <1>1, <2>3 DEF Images, Agrees
  <2>5. FilesOf(e)' \subseteq Images(e)' \cup unlink'[r]
    BY <1>1, <2>2, <2>3, <2>4
  <2>6. CASE unlink'[r] = {}
    BY <1>1, <2>3, <2>4, <2>5, <2>6 DEF Cleanup
  <2>7. CASE unlink'[r] # {}
    BY <1>1, <2>3, <2>4, <2>5, <2>7 DEF Cleanup
  <2> QED
    BY <2>6, <2>7
<1> QED
  BY <1>2, <1>3, <1>4, <1>5

\* A reset forgets the subject first and unlinks what it deleted; a removal
\* leaves its employee untended.
LEMMA ResetStaysOnTrack ==
    ASSUME TypeOK, IInv, NEW r \in Requests, OnTrack(r), emp[r] \in Tended,
           emp[r] \in Tended',
           Forget(r) \/ DeleteTemplates(r) \/ RemoveTemplates(r) \/ RemoveEmployee(r)
    PROVE  OnTrack(r)'
<1> DEFINE e == emp[r]
<1> USE DEF OnTrack, FilesOnTrack, ReadOnTrack, SubjectOnTrack, Owed, FilesOf
<1>1. emp' = emp /\ pose' = pose /\ emp[r] \in Employees
  BY DEF Forget, DeleteTemplates, RemoveTemplates, RemoveEmployee, request, TypeOK
<1>2. CASE Forget(r)
  <2>1. ~(faulty' = faulty \cup {emp[r]})
    BY <1>1 DEF Tended
  <2>2. /\ pc[r] = "forget" /\ pc'[r] = "select" /\ tpl' = tpl /\ files' = files
        /\ examples'[e] = {}
    BY <1>2, <2>1 DEF Forget, Goto, TypeOK
  <2>3. Images(e)' = Images(e)
    BY <1>1, <2>2 DEF Images
  <2> QED
    BY <1>1, <2>2, <2>3
<1>3. CASE DeleteTemplates(r)
  <2>1. /\ pc[r] = "delete" /\ files' = files /\ examples' = examples /\ unlink' = unlink
        /\ pc'[r] = Cleanup(unlink[r])
    BY <1>3 DEF DeleteTemplates, Goto, TypeOK
  <2>2. \A p \in Poses : tpl'[e][p] = NoImage
    BY <1>1, <1>3 DEF DeleteTemplates, TypeOK, Blank
  <2>3. Images(e)' = {}
    BY <1>1, <2>2 DEF Images
  <2>4. FilesOf(e)' \subseteq unlink[r]
    BY <1>1, <2>1
  <2>5. UseCompreFace => Agrees(e)'
    BY <1>1, <2>1, <2>3 DEF Agrees
  <2>6. CASE unlink[r] = {}
    BY <1>1, <2>1, <2>3, <2>4, <2>5, <2>6 DEF Cleanup
  <2>7. CASE unlink[r] # {}
    BY <1>1, <2>1, <2>3, <2>4, <2>5, <2>7 DEF Cleanup
  <2> QED
    BY <2>6, <2>7
<1>4. CASE RemoveTemplates(r)
  <2>1. pc'[r] = "employee"
    BY <1>4 DEF RemoveTemplates, Goto, TypeOK
  <2> QED
    BY <1>1, <2>1
<1>5. ~RemoveEmployee(r)
  BY <1>1 DEF RemoveEmployee, Tended
<1> QED
  BY <1>2, <1>3, <1>4, <1>5

LEMMA HandlerKeepsTInv ==
    ASSUME TypeOK, IInv, TInv, NEW r \in Requests, Handler(r)
    PROVE  TInv'
<1>1. Frame(r)
  BY HandlerFrame
<1>2. ASSUME emp[r] \in Tended'
      PROVE  /\ \A s \in Requests \ {r} : emp[s] = emp[r] => ~InFlight(s)
             /\ OnTrack(r)'
  BY <1>2, HandlerAlone, ReadsStayOnTrack, EnrollStaysOnTrack, ResetStaysOnTrack DEF Handler
<1>3. \A s \in Requests \ {r} : InFlight(s)' <=> InFlight(s)
  BY <1>1 DEF Frame, InFlight
<1>4. Tended' \subseteq Tended /\ emp' = emp /\ pose' = pose
  BY <1>1 DEF Frame, Tended
<1>5. \A e \in Employees \ {emp[r]} :
         /\ Images(e)' = Images(e) /\ FilesOf(e)' = FilesOf(e) /\ Agrees(e)' = Agrees(e)
         /\ Quiet(e)' => Quiet(e)
  <2> SUFFICES ASSUME NEW e \in Employees \ {emp[r]}
               PROVE  /\ Images(e)' = Images(e) /\ FilesOf(e)' = FilesOf(e)
                      /\ Agrees(e)' = Agrees(e)
                      /\ Quiet(e)' => Quiet(e)
    OBVIOUS
  <2>1. tpl'[e] = tpl[e] /\ examples'[e] = examples[e]
    BY <1>1 DEF Frame
  <2>2. Images(e)' = Images(e)
    BY <1>1, <2>1 DEF Images
  <2>3. files \subseteq Requests /\ files' \subseteq Requests
    BY TypeStep DEF TypeOK, Next
  <2>4. FilesOf(e)' = FilesOf(e)
    BY <1>1, <2>3 DEF Frame, FilesOf
  <2>5. Agrees(e)' = Agrees(e)
    BY <2>1, <2>2 DEF Agrees
  <2>6. Quiet(e)' => Quiet(e)
    BY <1>3, <1>4 DEF Quiet
  <2> QED
    BY <2>2, <2>4, <2>5, <2>6
<1>6. ASSUME NEW e \in Tended', e = emp[r], Quiet(e)'
      PROVE  FilesOf(e)' \subseteq Images(e)' /\ (UseCompreFace => Agrees(e)')
  <2>1. pc'[r] \in {"idle", "done"}
    BY <1>4, <1>6 DEF Quiet, InFlight
  <2> QED
    BY <1>2, <1>4, <1>6, <2>1
       DEF OnTrack, FilesOnTrack, SubjectOnTrack, Owed, Agrees, Images, FilesOf
<1>7. OneHandler'
  BY <1>2, <1>3, <1>4 DEF TInv, OneHandler
<1>8. ASSUME NEW s \in Requests, emp[s] \in Tended', InFlight(s)'
      PROVE  OnTrack(s)'
  <2>1. CASE emp[s] = emp[r] /\ s # r
    BY <1>2, <1>3, <1>8, <2>1
  <2>2. CASE s = r
    BY <1>2, <1>8, <2>2
  <2>3. CASE emp[s] # emp[r]
    <3>1. OnTrack(s) /\ emp[s] \in Employees
      BY <1>3, <1>4, <1>8, <2>3 DEF TInv, TypeOK
    <3>2. /\ pc'[s] = pc[s] /\ unlink'[s] = unlink[s] /\ tpl'[emp[s]] = tpl[emp[s]]
          /\ examples'[emp[s]] = examples[emp[s]] /\ emp'[s] = emp[s] /\ pose'[s] = pose[s]
      BY <1>1, <2>3, <3>1 DEF Frame
    <3>3. /\ Images(emp[s])' = Images(emp[s]) /\ FilesOf(emp[s])' = FilesOf(emp[s])
          /\ Agrees(emp[s])' = Agrees(emp[s])
      BY <1>4, <1>5, <2>3, <3>1
    <3>4. Owed(s)' = Owed(s)
      BY <3>2 DEF Owed
    <3>5. FilesOnTrack(s)' /\ ReadOnTrack(s)'
      BY <1>4, <3>1, <3>2, <3>3, <3>4 DEF OnTrack, FilesOnTrack, ReadOnTrack
    <3>6. UseCompreFace => SubjectOnTrack(s)'
      BY <1>4, <3>1, <3>2, <3>3 DEF OnTrack, SubjectOnTrack
    <3> QED
      BY <3>5, <3>6 DEF OnTrack
  <2> QED
    BY <2>1, <2>2, <2>3
<1>9. Tended' \subseteq Employees
  BY <1>4 DEF Tended, TypeOK
<1>10. NoOrphans'
  <2> SUFFICES ASSUME NEW e \in Tended', Quiet(e)'
               PROVE  FilesOf(e)' \subseteq Images(e)'
    BY DEF NoOrphans, FilesOf, Tended
  <2> QED
    BY <1>4, <1>5, <1>6, <1>9 DEF TInv, NoOrphans, FilesOf, Tended
<1>11. SubjectFollowsTemplates'
  <2> SUFFICES ASSUME UseCompreFace, NEW e \in Tended', Quiet(e)'
               PROVE  Agrees(e)'
    BY DEF SubjectFollowsTemplates, Agrees, Tended
  <2>1. CASE e = emp[r]
    BY <1>6, <2>1
  <2>2. CASE e # emp[r]
    <3>1. Agrees(e)
      BY <1>4, <1>5, <1>9, <2>2 DEF TInv, SubjectFollowsTemplates, Agrees, Tended
    <3> QED
      BY <1>5, <1>9, <2>2, <3>1
  <2> QED
    BY <2>1, <2>2
<1> QED
  BY <1>4, <1>7, <1>8, <1>10, <1>11 DEF TInv

LEMMA OtherKeepsTInv ==
    ASSUME TInv, NextDay \/ Purge \/ UNCHANGED vars
    PROVE  TInv'
<1>1. /\ emp' = emp /\ pose' = pose /\ staff' = staff /\ tpl' = tpl /\ pc' = pc
      /\ examples' = examples /\ unlink' = unlink /\ overlapped' = overlapped
      /\ faulty' = faulty /\ files' \subseteq files
  BY DEF NextDay, Purge, vars, stores, request, history
<1>2. Tended' = Tended /\ (\A s \in Requests : InFlight(s)' = InFlight(s))
  BY <1>1 DEF Tended, InFlight
<1>3. \A e \in Tended : /\ Images(e)' = Images(e) /\ FilesOf(e)' \subseteq FilesOf(e)
                        /\ Agrees(e)' = Agrees(e) /\ Quiet(e)' = Quiet(e)
  BY <1>1, <1>2 DEF Images, FilesOf, Agrees, Quiet
<1>4. OneHandler'
  BY <1>1, <1>2 DEF TInv, OneHandler
<1>5. ASSUME NEW s \in Requests, emp[s] \in Tended, InFlight(s)
      PROVE  OnTrack(s)'
  <2>1. OnTrack(s) /\ Owed(s)' = Owed(s)
    BY <1>1, <1>5 DEF TInv, Owed
  <2>2. FilesOnTrack(s)' /\ ReadOnTrack(s)'
    BY <1>1, <1>3, <1>5, <2>1 DEF OnTrack, FilesOnTrack, ReadOnTrack
  <2>3. UseCompreFace => SubjectOnTrack(s)'
    BY <1>1, <1>3, <1>5, <2>1 DEF OnTrack, SubjectOnTrack
  <2> QED
    BY <2>2, <2>3 DEF OnTrack
<1>6. NoOrphans'
  BY <1>1, <1>2, <1>3 DEF TInv, NoOrphans, FilesOf, Tended
<1>7. SubjectFollowsTemplates'
  BY <1>1, <1>2, <1>3 DEF TInv, SubjectFollowsTemplates, Agrees, Tended
<1> QED
  BY <1>1, <1>2, <1>4, <1>5, <1>6, <1>7 DEF TInv

LEMMA TendedInductive == Spec => []TInv
<1>1. Init => TInv
  <2> SUFFICES ASSUME Init
               PROVE  TInv
    OBVIOUS
  <2>1. \A r \in Requests : ~InFlight(r)
    BY DEF Init, InFlight
  <2>2. \A e \in Employees : Images(e) = {} /\ examples[e] = {}
    BY DEF Init, Images, Blank
  <2>3. staff = Employees /\ files = {}
    BY DEF Init
  <2>4. OneHandler /\ NoOrphans
    BY <2>1, <2>3 DEF OneHandler, NoOrphans
  <2>5. SubjectFollowsTemplates
    BY <2>2, <2>3 DEF SubjectFollowsTemplates
  <2> QED
    BY <2>1, <2>4, <2>5 DEF TInv
<1>2. (TypeOK /\ IInv) /\ TInv /\ [Next]_vars => TInv'
  BY HandlerKeepsTInv, OtherKeepsTInv DEF Next
<1> QED
  BY <1>1, <1>2, Inductive, PTL DEF Spec

\* With one handler at a time and no failed call, enrollInternal and
\* clearEnrollments leave no photograph behind that no template points to.
THEOREM NoOrphansCorrect == Spec => []NoOrphans
<1>1. TInv => NoOrphans
  BY DEF TInv
<1> QED
  BY <1>1, TendedInductive, PTL

\* ... and CompreFace and the table agree on who is enrolled.
THEOREM SubjectFollowsTemplatesCorrect == Spec => []SubjectFollowsTemplates
<1>1. TInv => SubjectFollowsTemplates
  BY DEF TInv
<1> QED
  BY <1>1, TendedInductive, PTL
=============================================================================
