-------------------------- MODULE MCIdentification --------------------------
(* A small instance of Identification for TLC. *)
EXTENDS Identification, TLC

CONSTANTS ann, bob, e1, e2, c1, c2

\* e1 is Ann's row, e2 Bob's.
MCPersonOf == (e1 :> ann) @@ (e2 :> bob)

\* A shared tablet and three logins: an employee's, an administrator's and one that
\* is linked to nobody.
MCCallers == {[role |-> "device", employee |-> None],
              [role |-> "employee", employee |-> e1],
              [role |-> "admin", employee |-> None],
              [role |-> "employee", employee |-> None]}

\* The codes are alike.
Symmetry == Permutations({c1, c2})

\* Bound: embeddings of both kinds are combined with the internal provider only,
\* without removals and updates; with CompreFace, updates ask for no status and
\* are followed before the probe only.
Bounded ==
    \/ provider = "internal" /\ gone = {} /\ \A u \in Updates : edit[u] = NoEdit
    \/ /\ model /\ \A e \in Employees, p \in Poses : tpl[e][p] # "prototype"
       /\ \/ provider = "internal"
          \/ \A u \in Updates : edit[u] = NoEdit
          \/ /\ \A u \in Updates : ~edit[u].asked
             /\ \A r \in Probes : pc[r] = "idle"
=============================================================================
