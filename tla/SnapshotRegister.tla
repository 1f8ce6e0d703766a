-------------------------- MODULE SnapshotRegister --------------------------
(***************************************************************************)
(* What the snapshot cache promises its users, without files: a register   *)
(* that holds one index generation or nothing.  A save replaces its        *)
(* content in one step.  A load returns a generation the register held at  *)
(* some moment between the load's beginning and its end, or nothing; it    *)
(* may return a generation that has been replaced by then, and it may fail *)
(* although the register is full.  Once it has been damaged from outside   *)
(* the published generation may also disappear.                            *)
(***************************************************************************)
CONSTANTS Readers, Gens

VARIABLES
  reg,       \* the published generation: a singleton, or empty
  reading,   \* the readers inside a load
  seen,      \* the generations the register held since each load began
  got,       \* what the last load of each reader returned
  damaged    \* has something outside the register's rules struck?

rvars == <<reg, reading, seen, got, damaged>>

Init ==
  /\ reg = {}
  /\ reading = {}
  /\ seen = [r \in Readers |-> {}]
  /\ got = [r \in Readers |-> {}]
  /\ damaged = FALSE

\* The register is assigned; every load under way may return the new content.
Assign(c) ==
  /\ reg' = c
  /\ seen' = [r \in Readers |-> IF r \in reading THEN seen[r] \union c ELSE {}]
  /\ UNCHANGED <<reading, got>>

Publish(g) == Assign({g})

Lose == damaged' /\ Assign({})

Begin(r) ==
  /\ r \notin reading
  /\ reading' = reading \union {r}
  /\ seen' = [seen EXCEPT ![r] = reg]
  /\ got' = [got EXCEPT ![r] = {}]
  /\ UNCHANGED reg

Return(r) ==
  /\ r \in reading
  /\ \E c \in {{}} \union {{g} : g \in seen[r]} : got' = [got EXCEPT ![r] = c]
  /\ reading' = reading \ {r}
  /\ seen' = [seen EXCEPT ![r] = {}]
  /\ UNCHANGED reg

\* Readers die; the register keeps its content unless it may lose it.
Die(rs) ==
  /\ reading' = reading \ rs
  /\ seen' = [r \in Readers |-> IF r \in rs THEN {} ELSE seen[r]]
  /\ got' = [r \in Readers |-> IF r \in rs THEN {} ELSE got[r]]
  /\ reg' = reg \/ (damaged' /\ reg' = {})

Next ==
  /\ damaged' \in {damaged, TRUE}
  /\ \/ \E g \in Gens : Publish(g)
     \/ Lose
     \/ \E r \in Readers : Begin(r) \/ Return(r)
     \/ \E rs \in SUBSET Readers : Die(rs)
     \/ UNCHANGED <<reg, reading, seen, got>>

Spec == Init /\ [][Next]_rvars
=============================================================================
