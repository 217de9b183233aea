---------------------------- MODULE HandoffLedger ----------------------------
(***************************************************************************)
(* What automatic failover promises, without channel, database or executor *)
(* steps: a pair of an agent and a target kind is committed to at most     *)
(* once in a life of the daemon, one commitment is worked on at a time,    *)
(* and it ends either recorded or abandoned; an abandoned one is not taken *)
(* up again before the daemon restarts, and a recorded one stays recorded. *)
(***************************************************************************)
EXTENDS Naturals

VARIABLES committed,  \* pairs committed to in this life
          pending,    \* the one being worked on, a set of at most one pair
          recorded,   \* pairs recorded in this life
          life        \* how often the daemon has been restarted

ledger == <<committed, pending, recorded, life>>

Init ==
  /\ committed = {}
  /\ pending = {}
  /\ recorded = {}
  /\ life = 0

\* Any pair may be committed to; it is named by the state the step leads to,
\* so that the set of pairs needs no bound.
Commit ==
  /\ pending = {}
  /\ \E p \in pending' :
       /\ p \notin committed
       /\ pending' = {p}
       /\ committed' = committed \cup {p}
  /\ UNCHANGED <<recorded, life>>

Record ==
  /\ pending # {}
  /\ recorded \cap pending = {}
  /\ recorded' = recorded \cup pending
  /\ pending' = {}
  /\ UNCHANGED <<committed, life>>

Abandon ==
  /\ pending # {}
  /\ pending' = {}
  /\ UNCHANGED <<committed, recorded, life>>

NewLife ==
  /\ committed' = {}
  /\ pending' = {}
  /\ recorded' = {}
  /\ life' = life + 1

Next == Commit \/ Record \/ Abandon \/ NewLife

Spec == Init /\ [][Next]_ledger
=============================================================================
