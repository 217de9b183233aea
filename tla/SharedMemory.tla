---------------------------- MODULE SharedMemory ----------------------------
(***************************************************************************)
(* What the project's memory promises to those who use it, without calls,  *)
(* locks, requests or daemons: a text gets into it at a stroke, a command  *)
(* is told so only when its text is in it or was spoilt, nothing but the   *)
(* save of an editor takes a text out, and a save puts back what that      *)
(* editor has loaded, or, if it fails half-way, nothing.                   *)
(***************************************************************************)
CONSTANT Editors

VARIABLES kept,    \* the texts that are in the memory
          loaded,  \* per editor, those that were when it loaded the memory
          told,    \* the texts whose command has been told so
          spoilt   \* the texts of which a save has removed something

memory == <<kept, loaded, told, spoilt>>

Init ==
  /\ kept = {}
  /\ loaded = [e \in Editors |-> {}]
  /\ told = {}
  /\ spoilt = {}

\* As in HandoffLedger the text is named by the state the step leads to.
Keep ==
  /\ \E t \in kept' :
       /\ t \notin kept
       /\ kept' = kept \cup {t}
       /\ told' \in {told, told \cup {t}}
  /\ UNCHANGED <<loaded, spoilt>>

Tell ==
  /\ \E t \in kept \cup spoilt : told' = told \cup {t}
  /\ UNCHANGED <<kept, loaded, spoilt>>

Load(e) ==
  /\ loaded' = [loaded EXCEPT ![e] = kept]
  /\ UNCHANGED <<kept, told, spoilt>>

Save(e) ==
  /\ kept' \in {loaded[e], {}}
  /\ loaded' = [loaded EXCEPT ![e] = {}]
  /\ spoilt \cup (kept \ kept') \subseteq spoilt'
  /\ UNCHANGED told

Next == Keep \/ Tell \/ \E e \in Editors : Load(e) \/ Save(e)

Spec == Init /\ [][Next]_memory
=============================================================================
