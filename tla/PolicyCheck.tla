----------------------------- MODULE PolicyCheck -----------------------------
(***************************************************************************)
(* The decision functions of crates/policy over bounded inputs.  A state   *)
(* holds one question put to them: the chain and the newest samples, which *)
(* pick_next answers, and the numbers of one agent, which should_trigger   *)
(* answers.  A step is what happens between two questions: a response of   *)
(* an agent brings new numbers.                                            *)
(***************************************************************************)
EXTENDS Policy, SequencesExt

CONSTANTS Simulated,    \* a kind no chain names
          MaxChain,     \* bound on the length of a chain
          Amounts,      \* numbers a sample may carry
          Thresholds    \* the policies asked about

ASSUME CheckAssumption ==
  /\ Simulated \notin Kinds
  /\ MaxChain \in Nat
  /\ Amounts \subseteq Nat
  /\ Thresholds \subseteq FailoverPolicy
  /\ Thresholds # {}

VARIABLES chain, current, samples,              \* a question to pick_next
          policy, tokens, requests, initial     \* one to should_trigger

question == <<chain, current, policy>>
numbers == <<samples, tokens, requests, initial>>

NoNumbers == tokens = NoValue /\ requests = NoValue /\ initial = NoValue

\* A chain to choose from ...
PickInit ==
  /\ chain \in UNION {[1 .. n -> Kinds] : n \in 1 .. MaxChain}
  /\ current \in Kinds \cup {Simulated}
  /\ samples \in [Kinds -> Amounts \cup {NoValue}]
  /\ policy = CHOOSE p \in Thresholds : TRUE
  /\ NoNumbers

\* ... or an agent to watch.
TriggerInit ==
  /\ chain = <<>>
  /\ current = Simulated
  /\ samples = [k \in Kinds |-> NoValue]
  /\ policy \in Thresholds
  /\ NoNumbers

Init == PickInit \/ TriggerInit

\* A response of an agent of kind k is stored.
Sampled(k, t) ==
  /\ chain # <<>>
  /\ samples' = [samples EXCEPT ![k] = t]
  /\ UNCHANGED <<question, tokens, requests, initial>>

\* A response of the agent itself; its baseline is the highest number seen.
Responded(t, r) ==
  /\ chain = <<>>
  /\ tokens' = t
  /\ requests' = r
  /\ initial' = IF t > 0 /\ t > initial THEN t ELSE initial
  /\ UNCHANGED <<question, samples>>

Next ==
  \/ \E k \in Kinds, t \in Amounts : Sampled(k, t)
  \/ \E t, r \in Amounts \cup {NoValue} : Responded(t, r)

Spec == Init /\ [][Next]_<<question, numbers>>

------------------------------------------------------------------------------
(* The code of pick_next as it runs: the kinds other than the current one  *)
(* one after the other.  Without samples the first of them stays, else     *)
(* max_by_key keeps the later of two equal elements.                       *)

scan(best, k) ==
  IF \/ best = {}
     \/ /\ ~samples_empty(chain, samples)
        /\ tokens_of(samples, k) >= tokens_of(samples, CHOOSE b \in best : TRUE)
  THEN {k} ELSE best

scanned(s) ==
  FoldLeft(LAMBDA best, k : IF k = current THEN best ELSE scan(best, k), {}, s)

picked == pick_next(chain, current, samples)

\* The order `preferred` describes what the iterator chain computes, ties and
\* repeated kinds included; there is a target exactly when the chain names another
\* kind, and only one (pick_next).
PicksAsScanned ==
  /\ picked = scanned(chain)
  /\ \A k, l \in picked : k = l
  /\ picked = {} <=> \A i \in DOMAIN chain : chain[i] = current

\* Once some kind of the chain has a sample, a kind that is picked stays picked
\* when its own next sample is higher, and one that is not cannot become so
\* when its sample is lower (pick_next picks the most tokens).
MoreTokensKeepTheTarget ==
  [][~samples_empty(chain, samples) =>
       \A k \in Kinds :
         /\ k \in picked /\ tokens_of(samples', k) > tokens_of(samples, k) => k \in picked'
         /\ k \in picked' /\ tokens_of(samples', k) < tokens_of(samples, k) => k \in picked
    ]_numbers

fires == should_trigger(policy, tokens, requests, initial)

\* An agent that has fallen below a threshold stays below it while its
\* numbers do not recover, as its baseline never falls (should_trigger).
NoRecoveryNoRelease ==
  [][/\ fires
     /\ tokens # NoValue => tokens' \in 0 .. tokens
     /\ requests # NoValue => requests' \in 0 .. requests
     => fires']_numbers
=============================================================================
