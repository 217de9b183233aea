------------------------------- MODULE MCCli -------------------------------
(***************************************************************************)
(* Four parts for TLC, in one instance: the critic's watcher (Review), the *)
(* lifecycle of the services (Services), the hook of an interactive shell  *)
(* (ShellHook) and the questions put to the policy (PolicyCheck).  They    *)
(* share no state, so a behaviour is one of one of them.                   *)
(***************************************************************************)
EXTENDS Review, Services, ShellHook, PolicyCheck

VARIABLE scene

Scenes == {"review", "services", "shell", "policy"}

cliVars == <<reviewVars, serviceVars, hookVars, question, numbers, scene>>

\* Each with one of its initial states where another is looked at.
CliInit ==
  /\ scene \in Scenes
  /\ ReviewInit
  /\ \/ scene = "review"
     \/ ~one_shot /\ \A f \in Files : mtime[f] = Absent
  /\ ServicesInit
  /\ scene = "services" \/ pidfile = Missing
  /\ HookInit
  /\ \/ scene = "shell"
     \/ zsh /\ ~active /\ \A n \in Names : mine[n] = Unset
  /\ IF scene = "policy" THEN Init
     ELSE TriggerInit /\ policy = CHOOSE p \in Thresholds : TRUE

CliNext ==
  /\ \/ /\ scene = "review" /\ ReviewNext
        /\ UNCHANGED <<serviceVars, hookVars, question, numbers>>
     \/ /\ scene = "services" /\ ServicesNext
        /\ UNCHANGED <<reviewVars, hookVars, question, numbers>>
     \/ /\ scene = "shell" /\ HookNext
        /\ UNCHANGED <<reviewVars, serviceVars, question, numbers>>
     \/ /\ scene = "policy" /\ Next
        /\ UNCHANGED <<reviewVars, serviceVars, hookVars>>
  /\ UNCHANGED scene

OtherParts == <<serviceVars, hookVars, question, numbers, scene>>

\* As in FairReviewSpec.
FairCliSpec ==
  /\ CliInit /\ [][CliNext]_cliVars
  /\ WF_cliVars(scene = "review" /\ Polled /\ UNCHANGED OtherParts)
  /\ WF_cliVars(scene = "review" /\ TimePasses /\ UNCHANGED OtherParts)

\* The type invariants of the parts.
CliTypeOK ==
  /\ ReviewTypeOK
  /\ ServicesTypeOK
  /\ HookTypeOK

------------------------------------------------------------------------------
(* Values *)

\* One, two or three commands on a line, the last case after an agent.
MCLines ==
  {<<c>> : c \in Commands} \cup {<<c, d>> : c, d \in Commands}
    \cup {<<Agent, c, d>> : c, d \in Commands}

MCKinds == {"claude", "codex", "gemini"}
MCAmounts == {0, 4, 5, 50}

DefaultThresholds ==
  [tokens_remaining_pct |-> 10,
   tokens_remaining_abs |-> NoValue,
   requests_remaining   |-> 5,
   chain                |-> <<"claude">>,
   auto_spawn           |-> TRUE,
   summarize            |-> FALSE,
   use_worktree         |-> FALSE]

\* With an absolute threshold as well, and with a percentage of nothing.
SeveralThresholds ==
  {DefaultThresholds,
   [DefaultThresholds EXCEPT !.tokens_remaining_abs = 5],
   [DefaultThresholds EXCEPT !.tokens_remaining_pct = 0]}
=============================================================================
