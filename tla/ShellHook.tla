------------------------------ MODULE ShellHook ------------------------------
(***************************************************************************)
(* The hook of crates/cli/src/hook.rs in an interactive shell: agents run  *)
(* with the proxy's environment, everything else with the user's own.      *)
(*                                                                         *)
(* zsh calls the hook with a whole line (preexec), bash with each simple   *)
(* command (the DEBUG trap); both restore before a prompt.  A line is the  *)
(* commands that run in this shell, one after the other.  A proxied        *)
(* variable has one value, whatever its name.                              *)
(***************************************************************************)
EXTENDS Integers, Sequences

CONSTANTS
  Names,     \* the variables the hook sets
  Values,    \* what the user may give them
  Lines      \* what the user may enter

Unset == "unset"
NotSaved == "not saved"
Proxied == "proxied"

Agent == [does |-> "agent"]
Program == [does |-> "program"]
Assign(n, v) == [does |-> "assign", name |-> n, value |-> v]

Commands ==
  {Agent, Program} \cup {Assign(n, v) : n \in Names, v \in Values \cup {Unset}}

ASSUME HookAssumption ==
  /\ Values \cap {Unset, NotSaved, Proxied} = {}
  /\ Lines \subseteq Seq(Commands) \ {<<>>}

VARIABLES
  zsh,        \* or bash
  env,        \* the variables
  saved,      \* HANDOFF_OLD_<name>: a value, Unset with _SET = 0, or NotSaved
  active,     \* whether HANDOFF_PROXY_ACTIVE is set
  line,       \* what is left of the line
  at_prompt,
  mine,       \* history: the variables as the user has left them
  started     \* history: the program started last, and the environment it got

hookVars == <<zsh, env, saved, active, line, at_prompt, mine, started>>

UserEnv == [Names -> Values \cup {Unset}]

NothingSaved == [n \in Names |-> NotSaved]

AllProxied == [n \in Names |-> Proxied]

NoProgram == [agent |-> FALSE, alone |-> FALSE, env |-> NothingSaved]

\* A new shell, or one that an agent has started, with all the hook exports.
HookInit ==
  /\ zsh \in BOOLEAN
  /\ mine \in UserEnv
  /\ \/ active = FALSE /\ env = mine /\ saved = NothingSaved
     \/ active = TRUE /\ env = AllProxied /\ saved = mine
  /\ line = <<>>
  /\ at_prompt = FALSE
  /\ started = NoProgram

------------------------------------------------------------------------------
(* The functions of the script, on the three variables they change *)

Unchanged(e) == [env |-> e, saved |-> saved, active |-> active]

handoff_enable_proxy ==
  IF active THEN Unchanged(env)
  ELSE [env |-> AllProxied, saved |-> env, active |-> TRUE]

\* Seeded fault: the flags are not looked at, and what was unset becomes empty.
handoff_restore_var_plain(n) ==
  IF saved[n] \in {Unset, NotSaved} THEN "" ELSE saved[n]

handoff_restore_var(n) == IF saved[n] = NotSaved THEN Unset ELSE saved[n]

handoff_restore_proxy ==
  IF ~active THEN Unchanged(env)
  ELSE [env    |-> [n \in Names |-> handoff_restore_var(n)],
        saved  |-> NothingSaved,
        active |-> FALSE]

\* Seeded fault: what runs after an agent keeps the agent's environment.
handoff_before_command_once(c) ==
  IF c = Agent THEN handoff_enable_proxy ELSE Unchanged(env)

\* handoff_should_proxy_command looks at the first words of what it is given.
handoff_before_command(c) ==
  IF c = Agent THEN handoff_enable_proxy ELSE handoff_restore_proxy

Becomes(s) == env' = s.env /\ saved' = s.saved /\ active' = s.active

------------------------------------------------------------------------------
(* The shell *)

\* preexec, of the whole line.
Enter(l) ==
  /\ at_prompt
  /\ at_prompt' = FALSE
  /\ line' = l
  /\ IF zsh THEN Becomes(handoff_before_command(l[1])) ELSE Becomes(Unchanged(env))
  /\ UNCHANGED <<zsh, mine, started>>

\* The DEBUG trap, and then the command.  What the user assigns while an agent's
\* line is proxied, which only zsh lets happen, is undone with the rest.
RunCommand ==
  /\ line # <<>>
  /\ line' = Tail(line)
  /\ LET c == Head(line)
         s == IF zsh THEN Unchanged(env) ELSE handoff_before_command(c)
     IN IF c.does = "assign"
        THEN /\ Becomes([s EXCEPT !.env[c.name] = c.value])
             /\ mine' = IF s.active THEN mine ELSE [mine EXCEPT ![c.name] = c.value]
             /\ started' = NoProgram
        ELSE /\ Becomes(s)
             /\ started' = [agent |-> c = Agent, alone |-> ~zsh, env |-> s.env]
             /\ UNCHANGED mine
  /\ UNCHANGED <<zsh, at_prompt>>

\* The rest of the line is given up.
InterruptLine ==
  /\ line # <<>>
  /\ line' = <<>>
  /\ UNCHANGED <<zsh, env, saved, active, at_prompt, mine, started>>

\* precmd, or PROMPT_COMMAND.
Prompt ==
  /\ ~at_prompt
  /\ line = <<>>
  /\ at_prompt' = TRUE
  /\ Becomes(handoff_restore_proxy)
  /\ started' = NoProgram
  /\ UNCHANGED <<zsh, line, mine>>

HookNext ==
  \/ \E l \in Lines : Enter(l)
  \/ RunCommand \/ InterruptLine \/ Prompt

HookSpec == HookInit /\ [][HookNext]_hookVars

------------------------------------------------------------------------------
(* Properties *)

HookTypeOK ==
  /\ zsh \in BOOLEAN
  /\ env \in [Names -> Values \cup {Unset, Proxied}]
  /\ saved \in UserEnv \cup {NothingSaved}
  /\ active \in BOOLEAN
  /\ line \in Seq(Commands)
  /\ at_prompt \in BOOLEAN
  /\ mine \in UserEnv

\* At a prompt every variable is again what the user has left it at, unset if it
\* was unset, however many agents the line has run, wherever it was
\* interrupted, and although the shell itself was started by an agent
\* (handoff_enable_proxy, handoff_restore_proxy).
EnvironmentIsRestored == at_prompt => env = mine

\* Under bash, which asks for each command, an agent runs with the proxy and
\* any other program with the user's environment, in whatever order they stand
\* on a line (handoff_before_command).
AgentsAloneAreProxied ==
  started.alone => started.env = IF started.agent THEN AllProxied ELSE mine
=============================================================================
