------------------------------ MODULE Adapters ------------------------------
(***************************************************************************)
(* The tables and pure functions of crates/adapters: which hosts belong to *)
(* an agent kind, which headers it reads, and which processes are agents.  *)
(*                                                                         *)
(* A host stands for the names one provider uses.  A word of a command     *)
(* line is its directory and its file name; of a directory only what the   *)
(* adapters look for is told apart.                                        *)
(***************************************************************************)
EXTENDS Integers, Sequences

CONSTANT NoKind

\* all(): in this order they are asked.
all_adapters ==
  <<"claude", "codex", "copilot", "cursor", "antigravity", "gemini", "aider", "cline">>

ASSUME AdaptersAssumption == \A i \in DOMAIN all_adapters : all_adapters[i] # NoKind

------------------------------------------------------------------------------
(* Hosts and headers *)

api_hosts ==
  [claude      |-> {"anthropic"},
   codex       |-> {"openai"},
   copilot     |-> {"github"},
   cursor      |-> {},
   antigravity |-> {"google"},
   gemini      |-> {"google"},
   aider       |-> {"openai", "anthropic"},
   cline       |-> {}]

Claimed(h) == {i \in DOMAIN all_adapters : h \in api_hosts[all_adapters[i]]}

\* The first adapter that claims the host.
classify_host(h) ==
  IF Claimed(h) = {} THEN NoKind
  ELSE all_adapters[CHOOSE i \in Claimed(h) : \A j \in Claimed(h) : i <= j]

\* The prefix of the rate-limit headers in a host's responses.
rate_headers(h) ==
  CASE h = "anthropic" -> "anthropic-ratelimit-"
    [] h \in {"openai", "github"} -> "x-ratelimit-"
    [] OTHER -> "none"

\* Only two adapters read numbers, each under a prefix.
parse_headers(kind, headers) ==
  \/ kind = "claude" /\ headers = "anthropic-ratelimit-"
  \/ kind = "codex" /\ headers = "x-ratelimit-"

------------------------------------------------------------------------------
(* Processes *)

Word(dir, file) == [dir |-> dir, file |-> file]

NoExe == Word("", "")

Words(s) == {s[i] : i \in DOMAIN s}

\* snapshot_procs: the path of the executable, where it can be read, is put in
\* front unless a word of the command line already is that path.
cmdline(p) ==
  IF p.exe = NoExe \/ p.exe \in Words(p.argv) THEN p.argv ELSE <<p.exe>> \o p.argv

\* The file name of the first word.
head(p) == IF cmdline(p) = <<>> THEN "" ELSE cmdline(p)[1].file

files(p) == {w.file : w \in Words(cmdline(p))}

In_app(p, app) == \E w \in Words(cmdline(p)) : w.dir = app

\* A child process of an Electron application.
is_typed(p) == "--type=" \in files(p)

is_helper(p) == p.name = "helper"

binaries ==
  [claude      |-> {"claude", "claude-code"},
   codex       |-> {"codex"},
   copilot     |-> {"copilot"},
   cursor      |-> {"cursor"},
   antigravity |-> {"antigravity", "electron", "language_server"},
   gemini      |-> {"gemini"},
   aider       |-> {"aider"},
   cline       |-> {"cline"}]

Named(p, kind) == {head(p), p.name} \cap binaries[kind] # {}

\* Adapter::detect: some word of the command line names the program.
detects_default(kind, p) ==
  /\ ~is_typed(p)
  /\ ~is_helper(p)
  /\ Named(p, kind) \/ files(p) \cap binaries[kind] # {}

detects_copilot(p) ==
  \/ Named(p, "copilot")
  \/ /\ "gh" \in {head(p), p.name}
     /\ Len(cmdline(p)) > 1
     /\ cmdline(p)[2].file = "copilot"

detects_cursor(p) ==
  ~is_typed(p) /\ ~is_helper(p) /\ (Named(p, "cursor") \/ In_app(p, "cursor.app"))

\* A helper of VS Code runs Gemini Code Assist.
detects_gemini(p) ==
  /\ ~is_typed(p)
  /\ \/ In_app(p, "geminicodeassist")
     \/ ~is_helper(p) /\ Named(p, "gemini")

detects_antigravity(p) ==
  ~is_typed(p) /\ In_app(p, "antigravity.app") /\ Named(p, "antigravity")

detect(kind, p) ==
  CASE kind = "copilot" -> detects_copilot(p)
    [] kind = "cursor" -> detects_cursor(p)
    [] kind = "gemini" -> detects_gemini(p)
    [] kind = "antigravity" -> detects_antigravity(p)
    [] OTHER -> detects_default(kind, p)
=============================================================================
