--------------------------- MODULE CertAuthority ---------------------------
(***************************************************************************)
(* The proxy's certificate authority: the two files under ~/.handoff/ca,   *)
(* which `setup` and the proxy create if they are not there (ca.rs), the   *)
(* copy that setup puts into the system's trust store and teardown takes   *)
(* out (setup.rs), and the pair a running proxy signs with.                *)
(*                                                                         *)
(* A pair is known by its number.  fs::write empties a file and then fills *)
(* it.  Commands may be interrupted, and writes fail, between any two      *)
(* steps; nothing locks the files.                                         *)
(***************************************************************************)
EXTENDS Integers

CONSTANTS
  Setups, Proxies,      \* the commands: `setup`, and runs of the proxy
  MaxPairs,             \* bound on the pairs generated
  MaxStops              \* bound on interrupts, failures and teardowns

ASSUME CertAssumption ==
  /\ Setups \cap Proxies = {}
  /\ {MaxPairs, MaxStops} \subseteq Nat

Creators == Setups \cup Proxies

NoFile == 0
Hollow == MaxPairs + 1      \* a file that was created and is not filled
NoPair == [cert |-> NoFile, key |-> NoFile]

VARIABLES
  cert, key,      \* contents of the files
  trusted,        \* contents of the copy in the trust store
  step,           \* per command, where it is
  pair,           \* per command, the pair it has read or generated
  tearing,        \* whether a teardown is removing the directory
  pairs, stops,   \* so far (bounded)
  crossed,        \* history: a command worked on the files while another was
                  \* creating them, or a pair was created over a leftover file
  replaced,       \* history: running proxies whose files were removed
  left_behind     \* history: a teardown could not remove the trusted copy

caVars == <<cert, key, trusted, step, pair, tearing, pairs, stops,
            crossed, replaced, left_behind>>

Creating == {"open_cert", "fill_cert", "open_key", "fill_key"}

Steps == {"idle", "read_cert", "read_key", "loaded", "serving"} \cup Creating

CaInit ==
  /\ cert = NoFile
  /\ key = NoFile
  /\ trusted = NoFile
  /\ step = [c \in Creators |-> "idle"]
  /\ pair = [c \in Creators |-> NoPair]
  /\ tearing = FALSE
  /\ pairs = 0
  /\ stops = 0
  /\ crossed = FALSE
  /\ replaced = {}
  /\ left_behind = FALSE

OneStop == stops < MaxStops /\ stops' = stops + 1

Goto(c, s) == step' = [step EXCEPT ![c] = s]

------------------------------------------------------------------------------
(* load_or_create *)

\* Seeded fault: every start generates a pair.
both_exist_never == FALSE

both_exist == cert # NoFile /\ key # NoFile

\* Another command is at work on the files.
Others_at_work(c) ==
  \/ tearing
  \/ \E d \in Creators \ {c} : step[d] \in Creating

Check(c) ==
  /\ step[c] = "idle"
  /\ IF both_exist
     THEN Goto(c, "read_cert") /\ UNCHANGED <<pair, pairs>>
     ELSE /\ pairs < MaxPairs
          /\ pairs' = pairs + 1
          /\ pair' = [pair EXCEPT ![c] = [cert |-> pairs', key |-> pairs']]
          /\ Goto(c, "open_cert")
  /\ crossed' = (crossed \/ Others_at_work(c) \/ (cert = NoFile /\ key # NoFile))
  /\ UNCHANGED <<cert, key, trusted, tearing, stops, replaced, left_behind>>

Load(c) ==
  /\ \/ /\ step[c] = "read_cert"
        /\ cert # NoFile
        /\ pair' = [pair EXCEPT ![c].cert = cert]
        /\ Goto(c, "read_key")
     \/ /\ step[c] = "read_key"
        /\ key # NoFile
        /\ pair' = [pair EXCEPT ![c].key = key]
        /\ Goto(c, "loaded")
  /\ UNCHANGED <<cert, key, trusted, tearing, pairs, stops, crossed, replaced, left_behind>>

\* generate_and_persist.  The directory was created by cert_pem_path.
Generate(c) ==
  /\ \/ step[c] = "open_cert" /\ cert' = Hollow /\ UNCHANGED key /\ Goto(c, "fill_cert")
     \/ step[c] = "fill_cert" /\ cert' = pair[c].cert /\ UNCHANGED key /\ Goto(c, "open_key")
     \/ step[c] = "open_key" /\ key' = Hollow /\ UNCHANGED cert /\ Goto(c, "fill_key")
     \/ step[c] = "fill_key" /\ key' = pair[c].key /\ UNCHANGED cert /\ Goto(c, "loaded")
  /\ UNCHANGED <<trusted, pair, tearing, pairs, stops, crossed, replaced, left_behind>>

\* An interrupt, a write that fails, a file that has gone or, for the proxy, one
\* that does not parse; a proxy that is stopped.
Quits(c) ==
  /\ step[c] # "idle"
  /\ OneStop
  /\ Goto(c, "idle")
  /\ pair' = [pair EXCEPT ![c] = NoPair]
  /\ replaced' = replaced \ {c}
  /\ UNCHANGED <<cert, key, trusted, tearing, pairs, crossed, left_behind>>

------------------------------------------------------------------------------
(* run_setup, run, run_teardown *)

\* `sudo cp` of the file; if that fails setup says how to do it by hand.
Trust(c) ==
  /\ c \in Setups
  /\ step[c] = "loaded"
  /\ Goto(c, "idle")
  /\ pair' = [pair EXCEPT ![c] = NoPair]
  /\ \/ UNCHANGED <<trusted, left_behind>>
     \/ cert # NoFile /\ trusted' = cert /\ left_behind' = FALSE
  /\ UNCHANGED <<cert, key, tearing, pairs, stops, crossed, replaced>>

\* Seeded fault: an empty file is taken for what it should hold.
parses_anything(p) == TRUE

\* from_pem fails for an empty file.
parses(p) == Hollow \notin {p.cert, p.key}

\* That key and certificate belong together
\* is not looked at.
Serve(c) ==
  /\ c \in Proxies
  /\ step[c] = "loaded"
  /\ parses(pair[c])
  /\ Goto(c, "serving")
  /\ UNCHANGED <<cert, key, trusted, pair, tearing, pairs, stops, crossed, replaced, left_behind>>

\* The copy in the trust store first; on Linux success is reported whatever
\* sudo has returned.
Teardown ==
  /\ ~tearing
  /\ OneStop
  /\ tearing' = TRUE
  /\ \/ trusted' = NoFile /\ left_behind' = FALSE
     \/ trusted # NoFile /\ left_behind' = TRUE /\ UNCHANGED trusted
  /\ crossed' = (crossed \/ \E c \in Creators : step[c] \notin {"idle", "serving"})
  /\ replaced' = {c \in Proxies : step[c] = "serving"}
  /\ UNCHANGED <<cert, key, step, pair, pairs>>

\* remove_dir_all, in the order of the directory; it may be interrupted too.
RemoveFiles ==
  /\ tearing
  /\ \/ cert # NoFile /\ cert' = NoFile /\ UNCHANGED <<key, tearing, stops>>
     \/ key # NoFile /\ key' = NoFile /\ UNCHANGED <<cert, tearing, stops>>
     \/ cert = NoFile /\ key = NoFile /\ tearing' = FALSE /\ UNCHANGED <<cert, key, stops>>
     \/ OneStop /\ tearing' = FALSE /\ UNCHANGED <<cert, key>>
  /\ UNCHANGED <<trusted, step, pair, pairs, crossed, replaced, left_behind>>

CaNext ==
  \/ \E c \in Creators : Check(c) \/ Load(c) \/ Generate(c) \/ Quits(c) \/ Trust(c) \/ Serve(c)
  \/ Teardown \/ RemoveFiles

CaSpec == CaInit /\ [][CaNext]_caVars

------------------------------------------------------------------------------
(* Properties *)

Numbers == NoFile .. Hollow

Filled(x) == x \notin {NoFile, Hollow}

CaTypeOK ==
  /\ {cert, key, trusted} \subseteq Numbers
  /\ step \in [Creators -> Steps]
  /\ pair \in [Creators -> [cert : Numbers, key : Numbers]]
  /\ \A c \in Proxies :
       step[c] = "serving" => Filled(pair[c].cert) /\ Filled(pair[c].key)
  /\ replaced \subseteq Proxies

\* A certificate and a key that are both complete belong together, on disk and
\* in a running proxy, wherever commands were interrupted, and agents find the
\* proxy's certificate in the file they are pointed to: unless two commands were
\* at the files at once, a key was left over or, for the last, the files
\* were torn down (load_or_create generates both when either is missing).
PairBelongsTogether ==
  ~crossed =>
    /\ Filled(cert) /\ Filled(key) => cert = key
    /\ \A c \in Proxies :
         step[c] = "serving" =>
           /\ pair[c].cert = pair[c].key
           /\ c \notin replaced => cert = pair[c].cert

\* What the system trusts is the certificate of the file, although `setup` and the
\* proxy may each be the one that creates it, unless a teardown could not
\* remove the copy it had made of an earlier one (run_setup, run_teardown).
TrustedIsCurrent ==
  /\ ~crossed /\ ~left_behind
  /\ Filled(trusted) /\ Filled(cert)
  => trusted = cert
=============================================================================
