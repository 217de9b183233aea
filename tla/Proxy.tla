------------------------------- MODULE Proxy -------------------------------
(***************************************************************************)
(* The proxy of crates/proxy, between the programs of the user and their   *)
(* providers.  Of each response it tells the agent kind by the host, the   *)
(* numbers by the headers and the program by the client's socket, and      *)
(* posts what it found to the daemon's /ingest; module Daemon takes it     *)
(* from there.                                                             *)
(*                                                                         *)
(* An exchange is a connection with one request and one response.  The     *)
(* handler is cloned per connection; last_host is shared by all clones.    *)
(***************************************************************************)
EXTENDS Adapters

CONSTANTS
  Exchanges,     \* named by the port of the client's end
  Clients,       \* the pids of the programs that use the proxy
  ProxyPid, ProxyPort,
  Hosts,         \* the hosts they talk to
  NoHost, NoClient

ASSUME ProxyAssumption ==
  /\ ProxyPid \notin Clients
  /\ NoClient \notin Clients \cup {ProxyPid}
  /\ NoHost \notin Hosts
  /\ ProxyPort \notin Exchanges

VARIABLES
  at,          \* per exchange, where it is
  to, client,  \* its host, and the program that has opened it
  last_host,   \* of the request handled last
  sockets,     \* rows of the system's table of connections
  report,      \* per exchange, the kind and pid posted, and if with a sample
  overtaken,   \* history: another request has been handled since its own
  shared       \* history: another socket has had its port

proxyVars == <<at, to, client, last_host, sockets, report, overtaken, shared>>

Stages == {"new", "open", "asked", "posting", "done"}

------------------------------------------------------------------------------
(* Connections *)

NoReport == [kind |-> NoKind, pid |-> NoClient, sampled |-> FALSE]

Socket(owner, local, remote) == [owner |-> owner, local |-> local, remote |-> remote]

ProxyInit ==
  /\ at = [e \in Exchanges |-> "new"]
  /\ to = [e \in Exchanges |-> NoHost]
  /\ client = [e \in Exchanges |-> NoClient]
  /\ last_host = NoHost
  /\ sockets = {}
  /\ report = [e \in Exchanges |-> NoReport]
  /\ overtaken = [e \in Exchanges |-> FALSE]
  /\ shared = [e \in Exchanges |-> FALSE]

\* On this machine both ends are in the table.
Connect(e, c) ==
  /\ at[e] = "new"
  /\ at' = [at EXCEPT ![e] = "open"]
  /\ client' = [client EXCEPT ![e] = c]
  /\ sockets' = sockets \cup {Socket(c, e, ProxyPort), Socket(ProxyPid, ProxyPort, e)}
  /\ UNCHANGED <<to, last_host, report, overtaken, shared>>

\* Afterwards nobody looks at the table for it.
Looked_up(e) == at[e] \in {"open", "asked"}

\* The client's end is closed; a closed end has no owner.
CloseClient(e) ==
  /\ Looked_up(e)
  /\ Socket(client[e], e, ProxyPort) \in sockets
  /\ sockets' = sockets \ {Socket(client[e], e, ProxyPort)}
  /\ UNCHANGED <<at, to, client, last_host, report, overtaken, shared>>

\* A connection to another place may have the same local port.
SharePort(e, c) ==
  /\ Looked_up(e)
  /\ ~shared[e]
  /\ sockets' = sockets \cup {Socket(c, e, "elsewhere")}
  /\ shared' = [shared EXCEPT ![e] = TRUE]
  /\ UNCHANGED <<at, to, client, last_host, report, overtaken>>

------------------------------------------------------------------------------
(* HandoffHandler *)

\* Seeded fault: only a host some adapter claims is remembered.
remembered_claimed(h) == IF classify_host(h) = NoKind THEN last_host ELSE h

remembered(h) == h

\* handle_request, for the request that opens a tunnel and for the one sent
\* through it.
HandleRequest(e, h) ==
  /\ at[e] = "open"
  /\ to[e] \in {NoHost, h}
  /\ to' = [to EXCEPT ![e] = h]
  /\ \E stage \in {"open", "asked"} : at' = [at EXCEPT ![e] = stage]
  /\ last_host' = remembered(h)
  /\ overtaken' = [x \in Exchanges |-> x # e /\ (overtaken[x] \/ at[x] = "asked")]
  /\ UNCHANGED <<client, sockets, report, shared>>

\* Seeded fault: the row is found by the far end, which is the proxy's own.
rows_by_remote(e) == {s \in sockets : s.remote = e}

rows_of(e) == {s \in sockets : s.local = e}

\* A process that has the socket, or none: the scan misses other users'
\* processes, and closed sockets.
lookup_pid(e) == {NoClient} \cup {s.owner : s \in rows_of(e)}

\* A response from a host no adapter claims passes unnoticed.
HandleResponse(e) ==
  /\ at[e] = "asked"
  /\ LET kind == classify_host(last_host) IN
     IF kind = NoKind
     THEN at' = [at EXCEPT ![e] = "done"] /\ UNCHANGED report
     ELSE /\ at' = [at EXCEPT ![e] = "posting"]
          /\ \E pid \in lookup_pid(e) :
               report' = [report EXCEPT ![e] =
                 [kind    |-> kind,
                  pid     |-> pid,
                  sampled |-> parse_headers(kind, rate_headers(to[e]))]]
  /\ UNCHANGED <<to, client, last_host, sockets, overtaken, shared>>

\* post_sample, in a task of its own: delivered or not, it is over.
Posted(e) ==
  /\ at[e] = "posting"
  /\ at' = [at EXCEPT ![e] = "done"]
  /\ UNCHANGED <<to, client, last_host, sockets, report, overtaken, shared>>

ProxyNext ==
  \E e \in Exchanges :
    \/ \E c \in Clients : Connect(e, c) \/ SharePort(e, c)
    \/ CloseClient(e)
    \/ \E h \in Hosts : HandleRequest(e, h)
    \/ HandleResponse(e)
    \/ Posted(e)

ProxySpec == ProxyInit /\ [][ProxyNext]_proxyVars

------------------------------------------------------------------------------
(* Properties *)

Handled(e) == at[e] \in {"posting", "done"}

ProxyTypeOK ==
  /\ at \in [Exchanges -> Stages]
  /\ to \in [Exchanges -> Hosts \cup {NoHost}]
  /\ client \in [Exchanges -> Clients \cup {NoClient}]
  /\ last_host \in Hosts \cup {NoHost}
  /\ sockets \subseteq [owner  : Clients \cup {ProxyPid},
                        local  : Exchanges \cup {ProxyPort},
                        remote : Exchanges \cup {ProxyPort, "elsewhere"}]
  /\ \A e \in Exchanges :
       /\ report[e].pid \in Clients \cup {NoClient, ProxyPid}
       /\ at[e] = "new" <=> client[e] = NoClient
       /\ at[e] \in {"asked", "posting", "done"} => to[e] \in Hosts
  /\ overtaken \in [Exchanges -> BOOLEAN]
  /\ shared \in [Exchanges -> BOOLEAN]

\* A response is reported under the kind of its own host, or passed by when
\* no adapter claims that host, unless another request was handled between it
\* and its request: requests to other hosts before that do not matter.  Even
\* then numbers are filed under a wrong kind only if the two providers name their
\* headers alike (last_host, handle_request, handle_response, parse_headers).
KindOfItsHost ==
  \A e \in Exchanges :
    /\ Handled(e) /\ ~overtaken[e] => report[e].kind = classify_host(to[e])
    /\ report[e].sampled /\ report[e].kind # classify_host(to[e]) =>
         \E h \in Hosts :
           classify_host(h) = report[e].kind /\ rate_headers(h) = rate_headers(to[e])

\* A response is charged to the program that has asked for it or to none,
\* never to the proxy, which has the other end of the connection: unless
\* another connection has the same port (lookup_pid).
ChargedToTheClient ==
  \A e \in Exchanges :
    Handled(e) /\ ~shared[e] => report[e].pid \in {client[e], NoClient}

\* The module comment's "classify each response by `Host:`": a reported kind
\* is that of the host that has answered.
ClassifiedByItsHost ==
  \A e \in Exchanges :
    report[e].kind # NoKind => report[e].kind = classify_host(to[e])
=============================================================================
