------------------------------ MODULE Connect -------------------------------
(***************************************************************************)
(* Opening a connection: TCP, TLS, WebSocket upgrade with the password in  *)
(* its Authorization header, and the Connect request through a fresh       *)
(* dispatcher; and fetch_certificate, which stops after an unverified TLS  *)
(* handshake.  Attempts follow each other, with one DaemonServer; a future *)
(* may be dropped at any await; what listens at an address may change from *)
(* one attempt to the next, and either side may close the connection.      *)
(* Attempts share only the settings, which are read-only by then, and the  *)
(* Once behind the warning: a second place for them adds no interaction.   *)
(*                                                                         *)
(* What certificates say and who holds their keys is external: a record    *)
(* with the identity of the leaf, its issuer (itself, if it is             *)
(* self-signed), its alternative names, its common name, and its holder.   *)
(***************************************************************************)
EXTENDS Config, FiniteSets

CONSTANTS
  Attempts,       \* places for calls of Job::connect and of fetch_certificate
  Backends,       \* builds: "rustls", "native"
  Values,         \* field of the builder -> the values its setter is given
  Certs,          \* certificates that are presented somewhere
  PublicRoots,    \* issuers among webpki_roots and the system's
  InvalidNames,   \* hosts that are no server names
  NotDer,         \* bytes that are no certificate
  Addresses,      \* where fetch_certificate_from is told to connect to
  MaxMoves        \* bound: times that another peer takes over the address

ASSUME ConnectAssumption ==
  /\ Backends \subseteq {"rustls", "native"}
  /\ MaxMoves \in Nat
  /\ \A c \in Certs : c.holder \in {"daemon", "other"}
  /\ \A tls \in Values["tls"] : tls \in {Verified, Insecure} \/ tls = Ca(tls.der)

(* Whom certificates are issued to is for the issuers to see to: a public  *)
(* root, or an authority the caller pins that is nobody else's, issues     *)
(* certificates with the daemon's names to the daemon only.                *)
Pins == {tls.der : tls \in Values["tls"]} \cup {c.id : c \in Certs}

ASSUME IssuersAssumption ==
  \A c \in Certs :
    /\ \E name \in Values["host"] : name \in c.san \/ (c.san = {} /\ name = c.cn)
    /\ \/ c.issuer \in PublicRoots
       \/ c.issuer \in Pins /\ ~\E d \in Certs : d.id = c.issuer /\ d.holder = "other"
    => c.holder = "daemon"

VARIABLES
  backend,    \* chosen when the crate was built
  draft,      \* the DaemonServerBuilder
  server,     \* the DaemonServer, or None
  fetched,    \* what fetch_certificate returned
  warned,     \* the Once of tracing_warn_insecure_once
  at,         \* where each attempt is
  cfg,        \* name, TCP target and TLS mode the attempt works with
  peer,       \* the certificate its TLS peer presented
  authorized, \* history: attempts whose password was written to the peer
  outcome,    \* Ok, the error, or how the attempt was given up
  answer,     \* external: what the daemon answered to the Connect request
  task,       \* the dispatcher task of each attempt
  in_flight,  \* its counter
  session,    \* external: the daemon's job for the connection
  listener,   \* external: the certificate presented where TCP connects to
  moves

client == <<backend, draft, server, fetched, warned>>
attempt == <<at, cfg, peer, authorized, outcome, answer>>
vars == <<client, attempt, task, in_flight, session, listener, moves>>

Stages == {"idle", "dialing", "tcp", "tls", "upgrading", "queued", "sent", "uncounted", "answered",
           "ended"}
Answers == {"none", "connected", "error", "other"}
Outcomes == {"none", "Ok", "Transport", "Auth", "Protocol", "Internal", "cancelled", "closed"}

Tls == {Verified, Insecure} \cup Values["tls"] \cup {Ca(c.id) : c \in Certs}
Settings ==
  [op : {"connect", "fetch"}, name : Values["host"], tls : Tls,
   address : Values["host"] \cup Values["connect_address"] \cup Addresses]

TypeOK ==
  /\ backend \in Backends
  /\ draft = [field \in DOMAIN builder |-> draft[field]]
  /\ \A field \in DOMAIN builder :
       draft[field] \in Values[field] \cup {None} \cup IF field = "tls" THEN Tls ELSE {}
  /\ server # None => /\ server.host \in Values["host"] /\ server.tls \in Tls
                      /\ server.connect_address \in Values["connect_address"] \cup {None}
  /\ fetched \in {c.id : c \in Certs} \cup {None}
  /\ warned \in BOOLEAN
  /\ at \in [Attempts -> Stages]
  /\ cfg \in [Attempts -> Settings \cup {None}]
  /\ peer \in [Attempts -> Certs \cup {None}]
  /\ authorized \subseteq Attempts
  /\ answer \in [Attempts -> Answers]
  /\ outcome \in [Attempts -> Outcomes]
  /\ task \in [Attempts -> {"none", "running", "aborted", "gone"}]
  /\ in_flight \in [Attempts -> {0, 1}]
  /\ session \in [Attempts -> {"none", "tcp", "open", "closed"}]
  /\ listener \in Certs
  /\ moves \in 0..MaxMoves

Init ==
  /\ backend \in Backends
  /\ draft = builder
  /\ server = None /\ fetched = None
  /\ warned = FALSE
  /\ at = [a \in Attempts |-> "idle"]
  /\ cfg = [a \in Attempts |-> None]
  /\ peer = [a \in Attempts |-> None]
  /\ authorized = {}
  /\ answer = [a \in Attempts |-> "none"]
  /\ outcome = [a \in Attempts |-> "none"]
  /\ task = [a \in Attempts |-> "none"]
  /\ in_flight = [a \in Attempts |-> 0]
  /\ session = [a \in Attempts |-> "none"]
  /\ listener \in {c \in Certs : c.holder = "daemon"}
  /\ moves = 0
-----------------------------------------------------------------------------
(* Settings.  The caller makes them between its calls; build and           *)
(* try_into_server consume what they are made from.                        *)
Settling == server = None /\ \A a \in Attempts : at[a] = "idle"

Set(field, value) ==
  /\ Settling /\ draft[field] = None
  /\ draft' = set(draft, field, value)
  /\ UNCHANGED <<backend, server, fetched, warned, attempt, task, in_flight, session, listener, moves>>

(* .tls(TlsConfig::Ca(der)) with what fetch_certificate returned.          *)
Pin ==
  /\ fetched # None
  /\ Set("tls", Ca(fetched))

(* DaemonServerBuilder::build.                                             *)
Build ==
  /\ Settling /\ draft # builder
  /\ server' = IF MissingField(draft) = None THEN build(draft) ELSE None
  /\ draft' = builder
  /\ UNCHANGED <<backend, fetched, warned, attempt, task, in_flight, session, listener, moves>>

(* DaemonServerSpec::try_into_server of a file with the same settings; the *)
(* certificate in it may have been garbled.                                *)
Load ==
  /\ Settling /\ MissingField(draft) = None
  /\ \E s \in {spec_of(draft), [spec_of(draft) EXCEPT !.tls = Ca(NotBase64)]} :
       server' = IF InvalidCaBase64(s) THEN None ELSE try_into_server(s)
  /\ draft' = builder
  /\ UNCHANGED <<backend, fetched, warned, attempt, task, in_flight, session, listener, moves>>
-----------------------------------------------------------------------------
(* The pieces of an attempt.                                               *)

Goes(a, stage) == at' = [at EXCEPT ![a] = stage]

(* The future is over; what it owns is dropped: the socket, before the     *)
(* dispatcher exists, or the Dispatcher, whose destructor aborts the task. *)
Drops(a) ==
  /\ task' = [task EXCEPT ![a] = IF @ = "running" THEN "aborted" ELSE @]
  /\ session' = [session EXCEPT ![a] = IF @ = "tcp" /\ task[a] = "none" THEN "closed" ELSE @]

Ends(a, result) ==
  /\ Goes(a, "ended")
  /\ outcome' = [outcome EXCEPT ![a] = result]
  /\ Drops(a)

(* Job::connect reads the DaemonServer; connections of a pool share it.    *)
StartConnect(a) ==
  /\ at[a] = "idle" /\ server # None
  /\ Goes(a, "dialing")
  /\ cfg' = [cfg EXCEPT ![a] = [op |-> "connect", name |-> server.host,
                                address |-> tcp_target(server)[1], tls |-> server.tls]]
  /\ UNCHANGED <<client, peer, authorized, outcome, answer, task, in_flight, session, listener, moves>>

(* fetch_certificate_from; fetch_certificate has address = name.           *)
StartFetch(a, name, address) ==
  /\ at[a] = "idle" /\ server = None
  /\ Goes(a, "dialing")
  /\ cfg' = [cfg EXCEPT ![a] = [op |-> "fetch", name |-> name, address |-> address,
                                tls |-> Insecure]]
  /\ UNCHANGED <<client, peer, authorized, outcome, answer, task, in_flight, session, listener, moves>>

TcpConnect(a) ==
  /\ at[a] = "dialing"
  /\ Goes(a, "tcp")
  /\ session' = [session EXCEPT ![a] = "tcp"]
  /\ peer' = [peer EXCEPT ![a] = listener]
  /\ UNCHANGED <<client, cfg, authorized, outcome, answer, task, in_flight, listener, moves>>

TcpFails(a) ==
  /\ at[a] = "dialing"
  /\ Ends(a, "Transport")
  /\ UNCHANGED <<client, cfg, peer, authorized, answer, in_flight, listener, moves>>

(* External: a chain to one of the roots, and the name.  Only OpenSSL      *)
(* falls back to the common name.                                          *)
verify(c, roots, name) ==
  /\ c.issuer \in roots
  /\ name \in c.san \cup (IF backend = "native" /\ c.san = {} THEN {c.cn} ELSE {})

(* PinOrWebpki::verify_server_cert: the pinned leaf itself needs no name.  *)
PinOrWebpki(c, pin, name) == c.id = pin \/ verify(c, PublicRoots \cup {pin}, name)

(* Mutants of verify_server_cert: the TCP hop is the name that counts; the *)
(* pin is a root and nothing more.                                         *)
verify_server_cert_Address(a, c) ==
  LET tls == cfg[a].tls
  IN  \/ tls.mode = "Verified" /\ verify(c, PublicRoots, cfg[a].address)
      \/ tls.mode = "Ca" /\ IF backend = "rustls" THEN PinOrWebpki(c, tls.der, cfg[a].address)
                           ELSE verify(c, PublicRoots \cup {tls.der}, cfg[a].address)
      \/ tls.mode = "Insecure"
verify_server_cert_RootOnly(a, c) ==
  LET tls == cfg[a].tls
  IN  \/ tls.mode = "Verified" /\ verify(c, PublicRoots, cfg[a].name)
      \/ tls.mode = "Ca" /\ verify(c, PublicRoots \cup {tls.der}, cfg[a].name)
      \/ tls.mode = "Insecure"

(* What the verifier that tls_handshake sets up makes of a certificate.    *)
verify_server_cert(a, c) ==
  LET tls == cfg[a].tls
  IN  \/ tls.mode = "Verified" /\ verify(c, PublicRoots, cfg[a].name)
      \/ tls.mode = "Ca" /\ IF backend = "rustls" THEN PinOrWebpki(c, tls.der, cfg[a].name)
                           ELSE verify(c, PublicRoots \cup {tls.der}, cfg[a].name)
      \/ tls.mode = "Insecure"

(* tls_handshake gives up before it starts: the pin does not parse, or     *)
(* rustls does not take the host for a server name.                        *)
Misconfigured(a) ==
  \/ cfg[a].tls.mode = "Ca" /\ cfg[a].tls.der = NotDer
  \/ backend = "rustls" /\ cfg[a].name \in InvalidNames

TlsMisconfigured(a) ==
  /\ at[a] = "tcp" /\ Misconfigured(a)
  /\ Ends(a, "Internal")
  /\ warned' = (warned \/ cfg[a].tls.mode = "Insecure")
  /\ UNCHANGED <<backend, draft, server, fetched, cfg, peer, authorized, answer, in_flight, listener, moves>>

TlsHandshake(a) ==
  /\ at[a] = "tcp" /\ session[a] = "tcp" /\ ~Misconfigured(a) /\ verify_server_cert(a, peer[a])
  /\ Goes(a, "tls")
  /\ warned' = (warned \/ cfg[a].tls.mode = "Insecure")
  /\ UNCHANGED <<backend, draft, server, fetched, cfg, peer, authorized, outcome, answer, task,
                 in_flight, session, listener, moves>>

(* rustls reports an io::Error; the native backend's is made Internal.     *)
TlsFails(a) ==
  /\ at[a] = "tcp" /\ ~Misconfigured(a)
  /\ ~verify_server_cert(a, peer[a]) \/ session[a] = "closed"
  /\ Ends(a, IF backend = "rustls" THEN "Transport" ELSE "Internal")
  /\ warned' = (warned \/ cfg[a].tls.mode = "Insecure")
  /\ UNCHANGED <<backend, draft, server, fetched, cfg, peer, authorized, answer, in_flight, listener, moves>>

(* fetch_certificate_from returns the leaf and closes the connection.      *)
Fetched(a) ==
  /\ at[a] = "tls" /\ cfg[a].op = "fetch"
  /\ fetched' = peer[a].id
  /\ Ends(a, "Ok")
  /\ UNCHANGED <<backend, draft, server, warned, cfg, peer, authorized, answer, in_flight, listener, moves>>

(* It got no certificate out of the session: the errors the native backend *)
(* gives for one that is not to be had are io::Errors.                     *)
FetchFails(a) ==
  /\ at[a] = "tls" /\ cfg[a].op = "fetch"
  /\ \/ Ends(a, "Internal")
     \/ backend = "native" /\ Ends(a, "Transport")
  /\ UNCHANGED <<client, cfg, peer, authorized, answer, in_flight, listener, moves>>
-----------------------------------------------------------------------------
(* The WebSocket upgrade.  A host that makes no URI fails first.           *)
MalformedRequest(a) ==
  /\ at[a] = "tls" /\ cfg[a].op = "connect" /\ cfg[a].name \in InvalidNames
  /\ Ends(a, "Internal")
  /\ UNCHANGED <<client, cfg, peer, authorized, answer, in_flight, listener, moves>>

(* client_async writes the request, with basic_authorization in it.        *)
Upgrade(a) ==
  /\ at[a] = "tls" /\ cfg[a].op = "connect" /\ cfg[a].name \notin InvalidNames
  /\ Goes(a, "upgrading")
  /\ authorized' = authorized \cup {a}
  /\ UNCHANGED <<client, cfg, peer, outcome, answer, task, in_flight, session, listener, moves>>

(* Status 0: no answer, the connection was lost.                           *)
map_upgrade_error(status) == IF status \in {401, 403} THEN "Auth" ELSE "Internal"

(* Mutant of UpgradeFails: a connection that is lost goes unnoticed.       *)
UpgradeFailsHttpOnly(a, status) ==
  /\ at[a] = "upgrading" /\ status # 0 /\ session[a] = "tcp"
  /\ Ends(a, map_upgrade_error(status))
  /\ UNCHANGED <<client, cfg, peer, authorized, answer, in_flight, listener, moves>>

UpgradeFails(a, status) ==
  /\ at[a] = "upgrading"
  /\ (status = 0) = (session[a] = "closed")
  /\ Ends(a, map_upgrade_error(status))
  /\ UNCHANGED <<client, cfg, peer, authorized, answer, in_flight, listener, moves>>

(* 101: the dispatcher is spawned and the Connect request queued, with the *)
(* first id of a fresh allocator.                                          *)
Upgraded(a) ==
  /\ at[a] = "upgrading" /\ session[a] = "tcp"
  /\ Goes(a, "queued")
  /\ task' = [task EXCEPT ![a] = "running"]
  /\ UNCHANGED <<client, cfg, peer, authorized, outcome, answer, in_flight, session, listener, moves>>

(* The task writes it and counts it.                                       *)
Write(a) ==
  /\ at[a] = "queued" /\ task[a] = "running" /\ session[a] = "tcp"
  /\ Goes(a, "sent")
  /\ in_flight' = [in_flight EXCEPT ![a] = @ + 1]
  /\ UNCHANGED <<client, cfg, peer, authorized, outcome, answer, task, session, listener, moves>>
-----------------------------------------------------------------------------
(* External: what the daemon answers to Connect.  It opens its job for the *)
(* connection.                                                             *)
Answers_with(a, kind) == answer' = [answer EXCEPT ![a] = kind]

DaemonConnects(a) ==
  /\ at[a] = "sent" /\ session[a] = "tcp" /\ answer[a] = "none"
  /\ Answers_with(a, "connected")
  /\ session' = [session EXCEPT ![a] = "open"]
  /\ UNCHANGED <<client, at, cfg, peer, authorized, outcome, task, in_flight, listener, moves>>

(* An error: the user, jdbc_props, or whatever else it does not accept.    *)
DaemonRejects(a) ==
  /\ at[a] = "sent" /\ session[a] = "tcp" /\ answer[a] = "none"
  /\ Answers_with(a, "error")
  /\ UNCHANGED <<client, at, cfg, peer, authorized, outcome, task, in_flight, session, listener, moves>>

(* Any other answer, or one that does not decode; it may have opened its   *)
(* job.                                                                    *)
DaemonConfuses(a) ==
  /\ at[a] = "sent" /\ session[a] = "tcp" /\ answer[a] = "none"
  /\ Answers_with(a, "other")
  /\ session' \in {session, [session EXCEPT ![a] = "open"]}
  /\ UNCHANGED <<client, at, cfg, peer, authorized, outcome, task, in_flight, listener, moves>>

(* External: the connection is lost, and the daemon's job ends with it.    *)
ConnLost(a) ==
  /\ session[a] \in {"tcp", "open"}
  /\ session' = [session EXCEPT ![a] = "closed"]
  /\ UNCHANGED <<client, attempt, task, in_flight, listener, moves>>

(* External: somebody else answers from now on.                            *)
Move(c) ==
  /\ moves < MaxMoves /\ listener # c
  /\ moves' = moves + 1
  /\ listener' = c
  /\ UNCHANGED <<client, attempt, task, in_flight, session>>
-----------------------------------------------------------------------------
(* Mutant of Answered: the request is answered and stays counted.          *)
AnsweredCounted(a) ==
  /\ at[a] = "sent" /\ task[a] = "running" /\ answer[a] # "none"
  /\ Goes(a, "uncounted")
  /\ UNCHANGED <<client, cfg, peer, authorized, outcome, answer, task, in_flight, session, listener, moves>>

(* The task reads the answer, which may have come before the connection    *)
(* was lost, and un-counts the request; there is no await until it has     *)
(* handed the answer over, but connect may be polled by another thread.    *)
Answered(a) ==
  /\ at[a] = "sent" /\ task[a] = "running" /\ answer[a] # "none"
  /\ Goes(a, "uncounted")
  /\ in_flight' = [in_flight EXCEPT ![a] = @ - 1]
  /\ UNCHANGED <<client, cfg, peer, authorized, outcome, answer, task, session, listener, moves>>

HandOver(a) ==
  /\ at[a] = "uncounted"
  /\ Goes(a, "answered")
  /\ UNCHANGED <<client, cfg, peer, authorized, outcome, answer, task, in_flight, session, listener, moves>>

(* Response::Connected: Job::connect makes the Job.                        *)
Connected(a) ==
  /\ at[a] = "answered" /\ answer[a] = "connected"
  /\ Goes(a, "ended")
  /\ outcome' = [outcome EXCEPT ![a] = "Ok"]
  /\ UNCHANGED <<client, cfg, peer, authorized, answer, task, in_flight, session, listener, moves>>

(* Response::Error, for whatever reason, is Error::Auth, and the           *)
(* Dispatcher is dropped on the way out.                                   *)
ConnectRejected(a) ==
  /\ at[a] = "answered" /\ answer[a] = "error"
  /\ Ends(a, "Auth")
  /\ UNCHANGED <<client, cfg, peer, authorized, answer, in_flight, listener, moves>>

UnexpectedAnswer(a) ==
  /\ at[a] = "answered" /\ answer[a] = "other"
  /\ Ends(a, "Protocol")
  /\ UNCHANGED <<client, cfg, peer, authorized, answer, in_flight, listener, moves>>

(* Mutant of Drained: un-counts a request that was never counted.          *)
DrainedUncounts(a) ==
  /\ task[a] = "running" /\ session[a] = "closed" /\ at[a] # "uncounted"
  /\ task' = [task EXCEPT ![a] = "gone"]
  /\ in_flight' = [in_flight EXCEPT ![a] = @ - 1]
  /\ UNCHANGED <<client, attempt, session, listener, moves>>

(* The task finds the connection gone: it fails the request, if it still   *)
(* holds it, and returns.                                                  *)
Drained(a) ==
  /\ task[a] = "running" /\ session[a] = "closed" /\ at[a] # "uncounted"
  /\ task' = [task EXCEPT ![a] = "gone"]
  /\ in_flight' = [in_flight EXCEPT ![a] = 0]
  /\ UNCHANGED <<client, attempt, session, listener, moves>>

(* handle.send then gives Transport.                                       *)
SendFails(a) ==
  /\ at[a] \in {"queued", "sent"} /\ task[a] = "gone"
  /\ Ends(a, "Transport")
  /\ UNCHANGED <<client, cfg, peer, authorized, answer, in_flight, listener, moves>>

(* The future of connect or fetch_certificate is dropped.                  *)
Cancel(a) ==
  /\ at[a] \notin {"idle", "ended"}
  /\ Ends(a, "cancelled")
  /\ UNCHANGED <<client, cfg, peer, authorized, answer, in_flight, listener, moves>>

(* Mutant of DropJob: the Dispatcher is leaked.                            *)
DropJobLeaks(a) ==
  /\ outcome[a] = "Ok" /\ cfg[a].op = "connect"
  /\ outcome' = [outcome EXCEPT ![a] = "closed"]
  /\ UNCHANGED <<client, at, cfg, peer, authorized, answer, task, session, in_flight, listener, moves>>

(* Drop for Job; the Exit it tries to send first is in Dispatcher.         *)
DropJob(a) ==
  /\ outcome[a] = "Ok" /\ cfg[a].op = "connect"
  /\ outcome' = [outcome EXCEPT ![a] = "closed"]
  /\ Drops(a)
  /\ UNCHANGED <<client, at, cfg, peer, authorized, answer, in_flight, listener, moves>>

(* An aborted task is dropped at its next await, and the socket with it.   *)
Aborted(a) ==
  /\ task[a] = "aborted"
  /\ task' = [task EXCEPT ![a] = "gone"]
  /\ session' = [session EXCEPT ![a] = "closed"]
  /\ UNCHANGED <<client, attempt, in_flight, listener, moves>>

(* It is all over, and the caller may try again.                           *)
Forget(a) ==
  /\ at[a] = "ended" /\ (outcome[a] # "Ok" \/ cfg[a].op = "fetch")
  /\ task[a] \in {"none", "gone"} /\ session[a] \in {"none", "closed"}
  /\ at' = [at EXCEPT ![a] = "idle"]
  /\ cfg' = [cfg EXCEPT ![a] = None]
  /\ peer' = [peer EXCEPT ![a] = None]
  /\ authorized' = authorized \ {a}
  /\ answer' = [answer EXCEPT ![a] = "none"]
  /\ outcome' = [outcome EXCEPT ![a] = "none"]
  /\ task' = [task EXCEPT ![a] = "none"]
  /\ in_flight' = [in_flight EXCEPT ![a] = 0]
  /\ session' = [session EXCEPT ![a] = "none"]
  /\ UNCHANGED <<client, listener, moves>>
-----------------------------------------------------------------------------
Proceed(a) ==
  \/ TcpConnect(a) \/ TcpFails(a) \/ TlsMisconfigured(a) \/ TlsHandshake(a) \/ TlsFails(a)
  \/ Fetched(a) \/ FetchFails(a) \/ MalformedRequest(a) \/ Upgrade(a) \/ Upgraded(a)
  \/ \E status \in {0, 401, 403, 404} : UpgradeFails(a, status)
  \/ Write(a) \/ Answered(a) \/ HandOver(a) \/ Connected(a) \/ ConnectRejected(a) \/ UnexpectedAnswer(a)
  \/ Drained(a) \/ SendFails(a) \/ Aborted(a)

Daemon(a) == DaemonConnects(a) \/ DaemonRejects(a) \/ DaemonConfuses(a)

Next ==
  \/ \E field \in DOMAIN builder : \E value \in Values[field] : Set(field, value)
  \/ Pin \/ Build \/ Load
  \/ \E a \in Attempts :
       \/ StartConnect(a) \/ Proceed(a) \/ Daemon(a) \/ ConnLost(a) \/ Cancel(a) \/ DropJob(a)
       \/ Forget(a)
       \/ \E name \in Values["host"], address \in Addresses : StartFetch(a, name, address)
  \/ \E c \in Certs : Move(c)

Spec == Init /\ [][Next]_vars

(* Tasks and futures are polled, and a peer answers or is seen to be gone: *)
(* connect has no timeout of its own.                                      *)
FairSpec == Spec /\ \A a \in Attempts : WF_vars(Proceed(a)) /\ WF_vars(Daemon(a))
-----------------------------------------------------------------------------
(* Properties.                                                             *)

(* The password only ever goes to the daemon, whoever else answers at the  *)
(* address and however often that changes, if public roots issue only to   *)
(* the holder of a name, the caller has not asked for Insecure and has not *)
(* pinned somebody else's certificate.                                     *)
PasswordOnlyToDaemon ==
  \A a \in authorized :
    \/ cfg[a].tls.mode = "Insecure"
    \/ \E c \in Certs : c.id = cfg[a].tls.der /\ c.holder = "other"
    \/ peer[a].holder = "daemon"

(* With rustls a certificate that fetch_certificate returned and the       *)
(* caller pinned lets connect through to that peer as long as it presents  *)
(* it, whatever names it has: only a lost connection fails the handshake.  *)
PinnedPeerAccepted ==
  [][\A a \in Attempts :
       /\ backend = "rustls" /\ at[a] = "tcp" /\ outcome'[a] = "Transport"
       /\ cfg[a].tls = Ca(fetched) /\ peer[a].id = fetched
       => session[a] = "closed"]_vars

(* The Job that connect returns starts with nothing in flight: the request *)
(* of the handshake is counted, un-counted before its answer is handed     *)
(* over, and a connection lost or an answer in between changes neither.    *)
FreshCounterZero == \A a \in Attempts : outcome[a] = "Ok" => in_flight[a] = 0

(* Every attempt that was given up, or failed, or whose Job was dropped,   *)
(* at whichever step, is closed towards the daemon: no session stays       *)
(* behind that no Job owns.                                                *)
NoSessionLeft ==
  \A a \in Attempts :
    outcome[a] \in Outcomes \ {"none", "Ok"} ~> session[a] \in {"none", "closed"}

(* connect and fetch_certificate come to an end.                           *)
ConnectReturns == \A a \in Attempts : at[a] = "dialing" ~> at[a] = "ended"

=============================================================================
