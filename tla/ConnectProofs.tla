--------------------------- MODULE ConnectProofs ----------------------------
(***************************************************************************)
(* Theorems about Connect: its type invariant, that the password only goes *)
(* to the daemon, that a fresh Job has nothing in flight, that a pinned    *)
(* peer is let through, and that every socket has an owner.  They rest on  *)
(* what is known of an attempt at each of its stages, AttemptInv, which an *)
(* action on another attempt, on the settings or on the listener leaves    *)
(* alone.                                                                  *)
(***************************************************************************)
EXTENDS Connect, TLAPS

(* Stages behind the write of the password.                                *)
Behind == {"upgrading", "queued", "sent", "uncounted", "answered"}

(* The verifier was asked about the certificate the attempt got.           *)
Checked(a) ==
  cfg[a] \in Settings /\ peer[a] \in Certs /\ verify_server_cert(a, peer[a])

(* Settings before TCP, a peer before TLS, a verified peer before anything *)
(* is written to it; the password went out once the upgrade has begun; an  *)
(* attempt has an outcome only once it has ended; and a request is counted *)
(* from its write to its answer, unless the task has given it up.  Nothing *)
(* is said of a counter behind a failed or cancelled attempt, which may    *)
(* have left it at one; behind Ok it is at zero.                           *)
AttemptInv(a) ==
  /\ at[a] # "idle" => cfg[a] \in Settings
  /\ at[a] \in {"tcp", "tls"} => peer[a] \in Certs
  /\ at[a] = "tls" => Checked(a)
  /\ at[a] \in Behind => a \in authorized
  /\ a \in authorized => at[a] \in Behind \cup {"ended"} /\ Checked(a)
  /\ at[a] # "ended" => outcome[a] = "none"
  /\ at[a] \notin {"sent", "ended"} => in_flight[a] = 0
  /\ at[a] = "sent" /\ task[a] = "running" => in_flight[a] = 1
  /\ outcome[a] = "Ok" => in_flight[a] = 0

ConnectInv == TypeOK /\ \A a \in Attempts : AttemptInv(a)

(* What an action on another attempt leaves as it is.                      *)
SameAttempt(a) ==
  /\ at'[a] = at[a] /\ cfg'[a] = cfg[a] /\ peer'[a] = peer[a]
  /\ outcome'[a] = outcome[a] /\ task'[a] = task[a] /\ in_flight'[a] = in_flight[a]
  /\ a \in authorized' <=> a \in authorized
  /\ backend' = backend

(* The actions of one attempt.                                             *)
Own(a) ==
  \/ StartConnect(a) \/ Proceed(a) \/ Daemon(a) \/ ConnLost(a) \/ Cancel(a) \/ DropJob(a)
  \/ Forget(a)
  \/ \E name \in Values["host"], address \in Addresses : StartFetch(a, name, address)

(* The actions of the caller between its attempts, and of the network.     *)
Around ==
  \/ \E field \in DOMAIN builder : \E value \in Values[field] : Set(field, value)
  \/ Pin \/ Build \/ Load
  \/ \E c \in Certs : Move(c)
-----------------------------------------------------------------------------
(* The verdict of the verifier depends on the attempt and the build only.  *)
LEMMA SameVerdict ==
  ASSUME NEW a, cfg'[a] = cfg[a], peer'[a] = peer[a], backend' = backend
  PROVE  Checked(a)' <=> Checked(a)
BY DEF Checked, verify_server_cert, verify, PinOrWebpki

(* An attempt that does not move keeps its part of the invariant.          *)
LEMMA SameAttemptKeeps ==
  ASSUME NEW a, SameAttempt(a), AttemptInv(a)
  PROVE  AttemptInv(a)'
BY SameVerdict DEF SameAttempt, AttemptInv

(* The settings a builder or a file makes are those of its values.         *)
LEMMA SettingsMade ==
  ASSUME TypeOK, MissingField(draft) = None,
         NEW s \in {build(draft), try_into_server(spec_of(draft))}
  PROVE  /\ s.host \in Values["host"] /\ s.tls \in Tls
         /\ s.connect_address \in Values["connect_address"] \cup {None}
<1>1. DOMAIN builder = {"host", "connect_address", "port", "user", "password", "tls",
                        "jdbc_props", "application"}
  BY DEF builder
<1>2. draft.host \in Values["host"]
  <2>1. draft["host"] \in Values["host"] \cup {None}
    BY <1>1 DEF TypeOK
  <2>2. draft.host # None
    BY NoneAssumption DEF MissingField
  <2> QED BY <2>1, <2>2
<1>3. draft.connect_address \in Values["connect_address"] \cup {None}
  BY <1>1 DEF TypeOK
<1>4. unwrap_or(draft.tls, Verified) \in Tls
  <2>1. draft["tls"] \in Values["tls"] \cup {None} \cup Tls
    BY <1>1 DEF TypeOK
  <2> QED BY <2>1 DEF Tls, unwrap_or
<1>5. CASE s = build(draft)
  BY <1>2, <1>3, <1>4, <1>5 DEF build
<1>6. CASE s = try_into_server(spec_of(draft))
  <2>1. "tls" \in DOMAIN draft /\ "host" \in DOMAIN draft /\ "connect_address" \in DOMAIN draft
    BY <1>1 DEF TypeOK
  <2>2. /\ spec_of(draft).host = draft.host
        /\ spec_of(draft).connect_address = draft.connect_address
        /\ spec_of(draft).tls = unwrap_or(draft.tls, Verified)
    BY <2>1 DEF spec_of
  <2> QED BY <1>2, <1>3, <1>4, <1>6, <2>2 DEF try_into_server
<1> QED BY <1>5, <1>6
-----------------------------------------------------------------------------
(* Before any settings are made there is nothing to relate.                *)
LEMMA InitConnect == Init => ConnectInv
<1> SUFFICES ASSUME Init PROVE ConnectInv
  OBVIOUS
<1>1. TypeOK
  <2>1. /\ draft = [field \in DOMAIN builder |-> draft[field]]
        /\ \A field \in DOMAIN builder : draft[field] = None
    BY DEF Init, builder
  <2>2. listener \in Certs /\ moves \in 0..MaxMoves
    BY ConnectAssumption DEF Init
  <2> QED BY <2>1, <2>2 DEF Init, TypeOK, Stages, Outcomes, Answers
<1>2. \A a \in Attempts : AttemptInv(a)
  BY DEF Init, AttemptInv, Behind
<1> QED BY <1>1, <1>2 DEF ConnectInv

(* What happens around the attempts keeps the invariant.                   *)
LEMMA AroundConnect == ConnectInv /\ Around => ConnectInv'
<1> SUFFICES ASSUME ConnectInv, Around PROVE ConnectInv'
  OBVIOUS
<1>0. TypeOK /\ \A a \in Attempts : AttemptInv(a)
  BY DEF ConnectInv
<1>1. \A a \in Attempts : SameAttempt(a)
  BY DEF Around, Set, Pin, Build, Load, Move, SameAttempt, client, attempt
<1>2. \A a \in Attempts : AttemptInv(a)'
  BY <1>0, <1>1, SameAttemptKeeps
<1>3. TypeOK'
  <2> USE <1>0
  <2>1. ASSUME NEW field \in DOMAIN builder, NEW value, Set(field, value),
               value \in Values[field] \cup IF field = "tls" THEN Tls ELSE {}
        PROVE  TypeOK'
    <3>1. draft' = [draft EXCEPT ![field] = value]
      BY <2>1 DEF Set, set
    <3>2. /\ draft' = [f \in DOMAIN builder |-> draft'[f]]
          /\ \A f \in DOMAIN builder :
               draft'[f] \in Values[f] \cup {None} \cup IF f = "tls" THEN Tls ELSE {}
      BY <2>1, <3>1 DEF TypeOK
    <3> QED BY <2>1, <3>2 DEF Set, TypeOK, attempt
  <2>2. CASE Pin
    <3>1. Ca(fetched) \in Tls
      BY <2>2 DEF Pin, TypeOK, Tls
    <3>2. "tls" \in DOMAIN builder
      BY DEF builder
    <3> QED BY <2>1, <2>2, <3>1, <3>2 DEF Pin
  <2>3. /\ builder = [f \in DOMAIN builder |-> builder[f]]
        /\ \A f \in DOMAIN builder : builder[f] = None
    BY DEF builder
  <2>4. ASSUME NEW s, server' = s, draft' = builder,
               UNCHANGED <<backend, fetched, warned, attempt, task, in_flight, session, listener, moves>>,
               s # None => /\ s.host \in Values["host"] /\ s.tls \in Tls
                           /\ s.connect_address \in Values["connect_address"] \cup {None}
        PROVE  TypeOK'
    BY <2>3, <2>4 DEF TypeOK, attempt
  <2>5. CASE Build
    <3> DEFINE s == IF MissingField(draft) = None THEN build(draft) ELSE None
    <3>1. s # None => /\ s.host \in Values["host"] /\ s.tls \in Tls
                      /\ s.connect_address \in Values["connect_address"] \cup {None}
      BY SettingsMade
    <3>2. server' = s /\ draft' = builder
      BY <2>5 DEF Build
    <3> HIDE DEF s
    <3> QED BY <2>4, <2>5, <3>1, <3>2 DEF Build
  <2>6. CASE Load
    <3>1. server' = None \/ server' = try_into_server(spec_of(draft))
      <4>1. InvalidCaBase64([spec_of(draft) EXCEPT !.tls = Ca(NotBase64)])
        <5>1. "tls" \in DOMAIN spec_of(draft)
          BY DEF spec_of, TypeOK, builder
        <5> QED BY <5>1 DEF InvalidCaBase64, Ca
      <4> QED BY <2>6, <4>1 DEF Load
    <3>2. server' # None => /\ server'.host \in Values["host"] /\ server'.tls \in Tls
                            /\ server'.connect_address \in Values["connect_address"] \cup {None}
      BY <2>6, <3>1, SettingsMade DEF Load
    <3> QED BY <2>4, <2>6, <3>2 DEF Load
  <2>7. CASE \E c \in Certs : Move(c)
    BY <2>7, ConnectAssumption DEF Move, TypeOK, client, attempt
  <2> QED BY <2>1, <2>2, <2>5, <2>6, <2>7 DEF Around
<1> QED BY <1>2, <1>3 DEF ConnectInv
-----------------------------------------------------------------------------
(* An action of one attempt leaves the others alone, and the settings.     *)
LEMMA OwnFrame ==
  ASSUME NEW a \in Attempts, Own(a), ConnectInv
  PROVE  /\ \A b \in Attempts \ {a} : SameAttempt(b)
         /\ UNCHANGED <<backend, draft, server, listener, moves>>
<1> USE DEF SameAttempt, client, attempt, Goes, Drops, Ends, ConnectInv, TypeOK
<1>1. CASE StartConnect(a) \/ Cancel(a) \/ DropJob(a) \/ Forget(a) \/ ConnLost(a) \/ Daemon(a)
  BY <1>1 DEF StartConnect, Cancel, DropJob, Forget, ConnLost, Daemon, DaemonConnects, DaemonRejects,
             DaemonConfuses, Answers_with
<1>2. CASE \E name \in Values["host"], address \in Addresses : StartFetch(a, name, address)
  BY <1>2 DEF StartFetch
<1>3. CASE TcpConnect(a) \/ TcpFails(a) \/ TlsMisconfigured(a) \/ TlsHandshake(a) \/ TlsFails(a)
  BY <1>3 DEF TcpConnect, TcpFails, TlsMisconfigured, TlsHandshake, TlsFails
<1>4. CASE Fetched(a) \/ FetchFails(a) \/ MalformedRequest(a) \/ Upgrade(a) \/ Upgraded(a) \/ Write(a)
  BY <1>4 DEF Fetched, FetchFails, MalformedRequest, Upgrade, Upgraded, Write
<1>5. CASE \E status \in {0, 401, 403, 404} : UpgradeFails(a, status)
  BY <1>5 DEF UpgradeFails
<1>6. CASE Answered(a) \/ HandOver(a) \/ Connected(a) \/ ConnectRejected(a) \/ UnexpectedAnswer(a)
  BY <1>6 DEF Answered, HandOver, Connected, ConnectRejected, UnexpectedAnswer
<1>7. CASE Drained(a) \/ SendFails(a) \/ Aborted(a)
  BY <1>7 DEF Drained, SendFails, Aborted
<1> QED BY <1>1, <1>2, <1>3, <1>4, <1>5, <1>6, <1>7 DEF Own, Proceed

(* An attempt that ends keeps what is known of it; one that ends with Ok   *)
(* has nothing in flight.                                                  *)
LEMMA EndsKeeps ==
  ASSUME NEW a \in Attempts, ConnectInv, at[a] # "idle", backend' = backend,
         cfg' = cfg, peer' = peer, authorized' = authorized,
         NEW result \in Outcomes, Ends(a, result), in_flight'[a] \in {0, 1},
         result = "Ok" => in_flight'[a] = 0
  PROVE  AttemptInv(a)'
<1>1. at'[a] = "ended" /\ outcome'[a] = result
  BY DEF Ends, Goes, ConnectInv, TypeOK
<1>2. Checked(a)' <=> Checked(a)
  BY SameVerdict
<1> QED BY <1>1, <1>2 DEF AttemptInv, ConnectInv, Behind

(* A step of an attempt keeps that attempt's part of the invariant.        *)
LEMMA OwnAttempt ==
  ASSUME NEW a \in Attempts, Own(a), ConnectInv
  PROVE  AttemptInv(a)'
<1>0. /\ AttemptInv(a) /\ TypeOK /\ backend' = backend /\ at[a] \in Stages
      /\ in_flight[a] \in {0, 1} /\ task[a] \in {"none", "running", "aborted", "gone"}
  BY OwnFrame DEF ConnectInv, TypeOK
<1>s. cfg'[a] = cfg[a] /\ peer'[a] = peer[a] => (Checked(a)' <=> Checked(a))
  BY <1>0, SameVerdict
<1> USE DEF Stages, Behind
<1>1. CASE StartConnect(a)
  <2>1. cfg'[a] \in Settings
    <3>1. tcp_target(server)[1] \in Values["host"] \cup Values["connect_address"]
      BY <1>0, <1>1 DEF StartConnect, TypeOK, tcp_target, unwrap_or
    <3>2. cfg'[a] = [op |-> "connect", name |-> server.host,
                     address |-> tcp_target(server)[1], tls |-> server.tls]
      BY <1>0, <1>1 DEF StartConnect, TypeOK
    <3> QED BY <1>0, <1>1, <3>1, <3>2 DEF StartConnect, TypeOK, Settings
  <2> QED BY <1>0, <1>1, <2>1 DEF StartConnect, AttemptInv, TypeOK, Goes
<1>2. CASE \E name \in Values["host"], address \in Addresses : StartFetch(a, name, address)
  <2>1. cfg'[a] \in Settings
    <3>1. PICK name \in Values["host"], address \in Addresses : StartFetch(a, name, address)
      BY <1>2
    <3>2. cfg'[a] = [op |-> "fetch", name |-> name, address |-> address, tls |-> Insecure]
      BY <1>0, <3>1 DEF StartFetch, TypeOK
    <3> QED BY <3>2 DEF Settings, Tls
  <2> QED BY <1>0, <1>2, <2>1 DEF StartFetch, AttemptInv, TypeOK, Goes
<1>3. CASE TcpConnect(a)
  BY <1>0, <1>3 DEF TcpConnect, AttemptInv, TypeOK, Goes
<1>4. CASE TlsHandshake(a)
  BY <1>0, <1>4, <1>s DEF TlsHandshake, AttemptInv, TypeOK, Goes, Checked
<1>5. CASE Upgrade(a)
  BY <1>0, <1>5, <1>s DEF Upgrade, AttemptInv, TypeOK, Goes
<1>6. CASE Upgraded(a)
  BY <1>0, <1>6, <1>s DEF Upgraded, AttemptInv, TypeOK, Goes
<1>7. CASE Write(a)
  BY <1>0, <1>7, <1>s DEF Write, AttemptInv, TypeOK, Goes
<1>8. CASE Answered(a)
  BY <1>0, <1>8, <1>s DEF Answered, AttemptInv, TypeOK, Goes
<1>h. CASE HandOver(a)
  BY <1>0, <1>h, <1>s DEF HandOver, AttemptInv, TypeOK, Goes
<1>9. CASE Connected(a)
  BY <1>0, <1>9, <1>s DEF Connected, AttemptInv, TypeOK, Goes
<1>f. CASE Fetched(a)
  <2>1. in_flight'[a] = 0
    BY <1>0, <1>f DEF Fetched, AttemptInv
  <2> QED BY <1>0, <1>f, <2>1, EndsKeeps DEF Fetched, Outcomes
<1>10. CASE TcpFails(a) \/ TlsMisconfigured(a) \/ TlsFails(a) \/ FetchFails(a) \/ MalformedRequest(a)
  BY <1>0, <1>10, EndsKeeps
     DEF TcpFails, TlsMisconfigured, TlsFails, FetchFails, MalformedRequest, Outcomes
<1>11. CASE \E status \in {0, 401, 403, 404} : UpgradeFails(a, status)
  <2>1. PICK status \in {0, 401, 403, 404} : UpgradeFails(a, status)
    BY <1>11
  <2> QED BY <1>0, <2>1, EndsKeeps DEF UpgradeFails, Outcomes, map_upgrade_error
<1>12. CASE ConnectRejected(a) \/ UnexpectedAnswer(a)
  BY <1>0, <1>12, EndsKeeps DEF ConnectRejected, UnexpectedAnswer, Outcomes
<1>13. CASE SendFails(a) \/ Cancel(a)
  BY <1>0, <1>13, EndsKeeps DEF SendFails, Cancel, Outcomes
<1>14. CASE DropJob(a)
  BY <1>0, <1>14, <1>s DEF DropJob, Drops, AttemptInv, TypeOK
<1>15. CASE Drained(a) \/ Aborted(a)
  BY <1>0, <1>15, <1>s DEF Drained, Aborted, AttemptInv, TypeOK, client, attempt
<1>16. CASE Daemon(a) \/ ConnLost(a)
  BY <1>0, <1>16, <1>s
     DEF Daemon, DaemonConnects, DaemonRejects, DaemonConfuses, Answers_with, ConnLost, AttemptInv, TypeOK, client, attempt
<1>17. CASE Forget(a)
  BY <1>0, <1>17 DEF Forget, AttemptInv, TypeOK
<1> QED BY <1>1, <1>2, <1>3, <1>4, <1>5, <1>6, <1>7, <1>8, <1>h, <1>9, <1>f, <1>10, <1>11,
           <1>12, <1>13, <1>14, <1>15, <1>16, <1>17 DEF Own, Proceed

(* A step of an attempt keeps the types.                                   *)
LEMMA OwnTypes == \A a \in Attempts : Own(a) /\ ConnectInv => TypeOK'
<1> SUFFICES ASSUME NEW a \in Attempts, Own(a), ConnectInv PROVE TypeOK'
  OBVIOUS
<1>0. TypeOK /\ AttemptInv(a) /\ AttemptInv(a)'
  BY OwnAttempt DEF ConnectInv
<1>1. UNCHANGED <<backend, draft, server, listener, moves>>
  BY OwnFrame
<1> USE <1>0, <1>1 DEF TypeOK, client, attempt, Goes, Drops, Ends, Stages, Outcomes, Answers
<1>2. CASE StartConnect(a) \/ \E name \in Values["host"], address \in Addresses : StartFetch(a, name, address)
  <2>1. cfg'[a] \in Settings
    <3>1. at'[a] = "dialing"
      BY <1>2 DEF StartConnect, StartFetch
    <3> QED BY <3>1 DEF AttemptInv
  <2>2. cfg' \in [Attempts -> Settings \cup {None}]
    BY <1>2, <2>1 DEF StartConnect, StartFetch
  <2> HIDE DEF Settings
  <2> QED BY <1>2, <2>2 DEF StartConnect, StartFetch
<1>3. CASE Cancel(a) \/ DropJob(a) \/ Forget(a) \/ ConnLost(a) \/ Daemon(a)
  <2>1. CASE Cancel(a) \/ DropJob(a) BY <2>1 DEF Cancel, DropJob
  <2>2. CASE Forget(a) \/ ConnLost(a) BY <2>2 DEF Forget, ConnLost
  <2>3. CASE Daemon(a)
    BY <2>3 DEF Daemon, DaemonConnects, DaemonRejects, DaemonConfuses, Answers_with
  <2> QED BY <1>3, <2>1, <2>2, <2>3
<1>4. CASE TcpConnect(a) \/ TcpFails(a)
  BY <1>4 DEF TcpConnect, TcpFails
<1>5. CASE TlsMisconfigured(a) \/ TlsHandshake(a) \/ TlsFails(a)
  <2>1. CASE TlsMisconfigured(a) BY <2>1 DEF TlsMisconfigured
  <2>2. CASE TlsHandshake(a) BY <2>2 DEF TlsHandshake
  <2>3. CASE TlsFails(a) BY <2>3 DEF TlsFails
  <2> QED BY <1>5, <2>1, <2>2, <2>3
<1>6. CASE Fetched(a)
  BY <1>6 DEF Fetched, AttemptInv
<1>7. CASE FetchFails(a) \/ MalformedRequest(a) \/ Upgrade(a) \/ Upgraded(a)
  BY <1>7 DEF FetchFails, MalformedRequest, Upgrade, Upgraded
<1>8. CASE Write(a)
  BY <1>8 DEF Write, AttemptInv
<1>9. CASE \E status \in {0, 401, 403, 404} : UpgradeFails(a, status)
  BY <1>9 DEF UpgradeFails, map_upgrade_error
<1>10. CASE Answered(a)
  <2>1. in_flight[a] = 1
    BY <1>10 DEF Answered, AttemptInv
  <2> QED BY <1>10, <2>1 DEF Answered
<1>11. CASE HandOver(a) \/ ConnectRejected(a) \/ UnexpectedAnswer(a)
  BY <1>11 DEF HandOver, ConnectRejected, UnexpectedAnswer
<1>12. CASE Connected(a) \/ Drained(a) \/ SendFails(a) \/ Aborted(a)
  BY <1>12 DEF Connected, Drained, SendFails, Aborted
<1> QED BY <1>2, <1>3, <1>4, <1>5, <1>6, <1>7, <1>8, <1>9, <1>10, <1>11, <1>12 DEF Own, Proceed

(* Every step keeps the invariant.                                         *)
LEMMA NextConnect == ConnectInv /\ [Next]_vars => ConnectInv'
<1> SUFFICES ASSUME ConnectInv, [Next]_vars PROVE ConnectInv'
  OBVIOUS
<1>1. CASE Around
  BY <1>1, AroundConnect
<1>2. ASSUME NEW a \in Attempts, Own(a) PROVE ConnectInv'
  <2>1. TypeOK'
    BY <1>2, OwnTypes
  <2>2. ASSUME NEW b \in Attempts PROVE AttemptInv(b)'
    <3>1. CASE b = a
      BY <1>2, <3>1, OwnAttempt
    <3>2. CASE b # a
      <4>1. SameAttempt(b) /\ AttemptInv(b)
        BY <1>2, <3>2, OwnFrame DEF ConnectInv
      <4> QED BY <4>1, SameAttemptKeeps
    <3> QED BY <3>1, <3>2
  <2> QED BY <2>1, <2>2 DEF ConnectInv
<1>3. CASE UNCHANGED vars
  <2>1. ASSUME NEW a \in Attempts PROVE AttemptInv(a)'
    <3>1. SameAttempt(a) /\ AttemptInv(a)
      BY <1>3 DEF vars, client, attempt, SameAttempt, ConnectInv
    <3> QED BY <3>1, SameAttemptKeeps
  <2>2. TypeOK'
    BY <1>3 DEF vars, client, attempt, ConnectInv, TypeOK
  <2> QED BY <2>1, <2>2 DEF ConnectInv
<1> QED BY <1>1, <1>2, <1>3 DEF Next, Around, Own

(* The inductive invariant holds throughout.                               *)
LEMMA ConnectInvariant == Spec => []ConnectInv
<1>1. Init => ConnectInv
  BY InitConnect
<1>2. ConnectInv /\ [Next]_vars => ConnectInv'
  BY NextConnect
<1> QED BY <1>1, <1>2, PTL DEF Spec
-----------------------------------------------------------------------------
(* The settings, the certificates, the stages and the counters of Connect  *)
(* have their types; the counter of a dispatcher in particular never       *)
(* leaves 0 and 1, for any number of attempts.                             *)
THEOREM ConnectTypes == Spec => []TypeOK
<1>1. ConnectInv => TypeOK
  BY DEF ConnectInv
<1> QED BY <1>1, ConnectInvariant, PTL

(* What the verifier of a build lets through is held by the daemon, unless *)
(* the caller asked for no verification or pinned somebody else's          *)
(* certificate: in the Verified mode a public root has issued it, with Ca  *)
(* it is the pin itself, or the pin or a public root has issued it, and it *)
(* has the daemon's name.                                                  *)
LEMMA VerifiedIsDaemon ==
  ASSUME NEW a \in Attempts, Checked(a), cfg[a].tls.mode # "Insecure",
         ~\E c \in Certs : c.id = cfg[a].tls.der /\ c.holder = "other"
  PROVE  peer[a].holder = "daemon"
<1> DEFINE c == peer[a]
           tls == cfg[a].tls
           name == cfg[a].name
<1>1. c \in Certs /\ tls \in Tls /\ name \in Values["host"] /\ c.holder \in {"daemon", "other"}
  BY ConnectAssumption DEF Checked, Settings
<1>2. CASE c.id = tls.der
  BY <1>1, <1>2
<1>3. ASSUME NEW roots, verify(c, roots, name), roots \subseteq PublicRoots \cup {tls.der},
             tls.mode = "Verified" => roots = PublicRoots
      PROVE  c.holder = "daemon"
  <2>1. c.issuer \in roots /\ (name \in c.san \/ (c.san = {} /\ name = c.cn))
    BY <1>3 DEF verify
  <2>2. CASE c.issuer \in PublicRoots
    BY <1>1, <2>1, <2>2, IssuersAssumption
  <2>3. CASE c.issuer = tls.der /\ tls.mode = "Ca"
    <3>1. tls.der \in Pins
      BY <1>1, <2>3 DEF Tls, Pins, Verified, Insecure, Ca
    <3>2. ~\E d \in Certs : d.id = c.issuer /\ d.holder = "other"
      BY <2>3
    <3> QED BY <1>1, <2>1, <2>3, <3>1, <3>2, IssuersAssumption
  <2>4. tls.mode \in {"Verified", "Ca"}
    BY <1>1, ConnectAssumption DEF Tls, Verified, Insecure, Ca
  <2> QED BY <1>3, <2>1, <2>2, <2>3, <2>4
<1>4. \/ tls.mode = "Verified" /\ verify(c, PublicRoots, name)
      \/ tls.mode = "Ca" /\ (c.id = tls.der \/ verify(c, PublicRoots \cup {tls.der}, name))
  BY DEF Checked, verify_server_cert, PinOrWebpki
<1>5. CASE tls.mode = "Verified" /\ verify(c, PublicRoots, name)
  <2>1. PublicRoots \subseteq PublicRoots \cup {tls.der}
    OBVIOUS
  <2> QED BY <1>3, <1>5, <2>1
<1>6. CASE tls.mode = "Ca" /\ verify(c, PublicRoots \cup {tls.der}, name)
  <2>1. PublicRoots \cup {tls.der} \subseteq PublicRoots \cup {tls.der}
    OBVIOUS
  <2>2. tls.mode # "Verified"
    BY <1>6
  <2> QED BY <1>3, <1>6, <2>1, <2>2
<1> QED BY <1>2, <1>4, <1>5, <1>6

(* The password is written to nobody but the daemon, for any settings, any *)
(* certificates and any number of changes of who listens, whichever of the *)
(* two TLS backends was built in.                                          *)
THEOREM PasswordKept == Spec => []PasswordOnlyToDaemon
<1>1. ConnectInv => PasswordOnlyToDaemon
  BY VerifiedIsDaemon DEF ConnectInv, TypeOK, AttemptInv, PasswordOnlyToDaemon
<1> QED BY <1>1, ConnectInvariant, PTL

(* Every Job that connect returns starts with its counter at zero, however *)
(* the task, the daemon, a loss of the connection and the future of        *)
(* connect interleave while the request of the handshake is under way.     *)
THEOREM FreshJobIdle == Spec => []FreshCounterZero
<1>1. ConnectInv => FreshCounterZero
  BY DEF ConnectInv, AttemptInv, FreshCounterZero
<1> QED BY <1>1, ConnectInvariant, PTL

(* With rustls a peer whose own certificate is pinned is never turned away *)
(* by the handshake.                                                       *)
THEOREM PinIsAccepted == Spec => PinnedPeerAccepted
<1> DEFINE Turned(a) == /\ backend = "rustls" /\ at[a] = "tcp" /\ outcome'[a] = "Transport"
                        /\ cfg[a].tls = Ca(fetched) /\ peer[a].id = fetched
           Accepted == \A a \in Attempts : Turned(a) => session[a] = "closed"
<1>1. ConnectInv /\ [Next]_vars => [Accepted]_vars
  <2> SUFFICES ASSUME ConnectInv, Next, NEW a \in Attempts, Turned(a)
               PROVE  session[a] = "closed"
    OBVIOUS
  <2>0. outcome[a] = "none" /\ verify_server_cert(a, peer[a])
    <3>1. AttemptInv(a)
      BY DEF ConnectInv
    <3>2. cfg[a].tls.mode = "Ca" /\ cfg[a].tls.der = fetched
      BY DEF Ca
    <3> QED BY <3>1, <3>2 DEF AttemptInv, verify_server_cert, PinOrWebpki
  <2>1. CASE Around
    BY <2>0, <2>1 DEF Around, Set, Pin, Build, Load, Move, attempt
  <2>2. CASE \E b \in Attempts \ {a} : Own(b)
    BY <2>0, <2>2, OwnFrame DEF SameAttempt
  <2>3. CASE TlsFails(a)
    BY <2>0, <2>3 DEF TlsFails
  <2>4. CASE Own(a) /\ ~TlsFails(a)
    <3>0. outcome \in [Attempts -> Outcomes]
      BY DEF ConnectInv, TypeOK
    <3>1. outcome'[a] \in {"none", "Internal", "cancelled"}
      BY <2>0, <2>4, <3>0
         DEF Own, Proceed, Daemon, StartConnect, ConnLost, Cancel, DropJob, Forget, StartFetch,
             TcpConnect, TcpFails, TlsMisconfigured, TlsHandshake, Fetched, FetchFails,
             MalformedRequest, Upgrade, Upgraded, UpgradeFails, Write, Answered, HandOver,
             Connected, ConnectRejected, UnexpectedAnswer, Drained, SendFails, Aborted,
             DaemonConnects, DaemonRejects, DaemonConfuses, Ends, attempt
    <3> QED BY <3>1
  <2> QED BY <2>1, <2>2, <2>3, <2>4 DEF Next, Around, Own
<1> QED BY <1>1, ConnectInvariant, PTL DEF Spec, PinnedPeerAccepted
-----------------------------------------------------------------------------
(* Who answers for a connection.                                           *)

(* A socket that is open towards the daemon has one owner: the future of   *)
(* connect or fetch_certificate; then the dispatcher task, whose           *)
(* Dispatcher is that future's or the Job's; or else the task has been     *)
(* told to stop and closes it at its next await.                           *)
SessionOwned(a) ==
  session[a] \in {"tcp", "open"} =>
    \/ at[a] \in {"tcp", "tls", "upgrading"} /\ task[a] = "none"
    \/ at[a] \in {"queued", "sent", "uncounted", "answered"} /\ task[a] = "running"
    \/ at[a] = "ended" /\ outcome[a] = "Ok" /\ cfg[a].op = "connect" /\ task[a] = "running"
    \/ at[a] = "ended" /\ task[a] = "aborted"

(* The task is spawned after the upgrade; it is not aborted while the      *)
(* future waits for its answer, and goes only with the socket.             *)
SessionInv(a) ==
  /\ at[a] \in {"idle", "dialing"} => session[a] = "none"
  /\ at[a] \in {"tcp", "tls", "upgrading"} => session[a] # "open"
  /\ at[a] \in {"idle", "dialing", "tcp", "tls", "upgrading"} => task[a] = "none"
  /\ at[a] \in {"queued", "sent", "uncounted", "answered"} => task[a] \in {"running", "gone"}
  /\ task[a] = "gone" => session[a] = "closed"
  /\ at[a] \in Behind => cfg[a].op = "connect"
  /\ SessionOwned(a)
(* An attempt that ends, however it does, closes its socket or tells the   *)
(* task to.                                                                *)
LEMMA EndsSession ==
  ASSUME NEW a \in Attempts, TypeOK, SessionInv(a), at[a] \notin {"idle", "ended"},
         cfg' = cfg, NEW result, Ends(a, result)
  PROVE  SessionInv(a)'
<1>1. /\ at'[a] = "ended" /\ cfg'[a] = cfg[a] /\ at[a] \in Stages
      /\ task'[a] = IF task[a] = "running" THEN "aborted" ELSE task[a]
      /\ session'[a] = IF session[a] = "tcp" /\ task[a] = "none" THEN "closed" ELSE session[a]
  BY DEF Ends, Goes, Drops, TypeOK
<1>2. CASE task[a] = "none"
  BY <1>1, <1>2 DEF SessionInv, SessionOwned, Stages, Behind
<1>3. CASE task[a] \in {"running", "gone"}
  BY <1>1, <1>3 DEF SessionInv, SessionOwned, Stages, Behind
<1> QED BY <1>1, <1>2, <1>3 DEF SessionInv, Stages

(* A step of an attempt keeps its socket owned.                            *)
LEMMA OwnSession ==
  ASSUME NEW a \in Attempts, Own(a), ConnectInv, SessionInv(a)
  PROVE  SessionInv(a)'
<1>0. /\ TypeOK /\ AttemptInv(a) /\ at[a] \in Stages
      /\ task[a] \in {"none", "running", "aborted", "gone"}
      /\ session[a] \in {"none", "tcp", "open", "closed"}
  BY DEF ConnectInv, TypeOK
<1> USE DEF Behind, Stages
<1>1. CASE StartConnect(a) \/ \E name \in Values["host"], address \in Addresses : StartFetch(a, name, address)
  <2>1. at[a] = "idle" /\ at'[a] = "dialing" /\ task' = task /\ session' = session
    BY <1>0, <1>1 DEF StartConnect, StartFetch, Goes, TypeOK
  <2> QED BY <2>1 DEF SessionInv, SessionOwned
<1>2. CASE TcpConnect(a)
  <2>1. at[a] = "dialing" /\ at'[a] = "tcp" /\ task' = task /\ session'[a] = "tcp"
    BY <1>0, <1>2 DEF TcpConnect, Goes, TypeOK
  <2> QED BY <2>1 DEF SessionInv, SessionOwned
<1>3. CASE TlsHandshake(a)
  <2>1. at[a] = "tcp" /\ at'[a] = "tls" /\ task' = task /\ session' = session
    BY <1>0, <1>3 DEF TlsHandshake, Goes, TypeOK
  <2> QED BY <2>1 DEF SessionInv, SessionOwned
<1>4. CASE Upgrade(a)
  <2>1. /\ at[a] = "tls" /\ at'[a] = "upgrading" /\ task' = task /\ session' = session
        /\ cfg[a].op = "connect" /\ cfg' = cfg
    BY <1>0, <1>4 DEF Upgrade, Goes, TypeOK
  <2> QED BY <2>1 DEF SessionInv, SessionOwned
<1>5. CASE Upgraded(a)
  <2>1. /\ at[a] = "upgrading" /\ at'[a] = "queued" /\ task'[a] = "running"
        /\ session' = session /\ cfg' = cfg
    BY <1>0, <1>5 DEF Upgraded, Goes, TypeOK
  <2> QED BY <2>1 DEF SessionInv, SessionOwned
<1>6. CASE Write(a) \/ Answered(a) \/ HandOver(a)
  <2>1. /\ at[a] \in {"queued", "sent", "uncounted"} /\ at'[a] \in {"sent", "uncounted", "answered"}
        /\ task' = task /\ session' = session /\ cfg' = cfg
    BY <1>0, <1>6 DEF Write, Answered, HandOver, Goes, TypeOK
  <2> QED BY <2>1 DEF SessionInv, SessionOwned
<1>7. CASE Connected(a)
  <2>1. /\ at[a] = "answered" /\ at'[a] = "ended" /\ outcome'[a] = "Ok"
        /\ task' = task /\ session' = session /\ cfg' = cfg
    BY <1>0, <1>7 DEF Connected, Goes, TypeOK
  <2> QED BY <2>1 DEF SessionInv, SessionOwned
<1>8. CASE \/ TcpFails(a) \/ TlsMisconfigured(a) \/ TlsFails(a) \/ Fetched(a) \/ FetchFails(a)
           \/ MalformedRequest(a)
           \/ \E status \in {0, 401, 403, 404} : UpgradeFails(a, status)
           \/ ConnectRejected(a) \/ UnexpectedAnswer(a) \/ SendFails(a) \/ Cancel(a)
  <2>1. cfg' = cfg /\ at[a] \notin {"idle", "ended"} /\ \E result : Ends(a, result)
    BY <1>8 DEF TcpFails, TlsMisconfigured, TlsFails, Fetched, FetchFails, MalformedRequest, UpgradeFails,
                ConnectRejected, UnexpectedAnswer, SendFails, Cancel
  <2> QED BY <1>0, <2>1, EndsSession
<1>9. CASE DropJob(a)
  <2>1. /\ at'[a] = at[a] /\ cfg' = cfg /\ at[a] = "ended"
        /\ task'[a] = IF task[a] = "running" THEN "aborted" ELSE task[a]
        /\ session'[a] = IF session[a] = "tcp" /\ task[a] = "none" THEN "closed" ELSE session[a]
    BY <1>0, <1>9 DEF DropJob, Drops, TypeOK, AttemptInv
  <2> QED BY <1>0, <2>1 DEF SessionInv, SessionOwned
<1>10. CASE Drained(a) \/ Aborted(a)
  <2>1. /\ at'[a] = at[a] /\ cfg' = cfg /\ task[a] # "none" /\ task'[a] = "gone"
        /\ session'[a] = "closed"
    BY <1>0, <1>10 DEF Drained, Aborted, TypeOK, attempt
  <2> QED BY <1>0, <2>1 DEF SessionInv, SessionOwned
<1>11. CASE Daemon(a) \/ ConnLost(a)
  <2>1. /\ at' = at /\ cfg' = cfg /\ task' = task /\ outcome' = outcome
        /\ \/ session' = session
           \/ session'[a] = "closed" /\ session[a] # "none"
           \/ at[a] = "sent" /\ session[a] = "tcp" /\ session'[a] = "open"
    BY <1>0, <1>11 DEF Daemon, DaemonConnects, DaemonRejects, DaemonConfuses, ConnLost, TypeOK,
                       attempt
  <2> QED BY <1>0, <2>1 DEF SessionInv, SessionOwned
<1>12. CASE Forget(a)
  <2>1. at'[a] = "idle" /\ task'[a] = "none" /\ session'[a] = "none"
    BY <1>0, <1>12 DEF Forget, TypeOK
  <2> QED BY <2>1 DEF SessionInv, SessionOwned
<1> QED BY <1>1, <1>2, <1>3, <1>4, <1>5, <1>6, <1>7, <1>8, <1>9, <1>10, <1>11, <1>12
        DEF Own, Proceed

(* It leaves the sockets of other attempts alone.                          *)
LEMMA OwnSocket ==
  ASSUME NEW a \in Attempts, Own(a), ConnectInv, NEW b \in Attempts \ {a}
  PROVE  session'[b] = session[b]
<1>1. session \in [Attempts -> {"none", "tcp", "open", "closed"}]
  BY DEF ConnectInv, TypeOK
<1>2. session' = session \/ \E s : session' = [session EXCEPT ![a] = s]
  BY DEF Own, Proceed, Daemon, StartConnect, StartFetch, TcpConnect, TcpFails, TlsMisconfigured,
         TlsHandshake, TlsFails, Fetched, FetchFails, MalformedRequest, Upgrade, Upgraded,
         UpgradeFails, Write, Answered, HandOver, Connected, ConnectRejected, UnexpectedAnswer,
         Drained, SendFails, Aborted, DaemonConnects, DaemonRejects, DaemonConfuses, ConnLost, Cancel, DropJob, Forget, Ends, Drops
<1> QED BY <1>1, <1>2

(* No socket to the daemon is left without somebody who closes it, at      *)
(* whichever await the attempt was cancelled or failed, for any number of  *)
(* attempts.  NoSessionLeft rests on this and on tasks being polled.       *)
THEOREM SessionsOwned == Spec => [](\A a \in Attempts : SessionOwned(a))
<1> DEFINE Inv == \A a \in Attempts : SessionInv(a)
<1>1. Init => Inv
  BY DEF Init, SessionInv, SessionOwned, Behind
<1>2. ConnectInv /\ Inv /\ [Next]_vars => Inv'
  <2> SUFFICES ASSUME ConnectInv, Inv, [Next]_vars, NEW b \in Attempts PROVE SessionInv(b)'
    OBVIOUS
  <2>1. ASSUME SameAttempt(b), session'[b] = session[b] PROVE SessionInv(b)'
    BY <2>1 DEF SameAttempt, SessionInv, SessionOwned
  <2>2. CASE Around
    <3>1. SameAttempt(b) /\ session' = session
      BY <2>2 DEF Around, Set, Pin, Build, Load, Move, SameAttempt, client, attempt
    <3> QED BY <2>1, <3>1
  <2>3. ASSUME NEW a \in Attempts, Own(a) PROVE SessionInv(b)'
    <3>1. CASE b = a
      BY <2>3, <3>1, OwnSession
    <3>2. CASE b # a
      <4>1. SameAttempt(b)
        BY <2>3, <3>2, OwnFrame
      <4>2. session'[b] = session[b]
        BY <2>3, <3>2, OwnSocket
      <4> QED BY <2>1, <4>1, <4>2
    <3> QED BY <3>1, <3>2
  <2>4. CASE UNCHANGED vars
    <3>1. SameAttempt(b) /\ session' = session
      BY <2>4 DEF vars, client, attempt, SameAttempt
    <3> QED BY <2>1, <3>1
  <2> QED BY <2>2, <2>3, <2>4 DEF Next, Around, Own
<1>3. Inv => \A a \in Attempts : SessionOwned(a)
  BY DEF SessionInv
<1> QED BY <1>1, <1>2, <1>3, ConnectInvariant, PTL DEF Spec
=============================================================================
