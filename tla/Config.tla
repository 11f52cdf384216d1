------------------------------- MODULE Config -------------------------------
(***************************************************************************)
(* The settings of a connection: DaemonServer, its builder and its         *)
(* serialized form.  A name, a user, a password is an opaque value; None   *)
(* is an Option that is not set.                                           *)
(***************************************************************************)
EXTENDS Naturals

CONSTANT None

ASSUME NoneAssumption == None \notin {"host", "user", "password"}

DEFAULT_PORT == 8076
DEFAULT_APPLICATION == "mapepire-rs"

Verified == [mode |-> "Verified", der |-> None]
Ca(der)  == [mode |-> "Ca", der |-> der]
Insecure == [mode |-> "Insecure", der |-> None]

unwrap_or(option, default) == IF option = None THEN default ELSE option

(* DaemonServerBuilder: every field an Option.                             *)
builder ==
  [host |-> None, connect_address |-> None, port |-> None, user |-> None, password |-> None,
   tls |-> None, jdbc_props |-> None, application |-> None]

(* Each setter replaces one field by Some.                                 *)
set(b, field, value) == [b EXCEPT ![field] = value]

(* MissingField names the first of the required fields that is not set.    *)
MissingField(b) ==
  IF b.host = None THEN "host"
  ELSE IF b.user = None THEN "user"
  ELSE IF b.password = None THEN "password" ELSE None

(* DaemonServer, as DaemonServerBuilder::build makes it of a builder in    *)
(* which nothing is missing.                                               *)
build(b) ==
  [host            |-> b.host,
   connect_address |-> b.connect_address,
   port            |-> unwrap_or(b.port, DEFAULT_PORT),
   user            |-> b.user,
   password        |-> b.password,
   tls             |-> unwrap_or(b.tls, Verified),
   jdbc_props      |-> b.jdbc_props,
   application     |-> unwrap_or(b.application, DEFAULT_APPLICATION)]

(* A DaemonServerSpec names its TLS mode and holds a certificate in        *)
(* base64; NotBase64 stands for text that is not.                          *)
NotBase64 == "not base64"
InvalidCaBase64(s) == s.tls.mode = "Ca" /\ s.tls.der = NotBase64

(* DaemonServerSpec::try_into_server, for a spec whose base64 decodes.     *)
try_into_server(s) ==
  [host            |-> s.host,
   connect_address |-> s.connect_address,
   port            |-> unwrap_or(s.port, DEFAULT_PORT),
   user            |-> s.user,
   password        |-> s.password,
   tls             |-> s.tls,
   jdbc_props      |-> s.jdbc_props,
   application     |-> unwrap_or(s.application, DEFAULT_APPLICATION)]

(* The spec file that says what a builder holds: serde fills in the        *)
(* defaults of absent fields, and requires host, user and password.        *)
spec_of(b) == [b EXCEPT !.tls = unwrap_or(@, Verified)]

(* DaemonServer::tcp_target.                                               *)
tcp_target(server) == <<unwrap_or(server.connect_address, server.host), server.port>>
=============================================================================
