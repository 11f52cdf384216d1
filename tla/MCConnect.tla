----------------------------- MODULE MCConnect ------------------------------
(* One place for attempts; a daemon that is known by a public certificate, *)
(* by one of a private CA, or by a self-signed one with a common name      *)
(* only; and others with a public certificate for another name and a       *)
(* self-signed one for the daemon's.  "tunnel" is a TCP hop with a name of *)
(* its own.                                                                *)
EXTENDS Connect

MCCerts ==
  {[id |-> "pub",   issuer |-> "webpki", san |-> {"ibmi"},   cn |-> "ibmi", holder |-> "daemon"],
   [id |-> "priv",  issuer |-> "corp",   san |-> {"ibmi"},   cn |-> "ibmi", holder |-> "daemon"],
   [id |-> "self",  issuer |-> "self",   san |-> {},         cn |-> "box",  holder |-> "daemon"],
   [id |-> "hop",   issuer |-> "webpki", san |-> {"tunnel"}, cn |-> "hop",  holder |-> "other"],
   [id |-> "fake",  issuer |-> "fake",   san |-> {"ibmi"},   cn |-> "ibmi", holder |-> "other"]}

MCValues ==
  [host |-> {"ibmi", "not a name"}, connect_address |-> {"tunnel"}, port |-> {}, user |-> {"u"},
   password |-> {"p"}, tls |-> {Ca("corp"), Ca("no der"), Insecure},
   jdbc_props |-> {}, application |-> {}]
=============================================================================
