--------------------------- MODULE MCTransactions ---------------------------
(* Instances of Transactions for TLC.                                      *)
EXTENDS Transactions

CONSTANTS h1, h2, t1, t2

(* Keywords in either case, a partial rollback and other work.             *)
MCSql == {<<"begin">>, <<"COMMIT">>, <<"ROLLBACK", "TO", "SAVEPOINT">>, <<"UPDATE">>}

MCPlain == {<<"BEGIN">>, <<"UPDATE">>}
=============================================================================
