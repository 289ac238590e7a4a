-------------------------------- MODULE MCBooks --------------------------------
(* A buy and a sale; the reconciliation of a startup, one more, a crash.     *)
EXTENDS Books

CONSTANTS f1, f2, t1

OneBuy == {f1}
=============================================================================
