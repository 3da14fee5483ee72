--------------------------- MODULE MCCreditAlerts ---------------------------
(***************************************************************************)
(* An instance of CreditAlerts for TLC: a plan of four credits that ends   *)
(* on the third day, alerts at 50 and 100 percent of usage, one day before *)
(* the end and on it.  At 75 percent a worker still claims 50.             *)
(***************************************************************************)
EXTENDS CreditAlerts
=============================================================================
