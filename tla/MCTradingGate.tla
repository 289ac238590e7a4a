----------------------------- MODULE MCTradingGate -----------------------------
(* TradingGate on a small instance: one day boundary, one restart, losses of  *)
(* one and two units against a limit of one.                                  *)
EXTENDS TradingGate
================================================================================
