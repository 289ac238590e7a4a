------------------------------- MODULE MCEventBus -------------------------------
(* Instances of EventBus for TLC.                                            *)
EXTENDS EventBus
=============================================================================
