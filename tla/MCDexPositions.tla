---- MODULE MCDexPositions ----
\* An instance of DexPositions with a token for each of two candidates, and a
\* ladder of two targets.  (The instance with one token is a side of MCProcess.)
EXTENDS DexPositions, Sequences, TLC

CONSTANTS c1, c2, t1, t2

TwoTokens  == (c1 :> t1) @@ (c2 :> t2)
MCPortions == <<2, 1>>
MCTriggers == <<120, 140>>
====
