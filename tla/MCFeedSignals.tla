---- MODULE MCFeedSignals ----
\* Instances of FeedSignals: two items of one symbol, the second more urgent.
EXTENDS FeedSignals, TLC

CONSTANTS s1, i1, i2

OneSymbol == [i \in Items |-> s1]
Urgency == [i \in Items |-> IF i = i2 THEN 3 ELSE 1]

OneEach == {<<{"meme"}, "twitter">>, <<{"meme"}, "dex_whale">>, <<{"airdrop"}, "macro">>,
            <<{"listing"}, "listings">>, <<{"momentum"}, "macro">>}
====
