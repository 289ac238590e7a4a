------------------------------- MODULE Universe -------------------------------
(***************************************************************************)
(* The trading universe that follows the market: the thread of the symbol   *)
(* scanner chooses coins and keeps its choice in a file, tells the engine    *)
(* by the event universe.update, and the engine renews the allowlist of the  *)
(* strategies' rails and the subscriptions of the market stream.             *)
(*                                                                         *)
(* The scanner runs in a thread, the rest on the event loop.  An action ends *)
(* at an await, at a blocking call of the thread, and at each change the     *)
(* other side can see.  Prices and scores are abstracted: any coins that     *)
(* are not resting may rank.  A resting time is what is left of it: the code *)
(* stores the moment of the choice, in memory and in the file alike.         *)
(***************************************************************************)
EXTENDS Naturals, Sequences, FiniteSets

CONSTANTS Coins,       \* the coins of the exchange
          Configured,  \* TRADE_SYMBOLS: universe and allowlist of a fresh start
          TopN,        \* SYMBOL_SCANNER_TOP_N
          Rest,        \* ticks a chosen coin rests before it may rank again
          MaxNews,     \* bound: updates waiting on the bus
          MaxStarts    \* bound: the process starts at most MaxStarts times

ASSUME UniverseAssumption ==
    /\ Configured \subseteq Coins /\ Configured # {}
    /\ TopN \in Nat \ {0} /\ Rest \in Nat /\ MaxNews \in Nat \ {0}
    /\ MaxStarts \in Nat \ {0}

VARIABLES
    chosen,   \* _selected
    rest,     \* what is left of each coin's rest, by _last_selected
    saved,    \* the state file
    scan,     \* the scan under way: its place, the coins that may rank, its choice, its age
    news,     \* universe.update events waiting on the bus
    allow,    \* RAILS.cfg.trade_symbols of the strategies' rails
    want,     \* _symbols of the market stream
    link,     \* the stream's connection and the coins it was opened for
    closing,  \* a task is about to close the open connection
    missed,   \* the choice has not reached the bus since this process started
    starts,   \* how often the process has started
    due       \* what is left of the rests the file has been told of

universeVars == <<chosen, rest, saved, scan, news, allow, want, link, closing, missed, starts, due>>

Choices == {S \in SUBSET Coins : Cardinality(S) <= TopN}
Rests   == [Coins -> 0..Rest]
Rested  == [c \in Coins |-> 0]
Down    == [up |-> "down", coins |-> {}]
NoScan  == [at |-> "idle", fit |-> {}, top |-> {}, age |-> 0]
NoState == [whole |-> FALSE, chosen |-> {}, rest |-> Rested]

UniverseTypeOK ==
    /\ chosen \in (SUBSET Coins) \ {{}} /\ rest \in Rests
    /\ saved \in [whole : BOOLEAN, chosen : SUBSET Coins, rest : Rests]
    /\ scan \in [at : {"idle", "fetch", "store", "save"}, fit : SUBSET Coins,
                 top : Choices, age : 0..Rest]
    /\ news \in Seq(Choices \ {{}}) /\ Len(news) <= MaxNews
    /\ allow \in (SUBSET Coins) \ {{}} /\ want \in (SUBSET Coins) \ {{}}
    /\ link \in [up : {"down", "opening", "open"}, coins : SUBSET Coins]
    /\ closing \in BOOLEAN /\ missed \in BOOLEAN /\ due \in Rests
    /\ starts \in 1..MaxStarts

UniverseInit ==
    /\ chosen = Configured /\ rest = Rested /\ saved = NoState
    /\ scan = NoScan /\ news = <<>>
    /\ allow = Configured /\ want = Configured /\ link = Down /\ closing = FALSE
    /\ missed = TRUE /\ due = Rested /\ starts = 1

-----------------------------------------------------------------------------
(* The scanner's thread.                                                    *)

\* A scan begins: which coins rest is judged by its first moment.
ScanStart ==
    /\ scan.at = "idle"
    /\ scan' = [NoScan EXCEPT !.at = "fetch", !.fit = {c \in Coins : rest[c] = 0}]
    /\ UNCHANGED <<chosen, rest, saved, news, allow, want, link, closing, missed, starts, due>>

\* The list of coins cannot be fetched: the handler of the failure fails
\* itself, and the loop drops the scan.
ScanFails ==
    /\ scan.at = "fetch"
    /\ scan' = NoScan
    /\ UNCHANGED <<chosen, rest, saved, news, allow, want, link, closing, missed, starts, due>>

\* The scan has its ranking and publishes the best, unless there is none.  A
\* full queue or a bus that is down loses the event.
ScanFires ==
    /\ scan.at = "fetch"
    /\ \E T \in Choices :
         /\ T \subseteq scan.fit
         /\ scan' = [scan EXCEPT !.at = "store", !.top = T]
         /\ \/ T = {} /\ UNCHANGED <<news, missed>>
            \/ T # {} /\ Len(news) < MaxNews /\ news' = Append(news, T) /\ missed' = FALSE
            \/ T # {} /\ missed' = TRUE /\ UNCHANGED news
    /\ UNCHANGED <<chosen, rest, saved, allow, want, link, closing, starts, due>>

\* Under the lock: the choice, or the last one when nothing ranked.
ScanStore ==
    /\ scan.at = "store"
    /\ chosen' = IF scan.top = {} THEN chosen ELSE scan.top
    /\ rest' = [c \in Coins |-> IF c \in scan.top THEN Rest - scan.age ELSE rest[c]]
    /\ scan' = [scan EXCEPT !.at = "save"]
    /\ UNCHANGED <<saved, news, allow, want, link, closing, missed, starts, due>>

\* The file is written; a failure is ignored.
ScanSave ==
    /\ scan.at = "save"
    /\ scan' = NoScan
    /\ \/ saved' = [whole |-> TRUE, chosen |-> chosen, rest |-> rest] /\ due' = rest
       \/ UNCHANGED <<saved, due>>
    /\ UNCHANGED <<chosen, rest, news, allow, want, link, closing, missed, starts>>

Lower(r) == [c \in Coins |-> IF r[c] > 0 THEN r[c] - 1 ELSE 0]

UniverseTick ==
    /\ rest' = Lower(rest) /\ due' = Lower(due)
    /\ saved' = [saved EXCEPT !.rest = Lower(@)]
    /\ scan' = [scan EXCEPT !.age = IF scan.at \in {"fetch", "store"} /\ @ < Rest
                                    THEN @ + 1 ELSE @]
    /\ UNCHANGED <<chosen, news, allow, want, link, closing, missed, starts>>

-----------------------------------------------------------------------------
(* The market stream.                                                       *)

\* BinanceMarketStream.subscribe: a new list closes the open connection, if
\* the stream knows one.
Subscribe(S) ==
    IF S = want
    THEN UNCHANGED <<want, closing>>
    ELSE want' = S /\ closing' = (closing \/ link.up = "open")

\* The address is built from the list, then the connection is awaited.
StreamOpens ==
    /\ link.up = "down"
    /\ link' = [up |-> "opening", coins |-> want]
    /\ UNCHANGED <<chosen, rest, saved, scan, news, allow, want, closing, missed, starts, due>>

StreamConnects ==
    /\ link.up = "opening"
    /\ link' \in {[link EXCEPT !.up = "open"], Down}
    /\ UNCHANGED <<chosen, rest, saved, scan, news, allow, want, closing, missed, starts, due>>

\* The task of subscribe has closed it.
StreamCloses ==
    /\ link.up = "open" /\ closing
    /\ link' = Down /\ closing' = FALSE
    /\ UNCHANGED <<chosen, rest, saved, scan, news, allow, want, missed, starts, due>>

\* The connection breaks.
StreamBreaks ==
    /\ link.up = "open"
    /\ link' = Down /\ closing' = FALSE
    /\ UNCHANGED <<chosen, rest, saved, scan, news, allow, want, missed, starts, due>>

-----------------------------------------------------------------------------
(* The engine.                                                              *)

\* Wrong variants, which the properties must tell from the code: the handler
\* adds the new coins to the old list; the watchdog renews the allowlist's
\* coins; a restart forgets when the coins were chosen.
AllowedBesides(S) == allow \cup S
WatchedAllowed    == allow
RestoredAfresh    == IF saved.whole THEN [saved EXCEPT !.rest = Rested]
                     ELSE [whole |-> FALSE, chosen |-> Configured, rest |-> Rested]

Allowed(S) == S

\* _handle_universe_update
UniverseUpdate ==
    /\ news # <<>>
    /\ news' = Tail(news)
    /\ Subscribe(Head(news))
    /\ allow' = Allowed(Head(news))
    /\ UNCHANGED <<chosen, rest, saved, scan, link, missed, starts, due>>

Watched == chosen

\* _scanner_watchdog, every 30 seconds
ScannerWatchdog ==
    /\ Subscribe(Watched)
    /\ UNCHANGED <<chosen, rest, saved, scan, news, allow, link, missed, starts, due>>

\* What a new scanner reads from the file.
Restored == IF saved.whole THEN saved
            ELSE [whole |-> FALSE, chosen |-> Configured, rest |-> Rested]

\* The process ends and starts again; a write of the file may be cut short.
EngineRestart ==
    /\ starts < MaxStarts /\ starts' = starts + 1
    /\ \/ UNCHANGED <<saved, due>> /\ chosen' = Restored.chosen /\ rest' = Restored.rest
       \/ scan.at = "save" /\ saved' = NoState /\ due' = Rested
          /\ chosen' = Configured /\ rest' = Rested
    /\ scan' = NoScan /\ news' = <<>>
    /\ allow' = Configured /\ want' = Configured /\ link' = Down /\ closing' = FALSE
    /\ missed' = TRUE

Scanning   == ScanStart \/ ScanFails \/ ScanFires \/ ScanStore \/ ScanSave
Streaming  == StreamOpens \/ StreamConnects \/ StreamCloses
UniverseNext == \/ Scanning \/ UniverseTick \/ Streaming \/ StreamBreaks
                \/ UniverseUpdate \/ ScannerWatchdog \/ EngineRestart

\* The threads and tasks of the service go on.
UniverseFairness ==
    /\ WF_universeVars(Scanning) /\ WF_universeVars(Streaming)
    /\ WF_universeVars(UniverseUpdate) /\ WF_universeVars(ScannerWatchdog)

UniverseSpec == UniverseInit /\ [][UniverseNext]_universeVars /\ UniverseFairness

-----------------------------------------------------------------------------
\* A coin whose choice has reached the file does not rank again before its
\* rest is over, also after a restart (symbol_scanner.py: _cooldown_active,
\* _persist_state, _load_state).
RestIsKept == scan.at # "idle" => \A c \in scan.fit : due[c] = 0

\* When no update is under way or lost, the strategies may trade exactly the
\* coins the scanner shows them (symbol_scanner.py publishes before it stores;
\* app.py renews the allowlist only by the event).
OrdersFollowChoice ==
    scan.at # "store" /\ news = <<>> /\ ~missed => allow = chosen

\* A choice that lasts is asked of the market stream for good, whatever became
\* of its event (app.py: _scanner_watchdog against _handle_universe_update).
ChoiceIsAsked ==
    \A S \in Choices \ {{}} : <>[](chosen = S) => <>[](want = S)

\* The universe, typed, with rests that survive and an allowlist that follows.
UniverseInv == UniverseTypeOK /\ RestIsKept /\ OrdersFollowChoice
=============================================================================
